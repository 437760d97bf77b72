SPECIFICATION MCCatalogSpec
CONSTANTS
  w1 = w1
  w2 = w2
  s1 = s1
  s2 = s2
  Firmwares = {f1, f2}
  Images = {"A", "B"}
  Extensions = {"bin", "hex"}
  MaxVersion = 2
  ProductNames = {"id", "slug"}
  Uploads <- MCUploads
  Updates <- MCUpdates
  Admins = {w1, w2}
  Starters = {s1, s2}
  FlashJobs = {j1, j2}
  CatalogFaults = 1
INVARIANT CurrentIsOffered
SYMMETRY CatalogSymmetry
CHECK_DEADLOCK FALSE

SPECIFICATION MCSpec
CONSTANTS
  w1 = w1
  w2 = w2
  s1 = s1
  s2 = s2
  Firmwares = {x1, x2}
  Images = {"A", "B"}
  Extensions = {"bin", "hex"}
  MaxVersion = 2
  ProductNames = {"id"}
  Uploads <- MCUploads
  Updates <- MCUpdates
  Admins = {w1, w2}
  Starters = {s1, s2}
  FlashJobs = {y1, y2}
  CatalogFaults = 1
  o1 = o1
  l1 = l1
  d1 = d1
  ProductIds = {"p1", "p2"}
  Slugs = {"s", "p2"}
  LinkIds = {l1, l2}
  FleetDevices = {d1, d2}
  Owners = {o1}
  Codes = {k1}
  Callers = {x1, x2}
  FleetCalls = 3
  FleetFaults = 1
  Publishers = {x1, x2}
  Editors = {y1, y2}
  MaxMinute = 130
  MaxTries = 8
  Names = {"admin", "name"}
  Admin = "admin"
  Passwords = {"x", "y"}
  Tokens = {"t"}
  Clients = {w1, w2}
  MaxStarts = 2
  FrameWriters = {w1, w2}
  Packets <- MCPackets
  MaxSends = 3
INVARIANTS
  OneCurrent
  CatalogInv
  BinariesMatch
  FlashKeepsImage
  NoRepeatedUpdate
  CreatedOnce
  LinksHaveProducts
  UnitIsLinked
  CodeClaimsOnce
  BackoffKept
  OwnerWins
  PasswordKept
  TokenHonoured
  WireRoundTrip
SYMMETRY CatalogSymmetry
CHECK_DEADLOCK FALSE

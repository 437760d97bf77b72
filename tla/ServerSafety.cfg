SPECIFICATION FairSpec
CONSTANTS
  Devices = {d1}
  Conns = {c1, c2}
  Writers = {w1}
  Faults = {"accept", "crash"}
INVARIANTS
  NoGhostClient
  ShutdownReachesAll
  DoneMeansQuiet
  ServerInv
  PresenceBacked
PROPERTY ShutdownCompletes
CHECK_DEADLOCK FALSE

SPECIFICATION Spec
CONSTANTS
  Devices = {d1}
  Conns = {c1, c2}
  Writers = {}
  Faults = {}
INVARIANT LiveSessionReachable
CHECK_DEADLOCK FALSE

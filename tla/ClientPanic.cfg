SPECIFICATION Spec
CONSTANTS
  Clients = {k1, k2}
  Requests = {r1}
  MaxID = 4
  Starts = {1}
  SeparateIds = {0}
INVARIANT NoSendOnClosed
CHECK_DEADLOCK FALSE

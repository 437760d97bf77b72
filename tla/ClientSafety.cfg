SPECIFICATION ReturnSpec
CONSTANTS
  Clients = {k1, k2}
  Requests = {r1, r2}
  MaxID = 4
  Starts = {1}
  SeparateIds = {0}
INVARIANTS
  AnswerIsOwn
  PendingInFlight
  WaiterReachable
PROPERTY RequestsReturn
CHECK_DEADLOCK FALSE

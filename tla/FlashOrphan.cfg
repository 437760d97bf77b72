SPECIFICATION Spec
CONSTANTS
  Jobs = {j1}
  Procs = {p1, p2}
  ChunkCount = 2
  MaxMissed = 3
  Requests <- MCNoRequests
  Faults = {"cancel"}
INVARIANT QuiescentJobsSettled
CHECK_DEADLOCK FALSE

SPECIFICATION Spec
CONSTANTS
  Jobs = {j1, j2}
  Procs = {p1, p2, p3}
  ChunkCount = 2
  MaxMissed = 3
  Requests <- MCNoRequests
  Faults = {}
SYMMETRY JobSymmetry
INVARIANTS
  ChunksAfterBegin
  QuiescentJobsSettled
CHECK_DEADLOCK FALSE

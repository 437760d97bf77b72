SPECIFICATION FairSpec
CONSTANTS
  Jobs = {j1}
  Procs = {p1, p2}
  ChunkCount = 3
  MaxMissed = 3
  Requests <- MCRequests
  Faults = {"cancel", "disk", "crash"}
INVARIANTS
  TransferredWasAcked
  CompletedMeansDelivered
  UpdateDoneAfterAllChunks
  FlashInv
PROPERTY FlashReturns
CHECK_DEADLOCK FALSE

\* An allocation on node 1 locks its handle in cache 0 and unlocks it in cache 1.
CONSTANTS
  nCaches = 2
  nCores = 3
  CacheNum <- TwoNodes
  Data = {1, 2, 3}
  Handle <- Handles
  cacheSize = 3
  CACHELOCK = TRUE
  Kernels <- Small
  AllocNodes <- Anywhere
  Ordered = TRUE
  Queues <- NoQueue
  MaxLocks = 1
SPECIFICATION Spec
INVARIANTS
  WriterIsAlone

\* Tasks without dependencies between them, as in the 16384 Cholesky trace.
CONSTANTS
  nCaches = 2
  nCores = 3
  CacheNum <- TwoNodes
  Data = {1, 2, 3}
  Handle <- Handles
  cacheSize = 2
  CACHELOCK = TRUE
  Kernels <- Sharing
  AllocNodes <- NodeZero
  Ordered = FALSE
  Queues <- NoQueue
  MaxLocks = 1
SPECIFICATION Spec
INVARIANTS
  LockedDataIsInUse
PROPERTY WriterLeavesOnlyUsedCopies

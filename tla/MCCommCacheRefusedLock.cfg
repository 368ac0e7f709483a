\* A task whose lock was refused still unlocks: it releases another task's data.
CONSTANTS
  nCaches = 2
  nCores = 3
  CacheNum <- TwoNodes
  Data = {1, 2, 3}
  Handle <- Handles
  cacheSize = 2
  CACHELOCK = TRUE
  Kernels <- Small
  AllocNodes <- NodeZero
  Ordered = TRUE
  Queues <- NoQueue
  MaxLocks = 1
SPECIFICATION Spec
INVARIANTS
  HeldStaysLocked

\* Scratch buffers are locked under one name and unlocked under another.
CONSTANTS
  nCaches = 2
  nCores = 3
  CacheNum <- TwoNodes
  Data = {1, 2}
  Handle <- Handles
  cacheSize = 3
  CACHELOCK = TRUE
  Kernels <- QR
  AllocNodes <- NodeZero
  Ordered = TRUE
  Queues <- NoQueue
  MaxLocks = 3
SPECIFICATION Spec
INVARIANTS
  OnlyUsedIsLocked

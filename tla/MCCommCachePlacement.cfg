\* Caches of two handles for tasks of up to three accesses: locks are refused and data
\* evicted. Handle 3 may be allocated on node 1, and stays locked in cache 0 if it is.
CONSTANTS
  nCaches = 2
  nCores = 3
  CacheNum <- TwoNodes
  Data = {1, 2, 3}
  Handle <- Handles
  cacheSize = 2
  CACHELOCK = TRUE
  Kernels <- Pipeline
  AllocNodes <- ThirdAnywhere
  Ordered = TRUE
  Queues <- SomeQueues
  MaxLocks = 1
SPECIFICATION Spec
INVARIANTS
  TypeOK
  WrittenHasOneCopy
  FlagsCountHolders
  SourcesAreRight
  ServesMostCached
PROPERTY SourceLostOnlyByEviction

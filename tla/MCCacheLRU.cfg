\* Nested locks are counted (SOMP_CACHELOCK=1); more handles than the cache holds.
CONSTANTS
  Handle = {h1, h2, h3, h4}
  cacheSize = 3
  CACHELOCK = TRUE
  MaxFlag = 2
SPECIFICATION Spec
INVARIANTS
  TypeOK
  Consistent
PROPERTY EvictsLeastRecentlyReleased

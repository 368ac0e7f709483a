\* Any options; a task may have no access at all. A task ends, and its worker stops here.
CONSTANTS
  Inputs <- AllInputs
  MaxTime = 4
SPECIFICATION FairSpec
INVARIANTS
  TypeOK
  SerialWritesFirst
  UnlockedWhenQuiet
  ElapsedTime
  NeverSlowerThanTraced
  AstrayIffLacking
PROPERTY TaskEnds
CHECK_DEADLOCK FALSE

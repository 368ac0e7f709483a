\* With the options the repository's script exports, nothing is overlapped.
CONSTANTS
  Inputs <- Exported
  MaxTime = 4
SPECIFICATION FairSpec
INVARIANTS
  OverlapShortensTasks
CHECK_DEADLOCK FALSE

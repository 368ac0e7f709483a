\* Ints of 8 bits: tiles overflow from 4 on. The program stops where it throws, and the
\* workers stop here at their first task.
CONSTANTS
  Inputs <- AllInputs
  IntWidth = 8
  LongWidth = 12
  MaxSize = 9
  MaxCaches = 4
SPECIFICATION FairSpec
INVARIANTS
  TypeOK
  EveryWorkerOnce
  SpreadIsBalanced
  TargetIsActiveCores
  RunsOnlyGoodInput
  AstrayOnlyOnBadInput
  ReceiversAreLocal
PROPERTY RunsGoodInput
CHECK_DEADLOCK FALSE

\* Arbitrary dependency lists over three records: the simulation ends exactly
\* when the dependencies can be satisfied. With a cycle or an unknown JobId the
\* scheduler sleeps for ever, so TLC must not report that as a deadlock.
CONSTANTS
  nTasks = 3
  nMachines = 2
  SCHEDCACHE = FALSE
  Traces <- AnyTraces
  usedMachines <- InOrder
SPECIFICATION FairSpec
INVARIANTS
  OnlyCompletableFinishes
PROPERTY CompletableFinishes
CHECK_DEADLOCK FALSE

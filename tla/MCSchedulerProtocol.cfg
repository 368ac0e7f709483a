\* Every acyclic graph of four records, three workers created in an order that
\* is not the order of the workerState map, and any position of the queue may
\* be served (SOMP_SCHEDCACHE), the first included.
CONSTANTS
  nTasks = 4
  nMachines = 3
  SCHEDCACHE = TRUE
  Traces <- WellFormedTraces
  usedMachines <- OutOfOrder
SPECIFICATION Spec
INVARIANTS
  TypeOK
  SchedulerIInv
  NoLostWorkerWakeup
  NoLostTaskWakeup
  WorkConserving
  CounterAccounts
  EndComesLast
PROPERTY RefinesTaskExecution

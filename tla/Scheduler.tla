------------------------------ MODULE Scheduler ------------------------------
(***************************************************************************)
(* The sOMP-Scheduler actor -- master() of main.cpp and scheduler() of     *)
(* scheduler.hpp -- and the Worker actors of worker.hpp, with the mutex,   *)
(* the two condition variables and the mailboxes they synchronise on.      *)
(*                                                                         *)
(* SimGrid runs one actor at a time and switches between actors only in    *)
(* its own calls (lock, unlock, wait, notify, put, get, join, sleep), so   *)
(* an action here is the code of one actor between two such calls, and     *)
(* the actors interleave in any order: simulated durations are arbitrary.  *)
(* What a task does while it runs (the performance models) is one step of  *)
(* the worker in this module.                                              *)
(***************************************************************************)
EXTENDS TaskGraph, SequencesExt

CONSTANTS nMachines,     \* number of workers (option -t)
          usedMachines,  \* usedMachines[i]: the i-th worker cpuAffinity() created
          SCHEDCACHE     \* SOMP_SCHEDCACHE: cache-aware choice of the task?

(***************************************************************************)
(* workerState is a std::map keyed by host name: Worker numbers the hosts  *)
(* in the order of that map, which need not be the order of usedMachines.  *)
(***************************************************************************)
Worker == 1 .. nMachines

ASSUME MachinesAssumption ==
  /\ nMachines \in Nat \ {0}
  /\ usedMachines \in [1 .. nMachines -> Worker]
  /\ \A w \in Worker : \E n \in 1 .. nMachines : usedMachines[n] = w
  /\ SCHEDCACHE \in BOOLEAN

SCHED  == 0      \* the scheduler, as an owner of the mutex
NOBODY == -1     \* the mutex is free

VARIABLES
  trace,            \* the parsed trace, fixed from the start
  taskReadySignal,  \* per task: dependencies still to be satisfied
  submissionQueue,  \* ready tasks not yet sent to a worker
  workerState,      \* per worker: 1 ready, 0 busy
  mutex,            \* owner of the one mutex
  schedPc,          \* where the scheduler is
  i,                \* the loop variable of master() and of the kill loop
  iter,             \* workerStateIterator; nMachines + 1 is end()
  task,             \* the task the scheduler is sending
  taskCounter,      \* tasks not yet dispatched
  pc,               \* per worker: where it is
  msg,              \* per worker: the task it received last
  succ              \* per worker: successorsMap entries still to be visited

schedVars  == <<schedPc, i, iter, task, taskCounter>>
workerVars == <<pc, msg, succ>>
vars == <<trace, taskReadySignal, submissionQueue, workerState, mutex,
          schedVars, workerVars>>

-----------------------------------------------------------------------------
(* The SimGrid mutex and condition variables. A wait releases the mutex    *)
(* and blocks; a notify makes the waiter contend for the mutex again, and  *)
(* is lost when there is no waiter. Only the scheduler ever waits.         *)

Acquire(a) == mutex = NOBODY /\ mutex' = a

KeepLocked == UNCHANGED mutex          \* mutant: the unlock() is forgotten

Release == mutex' = NOBODY

NotifyNobody == UNCHANGED schedPc      \* mutant: the notify_one() is forgotten

NotifyWorkerReady ==
  schedPc' = IF schedPc = "waitWorkerReady" THEN "wakeWorkerReady" ELSE schedPc

NotifyTaskReady ==
  schedPc' = IF schedPc = "waitTaskReady" THEN "lockCheck" ELSE schedPc

-----------------------------------------------------------------------------
(* taskPopulating() has filled aTask and rawListOfTasks; cpuAffinity() has  *)
(* created the workers, each marked ready in workerState.                   *)
Init ==
  /\ trace \in Traces
  /\ taskReadySignal = [t \in Task |-> InitialSignal(trace, t)]
  /\ submissionQueue = <<>>
  /\ workerState = [w \in Worker |-> 1]
  /\ mutex = NOBODY
  /\ schedPc = "master" /\ i = 0 /\ iter = 1 /\ task = 0 /\ taskCounter = nTasks
  /\ pc = [w \in Worker |-> "get"]
  /\ msg = [w \in Worker |-> 0]
  /\ succ = [w \in Worker |-> {}]

OneLeft(signal) == signal <= 1         \* mutant: an off-by-one

(* taskReadySignal == 0 *)
Satisfied(signal) == signal = 0

(* master(): push the tasks without dependencies, in trace order. *)
PushFirstTasks ==
  /\ schedPc = "master"
  /\ IF i < nTasks
     THEN /\ submissionQueue' = IF Satisfied(taskReadySignal[i])
                                THEN Append(submissionQueue, i) ELSE submissionQueue
          /\ i' = i + 1
          /\ UNCHANGED schedPc
     ELSE schedPc' = "outer" /\ UNCHANGED <<submissionQueue, i>>
  /\ UNCHANGED <<trace, taskReadySignal, workerState, mutex, iter, task,
                 taskCounter, workerVars>>

QueueLeft == submissionQueue # <<>>    \* mutant: stops when the queue is empty

(* taskCounter != 0, the condition of the outer loop and of its second half *)
TasksLeft == taskCounter # 0

(* while (taskCounter != 0) *)
OuterLoop ==
  /\ schedPc = "outer"
  /\ IF TasksLeft
     THEN schedPc' = "inner" /\ UNCHANGED i
     ELSE schedPc' = "kill" /\ i' = 1
  /\ UNCHANGED <<trace, taskReadySignal, submissionQueue, workerState, mutex,
                 iter, task, taskCounter, workerVars>>

(* while (submissionQueue.size() > 0), read without the mutex *)
InnerLoop ==
  /\ schedPc = "inner"
  /\ schedPc' = IF submissionQueue # <<>> THEN "lockDispatch" ELSE "lockCheck"
  /\ UNCHANGED <<trace, taskReadySignal, submissionQueue, workerState, mutex,
                 i, iter, task, taskCounter, workerVars>>

ResumeScan == iter                     \* mutant: the iterator is not reset

BeforeFirst == 0                       \* mutant: the iterator precedes begin()

(* workerState.begin() *)
FirstWorker == 1

LockDispatch ==
  /\ schedPc = "lockDispatch"
  /\ Acquire(SCHED)
  /\ iter' = FirstWorker
  /\ schedPc' = "scan"
  /\ UNCHANGED <<trace, taskReadySignal, submissionQueue, workerState, i, task,
                 taskCounter, workerVars>>

(* The positions of the queue a task may be taken from. The cache-aware    *)
(* policy chooses by the content of a cache, which is not in this module.  *)
Eligible == IF SCHEDCACHE THEN DOMAIN submissionQueue ELSE {1}

(* One turn of the loop over workerState, up to mailbox->put(task). *)
ScanWorker ==
  /\ schedPc = "scan"
  /\ iter \in Worker
  /\ IF workerState[iter] = 1
     THEN \E n \in Eligible :
            /\ workerState' = [workerState EXCEPT ![iter] = 0]
            /\ task' = submissionQueue[n]
            /\ submissionQueue' = RemoveAt(submissionQueue, n)
            /\ schedPc' = "put"
            /\ UNCHANGED iter
     ELSE /\ iter' = iter + 1
          /\ UNCHANGED <<workerState, task, submissionQueue, schedPc>>
  /\ UNCHANGED <<trace, taskReadySignal, mutex, i, taskCounter, workerVars>>

ScanEnd ==
  /\ schedPc = "scan"
  /\ iter \notin Worker
  /\ schedPc' = "wait"
  /\ UNCHANGED <<trace, taskReadySignal, submissionQueue, workerState, mutex,
                 i, iter, task, taskCounter, workerVars>>

(* put() and get() on the mailbox of worker w meet. The scheduler still     *)
(* holds the mutex; the task's name is looked at by the worker only.        *)
DeliverTask(w) ==
  /\ schedPc = "put" /\ iter = w
  /\ pc[w] = "get"
  /\ pc' = [pc EXCEPT ![w] = "run"]
  /\ msg' = [msg EXCEPT ![w] = task]
  /\ taskCounter' = taskCounter - 1
  /\ schedPc' = IF submissionQueue = <<>> THEN "wait" ELSE "scan"
  /\ UNCHANGED <<trace, taskReadySignal, submissionQueue, workerState, mutex,
                 i, iter, task, succ>>

(* condVarWorkerReady->wait(mutex), whether or not anything was dispatched *)
WaitWorkerReady ==
  /\ schedPc = "wait"
  /\ Release
  /\ schedPc' = "waitWorkerReady"
  /\ UNCHANGED <<trace, taskReadySignal, submissionQueue, workerState,
                 i, iter, task, taskCounter, workerVars>>

WakeWorkerReady ==
  /\ schedPc = "wakeWorkerReady"
  /\ Acquire(SCHED)
  /\ schedPc' = "unlockDispatch"
  /\ UNCHANGED <<trace, taskReadySignal, submissionQueue, workerState,
                 i, iter, task, taskCounter, workerVars>>

UnlockDispatch ==
  /\ schedPc = "unlockDispatch"
  /\ Release
  /\ schedPc' = "inner"
  /\ UNCHANGED <<trace, taskReadySignal, submissionQueue, workerState,
                 i, iter, task, taskCounter, workerVars>>

(* The mutex for the second half of the outer loop; also the way back from  *)
(* condVarTaskReady->wait(mutex).                                           *)
LockCheck ==
  /\ schedPc = "lockCheck"
  /\ Acquire(SCHED)
  /\ schedPc' = "check"
  /\ UNCHANGED <<trace, taskReadySignal, submissionQueue, workerState,
                 i, iter, task, taskCounter, workerVars>>

(* if (taskCounter != 0) while (submissionQueue.size() == 0) wait *)
CheckQueue ==
  /\ schedPc = "check"
  /\ IF TasksLeft /\ submissionQueue = <<>>
     THEN Release /\ schedPc' = "waitTaskReady"
     ELSE schedPc' = "unlockCheck" /\ UNCHANGED mutex
  /\ UNCHANGED <<trace, taskReadySignal, submissionQueue, workerState,
                 i, iter, task, taskCounter, workerVars>>

UnlockCheck ==
  /\ schedPc = "unlockCheck"
  /\ Release
  /\ schedPc' = "outer"
  /\ UNCHANGED <<trace, taskReadySignal, submissionQueue, workerState,
                 i, iter, task, taskCounter, workerVars>>

(* The kill loop: put(endTask) to the i-th worker, then join it. *)
DeliverEnd(w) ==
  /\ schedPc = "kill" /\ i <= nMachines /\ usedMachines[i] = w
  /\ pc[w] = "get"
  /\ pc' = [pc EXCEPT ![w] = "end"]
  /\ schedPc' = "join"
  /\ UNCHANGED <<trace, taskReadySignal, submissionQueue, workerState, mutex,
                 i, iter, task, taskCounter, msg, succ>>

Join ==
  /\ schedPc = "join"
  /\ pc[usedMachines[i]] = "exited"
  /\ i' = i + 1
  /\ schedPc' = "kill"
  /\ UNCHANGED <<trace, taskReadySignal, submissionQueue, workerState, mutex,
                 iter, task, taskCounter, workerVars>>

(* kill_all() finds only exited workers when every join has returned. *)
KillAll ==
  /\ schedPc = "kill" /\ i > nMachines
  /\ pc' = [w \in Worker |-> "exited"]
  /\ schedPc' = "done"
  /\ UNCHANGED <<trace, taskReadySignal, submissionQueue, workerState, mutex,
                 i, iter, task, taskCounter, msg, succ>>
-----------------------------------------------------------------------------
(* The head of the successors loop: another entry, or the final lock. *)
NextSuccessor(S) == IF S = {} THEN "lockReady" ELSE "lockSuccessor"

(* The model function of the task returns, after the simulated time it     *)
(* chose; equal_range() finds the entries of the task's JobId.             *)
RunTask(w) ==
  /\ pc[w] = "run"
  /\ succ' = [succ EXCEPT ![w] = Successors(trace, trace.jobId[msg[w]])]
  /\ pc' = [pc EXCEPT ![w] = NextSuccessor(succ'[w])]
  /\ UNCHANGED <<trace, taskReadySignal, submissionQueue, workerState, mutex,
                 schedVars, msg>>

LockSuccessor(w) ==
  /\ pc[w] = "lockSuccessor"
  /\ Acquire(w)
  /\ pc' = [pc EXCEPT ![w] = "activate"]
  /\ UNCHANGED <<trace, taskReadySignal, submissionQueue, workerState,
                 schedVars, msg, succ>>

(* One dependency of a successor is satisfied; the last one submits it. *)
ActivateSuccessor(w) ==
  /\ pc[w] = "activate"
  /\ \E e \in succ[w] :
       /\ \A f \in succ[w] : InsertedBefore(e, f)
       /\ succ' = [succ EXCEPT ![w] = @ \ {e}]
       /\ taskReadySignal' = [taskReadySignal EXCEPT ![e[1]] = @ - 1]
       /\ IF Satisfied(taskReadySignal'[e[1]])
          THEN submissionQueue' = Append(submissionQueue, e[1]) /\ NotifyTaskReady
          ELSE UNCHANGED <<submissionQueue, schedPc>>
  /\ pc' = [pc EXCEPT ![w] = "unlockSuccessor"]
  /\ UNCHANGED <<trace, workerState, mutex, i, iter, task, taskCounter, msg>>

UnlockSuccessor(w) ==
  /\ pc[w] = "unlockSuccessor"
  /\ Release
  /\ pc' = [pc EXCEPT ![w] = NextSuccessor(succ[w])]
  /\ UNCHANGED <<trace, taskReadySignal, submissionQueue, workerState,
                 schedVars, msg, succ>>

LockReady(w) ==
  /\ pc[w] = "lockReady"
  /\ Acquire(w)
  /\ pc' = [pc EXCEPT ![w] = "signalReady"]
  /\ UNCHANGED <<trace, taskReadySignal, submissionQueue, workerState,
                 schedVars, msg, succ>>

SignalReady(w) ==
  /\ pc[w] = "signalReady"
  /\ workerState' = [workerState EXCEPT ![w] = 1]
  /\ NotifyWorkerReady
  /\ pc' = [pc EXCEPT ![w] = "unlockReady"]
  /\ UNCHANGED <<trace, taskReadySignal, submissionQueue, mutex, i, iter, task,
                 taskCounter, msg, succ>>

UnlockReady(w) ==
  /\ pc[w] = "unlockReady"
  /\ Release
  /\ pc' = [pc EXCEPT ![w] = "get"]
  /\ UNCHANGED <<trace, taskReadySignal, submissionQueue, workerState,
                 schedVars, msg, succ>>

(* A message with a negative startTime breaks the worker's loop. *)
ExitWorker(w) ==
  /\ pc[w] = "end"
  /\ pc' = [pc EXCEPT ![w] = "exited"]
  /\ UNCHANGED <<trace, taskReadySignal, submissionQueue, workerState, mutex,
                 schedVars, msg, succ>>
-----------------------------------------------------------------------------
SchedulerStep ==
  \/ PushFirstTasks \/ OuterLoop \/ InnerLoop
  \/ LockDispatch \/ ScanWorker \/ ScanEnd
  \/ \E w \in Worker : DeliverTask(w)
  \/ WaitWorkerReady \/ WakeWorkerReady \/ UnlockDispatch
  \/ LockCheck \/ CheckQueue \/ UnlockCheck
  \/ \E w \in Worker : DeliverEnd(w)
  \/ Join \/ KillAll

WorkerStep(w) ==
  \/ RunTask(w)
  \/ LockSuccessor(w) \/ ActivateSuccessor(w) \/ UnlockSuccessor(w)
  \/ LockReady(w) \/ SignalReady(w) \/ UnlockReady(w)
  \/ ExitWorker(w)

(* The simulation is over: the engine has no actor left to run. *)
Terminated == schedPc = "done" /\ UNCHANGED vars

Next == SchedulerStep \/ (\E w \in Worker : WorkerStep(w)) \/ Terminated

(* SimGrid resumes every actor whose call can return, and every simulated  *)
(* activity ends: weak fairness of each actor.                             *)
Fairness == WF_vars(SchedulerStep) /\ \A w \in Worker : WF_vars(WorkerStep(w))

Spec == Init /\ [][Next]_vars

FairSpec == Spec /\ Fairness
-----------------------------------------------------------------------------
SchedulerLocation ==
  {"master", "outer", "inner", "lockDispatch", "scan", "put", "wait",
   "waitWorkerReady", "wakeWorkerReady", "unlockDispatch", "lockCheck",
   "check", "waitTaskReady", "unlockCheck", "kill", "join", "done"}

WorkerLocation ==
  {"get", "run", "lockSuccessor", "activate", "unlockSuccessor",
   "lockReady", "signalReady", "unlockReady", "end", "exited"}

(* Every variable keeps the range its C++ declaration and use give it. *)
TypeOK ==
  /\ trace \in TraceType
  /\ taskReadySignal \in [Task -> Int]
  /\ submissionQueue \in Seq(Task)
  /\ workerState \in [Worker -> {0, 1}]
  /\ mutex \in {NOBODY, SCHED} \cup Worker
  /\ schedPc \in SchedulerLocation
  /\ i \in Nat
  /\ iter \in 1 .. (nMachines + 1)
  /\ task \in Task
  /\ taskCounter \in Int
  /\ pc \in [Worker -> WorkerLocation]
  /\ msg \in [Worker -> Task]
  /\ succ \in [Worker -> SUBSET Edges(trace)]

(* A worker that has received a task and not yet signalled that it is      *)
(* ready again; past its model function, only successors are left to do.   *)
Activating(w) == pc[w] \in {"lockSuccessor", "activate", "unlockSuccessor",
                            "lockReady", "signalReady"}

Busy(w) == pc[w] = "run" \/ Activating(w)

(* scheduler.hpp:117 waits on condVarWorkerReady without testing any       *)
(* predicate. Whenever the scheduler sleeps there, some worker is still to *)
(* call notify_one (worker.hpp:131): the wait can never be for nothing.    *)
NoLostWorkerWakeup ==
  schedPc = "waitWorkerReady" => \E w \in Worker : Busy(w)

(* While the scheduler sleeps on condVarTaskReady (scheduler.hpp:125) the  *)
(* queue is empty, tasks remain, and a busy worker will submit one of them.*)
NoLostTaskWakeup ==
  schedPc = "waitTaskReady" =>
    submissionQueue = <<>> /\ taskCounter > 0 /\ \E w \in Worker : Busy(w)

(* The scheduler sleeps beside a ready worker and a submitted task only    *)
(* while some worker, done with its task, is on its way to waking it: no   *)
(* simulated time passes with work waiting and a core idle.                *)
WorkConserving ==
  (/\ schedPc \in {"waitWorkerReady", "waitTaskReady"}
   /\ submissionQueue # <<>>
   /\ \E w \in Worker : workerState[w] = 1)
  => \E w \in Worker : Activating(w)

(* taskCounter (scheduler.hpp:34,103) counts the tasks still to be sent:   *)
(* those queued, those waiting for a dependency and the one being put. So  *)
(* the scheduler cannot leave its loop with a task forgotten.              *)
CounterAccounts ==
  schedPc # "master" =>
    taskCounter = Len(submissionQueue)
                  + Cardinality({t \in Task : taskReadySignal[t] > 0})
                  + (IF schedPc = "put" THEN 1 ELSE 0)

-----------------------------------------------------------------------------
(* Where a task is, in the terms of TaskExecution. *)
Waiting(t) == \/ taskReadySignal[t] > 0
              \/ \E n \in DOMAIN submissionQueue : submissionQueue[n] = t
              \/ schedPc = "put" /\ task = t
              \/ schedPc = "master" /\ i <= t

Executing(t) == \E w \in Worker : pc[w] = "run" /\ msg[w] = t

statusOf == [t \in Task |-> IF Waiting(t) THEN "waiting"
                            ELSE IF Executing(t) THEN "running" ELSE "done"]

TaskExec == INSTANCE TaskExecution WITH status <- statusOf

(* The queue, the mutex and the messages of the code implement the replay  *)
(* of the graph: every task is executed once, after all its dependencies   *)
(* (worker.hpp:110-126), and never more tasks at a time than workers.      *)
RefinesTaskExecution == TaskExec!AbsSpec

(* An end task (scheduler.hpp:135-141) reaches a worker only when every    *)
(* task has been handed to a worker, and the simulation ends only when all *)
(* of them have been executed.                                             *)
EndComesLast ==
  /\ (\E w \in Worker : pc[w] \in {"end", "exited"}) =>
       \A t \in Task : statusOf[t] # "waiting"
  /\ schedPc = "done" => \A t \in Task : statusOf[t] = "done"

(* The simulation of a trace whose dependencies can be satisfied ends.     *)
CompletableFinishes == Completable(trace) ~> (schedPc = "done")

(* A trace with a dependency cycle, or a dependency on a JobId that no     *)
(* record has, never gets as far as the kill loop (scheduler.hpp:130).     *)
OnlyCompletableFinishes ==
  schedPc \in {"kill", "join", "done"} => Completable(trace)
=============================================================================

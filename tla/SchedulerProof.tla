--------------------------- MODULE SchedulerProof ---------------------------
(***************************************************************************)
(* Safety of the scheduler protocol, then of the replay of the task graph, *)
(* for every trace and every number of tasks and workers.                  *)
(***************************************************************************)
EXTENDS SchedulerInv, SequenceTheorems, FiniteSetTheorems, TLAPS

-----------------------------------------------------------------------------
(* Taking one task out of the queue leaves a queue of tasks. *)
LEMMA RemoveAtType ==
  ASSUME NEW S, NEW q \in Seq(S), NEW n \in DOMAIN q
  PROVE  RemoveAt(q, n) \in Seq(S)
BY SMT DEF RemoveAt

(* The successors looked up for a task are entries of the multimap. *)
LEMMA SuccessorsType ==
  ASSUME NEW tr, NEW job
  PROVE  Successors(tr, job) \subseteq Edges(tr)
BY DEF Successors

(* An entry of the multimap belongs to a task. *)
LEMMA EdgeType ==
  ASSUME NEW tr, NEW e \in Edges(tr)
  PROVE  e[1] \in Task
BY DEF Edges

LEMMA InitTypeOK == Init => TypeOK /\ QueueInv
<1> SUFFICES ASSUME Init PROVE TypeOK /\ QueueInv
  OBVIOUS
<1>1. trace \in TraceType
  BY GraphAssumption DEF Init
<1>2. taskReadySignal \in [Task -> Int]
  BY <1>1 DEF Init, InitialSignal, TraceType
<1>3. 0 \in Task
  BY GraphAssumption DEF Task
<1> QED
  BY <1>1, <1>2, <1>3, GraphAssumption, MachinesAssumption
  DEF Init, TypeOK, QueueInv, SchedulerLocation, WorkerLocation, Worker, NOBODY

(***************************************************************************)
(* The variables keep their types, and the scheduler never looks at an     *)
(* empty queue, whatever step is taken.                                    *)
(***************************************************************************)
LEMMA NextTypeOK == TypeOK /\ QueueInv /\ [Next]_vars => TypeOK' /\ QueueInv'
<1> SUFFICES ASSUME TypeOK, QueueInv, [Next]_vars
             PROVE  TypeOK' /\ QueueInv'
  OBVIOUS
<1>a. nTasks \in Nat \ {0} /\ nMachines \in Nat \ {0}
  BY GraphAssumption, MachinesAssumption
<1> USE DEF TypeOK, QueueInv, vars, schedVars, workerVars,
            SchedulerLocation, WorkerLocation, Acquire, Release, SCHED, NOBODY
<1>1. CASE PushFirstTasks
  <2>1. i < nTasks => i \in Task
    BY <1>a DEF Task
  <2>2. submissionQueue' \in Seq(Task)
    <3>1. CASE i < nTasks
      <4>1. Append(submissionQueue, i) \in Seq(Task)
        BY <2>1, <3>1, AppendProperties
      <4> QED
        BY <1>1, <3>1, <4>1 DEF PushFirstTasks
    <3>2. CASE ~(i < nTasks)
      BY <1>1, <3>2 DEF PushFirstTasks
    <3> QED
      BY <3>1, <3>2
  <2> QED
    BY <1>1, <2>2 DEF PushFirstTasks
<1>2. CASE OuterLoop
  BY <1>a, <1>2 DEF OuterLoop, TasksLeft
<1>3. CASE InnerLoop
  BY <1>a, <1>3 DEF InnerLoop
<1>4. CASE LockDispatch
  BY <1>a, <1>4 DEF LockDispatch, FirstWorker
<1>5. CASE ScanWorker
  <2>1. iter' \in 1 .. (nMachines + 1)
    <3>1. iter \in 1 .. nMachines /\ nMachines \in Nat /\ (iter' = iter \/ iter' = iter + 1)
      BY <1>5, MachinesAssumption DEF ScanWorker, Worker
    <3> QED
      BY <3>1
  <2>2. CASE workerState[iter] = 1
    <3>1. PICK n \in Eligible : /\ workerState' = [workerState EXCEPT ![iter] = 0]
                               /\ task' = submissionQueue[n]
                               /\ submissionQueue' = RemoveAt(submissionQueue, n)
                               /\ schedPc' = "put"
      BY <1>5, <2>2 DEF ScanWorker
    <3>2. n \in DOMAIN submissionQueue
      BY <1>5 DEF ScanWorker, Eligible
    <3>3. task' \in Task /\ submissionQueue' \in Seq(Task)
      BY <3>1, <3>2, RemoveAtType
    <3> QED
      BY <1>5, <2>1, <3>1, <3>3 DEF ScanWorker
  <2>3. CASE workerState[iter] # 1
    BY <1>5, <2>1, <2>3 DEF ScanWorker
  <2> QED
    BY <2>2, <2>3
<1>6. CASE ScanEnd
  BY <1>a, <1>6 DEF ScanEnd
<1>7. ASSUME NEW w \in Worker, DeliverTask(w) PROVE TypeOK' /\ QueueInv'
  BY <1>a, <1>7 DEF DeliverTask
<1>8. CASE WaitWorkerReady
  BY <1>a, <1>8 DEF WaitWorkerReady
<1>9. CASE WakeWorkerReady
  BY <1>a, <1>9 DEF WakeWorkerReady
<1>10. CASE UnlockDispatch
  BY <1>a, <1>10 DEF UnlockDispatch
<1>11. CASE LockCheck
  BY <1>a, <1>11 DEF LockCheck
<1>12. CASE CheckQueue
  BY <1>a, <1>12 DEF CheckQueue, TasksLeft
<1>13. CASE UnlockCheck
  BY <1>a, <1>13 DEF UnlockCheck
<1>14. ASSUME NEW w \in Worker, DeliverEnd(w) PROVE TypeOK' /\ QueueInv'
  BY <1>a, <1>14 DEF DeliverEnd
<1>15. CASE Join
  BY <1>a, <1>15 DEF Join
<1>16. CASE KillAll
  BY <1>a, <1>16 DEF KillAll
<1>17. ASSUME NEW w \in Worker, RunTask(w) PROVE TypeOK' /\ QueueInv'
  BY <1>17, SuccessorsType DEF RunTask, NextSuccessor
<1>18. ASSUME NEW w \in Worker, LockSuccessor(w) PROVE TypeOK' /\ QueueInv'
  BY <1>a, <1>18 DEF LockSuccessor
<1>19. ASSUME NEW w \in Worker, ActivateSuccessor(w) PROVE TypeOK' /\ QueueInv'
  <2>1. PICK e \in succ[w] :
          /\ succ' = [succ EXCEPT ![w] = @ \ {e}]
          /\ taskReadySignal' = [taskReadySignal EXCEPT ![e[1]] = @ - 1]
          /\ IF Satisfied(taskReadySignal'[e[1]])
             THEN submissionQueue' = Append(submissionQueue, e[1]) /\ NotifyTaskReady
             ELSE UNCHANGED <<submissionQueue, schedPc>>
    BY <1>19 DEF ActivateSuccessor
  <2>2. e[1] \in Task
    BY EdgeType
  <2>3. submissionQueue' \in Seq(Task) /\ QueueInv' /\ schedPc' \in SchedulerLocation
    <3>1. CASE submissionQueue' = Append(submissionQueue, e[1]) /\ NotifyTaskReady
      <4>1. submissionQueue \in Seq(Task) /\ schedPc \in SchedulerLocation
        BY DEF TypeOK
      <4>2. submissionQueue' \in Seq(Task) /\ submissionQueue' # <<>>
        BY <2>2, <3>1, <4>1, AppendProperties
      <4>3. schedPc' \in SchedulerLocation
        BY <3>1, <4>1 DEF NotifyTaskReady, SchedulerLocation
      <4> QED
        BY <4>2, <4>3 DEF QueueInv
    <3>2. CASE UNCHANGED <<submissionQueue, schedPc>>
      BY <3>2
    <3> QED
      BY <2>1, <3>1, <3>2
  <2> QED
    BY <1>19, <2>1, <2>2, <2>3 DEF ActivateSuccessor
<1>20. ASSUME NEW w \in Worker, UnlockSuccessor(w) PROVE TypeOK' /\ QueueInv'
  BY <1>20 DEF UnlockSuccessor, NextSuccessor
<1>21. ASSUME NEW w \in Worker, LockReady(w) PROVE TypeOK' /\ QueueInv'
  BY <1>a, <1>21 DEF LockReady
<1>22. ASSUME NEW w \in Worker, SignalReady(w) PROVE TypeOK' /\ QueueInv'
  BY <1>22 DEF SignalReady, NotifyWorkerReady
<1>23. ASSUME NEW w \in Worker, UnlockReady(w) PROVE TypeOK' /\ QueueInv'
  BY <1>a, <1>23 DEF UnlockReady
<1>24. ASSUME NEW w \in Worker, ExitWorker(w) PROVE TypeOK' /\ QueueInv'
  BY <1>a, <1>24 DEF ExitWorker
<1>25. CASE UNCHANGED vars
  BY <1>25
<1> QED
  BY <1>1, <1>2, <1>3, <1>4, <1>5, <1>6, <1>7, <1>8, <1>9, <1>10, <1>11, <1>12, <1>13,
     <1>14, <1>15, <1>16, <1>17, <1>18, <1>19, <1>20, <1>21, <1>22, <1>23, <1>24, <1>25
  DEF Next, SchedulerStep, WorkerStep, Terminated

(***************************************************************************)
(* Every variable of the scheduler and of the workers keeps its type.      *)
(***************************************************************************)
THEOREM SchedulerTypeOK == Spec => []TypeOK
<1>1. TypeOK /\ QueueInv /\ [Next]_vars => (TypeOK /\ QueueInv)'
  BY NextTypeOK
<1>2. TypeOK /\ QueueInv => TypeOK
  OBVIOUS
<1> QED
  BY InitTypeOK, <1>1, <1>2, PTL DEF Spec

(* When the kill loop is over, every worker has been joined: kill_all() has  *)
(* nobody left to kill.                                                     *)
LEMMA KillAllIdle ==
  ASSUME TypeOK, KillInv, KillAll
  PROVE  pc' = pc /\ \A w \in Worker : pc[w] = "exited"
<1>1. \A w \in Worker : pc[w] = "exited"
  <2>1. SUFFICES ASSUME NEW w \in Worker PROVE pc[w] = "exited"
    OBVIOUS
  <2>2. PICK n \in 1 .. nMachines : usedMachines[n] = w
    BY MachinesAssumption
  <2>3. n < i
    BY <2>2, MachinesAssumption DEF KillAll, TypeOK
  <2> QED
    BY <2>2, <2>3 DEF KillAll, KillInv
<1>2. pc = [w \in Worker |-> pc[w]]
  BY DEF TypeOK
<1> QED
  BY <1>1, <1>2, Zenon DEF KillAll

(* A worker that the kill loop has joined has left for good. *)
LEMMA NextKillInv == TypeOK /\ KillInv /\ [Next]_vars => KillInv'
<1> SUFFICES ASSUME TypeOK, KillInv, [Next]_vars
             PROVE  KillInv'
  OBVIOUS
<1>a. nMachines \in Nat \ {0} /\ \A n \in 1 .. nMachines : usedMachines[n] \in Worker
  BY MachinesAssumption
<1> USE DEF TypeOK, vars, schedVars, workerVars, SCHED, NOBODY, Acquire, Release, KillInv, Worker
<1>1. CASE PushFirstTasks
  BY <1>1 DEF PushFirstTasks
<1>2. CASE OuterLoop
  BY <1>2 DEF OuterLoop, TasksLeft
<1>3. CASE InnerLoop
  BY <1>3 DEF InnerLoop
<1>4. CASE LockDispatch
  BY <1>4 DEF LockDispatch, FirstWorker
<1>5. CASE ScanWorker
  BY <1>5 DEF ScanWorker
<1>6. CASE ScanEnd
  BY <1>6 DEF ScanEnd
<1>7. ASSUME NEW w \in Worker, DeliverTask(w) PROVE KillInv'
  BY <1>7 DEF DeliverTask
<1>8. CASE WaitWorkerReady
  BY <1>8 DEF WaitWorkerReady
<1>9. CASE WakeWorkerReady
  BY <1>9 DEF WakeWorkerReady
<1>10. CASE UnlockDispatch
  BY <1>10 DEF UnlockDispatch
<1>11. CASE LockCheck
  BY <1>11 DEF LockCheck
<1>12. CASE CheckQueue
  BY <1>12 DEF CheckQueue, TasksLeft
<1>13. CASE UnlockCheck
  BY <1>13 DEF UnlockCheck
<1>14. ASSUME NEW w \in Worker, DeliverEnd(w) PROVE KillInv'
  <2>1. i \in 1 .. nMachines
    BY <1>14, <1>a DEF DeliverEnd
  <2>2. \A n \in 1 .. nMachines : n < i => pc'[usedMachines[n]] = "exited"
    BY <1>14, <1>a DEF DeliverEnd
  <2> QED
    BY <1>14, <2>1, <2>2 DEF DeliverEnd
<1>15. CASE Join
  <2>1. \A n \in 1 .. nMachines : n < i + 1 => n < i \/ n = i
    OBVIOUS
  <2>2. \A n \in 1 .. nMachines : n < i' => pc'[usedMachines[n]] = "exited"
    BY <1>15, <2>1 DEF Join
  <2> QED
    BY <1>15, <2>2 DEF Join
<1>16. CASE KillAll
  BY <1>16, KillAllIdle DEF KillAll
<1>17. ASSUME NEW w \in Worker, RunTask(w) PROVE KillInv'
  BY <1>17 DEF RunTask, NextSuccessor
<1>18. ASSUME NEW w \in Worker, LockSuccessor(w) PROVE KillInv'
  BY <1>18 DEF LockSuccessor
<1>19. ASSUME NEW w \in Worker, ActivateSuccessor(w) PROVE KillInv'
  BY <1>19 DEF ActivateSuccessor, NotifyTaskReady
<1>20. ASSUME NEW w \in Worker, UnlockSuccessor(w) PROVE KillInv'
  BY <1>20 DEF UnlockSuccessor, NextSuccessor
<1>21. ASSUME NEW w \in Worker, LockReady(w) PROVE KillInv'
  BY <1>21 DEF LockReady
<1>22. ASSUME NEW w \in Worker, SignalReady(w) PROVE KillInv'
  BY <1>22 DEF SignalReady, NotifyWorkerReady
<1>23. ASSUME NEW w \in Worker, UnlockReady(w) PROVE KillInv'
  BY <1>23 DEF UnlockReady
<1>24. ASSUME NEW w \in Worker, ExitWorker(w) PROVE KillInv'
  BY <1>24 DEF ExitWorker
<1>25. CASE UNCHANGED vars
  BY <1>25
<1> QED
  BY <1>1, <1>2, <1>3, <1>4, <1>5, <1>6, <1>7, <1>8, <1>9, <1>10, <1>11, <1>12, <1>13,
     <1>14, <1>15, <1>16, <1>17, <1>18, <1>19, <1>20, <1>21, <1>22, <1>23, <1>24, <1>25
  DEF Next, SchedulerStep, WorkerStep, Terminated

(* Nobody takes the mutex from its owner. *)
LEMMA NextMutexInv == TypeOK /\ MutexInv /\ KillInv /\ [Next]_vars => MutexInv'
<1> SUFFICES ASSUME TypeOK, MutexInv, KillInv, [Next]_vars
             PROVE  MutexInv'
  OBVIOUS
<1> USE DEF TypeOK, vars, schedVars, workerVars, SCHED, NOBODY, Acquire, Release, MutexInv,
            SchedulerHolds, WorkerHolds, Worker
<1>1. CASE PushFirstTasks
  BY <1>1 DEF PushFirstTasks
<1>2. CASE OuterLoop
  BY <1>2 DEF OuterLoop, TasksLeft
<1>3. CASE InnerLoop
  BY <1>3 DEF InnerLoop
<1>4. CASE LockDispatch
  BY <1>4 DEF LockDispatch, FirstWorker
<1>5. CASE ScanWorker
  BY <1>5 DEF ScanWorker
<1>6. CASE ScanEnd
  BY <1>6 DEF ScanEnd
<1>7. ASSUME NEW w \in Worker, DeliverTask(w) PROVE MutexInv'
  BY <1>7 DEF DeliverTask
<1>8. CASE WaitWorkerReady
  BY <1>8 DEF WaitWorkerReady
<1>9. CASE WakeWorkerReady
  BY <1>9 DEF WakeWorkerReady
<1>10. CASE UnlockDispatch
  BY <1>10 DEF UnlockDispatch
<1>11. CASE LockCheck
  BY <1>11 DEF LockCheck
<1>12. CASE CheckQueue
  BY <1>12 DEF CheckQueue, TasksLeft
<1>13. CASE UnlockCheck
  BY <1>13 DEF UnlockCheck
<1>14. ASSUME NEW w \in Worker, DeliverEnd(w) PROVE MutexInv'
  BY <1>14 DEF DeliverEnd
<1>15. CASE Join
  BY <1>15 DEF Join
<1>16. CASE KillAll
  BY <1>16, KillAllIdle DEF KillAll
<1>17. ASSUME NEW w \in Worker, RunTask(w) PROVE MutexInv'
  BY <1>17 DEF RunTask, NextSuccessor
<1>18. ASSUME NEW w \in Worker, LockSuccessor(w) PROVE MutexInv'
  BY <1>18 DEF LockSuccessor
<1>19. ASSUME NEW w \in Worker, ActivateSuccessor(w) PROVE MutexInv'
  BY <1>19 DEF ActivateSuccessor, NotifyTaskReady
<1>20. ASSUME NEW w \in Worker, UnlockSuccessor(w) PROVE MutexInv'
  BY <1>20 DEF UnlockSuccessor, NextSuccessor
<1>21. ASSUME NEW w \in Worker, LockReady(w) PROVE MutexInv'
  BY <1>21 DEF LockReady
<1>22. ASSUME NEW w \in Worker, SignalReady(w) PROVE MutexInv'
  BY <1>22 DEF SignalReady, NotifyWorkerReady
<1>23. ASSUME NEW w \in Worker, UnlockReady(w) PROVE MutexInv'
  BY <1>23 DEF UnlockReady
<1>24. ASSUME NEW w \in Worker, ExitWorker(w) PROVE MutexInv'
  BY <1>24 DEF ExitWorker
<1>25. CASE UNCHANGED vars
  BY <1>25
<1> QED
  BY <1>1, <1>2, <1>3, <1>4, <1>5, <1>6, <1>7, <1>8, <1>9, <1>10, <1>11, <1>12, <1>13,
     <1>14, <1>15, <1>16, <1>17, <1>18, <1>19, <1>20, <1>21, <1>22, <1>23, <1>24, <1>25
  DEF Next, SchedulerStep, WorkerStep, Terminated

(* workerState tells the busy workers from the others. *)
LEMMA NextReadyInv == TypeOK /\ MutexInv /\ KillInv /\ ReadyInv /\ ScanInv /\ [Next]_vars => ReadyInv'
<1> SUFFICES ASSUME TypeOK, MutexInv, KillInv, ReadyInv, ScanInv, [Next]_vars
             PROVE  ReadyInv'
  OBVIOUS
<1> USE DEF TypeOK, vars, schedVars, workerVars, SCHED, NOBODY, Acquire, Release, ReadyInv,
            Busy, Activating
<1>1. CASE PushFirstTasks
  BY <1>1 DEF PushFirstTasks
<1>2. CASE OuterLoop
  BY <1>2 DEF OuterLoop, TasksLeft
<1>3. CASE InnerLoop
  BY <1>3 DEF InnerLoop
<1>4. CASE LockDispatch
  BY <1>4 DEF LockDispatch, FirstWorker
<1>5. CASE ScanWorker
  BY <1>5 DEF ScanWorker
<1>6. CASE ScanEnd
  BY <1>6 DEF ScanEnd
<1>7. ASSUME NEW w \in Worker, DeliverTask(w) PROVE ReadyInv'
  BY <1>7 DEF DeliverTask, ScanInv
<1>8. CASE WaitWorkerReady
  BY <1>8 DEF WaitWorkerReady
<1>9. CASE WakeWorkerReady
  BY <1>9 DEF WakeWorkerReady
<1>10. CASE UnlockDispatch
  BY <1>10 DEF UnlockDispatch
<1>11. CASE LockCheck
  BY <1>11 DEF LockCheck
<1>12. CASE CheckQueue
  BY <1>12 DEF CheckQueue, TasksLeft
<1>13. CASE UnlockCheck
  BY <1>13 DEF UnlockCheck
<1>14. ASSUME NEW w \in Worker, DeliverEnd(w) PROVE ReadyInv'
  BY <1>14 DEF DeliverEnd
<1>15. CASE Join
  BY <1>15 DEF Join
<1>16. CASE KillAll
  BY <1>16, KillAllIdle DEF KillAll
<1>17. ASSUME NEW w \in Worker, RunTask(w) PROVE ReadyInv'
  BY <1>17 DEF RunTask, NextSuccessor
<1>18. ASSUME NEW w \in Worker, LockSuccessor(w) PROVE ReadyInv'
  BY <1>18 DEF LockSuccessor
<1>19. ASSUME NEW w \in Worker, ActivateSuccessor(w) PROVE ReadyInv'
  BY <1>19 DEF ActivateSuccessor, NotifyTaskReady
<1>20. ASSUME NEW w \in Worker, UnlockSuccessor(w) PROVE ReadyInv'
  BY <1>20 DEF UnlockSuccessor, NextSuccessor
<1>21. ASSUME NEW w \in Worker, LockReady(w) PROVE ReadyInv'
  BY <1>21 DEF LockReady
<1>22. ASSUME NEW w \in Worker, SignalReady(w) PROVE ReadyInv'
  BY <1>22 DEF SignalReady, NotifyWorkerReady
<1>23. ASSUME NEW w \in Worker, UnlockReady(w) PROVE ReadyInv'
  BY <1>23 DEF UnlockReady
<1>24. ASSUME NEW w \in Worker, ExitWorker(w) PROVE ReadyInv'
  BY <1>24 DEF ExitWorker
<1>25. CASE UNCHANGED vars
  BY <1>25
<1> QED
  BY <1>1, <1>2, <1>3, <1>4, <1>5, <1>6, <1>7, <1>8, <1>9, <1>10, <1>11, <1>12, <1>13,
     <1>14, <1>15, <1>16, <1>17, <1>18, <1>19, <1>20, <1>21, <1>22, <1>23, <1>24, <1>25
  DEF Next, SchedulerStep, WorkerStep, Terminated

(* What the scheduler concluded from the scan stays true until it is      *)
(* notified: a worker becomes ready only on its way to notifying it.       *)
LEMMA NextScanInv == TypeOK /\ QueueInv /\ MutexInv /\ KillInv /\ ReadyInv /\ ScanInv /\ [Next]_vars => ScanInv'
<1> SUFFICES ASSUME TypeOK, QueueInv, MutexInv, KillInv, ReadyInv, ScanInv, [Next]_vars
             PROVE  ScanInv'
  OBVIOUS
<1>a. nMachines \in Nat \ {0}
  BY MachinesAssumption
<1> USE DEF TypeOK, vars, schedVars, workerVars, SCHED, NOBODY, Acquire, Release, ScanInv,
            Activating
<1>1. CASE PushFirstTasks
  BY <1>1 DEF PushFirstTasks
<1>2. CASE OuterLoop
  BY <1>2 DEF OuterLoop, TasksLeft
<1>3. CASE InnerLoop
  BY <1>3 DEF InnerLoop
<1>4. CASE LockDispatch
  BY <1>4, <1>a DEF LockDispatch, FirstWorker, Worker
<1>5. CASE ScanWorker
  BY <1>5 DEF ScanWorker
<1>6. CASE ScanEnd
  <2>1. \A w \in Worker : w < iter
    BY <1>6, <1>a DEF ScanEnd, Worker
  <2>2. 1 \in Worker
    BY <1>a DEF Worker
  <2> QED
    BY <1>6, <2>1, <2>2 DEF ScanEnd
<1>7. ASSUME NEW w \in Worker, DeliverTask(w) PROVE ScanInv'
  BY <1>7 DEF DeliverTask
<1>8. CASE WaitWorkerReady
  BY <1>8 DEF WaitWorkerReady
<1>9. CASE WakeWorkerReady
  BY <1>9 DEF WakeWorkerReady
<1>10. CASE UnlockDispatch
  BY <1>10 DEF UnlockDispatch
<1>11. CASE LockCheck
  BY <1>11 DEF LockCheck
<1>12. CASE CheckQueue
  BY <1>12 DEF CheckQueue, TasksLeft
<1>13. CASE UnlockCheck
  BY <1>13 DEF UnlockCheck
<1>14. ASSUME NEW w \in Worker, DeliverEnd(w) PROVE ScanInv'
  BY <1>14 DEF DeliverEnd
<1>15. CASE Join
  BY <1>15 DEF Join
<1>16. CASE KillAll
  BY <1>16, KillAllIdle DEF KillAll
<1>17. ASSUME NEW w \in Worker, RunTask(w) PROVE ScanInv'
  BY <1>17 DEF RunTask, NextSuccessor
<1>18. ASSUME NEW w \in Worker, LockSuccessor(w) PROVE ScanInv'
  BY <1>18 DEF LockSuccessor
<1>19. ASSUME NEW w \in Worker, ActivateSuccessor(w) PROVE ScanInv'
  <2>1. schedPc \notin SchedulerHolds
    BY <1>19 DEF ActivateSuccessor, MutexInv, WorkerHolds, Worker
  <2>2. pc' = [pc EXCEPT ![w] = "unlockSuccessor"] /\ UNCHANGED <<workerState, iter>>
    BY <1>19 DEF ActivateSuccessor
  <2>3. CASE UNCHANGED <<submissionQueue, schedPc>>
    BY <2>1, <2>2, <2>3 DEF SchedulerHolds
  <2>4. CASE NotifyTaskReady
    BY <2>1, <2>2, <2>4 DEF SchedulerHolds, NotifyTaskReady
  <2> QED
    BY <1>19, <2>3, <2>4 DEF ActivateSuccessor
<1>20. ASSUME NEW w \in Worker, UnlockSuccessor(w) PROVE ScanInv'
  BY <1>20 DEF UnlockSuccessor, NextSuccessor
<1>21. ASSUME NEW w \in Worker, LockReady(w) PROVE ScanInv'
  BY <1>21 DEF LockReady
<1>22. ASSUME NEW w \in Worker, SignalReady(w) PROVE ScanInv'
  <2>1. schedPc \notin SchedulerHolds
    BY <1>22 DEF SignalReady, MutexInv, WorkerHolds, Worker
  <2> QED
    BY <1>22, <2>1 DEF SignalReady, NotifyWorkerReady, SchedulerHolds
<1>23. ASSUME NEW w \in Worker, UnlockReady(w) PROVE ScanInv'
  BY <1>23 DEF UnlockReady
<1>24. ASSUME NEW w \in Worker, ExitWorker(w) PROVE ScanInv'
  BY <1>24 DEF ExitWorker
<1>25. CASE UNCHANGED vars
  BY <1>25
<1> QED
  BY <1>1, <1>2, <1>3, <1>4, <1>5, <1>6, <1>7, <1>8, <1>9, <1>10, <1>11, <1>12, <1>13,
     <1>14, <1>15, <1>16, <1>17, <1>18, <1>19, <1>20, <1>21, <1>22, <1>23, <1>24, <1>25
  DEF Next, SchedulerStep, WorkerStep, Terminated

LEMMA InitProtocolIInv == Init => ProtocolIInv
<1>1. ASSUME Init PROVE MutexInv
  BY <1>1, MachinesAssumption
  DEF Init, MutexInv, SchedulerHolds, WorkerHolds, Worker, NOBODY, SCHED
<1>2. ASSUME Init PROVE KillInv /\ ReadyInv /\ ScanInv
  BY <1>2 DEF Init, KillInv, ReadyInv, ScanInv, Busy, Activating
<1> QED
  BY <1>1, <1>2, InitTypeOK DEF ProtocolIInv

LEMMA NextProtocolIInv == ProtocolIInv /\ [Next]_vars => ProtocolIInv'
  BY NextTypeOK, NextMutexInv, NextKillInv, NextReadyInv, NextScanInv
  DEF ProtocolIInv

(***************************************************************************)
(* The inductive invariant holds of every state the scheduler and its      *)
(* workers reach: the mutex is owned as the program points say (so the     *)
(* bodies between lock() and unlock() exclude each other), and workerState *)
(* is exact outside them.                                                  *)
(***************************************************************************)
THEOREM ProtocolInvariant == Spec => []ProtocolIInv
  BY InitProtocolIInv, NextProtocolIInv, PTL DEF Spec

(***************************************************************************)
(* The scheduler never sleeps on condVarWorkerReady, which it waits for    *)
(* without a predicate (scheduler.hpp:117), with nobody left to notify it. *)
(***************************************************************************)
THEOREM WorkerWakeupIsNeverLost == Spec => []NoLostWorkerWakeup
<1>1. ProtocolIInv => NoLostWorkerWakeup
  BY DEF ProtocolIInv, ScanInv, ReadyInv, NoLostWorkerWakeup
<1> QED
  BY ProtocolInvariant, <1>1, PTL

(***************************************************************************)
(* The scheduler never sleeps beside a ready worker and a submitted task   *)
(* unless a worker is already on its way to waking it (scheduler.hpp:117   *)
(* and 125, worker.hpp:117-132).                                           *)
(***************************************************************************)
THEOREM SchedulerIsWorkConserving == Spec => []WorkConserving
<1>1. ProtocolIInv => WorkConserving
  <2> SUFFICES ASSUME ProtocolIInv,
                      schedPc \in {"waitWorkerReady", "waitTaskReady"},
                      submissionQueue # <<>>,
                      NEW w \in Worker, workerState[w] = 1
               PROVE  \E v \in Worker : Activating(v)
    BY DEF WorkConserving
  <2>1. schedPc = "waitWorkerReady"
    BY DEF ProtocolIInv, ScanInv
  <2>2. \/ \A v \in Worker : workerState[v] = 0
        \/ \E v \in Worker : Activating(v)
    BY <2>1 DEF ProtocolIInv, ScanInv
  <2> QED
    BY <2>2
<1> QED
  BY ProtocolInvariant, <1>1, PTL
-----------------------------------------------------------------------------
(***************************************************************************)
(* The scheduler replays the task graph: what its signals, queue and       *)
(* counter say of the tasks, for every trace and every number of tasks and *)
(* workers, and the refinement of TaskExecution.                           *)
(***************************************************************************)
(* What RemoveAt keeps. *)
LEMMA RemoveAtEntries ==
  ASSUME NEW S, NEW q \in Seq(S), NEW n \in DOMAIN q
  PROVE  /\ Len(RemoveAt(q, n)) = Len(q) - 1
         /\ DOMAIN RemoveAt(q, n) = 1 .. (Len(q) - 1)
         /\ \A m \in DOMAIN RemoveAt(q, n) :
              RemoveAt(q, n)[m] = IF m < n THEN q[m] ELSE q[m + 1]
<1> DEFINE a == SubSeq(q, 1, n - 1)
           b == SubSeq(q, n + 1, Len(q))
<1>1. Len(q) \in Nat /\ n \in 1 .. Len(q) /\ \A m \in 1 .. Len(q) : q[m] \in S
  BY LenProperties, ElementOfSeq
<1>2. /\ a \in Seq(S) /\ Len(a) = n - 1
      /\ \A m \in 1 .. (n - 1) : a[m] = q[m]
  BY <1>1, SubSeqProperties
<1>3. /\ b \in Seq(S) /\ Len(b) = Len(q) - n
      /\ \A m \in 1 .. (Len(q) - n) : b[m] = q[m + n]
  BY <1>1, SubSeqProperties
<1>4. RemoveAt(q, n) = a \o b
  BY DEF RemoveAt
<1> HIDE DEF a, b
<1>5. /\ a \o b \in Seq(S) /\ Len(a \o b) = Len(q) - 1
      /\ \A m \in 1 .. (Len(q) - 1) :
           (a \o b)[m] = IF m < n THEN a[m] ELSE b[m - (n - 1)]
  <2>1. /\ a \o b \in Seq(S) /\ Len(a \o b) = Len(a) + Len(b)
        /\ \A m \in 1 .. (Len(a) + Len(b)) :
             (a \o b)[m] = IF m <= Len(a) THEN a[m] ELSE b[m - Len(a)]
    BY <1>2, <1>3, ConcatProperties
  <2>2. Len(a) = n - 1 /\ Len(b) = Len(q) - n /\ n \in Int /\ Len(q) \in Int
    BY <1>1, <1>2, <1>3
  <2>3. Len(a) + Len(b) = Len(q) - 1
    BY <2>2
  <2>4. \A m \in 1 .. (Len(q) - 1) : m <= Len(a) <=> m < n
    BY <2>2
  <2> QED
    BY <2>1, <2>2, <2>3, <2>4
<1>6. \A m \in 1 .. (Len(q) - 1) : m >= n => b[m - (n - 1)] = q[m + 1]
  BY <1>1, <1>3
<1>7. \A m \in 1 .. (Len(q) - 1) : (a \o b)[m] = IF m < n THEN q[m] ELSE q[m + 1]
  BY <1>1, <1>2, <1>5, <1>6
<1>8. DOMAIN (a \o b) = 1 .. (Len(q) - 1)
  BY <1>5, LenProperties
<1> QED
  BY <1>4, <1>5, <1>7, <1>8

(* The tasks are finitely many, and so are the entries of the multimap. *)
LEMMA TasksAreFinite ==
  /\ IsFiniteSet(Task) /\ Cardinality(Task) = nTasks
  /\ \A S \in SUBSET Task : IsFiniteSet(S) /\ Cardinality(S) \in Nat
<1>1. IsFiniteSet(Task) /\ Cardinality(Task) = nTasks
  BY FS_Interval, GraphAssumption DEF Task
<1> QED
  BY <1>1, FS_Subset, FS_CardinalityType

LEMMA ListedIsFinite ==
  ASSUME trace \in TraceType, NEW t \in Task
  PROVE  /\ IsFiniteSet(Listed(t)) /\ Cardinality(Listed(t)) = Len(trace.dependsOn[t])
         /\ IsFiniteSet(Pending(t)) /\ Cardinality(Pending(t)) \in Nat
         /\ Pending(t) \subseteq Listed(t)
<1>1. trace.dependsOn[t] \in Seq(Int)
  BY DEF TraceType
<1>2. DOMAIN trace.dependsOn[t] = 1 .. Len(trace.dependsOn[t]) /\ Len(trace.dependsOn[t]) \in Nat
  BY <1>1
<1>3. IsFiniteSet(DOMAIN trace.dependsOn[t])
      /\ Cardinality(DOMAIN trace.dependsOn[t]) = Len(trace.dependsOn[t])
  BY <1>2, FS_Interval
<1>4. IsFiniteSet({t}) /\ Cardinality({t}) = 1
  BY FS_Singleton
<1>5. IsFiniteSet(Listed(t))
      /\ Cardinality(Listed(t)) = Cardinality({t}) * Cardinality(DOMAIN trace.dependsOn[t])
  BY <1>3, <1>4, FS_Product DEF Listed
<1>6. Pending(t) \subseteq Listed(t)
  BY DEF Pending
<1>7. IsFiniteSet(Pending(t))
  BY <1>5, <1>6, FS_Subset
<1>8. Cardinality(Listed(t)) = Len(trace.dependsOn[t])
  BY <1>2, <1>3, <1>4, <1>5
<1> QED
  BY <1>5, <1>6, <1>7, <1>8, FS_CardinalityType

LEMMA EntryOfTask ==
  ASSUME NEW e \in Edges(trace)
  PROVE  e[1] \in Task /\ e \in Listed(e[1])
  BY DEF Edges, Listed

LEMMA ListedAreEdges ==
  ASSUME NEW t \in Task, NEW e \in Listed(t)
  PROVE  e \in Edges(trace) /\ e[1] = t /\ e[2] \in DOMAIN trace.dependsOn[t]
  BY DEF Edges, Listed

-----------------------------------------------------------------------------
(***************************************************************************)
(* A step that moves no task and visits no entry.                          *)
(***************************************************************************)
Quiet ==
  /\ UNCHANGED <<trace, taskReadySignal, submissionQueue, taskCounter, msg, succ>>
  /\ schedPc = "put" <=> schedPc' = "put"
  /\ schedPc = "put" => task' = task
  /\ schedPc = "master" <=> schedPc' = "master"
  /\ schedPc = "master" => i' = i
  /\ \A w \in Worker : /\ pc[w] = "run" <=> pc'[w] = "run"
                       /\ Busy(w)' => Busy(w)

(* Nobody has visited another entry if the visits stay the same for those  *)
(* who have entries to visit.                                              *)
LEMMA PendingKept ==
  ASSUME trace' = trace, NEW t \in Task,
         \A u \in Task : \A e \in Listed(t) :
           trace.jobId[u] = JobOf(e) => (Visited(u, e)' <=> Visited(u, e))
  PROVE  Pending(t)' = Pending(t)
<1>1. Listed(t)' = Listed(t) /\ \A e : JobOf(e)' = JobOf(e)
  BY DEF Listed, JobOf
<1> QED
  BY <1>1 DEF Pending

LEMMA VisitedKept ==
  ASSUME NEW u \in Task, NEW e, Waiting(u)' <=> Waiting(u), UNCHANGED <<msg, succ>>,
         \A w \in Worker : pc[w] = "run" <=> pc'[w] = "run"
  PROVE  Visited(u, e)' <=> Visited(u, e)
  BY DEF Visited

LEMMA UnreadyIsFinite == Cardinality(Unready) \in Nat /\ IsFiniteSet(Unready)
  BY TasksAreFinite DEF Unready

LEMMA SameVisitsKeepReplay ==
  ASSUME SignalInv, BlockedInv, \A t \in Task : Waiting(t)' <=> Waiting(t),
         UNCHANGED <<trace, taskReadySignal, msg, succ>>,
         \A w \in Worker : pc[w] = "run" <=> pc'[w] = "run"
  PROVE  SignalInv' /\ BlockedInv' /\ Unready' = Unready
<1>1. \A t \in Task : Pending(t)' = Pending(t)
  BY VisitedKept, PendingKept
<1>2. Unready' = Unready
  BY DEF Unready
<1>3. SignalInv'
  BY <1>1 DEF SignalInv, UniqueJobIds
<1>4. BlockedInv'
  BY <1>2 DEF BlockedInv, UniqueJobIds, Blocked, Dependance
<1> QED
  BY <1>2, <1>3, <1>4

LEMMA QuietKeepsReplay ==
  ASSUME PlaceInv, CountInv, SignalInv, BlockedInv, Quiet
  PROVE  /\ (PlaceInv /\ CountInv /\ SignalInv /\ BlockedInv)'
         /\ \A t \in Task : Waiting(t)' <=> Waiting(t)
<1>1. \A t \in Task : Waiting(t)' <=> Waiting(t)
  BY DEF Waiting, Quiet
<1>2. SignalInv' /\ BlockedInv'
  BY <1>1, SameVisitsKeepReplay DEF Quiet
<1>3. PlaceInv'
  <2>1. \A w \in Worker : Busy(w)' => ~Waiting(msg[w])'
    BY DEF PlaceInv, Quiet, Waiting
  <2> QED
    BY <2>1 DEF PlaceInv, Quiet
<1>4. CountInv'
  BY DEF CountInv, Unready, Unseen, Quiet
<1> QED
  BY <1>1, <1>2, <1>3, <1>4

-----------------------------------------------------------------------------
LEMMA NextPhaseInv ==
  ASSUME TypeOK, KillInv, PhaseInv, [Next]_vars
  PROVE  PhaseInv'
<1> USE DEF TypeOK, vars, schedVars, workerVars, PhaseInv
<1>a. nTasks \in Nat \ {0}
  BY GraphAssumption
<1>1. CASE PushFirstTasks
  BY <1>1, <1>a DEF PushFirstTasks
<1>2. CASE OuterLoop
  BY <1>2 DEF OuterLoop, TasksLeft
<1>3. CASE InnerLoop
  BY <1>3 DEF InnerLoop
<1>4. CASE LockDispatch
  BY <1>4 DEF LockDispatch
<1>5. CASE ScanWorker
  BY <1>5 DEF ScanWorker
<1>6. CASE ScanEnd
  BY <1>6 DEF ScanEnd
<1>7. ASSUME NEW w \in Worker, DeliverTask(w) PROVE PhaseInv'
  BY <1>7 DEF DeliverTask
<1>8. CASE WaitWorkerReady
  BY <1>8 DEF WaitWorkerReady
<1>9. CASE WakeWorkerReady
  BY <1>9 DEF WakeWorkerReady
<1>10. CASE UnlockDispatch
  BY <1>10 DEF UnlockDispatch
<1>11. CASE LockCheck
  BY <1>11 DEF LockCheck
<1>12. CASE CheckQueue
  BY <1>12 DEF CheckQueue, TasksLeft
<1>13. CASE UnlockCheck
  BY <1>13 DEF UnlockCheck
<1>14. ASSUME NEW w \in Worker, DeliverEnd(w) PROVE PhaseInv'
  BY <1>14 DEF DeliverEnd
<1>15. CASE Join
  BY <1>15 DEF Join
<1>16. CASE KillAll
  BY <1>16 DEF KillAll
<1>17. ASSUME NEW w \in Worker, RunTask(w) PROVE PhaseInv'
  BY <1>17 DEF RunTask, NextSuccessor
<1>18. ASSUME NEW w \in Worker, LockSuccessor(w) PROVE PhaseInv'
  BY <1>18 DEF LockSuccessor
<1>19. ASSUME NEW w \in Worker, ActivateSuccessor(w) PROVE PhaseInv'
  BY <1>19 DEF ActivateSuccessor, NotifyTaskReady
<1>20. ASSUME NEW w \in Worker, UnlockSuccessor(w) PROVE PhaseInv'
  BY <1>20 DEF UnlockSuccessor, NextSuccessor
<1>21. ASSUME NEW w \in Worker, LockReady(w) PROVE PhaseInv'
  BY <1>21 DEF LockReady
<1>22. ASSUME NEW w \in Worker, SignalReady(w) PROVE PhaseInv'
  BY <1>22 DEF SignalReady, NotifyWorkerReady
<1>23. ASSUME NEW w \in Worker, UnlockReady(w) PROVE PhaseInv'
  BY <1>23 DEF UnlockReady
<1>24. ASSUME NEW w \in Worker, ExitWorker(w) PROVE PhaseInv'
  BY <1>24 DEF ExitWorker
<1>25. CASE UNCHANGED vars
  BY <1>25
<1> QED
  BY <1>1, <1>2, <1>3, <1>4, <1>5, <1>6, <1>7, <1>8, <1>9, <1>10, <1>11, <1>12, <1>13,
     <1>14, <1>15, <1>16, <1>17, <1>18, <1>19, <1>20, <1>21, <1>22, <1>23, <1>24, <1>25
  DEF Next, SchedulerStep, WorkerStep, Terminated

(* Only a worker in its loop over the successors has entries to visit. *)
LEMMA NextSuccInv ==
  ASSUME TypeOK, KillInv, SuccInv, [Next]_vars
  PROVE  SuccInv'
<1> USE DEF TypeOK, vars, schedVars, workerVars, SuccInv
<1>1. ASSUME UNCHANGED <<trace, pc, msg, succ>> PROVE SuccInv'
  BY <1>1
<1>7. ASSUME NEW w \in Worker, DeliverTask(w) PROVE SuccInv'
  BY <1>7 DEF DeliverTask
<1>14. ASSUME NEW w \in Worker, DeliverEnd(w) PROVE SuccInv'
  BY <1>14 DEF DeliverEnd
<1>16. CASE KillAll
  BY <1>16, KillAllIdle DEF KillAll
<1>17. ASSUME NEW w \in Worker, RunTask(w) PROVE SuccInv'
  <2>1. Successors(trace, trace.jobId[msg[w]]) \subseteq Edges(trace)
    BY SuccessorsType
  <2>2. succ'[w] = Successors(trace, trace.jobId[msg[w]])
    BY <1>17, <2>1 DEF RunTask
  <2>3. pc'[w] \in {"lockSuccessor", "lockReady"} /\ (pc'[w] = "lockReady" => succ'[w] = {})
    BY <1>17 DEF RunTask, NextSuccessor
  <2> QED
    BY <1>17, <2>2, <2>3 DEF RunTask
<1>18. ASSUME NEW w \in Worker, LockSuccessor(w) PROVE SuccInv'
  BY <1>18 DEF LockSuccessor
<1>19. ASSUME NEW w \in Worker, ActivateSuccessor(w) PROVE SuccInv'
  BY <1>19 DEF ActivateSuccessor
<1>20. ASSUME NEW w \in Worker, UnlockSuccessor(w) PROVE SuccInv'
  BY <1>20 DEF UnlockSuccessor, NextSuccessor
<1>21. ASSUME NEW w \in Worker, LockReady(w) PROVE SuccInv'
  BY <1>21 DEF LockReady
<1>22. ASSUME NEW w \in Worker, SignalReady(w) PROVE SuccInv'
  BY <1>22 DEF SignalReady
<1>23. ASSUME NEW w \in Worker, UnlockReady(w) PROVE SuccInv'
  BY <1>23 DEF UnlockReady
<1>24. ASSUME NEW w \in Worker, ExitWorker(w) PROVE SuccInv'
  BY <1>24 DEF ExitWorker
<1>25. CASE UNCHANGED vars
  BY <1>25
<1>26. \/ PushFirstTasks \/ OuterLoop \/ InnerLoop \/ LockDispatch \/ ScanWorker \/ ScanEnd
       \/ WaitWorkerReady \/ WakeWorkerReady \/ UnlockDispatch
       \/ LockCheck \/ CheckQueue \/ UnlockCheck \/ Join
       => UNCHANGED <<trace, pc, msg, succ>>
  BY DEF PushFirstTasks, OuterLoop, InnerLoop, LockDispatch, ScanWorker, ScanEnd,
         WaitWorkerReady, WakeWorkerReady, UnlockDispatch, LockCheck, CheckQueue,
         UnlockCheck, Join
<1> QED
  BY <1>1, <1>7, <1>14, <1>16, <1>17, <1>18, <1>19, <1>20, <1>21, <1>22, <1>23, <1>24, <1>25, <1>26
  DEF Next, SchedulerStep, WorkerStep, Terminated

(* All steps but five kinds are quiet. *)
TakesTask == ScanWorker /\ workerState[iter] = 1

LEMMA OtherStepsAreQuiet ==
  ASSUME TypeOK, KillInv, [Next]_vars, ~PushFirstTasks, ~TakesTask,
         \A w \in Worker : ~DeliverTask(w) /\ ~RunTask(w) /\ ~ActivateSuccessor(w)
  PROVE  Quiet
<1> USE DEF TypeOK, vars, schedVars, workerVars, Quiet, Busy, Activating
<1>2. CASE OuterLoop
  BY <1>2 DEF OuterLoop, TasksLeft
<1>3. CASE InnerLoop
  BY <1>3 DEF InnerLoop
<1>4. CASE LockDispatch
  BY <1>4 DEF LockDispatch
<1>5. CASE ScanWorker
  BY <1>5 DEF ScanWorker, TakesTask
<1>6. CASE ScanEnd
  BY <1>6 DEF ScanEnd
<1>8. CASE WaitWorkerReady
  BY <1>8 DEF WaitWorkerReady
<1>9. CASE WakeWorkerReady
  BY <1>9 DEF WakeWorkerReady
<1>10. CASE UnlockDispatch
  BY <1>10 DEF UnlockDispatch
<1>11. CASE LockCheck
  BY <1>11 DEF LockCheck
<1>12. CASE CheckQueue
  BY <1>12 DEF CheckQueue, TasksLeft
<1>13. CASE UnlockCheck
  BY <1>13 DEF UnlockCheck
<1>14. ASSUME NEW w \in Worker, DeliverEnd(w) PROVE Quiet
  BY <1>14 DEF DeliverEnd
<1>15. CASE Join
  BY <1>15 DEF Join
<1>16. CASE KillAll
  BY <1>16, KillAllIdle DEF KillAll
<1>18. ASSUME NEW w \in Worker, LockSuccessor(w) PROVE Quiet
  BY <1>18 DEF LockSuccessor
<1>20. ASSUME NEW w \in Worker, UnlockSuccessor(w) PROVE Quiet
  BY <1>20 DEF UnlockSuccessor, NextSuccessor
<1>21. ASSUME NEW w \in Worker, LockReady(w) PROVE Quiet
  BY <1>21 DEF LockReady
<1>22. ASSUME NEW w \in Worker, SignalReady(w) PROVE Quiet
  BY <1>22 DEF SignalReady, NotifyWorkerReady
<1>23. ASSUME NEW w \in Worker, UnlockReady(w) PROVE Quiet
  BY <1>23 DEF UnlockReady
<1>24. ASSUME NEW w \in Worker, ExitWorker(w) PROVE Quiet
  BY <1>24 DEF ExitWorker
<1>25. CASE UNCHANGED vars
  BY <1>25
<1> QED
  BY <1>2, <1>3, <1>4, <1>5, <1>6, <1>8, <1>9, <1>10, <1>11, <1>12, <1>13, <1>14, <1>15,
     <1>16, <1>18, <1>20, <1>21, <1>22, <1>23, <1>24, <1>25
  DEF Next, SchedulerStep, WorkerStep, Terminated

-----------------------------------------------------------------------------
(* master() looks at one more task, or is done with all of them. *)
LEMMA PushKeepsReplay ==
  ASSUME TypeOK, PhaseInv, PlaceInv, CountInv, SignalInv, BlockedInv, PushFirstTasks
  PROVE  /\ (PlaceInv /\ CountInv /\ SignalInv /\ BlockedInv)'
         /\ \A t \in Task : Waiting(t)' <=> Waiting(t)
<1>1. /\ schedPc = "master" /\ i \in Nat /\ i <= nTasks /\ nTasks \in Nat
      /\ UNCHANGED <<trace, taskReadySignal, task, taskCounter, pc, msg, succ>>
      /\ \A w \in Worker : pc[w] = "get"
      /\ submissionQueue \in Seq(Task)
  BY GraphAssumption DEF PushFirstTasks, PhaseInv, TypeOK, workerVars
<1>2. \A t \in Task : taskReadySignal[t] \in Nat
  BY <1>1, ListedIsFinite DEF PhaseInv, InitialSignal, TypeOK, TraceType
<1>3. CASE i < nTasks
  <2>1. i \in Task /\ i' = i + 1 /\ schedPc' = "master"
    BY <1>1, <1>3 DEF PushFirstTasks, Task
  <2>2. CASE taskReadySignal[i] = 0
    <3>1. submissionQueue' = Append(submissionQueue, i)
      BY <1>3, <2>2 DEF PushFirstTasks, Satisfied
    <3>2. /\ Len(submissionQueue') = Len(submissionQueue) + 1
          /\ \A n \in DOMAIN submissionQueue' :
               submissionQueue'[n] = IF n = Len(submissionQueue) + 1 THEN i
                                     ELSE submissionQueue[n]
          /\ DOMAIN submissionQueue' = 1 .. (Len(submissionQueue) + 1)
          /\ DOMAIN submissionQueue = 1 .. Len(submissionQueue) /\ Len(submissionQueue) \in Nat
      BY <1>1, <2>1, <3>1
    <3>3. \A t \in Task : Waiting(t)' <=> Waiting(t)
      <4>1. taskReadySignal[i] \in Nat
        BY <1>2, <2>1
      <4>2. \A t : (\E n \in DOMAIN submissionQueue' : submissionQueue'[n] = t)
                     <=> (\E n \in DOMAIN submissionQueue : submissionQueue[n] = t) \/ t = i
        BY <3>2
      <4>3. \A t \in Task : Waiting(t) <=>
              taskReadySignal[t] > 0 \/ (\E n \in DOMAIN submissionQueue : submissionQueue[n] = t)
              \/ t >= i
        BY <1>1 DEF Waiting
      <4>4. \A t \in Task : Waiting(t)' <=>
              taskReadySignal[t] > 0 \/ (\E n \in DOMAIN submissionQueue' : submissionQueue'[n] = t)
              \/ t >= i + 1
        BY <1>1, <2>1 DEF Waiting
      <4>5. \A t \in Task : t >= i <=> t >= i + 1 \/ t = i
        BY <2>1 DEF Task
      <4> QED
        BY <4>2, <4>3, <4>4, <4>5
    <3>4. Unseen = Unseen' \cup {i} /\ i \notin Unseen'
      BY <1>1, <2>1, <2>2 DEF Unseen, Task
    <3>5. Cardinality(Unseen) = Cardinality(Unseen') + 1 /\ Cardinality(Unseen') \in Nat
      BY <3>4, TasksAreFinite, FS_AddElement DEF Unseen
    <3>6. CountInv'
      <4>1. Cardinality(Unready') = Cardinality(Unready)
        BY <1>1 DEF Unready
      <4> QED
        BY <1>1, <2>1, <3>2, <3>5, <4>1, UnreadyIsFinite DEF CountInv
    <3>7. PlaceInv'
      <4>1. \A n \in DOMAIN submissionQueue : submissionQueue[n] < i
        BY <1>1 DEF PlaceInv
      <4>2. \A m, n \in DOMAIN submissionQueue' :
              submissionQueue'[m] = submissionQueue'[n] => m = n
        BY <1>1, <3>2, <4>1 DEF PlaceInv
      <4>3. \A n \in DOMAIN submissionQueue' :
              taskReadySignal[submissionQueue'[n]] <= 0 /\ submissionQueue'[n] < i + 1
        <5>1. \A n \in DOMAIN submissionQueue :
                taskReadySignal[submissionQueue[n]] <= 0 /\ submissionQueue[n] \in Int
          BY <1>1 DEF PlaceInv, Task
        <5>2. i \in Int /\ taskReadySignal[i] <= 0
          BY <2>1, <2>2 DEF Task
        <5> QED
          BY <3>2, <4>1, <5>1, <5>2
      <4> QED
        BY <1>1, <2>1, <4>2, <4>3 DEF PlaceInv, Busy, Activating
    <3> QED
      BY <1>1, <3>3, <3>6, <3>7, SameVisitsKeepReplay
  <2>3. CASE taskReadySignal[i] # 0
    <3>1. submissionQueue' = submissionQueue /\ taskReadySignal[i] > 0
      BY <1>2, <1>3, <2>1, <2>3 DEF PushFirstTasks, Satisfied
    <3>2. \A t \in Task : Waiting(t)' <=> Waiting(t)
      BY <1>1, <2>1, <3>1 DEF Waiting, Task
    <3>3. Unseen' = Unseen
      <4>1. \A t \in Task : taskReadySignal[t] <= 0 => (i <= t <=> i + 1 <= t)
        BY <1>1, <1>2, <2>1, <3>1 DEF Task
      <4> QED
        BY <1>1, <2>1, <4>1 DEF Unseen
    <3>4. CountInv'
      BY <1>1, <2>1, <3>1, <3>3 DEF CountInv, Unready
    <3>5. PlaceInv'
      <4>1. \A n \in DOMAIN submissionQueue : submissionQueue[n] < i
        BY <1>1 DEF PlaceInv
      <4>2. \A n \in DOMAIN submissionQueue : submissionQueue[n] \in Int /\ submissionQueue[n] < i + 1
        BY <1>1, <4>1 DEF Task
      <4>3. \A w \in Worker : ~Busy(w)'
        BY <1>1 DEF Busy, Activating
      <4> QED
        BY <1>1, <2>1, <3>1, <4>2, <4>3 DEF PlaceInv
    <3> QED
      BY <1>1, <3>2, <3>4, <3>5, SameVisitsKeepReplay
  <2> QED
    BY <2>2, <2>3
<1>4. CASE i = nTasks
  <2>1. schedPc' = "outer" /\ UNCHANGED <<submissionQueue, i>>
    BY <1>1, <1>4 DEF PushFirstTasks
  <2>2. \A t \in Task : t < i
    BY <1>1, <1>4 DEF Task
  <2>3. \A t \in Task : Waiting(t)' <=> Waiting(t)
    BY <1>1, <2>1, <2>2 DEF Waiting, Task
  <2>4. Unseen' = {} /\ Unseen = {}
    BY <1>1, <2>1, <2>2 DEF Unseen, Task
  <2>5. CountInv'
    BY <1>1, <2>1, <2>4 DEF CountInv, Unready
  <2>6. PlaceInv'
    BY <1>1, <2>1 DEF PlaceInv, Busy, Activating
  <2> QED
    BY <1>1, <2>3, <2>5, <2>6, SameVisitsKeepReplay
<1> QED
  BY <1>1, <1>3, <1>4

(* The scan takes a task out of the queue. *)
LEMMA TakeKeepsReplay ==
  ASSUME TypeOK, QueueInv, PlaceInv, CountInv, SignalInv, BlockedInv, TakesTask
  PROVE  /\ (PlaceInv /\ CountInv /\ SignalInv /\ BlockedInv)'
         /\ \A t \in Task : Waiting(t)' <=> Waiting(t)
<1>1. PICK n \in DOMAIN submissionQueue :
        /\ task' = submissionQueue[n]
        /\ submissionQueue' = RemoveAt(submissionQueue, n)
        /\ schedPc = "scan" /\ schedPc' = "put"
        /\ UNCHANGED <<trace, taskReadySignal, taskCounter, i, pc, msg, succ>>
  <2>1. PICK n \in Eligible : /\ task' = submissionQueue[n]
                             /\ submissionQueue' = RemoveAt(submissionQueue, n)
                             /\ schedPc' = "put"
    BY DEF TakesTask, ScanWorker
  <2>2. submissionQueue # <<>> /\ submissionQueue \in Seq(Task)
    BY DEF TakesTask, ScanWorker, QueueInv, TypeOK
  <2>3. n \in DOMAIN submissionQueue
    BY <2>2 DEF Eligible
  <2> QED
    BY <2>1, <2>3 DEF TakesTask, ScanWorker, workerVars
<1> DEFINE q == submissionQueue
<1>2. /\ q \in Seq(Task) /\ DOMAIN q = 1 .. Len(q) /\ Len(q) \in Nat
      /\ Len(q') = Len(q) - 1 /\ DOMAIN q' = 1 .. (Len(q) - 1)
      /\ \A m \in DOMAIN q' : q'[m] = IF m < n THEN q[m] ELSE q[m + 1]
  BY <1>1, RemoveAtEntries DEF TypeOK
<1>3. \A m \in DOMAIN q' : \E r \in DOMAIN q \ {n} : q'[m] = q[r]
  <2>1. ASSUME NEW m \in DOMAIN q' PROVE \E r \in DOMAIN q \ {n} : q'[m] = q[r]
    <3>1. CASE m < n
      BY <1>2, <2>1, <3>1
    <3>2. CASE m >= n
      <4>1. m + 1 \in DOMAIN q \ {n} /\ q'[m] = q[m + 1]
        BY <1>2, <2>1, <3>2
      <4> QED
        BY <4>1
    <3> QED
      BY <1>2, <2>1, <3>1, <3>2
  <2> QED
    BY <2>1
<1>4. \A r \in DOMAIN q \ {n} : \E m \in DOMAIN q' : q'[m] = q[r]
  <2>1. ASSUME NEW r \in DOMAIN q \ {n} PROVE \E m \in DOMAIN q' : q'[m] = q[r]
    <3>1. CASE r < n
      BY <1>2, <2>1, <3>1
    <3>2. CASE r > n
      <4>1. r - 1 \in DOMAIN q' /\ q'[r - 1] = q[r]
        BY <1>2, <2>1, <3>2
      <4> QED
        BY <4>1
    <3> QED
      BY <1>2, <2>1, <3>1, <3>2
  <2> QED
    BY <2>1
<1>5. \A m, r \in DOMAIN q' : q'[m] = q'[r] => m = r
  BY <1>2 DEF PlaceInv
<1> HIDE DEF q
<1>6. \A t \in Task : Waiting(t)' <=> Waiting(t)
  BY <1>1, <1>3, <1>4 DEF Waiting, q
<1>7. PlaceInv'
  <2>1. /\ taskReadySignal'[task'] <= 0
        /\ \A m \in DOMAIN q' : q'[m] # task' /\ taskReadySignal'[q'[m]] <= 0
    BY <1>1, <1>3 DEF PlaceInv, q
  <2>2. \A w \in Worker : Busy(w)' => ~Waiting(msg[w])'
    BY <1>1, <1>6 DEF PlaceInv, Busy, Activating, TypeOK
  <2> QED
    BY <1>1, <1>5, <2>1, <2>2 DEF PlaceInv, Busy, Activating, q
<1>8. CountInv'
  <2>1. Unseen' = Unseen /\ Unready' = Unready
    BY <1>1 DEF Unseen, Unready
  <2>2. Cardinality(Unseen) \in Nat /\ Cardinality(Unready) \in Nat
    BY TasksAreFinite DEF Unseen, Unready
  <2> QED
    BY <1>1, <1>2, <2>1, <2>2 DEF CountInv, q
<1> QED
  BY <1>1, <1>6, <1>7, <1>8, SameVisitsKeepReplay

(* put() and get() meet: a worker has the task. *)
LEMMA DeliverKeepsReplay ==
  ASSUME TypeOK, ReadyInv, ScanInv, SuccInv, PlaceInv, CountInv, SignalInv, BlockedInv,
         NEW w \in Worker, DeliverTask(w)
  PROVE  (PlaceInv /\ CountInv /\ SignalInv /\ BlockedInv)'
<1>1. /\ schedPc = "put" /\ schedPc' \in {"wait", "scan"}
      /\ pc[w] = "get" /\ pc' = [pc EXCEPT ![w] = "run"] /\ msg' = [msg EXCEPT ![w] = task]
      /\ taskCounter' = taskCounter - 1 /\ task \in Task
      /\ UNCHANGED <<trace, taskReadySignal, submissionQueue, i, task, succ>>
  BY DEF DeliverTask, TypeOK
<1>2. /\ pc'[w] = "run" /\ msg'[w] = task
      /\ \A v \in Worker \ {w} : pc'[v] = pc[v] /\ msg'[v] = msg[v]
  BY <1>1 DEF TypeOK
<1>3. Waiting(task) /\ ~Waiting(task)'
  <2>1. /\ taskReadySignal[task] <= 0 /\ taskReadySignal[task] \in Int
        /\ \A n \in DOMAIN submissionQueue : submissionQueue[n] # task
    BY <1>1 DEF PlaceInv, TypeOK
  <2>2. ~(taskReadySignal[task] > 0)
    BY <2>1
  <2> QED
    BY <1>1, <2>1, <2>2 DEF Waiting
<1>4. \A t \in Task \ {task} : Waiting(t)' <=> Waiting(t)
  BY <1>1 DEF Waiting
<1>5. \A v \in Worker \ {w} : Busy(v)' <=> Busy(v)
  BY <1>2 DEF Busy, Activating
<1>6. PlaceInv'
  <2>1. \A v \in Worker \ {w} : Busy(v) => msg[v] # task /\ ~Waiting(msg[v])
    BY <1>3 DEF PlaceInv
  <2>2. \A v \in Worker : Busy(v)' => ~Waiting(msg[v])'
    <3>1. ~Waiting(msg[w])'
      BY <1>1, <1>2, <1>3 DEF Waiting
    <3>2. ASSUME NEW v \in Worker \ {w}, Busy(v)' PROVE ~Waiting(msg[v])'
      <4>1. msg[v] \in Task \ {task} /\ ~Waiting(msg[v]) /\ msg'[v] = msg[v]
        BY <1>2, <1>5, <2>1, <3>2 DEF TypeOK
      <4> QED
        BY <1>1, <4>1 DEF Waiting
    <3> QED
      BY <3>1, <3>2
  <2>3. \A u, v \in Worker : Busy(u)' /\ Busy(v)' /\ msg'[u] = msg'[v] => u = v
    BY <1>2, <1>5, <2>1 DEF PlaceInv
  <2> QED
    BY <1>1, <2>2, <2>3 DEF PlaceInv
<1>7. CountInv'
  <2>1. Unseen' = Unseen /\ Unready' = Unready
    BY <1>1 DEF Unseen, Unready
  <2>2. /\ Cardinality(Unseen) \in Nat /\ Cardinality(Unready) \in Nat
        /\ Len(submissionQueue) \in Nat
    BY TasksAreFinite, LenProperties DEF Unseen, Unready, TypeOK
  <2> QED
    BY <1>1, <2>1, <2>2 DEF CountInv, TypeOK
<1>8. \A t \in Task : Pending(t)' = Pending(t)
  <2>1. succ[w] = {}
    BY <1>1 DEF SuccInv
  <2>2. ASSUME NEW u \in Task, NEW e PROVE Visited(u, e)' <=> Visited(u, e)
    <3>1. CASE u = task
      BY <1>2, <1>3, <3>1 DEF Visited
    <3>2. CASE u # task
      BY <1>1, <1>2, <1>4, <2>1, <3>2 DEF Visited
    <3> QED
      BY <3>1, <3>2
  <2> QED
    BY <1>1, <2>2, PendingKept
<1>9. SignalInv'
  BY <1>1, <1>8 DEF SignalInv, UniqueJobIds
<1>10. BlockedInv'
  BY <1>1 DEF BlockedInv, UniqueJobIds, Blocked, Dependance, Unready
<1> QED
  BY <1>6, <1>7, <1>9, <1>10

(* The task has been executed, and its worker looks up its successors. *)
LEMMA RunKeepsReplay ==
  ASSUME TypeOK, SuccInv, PlaceInv, CountInv, SignalInv, BlockedInv,
         NEW w \in Worker, RunTask(w)
  PROVE  (PlaceInv /\ CountInv /\ SignalInv /\ BlockedInv)'
<1> DEFINE found == Successors(trace, trace.jobId[msg[w]])
<1>1. /\ pc[w] = "run" /\ succ' = [succ EXCEPT ![w] = found]
      /\ pc' = [pc EXCEPT ![w] = NextSuccessor(succ'[w])]
      /\ UNCHANGED <<trace, taskReadySignal, submissionQueue, schedPc, i, task, taskCounter, msg>>
  BY DEF RunTask, schedVars
<1> HIDE DEF found
<1>2. /\ pc'[w] \in {"lockReady", "lockSuccessor"} /\ succ'[w] = found
      /\ \A v \in Worker \ {w} : pc'[v] = pc[v] /\ succ'[v] = succ[v]
  BY <1>1 DEF TypeOK, NextSuccessor
<1>3. \A t \in Task : Waiting(t)' <=> Waiting(t)
  BY <1>1 DEF Waiting
<1>4. \A v \in Worker : Busy(v)' <=> Busy(v)
  BY <1>1, <1>2 DEF Busy, Activating
<1>5. PlaceInv'
  BY <1>1, <1>3, <1>4 DEF PlaceInv, TypeOK
<1>6. CountInv'
  BY <1>1 DEF CountInv, Unseen, Unready
<1>7. ASSUME NEW t \in Task PROVE Pending(t)' = Pending(t)
  <2>1. ASSUME NEW u \in Task, NEW e \in Listed(t), trace.jobId[u] = JobOf(e)
        PROVE  Visited(u, e)' <=> Visited(u, e)
    <3>1. CASE u = msg[w]
      <4>1. e \in found
        BY <2>1, <3>1, ListedAreEdges DEF found, Successors, JobOf
      <4>2. ~Visited(u, e) /\ ~Visited(u, e)'
        BY <1>1, <1>2, <3>1, <4>1 DEF Visited
      <4> QED
        BY <4>2
    <3>2. CASE u # msg[w]
      BY <1>1, <1>2, <1>3, <3>2 DEF Visited
    <3> QED
      BY <3>1, <3>2
  <2> QED
    BY <1>1, <2>1, PendingKept
<1>8. SignalInv'
  BY <1>1, <1>7 DEF SignalInv, UniqueJobIds
<1>9. BlockedInv'
  <2>1. Unready' = Unready
    BY <1>1 DEF Unready
  <2> QED
    BY <1>1, <2>1 DEF BlockedInv
<1> QED
  BY <1>5, <1>6, <1>8, <1>9

(***************************************************************************)
(* A worker visits one entry of its task.                                  *)
(***************************************************************************)
Visits(w, e) ==
  /\ pc[w] = "activate" /\ pc' = [pc EXCEPT ![w] = "unlockSuccessor"]
  /\ e \in succ[w] /\ succ' = [succ EXCEPT ![w] = @ \ {e}]
  /\ taskReadySignal' = [taskReadySignal EXCEPT ![e[1]] = @ - 1]
  /\ IF taskReadySignal[e[1]] = 1
     THEN submissionQueue' = Append(submissionQueue, e[1])
     ELSE submissionQueue' = submissionQueue
  /\ schedPc' = "put" <=> schedPc = "put"
  /\ schedPc # "master" /\ schedPc' # "master"
  /\ UNCHANGED <<trace, i, task, taskCounter, msg>>
  /\ e \in Edges(trace) /\ e[1] \in Task /\ e \in Listed(e[1])
  /\ trace.jobId[msg[w]] = JobOf(e) /\ msg[w] \in Task

LEMMA ActivateVisits ==
  ASSUME TypeOK, PhaseInv, SuccInv, NEW w \in Worker, ActivateSuccessor(w)
  PROVE  \E e : Visits(w, e)
<1>1. PICK e \in succ[w] :
        /\ succ' = [succ EXCEPT ![w] = @ \ {e}]
        /\ taskReadySignal' = [taskReadySignal EXCEPT ![e[1]] = @ - 1]
        /\ IF Satisfied(taskReadySignal'[e[1]])
           THEN submissionQueue' = Append(submissionQueue, e[1]) /\ NotifyTaskReady
           ELSE UNCHANGED <<submissionQueue, schedPc>>
  BY DEF ActivateSuccessor
<1>2. e \in Edges(trace) /\ e[1] \in Task /\ e \in Listed(e[1])
  BY EntryOfTask DEF TypeOK
<1>3. trace.jobId[msg[w]] = JobOf(e) /\ msg[w] \in Task
  BY DEF ActivateSuccessor, SuccInv, Successors, JobOf, TypeOK
<1>4. Satisfied(taskReadySignal'[e[1]]) <=> taskReadySignal[e[1]] = 1
  BY <1>1, <1>2 DEF Satisfied, TypeOK
<1>5. /\ schedPc # "master" /\ schedPc' # "master"
      /\ schedPc' = "put" <=> schedPc = "put"
  BY <1>1 DEF NotifyTaskReady, PhaseInv, ActivateSuccessor
<1>6. Visits(w, e)
  BY <1>1, <1>2, <1>3, <1>4, <1>5 DEF Visits, ActivateSuccessor
<1> QED
  BY <1>6

LEMMA VisitKeepsReplay ==
  ASSUME TypeOK, SuccInv, PlaceInv, CountInv, SignalInv, BlockedInv,
         NEW w \in Worker, NEW e, Visits(w, e)
  PROVE  /\ (PlaceInv /\ CountInv /\ SignalInv /\ BlockedInv)'
         /\ \A t \in Task : Waiting(t)' <=> Waiting(t)
<1> DEFINE t == e[1]
<1>0. PICK u \in Task : u = msg[w]
  BY DEF Visits
<1>1. /\ t \in Task /\ e \in Listed(t) /\ u \in Task /\ trace.jobId[u] = JobOf(e)
      /\ trace' = trace /\ trace \in TraceType /\ submissionQueue \in Seq(Task)
      /\ \A x \in Task : taskReadySignal[x] \in Int
      /\ taskReadySignal'[t] = taskReadySignal[t] - 1
      /\ \A x \in Task \ {t} : taskReadySignal'[x] = taskReadySignal[x]
  BY <1>0 DEF Visits, TypeOK
<1>2. /\ pc[w] = "activate" /\ pc'[w] = "unlockSuccessor"
      /\ \A v \in Worker \ {w} : pc'[v] = pc[v] /\ succ'[v] = succ[v]
      /\ e \in succ[w] /\ succ'[w] = succ[w] \ {e}
  BY DEF Visits, TypeOK
<1>3. /\ schedPc' = "put" <=> schedPc = "put"
      /\ schedPc # "master" /\ schedPc' # "master"
      /\ UNCHANGED <<i, task, taskCounter, msg>>
  BY DEF Visits
<1>4. IF taskReadySignal[t] = 1
      THEN submissionQueue' = Append(submissionQueue, t)
      ELSE submissionQueue' = submissionQueue
  BY DEF Visits
<1> HIDE DEF t
<1>5. \A v \in Worker : Busy(v)' <=> Busy(v)
  BY <1>2 DEF Busy, Activating
<1>6. ASSUME taskReadySignal[t] = 1
      PROVE  PlaceInv' /\ \A x \in Task : Waiting(x)' <=> Waiting(x)
  <2>1. /\ submissionQueue' = Append(submissionQueue, t)
        /\ DOMAIN submissionQueue = 1 .. Len(submissionQueue) /\ Len(submissionQueue) \in Nat
        /\ DOMAIN submissionQueue' = 1 .. (Len(submissionQueue) + 1)
        /\ Len(submissionQueue') = Len(submissionQueue) + 1
        /\ \A n \in DOMAIN submissionQueue' :
             submissionQueue'[n] = IF n = Len(submissionQueue) + 1 THEN t
                                   ELSE submissionQueue[n]
    BY <1>1, <1>4, <1>6
  <2>2. \A x \in Task : Waiting(x)' <=> Waiting(x)
    <3>1. \A x \in Task : (\E n \in DOMAIN submissionQueue' : submissionQueue'[n] = x)
            <=> x = t \/ \E n \in DOMAIN submissionQueue : submissionQueue[n] = x
      BY <2>1
    <3>2. Waiting(t) /\ Waiting(t)'
      BY <1>1, <1>6, <3>1 DEF Waiting
    <3>3. \A x \in Task \ {t} : Waiting(x)' <=> Waiting(x)
      BY <1>1, <1>3, <3>1 DEF Waiting
    <3> QED
      BY <3>2, <3>3
  <2>5. \A n \in DOMAIN submissionQueue : submissionQueue[n] # t
    BY <1>1, <1>6 DEF PlaceInv
  <2>6. PlaceInv'
    <3>1. \A m, n \in DOMAIN submissionQueue' :
            submissionQueue'[m] = submissionQueue'[n] => m = n
      BY <2>1, <2>5 DEF PlaceInv
    <3>2. schedPc = "put" => task # t /\ taskReadySignal[task] <= 0 /\ task \in Task
      BY <1>1, <1>6 DEF PlaceInv, TypeOK
    <3>3. \A n \in DOMAIN submissionQueue' :
            /\ taskReadySignal'[submissionQueue'[n]] <= 0
            /\ schedPc = "put" => submissionQueue'[n] # task
      BY <1>1, <1>6, <2>1, <2>5, <3>2 DEF PlaceInv
    <3>4. \A v \in Worker : Busy(v)' => ~Waiting(msg[v])'
      BY <1>3, <1>5, <2>2 DEF PlaceInv, TypeOK
    <3> QED
      BY <1>1, <1>3, <1>5, <3>1, <3>2, <3>3, <3>4 DEF PlaceInv
  <2> QED
    BY <2>2, <2>6
<1>7. ASSUME taskReadySignal[t] # 1
      PROVE  PlaceInv' /\ \A x \in Task : Waiting(x)' <=> Waiting(x)
  <2>1. submissionQueue' = submissionQueue
    BY <1>4, <1>7
  <2>2. \A x \in Task : taskReadySignal'[x] > 0 <=> taskReadySignal[x] > 0
    BY <1>1, <1>7
  <2>3. \A x \in Task : Waiting(x)' <=> Waiting(x)
    BY <1>3, <2>1, <2>2 DEF Waiting
  <2>5. PlaceInv'
    <3>1. \A x \in Task : taskReadySignal[x] <= 0 => taskReadySignal'[x] <= 0
      BY <1>1
    <3>2. \A v \in Worker : Busy(v)' => ~Waiting(msg[v])'
      BY <1>3, <1>5, <2>3 DEF PlaceInv, TypeOK
    <3> QED
      BY <1>1, <1>3, <1>5, <2>1, <3>1, <3>2 DEF PlaceInv, TypeOK
  <2> QED
    BY <2>3, <2>5
<1>8. PlaceInv' /\ (\A x \in Task : Waiting(x)' <=> Waiting(x))
  BY <1>6, <1>7
<1>9. CountInv'
  <2>1. Unseen = {} /\ Unseen' = {}
    BY <1>3 DEF Unseen
  <2>2. Len(submissionQueue) \in Nat
    BY <1>1, LenProperties
  <2>3. /\ Len(submissionQueue') + Cardinality(Unready') = Len(submissionQueue) + Cardinality(Unready)
        /\ Len(submissionQueue') \in Nat /\ Cardinality(Unready') \in Nat
    <3>1. CASE taskReadySignal[t] = 1
      <4>1. Unready' = Unready \ {t} /\ t \in Unready
        BY <1>1, <3>1 DEF Unready
      <4>2. Cardinality(Unready') = Cardinality(Unready) - 1 /\ Cardinality(Unready') \in Nat
        BY <4>1, UnreadyIsFinite, FS_RemoveElement, FS_CardinalityType
      <4>3. Len(submissionQueue') = Len(submissionQueue) + 1
        BY <1>1, <1>4, <3>1, AppendProperties
      <4> QED
        BY <2>2, <4>2, <4>3, UnreadyIsFinite
    <3>2. CASE taskReadySignal[t] # 1
      <4>1. Unready' = Unready /\ submissionQueue' = submissionQueue
        BY <1>1, <1>4, <3>2 DEF Unready
      <4> QED
        BY <2>2, <4>1, UnreadyIsFinite
    <3> QED
      BY <3>1, <3>2
  <2> QED
    BY <1>3, <2>1, <2>2, <2>3, UnreadyIsFinite, FS_EmptySet DEF CountInv, TypeOK
<1>10. ASSUME NEW x \in Task, NEW f, f # e
       PROVE  Visited(x, f)' <=> Visited(x, f)
  <2>1. \A v \in Worker : pc[v] = "run" <=> pc'[v] = "run"
    BY <1>2
  <2>2. \A v \in Worker : f \in succ'[v] <=> f \in succ[v]
    BY <1>2, <1>10
  <2> QED
    BY <1>3, <1>8, <2>1, <2>2 DEF Visited
<1>11. Visited(u, e)' /\ ~Visited(u, e)
  <2>1. ~Visited(u, e)
    BY <1>0, <1>2 DEF Visited
  <2>2. Busy(w) /\ ~Waiting(u)'
    BY <1>0, <1>1, <1>2, <1>3, <1>8 DEF Busy, Activating, PlaceInv
  <2>3. \A v \in Worker \ {w} : msg[v] = u => pc[v] # "run" /\ succ[v] = {}
    BY <1>0, <2>2 DEF PlaceInv, SuccInv, Busy, Activating
  <2>4. Visited(u, e)'
    BY <1>0, <1>2, <1>3, <2>2, <2>3 DEF Visited
  <2> QED
    BY <2>1, <2>4
<1>12. \A x \in Task : Listed(x)' = Listed(x) /\ \A f : JobOf(f)' = JobOf(f)
  BY <1>1 DEF Listed, JobOf
<1>13. Pending(t)' = Pending(t) \ {e}
  <2>1. e \notin Pending(t)'
    BY <1>1, <1>11, <1>12 DEF Pending
  <2>2. \A f \in Listed(t) \ {e} : f \in Pending(t)' <=> f \in Pending(t)
    BY <1>1, <1>10, <1>12 DEF Pending
  <2>3. Pending(t)' \subseteq Listed(t) /\ Pending(t) \subseteq Listed(t)
    BY <1>1, <1>12 DEF Pending
  <2> QED
    BY <2>1, <2>2, <2>3
<1>14. \A x \in Task \ {t} : Pending(x)' = Pending(x)
  <2>1. \A x \in Task \ {t} : e \notin Listed(x)
    BY ListedAreEdges DEF t
  <2> QED
    BY <1>1, <1>10, <2>1, PendingKept
<1>15. \A x \in Task : IsFiniteSet(Pending(x)) /\ Cardinality(Pending(x)) \in Nat
  BY <1>1, ListedIsFinite
<1>16. UniqueJobIds(trace) => e \in Pending(t)
  BY <1>1, <1>11 DEF UniqueJobIds, Pending
<1>17. Cardinality(Pending(t)') = IF e \in Pending(t) THEN Cardinality(Pending(t)) - 1
                                  ELSE Cardinality(Pending(t))
  BY <1>1, <1>13, <1>15, FS_RemoveElement
<1>18. SignalInv'
  <2>1. /\ taskReadySignal'[t] <= Cardinality(Pending(t)')
        /\ UniqueJobIds(trace) => taskReadySignal'[t] = Cardinality(Pending(t)')
    BY <1>1, <1>15, <1>16, <1>17 DEF SignalInv
  <2> QED
    BY <1>1, <1>14, <2>1 DEF SignalInv, UniqueJobIds
<1>19. BlockedInv'
  <2> SUFFICES ASSUME UniqueJobIds(trace), NEW S \in SUBSET Task, Blocked(trace, S)
               PROVE  S \subseteq Unready'
    BY <1>1 DEF BlockedInv
  <2>1. S \subseteq Unready
    BY DEF BlockedInv
  <2>2. ASSUME t \in S PROVE taskReadySignal'[t] > 0
    <3>1. PICK k \in DOMAIN trace.dependsOn[t] :
            \A x \in Task : trace.jobId[x] = Dependance(trace, t)[k] => x \in S
      BY <2>2 DEF Blocked
    <3> DEFINE f == <<t, k>>
    <3>2. f \in Listed(t) /\ JobOf(f) = Dependance(trace, t)[k]
      BY DEF Listed, JobOf
    <3>3. ASSUME NEW x \in Task, trace.jobId[x] = JobOf(f) PROVE ~Visited(x, f)'
      <4>1. Waiting(x)'
        BY <1>8, <2>1, <3>1, <3>2, <3>3 DEF Unready, Waiting
      <4> QED
        BY <4>1 DEF Visited
    <3>4. f \in Pending(t)'
      BY <1>1, <1>12, <3>2, <3>3 DEF Pending
    <3>5. IsFiniteSet(Pending(t)') /\ Cardinality(Pending(t)') \in Nat
      BY <1>1, <1>13, <1>15, FS_RemoveElement, FS_CardinalityType
    <3>6. Cardinality(Pending(t)') # 0
      BY <3>4, <3>5, FS_EmptySet
    <3> QED
      BY <1>1, <1>18, <3>5, <3>6 DEF SignalInv
  <2> QED
    BY <1>1, <2>1, <2>2 DEF Unready
<1> QED
  BY <1>8, <1>9, <1>18, <1>19

-----------------------------------------------------------------------------
LEMMA InitReplayInv == Init => ReplayInv
<1> SUFFICES ASSUME Init PROVE ReplayInv
  OBVIOUS
<1>1. trace \in TraceType /\ nTasks \in Nat \ {0}
  BY GraphAssumption DEF Init
<1>2. \A t \in Task : /\ taskReadySignal[t] = InitialSignal(trace, t)
                      /\ taskReadySignal[t] = Cardinality(Listed(t)) /\ taskReadySignal[t] \in Nat
  BY <1>1, ListedIsFinite DEF Init, InitialSignal, TraceType
<1>3. \A t \in Task : Waiting(t)
  BY <1>1 DEF Waiting, Init, Task
<1>4. \A t \in Task : Pending(t) = Listed(t)
  BY <1>3 DEF Pending, Visited
<1>5. PhaseInv /\ SuccInv /\ PlaceInv
  BY <1>1, <1>2 DEF Init, PhaseInv, SuccInv, PlaceInv, Busy, Activating
<1>6. CountInv
  <2>1. Unseen = Task \ Unready /\ Unready \subseteq Task
    BY <1>1, <1>2 DEF Unseen, Unready, Init, Task
  <2>2. Cardinality(Task \ Unready) = Cardinality(Task) - Cardinality(Task \cap Unready)
    BY TasksAreFinite, FS_Difference
  <2>3. Task \cap Unready = Unready
    BY <2>1
  <2>4. Cardinality(Unseen) = nTasks - Cardinality(Unready) /\ Cardinality(Unready) \in Nat
    BY <2>1, <2>2, <2>3, TasksAreFinite, UnreadyIsFinite
  <2>5. /\ taskCounter = nTasks /\ schedPc = "master"
        /\ submissionQueue = <<>> /\ Len(submissionQueue) = 0
    BY DEF Init
  <2> QED
    BY <1>1, <2>4, <2>5 DEF CountInv
<1>7. SignalInv
  BY <1>2, <1>4 DEF SignalInv
<1>8. BlockedInv
  <2> SUFFICES ASSUME NEW S \in SUBSET Task, Blocked(trace, S), NEW t \in S
               PROVE  taskReadySignal[t] > 0
    BY DEF BlockedInv, Unready
  <2>1. PICK k \in DOMAIN trace.dependsOn[t] : TRUE
    BY DEF Blocked
  <2>2. Len(trace.dependsOn[t]) > 0
    BY <1>1, <2>1 DEF TraceType
  <2> QED
    BY <1>2, <2>2 DEF InitialSignal
<1> QED
  BY <1>5, <1>6, <1>7, <1>8 DEF ReplayInv

(* What each step does to the tasks: nothing, or it starts one, or it is   *)
(* the end of one.                                                         *)
LEMMA NextReplayInv ==
  ASSUME SchedulerIInv, [Next]_vars
  PROVE  /\ SchedulerIInv'
         /\ \/ \E w \in Worker : DeliverTask(w) \/ RunTask(w)
            \/ /\ UNCHANGED <<trace, msg>>
               /\ \A t \in Task : Waiting(t)' <=> Waiting(t)
               /\ \A w \in Worker : pc[w] = "run" <=> pc'[w] = "run"
<1> DEFINE Kept == /\ UNCHANGED <<trace, msg>>
                   /\ \A t \in Task : Waiting(t)' <=> Waiting(t)
                   /\ \A w \in Worker : pc[w] = "run" <=> pc'[w] = "run"
           Inv  == PlaceInv /\ CountInv /\ SignalInv /\ BlockedInv
<1>1. /\ TypeOK /\ QueueInv /\ MutexInv /\ KillInv /\ ReadyInv /\ ScanInv
      /\ PhaseInv /\ SuccInv /\ PlaceInv /\ CountInv /\ SignalInv /\ BlockedInv
  BY DEF SchedulerIInv, ProtocolIInv, ReplayInv
<1>2. ProtocolIInv' /\ PhaseInv' /\ SuccInv'
  BY <1>1, NextProtocolIInv, NextPhaseInv, NextSuccInv DEF SchedulerIInv
<1>3. ASSUME PushFirstTasks PROVE Inv' /\ Kept
  BY <1>1, <1>3, PushKeepsReplay DEF PushFirstTasks, workerVars
<1>4. ASSUME TakesTask PROVE Inv' /\ Kept
  BY <1>1, <1>4, TakeKeepsReplay DEF TakesTask, ScanWorker, workerVars
<1>5. ASSUME NEW w \in Worker, DeliverTask(w) PROVE Inv'
  BY <1>1, <1>5, DeliverKeepsReplay
<1>6. ASSUME NEW w \in Worker, RunTask(w) PROVE Inv'
  BY <1>1, <1>6, RunKeepsReplay
<1>7. ASSUME NEW w \in Worker, ActivateSuccessor(w) PROVE Inv' /\ Kept
  <2>1. PICK e : Visits(w, e)
    BY <1>1, <1>7, ActivateVisits
  <2>2. \A v \in Worker : pc[v] = "run" <=> pc'[v] = "run"
    BY <1>1, <2>1 DEF Visits, TypeOK
  <2>3. UNCHANGED <<trace, msg>>
    BY <2>1 DEF Visits
  <2> QED
    BY <1>1, <2>1, <2>2, <2>3, VisitKeepsReplay
<1>8. ASSUME Quiet PROVE Inv' /\ Kept
  BY <1>1, <1>8, QuietKeepsReplay DEF Quiet
<1>9. \/ PushFirstTasks \/ TakesTask \/ Quiet
      \/ \E w \in Worker : DeliverTask(w) \/ RunTask(w) \/ ActivateSuccessor(w)
  BY <1>1, OtherStepsAreQuiet
<1>10. Inv' /\ (Kept \/ \E w \in Worker : DeliverTask(w) \/ RunTask(w))
  BY <1>3, <1>4, <1>5, <1>6, <1>7, <1>8, <1>9
<1> QED
  BY <1>2, <1>10 DEF SchedulerIInv, ReplayInv

(***************************************************************************)
(* The inductive invariant holds of every state the scheduler and its      *)
(* workers reach: the mutex is owned as the program points say, workerState*)
(* is exact outside its sections, every task is in one place, the signals  *)
(* count the entries of successorsMap still to be visited, and taskCounter *)
(* the tasks still to be sent.                                             *)
(***************************************************************************)
THEOREM SchedulerInvariant == Spec => []SchedulerIInv
<1>1. Init => SchedulerIInv
  BY InitProtocolIInv, InitReplayInv DEF SchedulerIInv
<1>2. SchedulerIInv /\ [Next]_vars => SchedulerIInv'
  BY NextReplayInv
<1> QED
  BY <1>1, <1>2, PTL DEF Spec

(***************************************************************************)
(* The counter of scheduler.hpp:34,103 forgets no task, for any trace,     *)
(* cyclic ones and those with repeated JobIds included.                    *)
(***************************************************************************)
THEOREM CounterForgetsNoTask == Spec => []CounterAccounts
<1>1. SchedulerIInv => CounterAccounts
  <2> SUFFICES ASSUME SchedulerIInv, schedPc # "master" PROVE CounterAccounts
    BY DEF CounterAccounts
  <2>1. Unseen = {} /\ Len(submissionQueue) \in Nat
    BY LenProperties DEF Unseen, SchedulerIInv, ProtocolIInv, TypeOK
  <2> QED
    BY <2>1, UnreadyIsFinite, FS_EmptySet
    DEF SchedulerIInv, ReplayInv, CountInv, CounterAccounts, Unready
<1> QED
  BY SchedulerInvariant, <1>1, PTL

(* When the counter is 0, no task waits for anything. *)
LEMMA NobodyWaits ==
  ASSUME SchedulerIInv, taskCounter = 0, schedPc # "master"
  PROVE  /\ submissionQueue = <<>> /\ schedPc # "put" /\ Unready = {}
         /\ \A t \in Task : ~Waiting(t)
<1>1. /\ submissionQueue \in Seq(Task) /\ Len(submissionQueue) \in Nat
      /\ Cardinality(Unready) \in Nat /\ Cardinality(Unseen) \in Nat
  BY LenProperties, UnreadyIsFinite, TasksAreFinite
  DEF SchedulerIInv, ProtocolIInv, TypeOK, Unseen
<1>2. /\ Len(submissionQueue) = 0 /\ Cardinality(Unready) = 0 /\ schedPc # "put"
  BY <1>1 DEF SchedulerIInv, ReplayInv, CountInv
<1>3. submissionQueue = <<>> /\ Unready = {}
  BY <1>1, <1>2, UnreadyIsFinite, FS_EmptySet, EmptySeq
<1> QED
  BY <1>2, <1>3 DEF Waiting, Unready

(***************************************************************************)
(* The end task (scheduler.hpp:135-141) reaches a worker only when every   *)
(* task has been sent, and when the simulation ends all are executed.      *)
(***************************************************************************)
THEOREM EndTasksComeLast == Spec => []EndComesLast
<1>1. SchedulerIInv => EndComesLast
  <2> SUFFICES ASSUME SchedulerIInv PROVE EndComesLast
    OBVIOUS
  <2>1. ASSUME schedPc \in {"kill", "join", "done"} PROVE \A t \in Task : ~Waiting(t)
    BY <2>1, NobodyWaits DEF SchedulerIInv, ReplayInv, PhaseInv
  <2>2. ASSUME NEW w \in Worker, pc[w] \in {"end", "exited"}
        PROVE  schedPc \in {"kill", "join", "done"}
    BY <2>2 DEF SchedulerIInv, ReplayInv, PhaseInv
  <2>3. schedPc = "done" => \A t \in Task : ~Executing(t)
    BY DEF SchedulerIInv, ProtocolIInv, KillInv, Executing
  <2> QED
    BY <2>1, <2>2, <2>3 DEF EndComesLast, statusOf
<1> QED
  BY SchedulerInvariant, <1>1, PTL

(* The trace is the one the simulation was started on. *)
LEMMA TraceIsFixed == [Next]_vars => trace' = trace
  BY DEF Next, SchedulerStep, WorkerStep, Terminated, vars, PushFirstTasks, OuterLoop,
         InnerLoop, LockDispatch, ScanWorker, ScanEnd, DeliverTask, WaitWorkerReady,
         WakeWorkerReady, UnlockDispatch, LockCheck, CheckQueue, UnlockCheck, DeliverEnd,
         Join, KillAll, RunTask, LockSuccessor, ActivateSuccessor, UnlockSuccessor,
         LockReady, SignalReady, UnlockReady, ExitWorker

(***************************************************************************)
(* If all dependencies of a trace can be satisfied, the scheduler sleeps   *)
(* on condVarTaskReady (scheduler.hpp:125) only while a worker will submit *)
(* a task: otherwise the tasks that are left would wait for each other.    *)
(***************************************************************************)
THEOREM TaskWakeupIsNeverLost == Spec => [](Completable(trace) => NoLostTaskWakeup)
<1>1. SchedulerIInv /\ Completable(trace) => NoLostTaskWakeup
  <2> SUFFICES ASSUME SchedulerIInv, Completable(trace), schedPc = "waitTaskReady"
               PROVE  /\ submissionQueue = <<>> /\ taskCounter > 0
                      /\ \E w \in Worker : Busy(w)
    BY DEF NoLostTaskWakeup
  <2>1. submissionQueue = <<>> /\ Len(submissionQueue) = 0
    BY EmptySeq DEF SchedulerIInv, ProtocolIInv, ScanInv
  <2>2. Unseen = {} /\ taskCounter # 0
    BY DEF SchedulerIInv, ReplayInv, PhaseInv, Unseen
  <2>3. taskCounter = Cardinality(Unready) /\ Cardinality(Unready) \in Nat
    BY <2>1, <2>2, UnreadyIsFinite, FS_EmptySet DEF SchedulerIInv, ReplayInv, CountInv
  <2>4. Unready # {} /\ Unready \subseteq Task
    BY <2>2, <2>3, FS_EmptySet DEF Unready
  <2>5. ASSUME \A w \in Worker : ~Busy(w) PROVE Blocked(trace, Unready)
    <3> SUFFICES ASSUME NEW t \in Unready
                 PROVE  \E k \in DOMAIN trace.dependsOn[t] : \A u \in Task :
                          trace.jobId[u] = Dependance(trace, t)[k] => u \in Unready
      BY DEF Blocked
    <3>1. t \in Task /\ taskReadySignal[t] > 0 /\ taskReadySignal[t] \in Int
      BY DEF Unready, SchedulerIInv, ProtocolIInv, TypeOK
    <3>2. IsFiniteSet(Pending(t)) /\ Cardinality(Pending(t)) \in Nat
      BY <3>1, ListedIsFinite DEF SchedulerIInv, ProtocolIInv, TypeOK
    <3>3. Pending(t) # {}
      BY <3>1, <3>2, FS_EmptySet DEF SchedulerIInv, ReplayInv, SignalInv
    <3>4. PICK e \in Listed(t) :
            \A u \in Task : trace.jobId[u] = JobOf(e) => ~Visited(u, e)
      BY <3>3 DEF Pending
    <3>5. e[1] = t /\ e[2] \in DOMAIN trace.dependsOn[t]
      BY <3>1, ListedAreEdges
    <3>6. \A w \in Worker : pc[w] # "run" /\ succ[w] = {}
      BY <2>5 DEF Busy, Activating, SchedulerIInv, ReplayInv, SuccInv
    <3>7. \A u \in Task : ~Visited(u, e) => u \in Unready
      BY <2>1, <3>6 DEF Visited, Waiting, Unready
    <3> QED
      BY <3>4, <3>5, <3>7 DEF JobOf
  <2> QED
    BY <2>1, <2>2, <2>3, <2>4, <2>5 DEF Completable
<1> QED
  BY <1>1, SchedulerInvariant, PTL

(***************************************************************************)
(* With a cycle, or a dependency on a JobId no record has, the kill loop   *)
(* (scheduler.hpp:130) is never reached: the tasks of a set that waits for *)
(* itself never leave it.                                                  *)
(***************************************************************************)
THEOREM OnlyCompletableTracesEnd ==
  Spec => [](UniqueJobIds(trace) => OnlyCompletableFinishes)
<1>1. SchedulerIInv /\ UniqueJobIds(trace) => OnlyCompletableFinishes
  <2> SUFFICES ASSUME SchedulerIInv, UniqueJobIds(trace), schedPc \in {"kill", "join", "done"}
               PROVE  Completable(trace)
    BY DEF OnlyCompletableFinishes
  <2>1. Unready = {}
    BY NobodyWaits DEF SchedulerIInv, ReplayInv, PhaseInv
  <2> QED
    BY <2>1 DEF SchedulerIInv, ReplayInv, BlockedInv, Completable
<1> QED
  BY <1>1, SchedulerInvariant, PTL

-----------------------------------------------------------------------------
(***************************************************************************)
(* The refinement of TaskExecution.                                        *)
(***************************************************************************)
LEMMA InitRefines == Init => TaskExec!AbsInit
<1> SUFFICES ASSUME Init PROVE TaskExec!AbsInit
  OBVIOUS
<1>1. \A t \in Task : Waiting(t)
  BY GraphAssumption DEF Waiting, Init, Task
<1>2. trace \in Traces /\ TaskExec!Task = Task
  BY DEF Init, TaskExec!Task, Task
<1> QED
  BY <1>1, <1>2 DEF TaskExec!AbsInit, statusOf

(* The instance counts with an operator of its own, defined as the other. *)
LEMMA SameCardinality ==
  ASSUME NEW S
  PROVE  TaskExec!Cardinality(S) = Cardinality(S)
BY Zenon DEF TaskExec!Cardinality, Cardinality

(* The workers that execute tasks are as many as the tasks they execute. *)
LEMMA FewerThanWorkers ==
  ASSUME SchedulerIInv, NEW w \in Worker, pc[w] # "run"
  PROVE  Cardinality(TaskExec!Running) < nMachines
<1> DEFINE R == TaskExec!Running
           W == {v \in Worker : pc[v] = "run" /\ msg[v] \in R}
           f == [v \in W |-> msg[v]]
<1>1. \A t \in R : Executing(t)
  BY DEF TaskExec!Running, statusOf, TaskExec!Task, Task
<1>2. f \in Surjection(W, R)
  <2>1. f \in [W -> R]
    OBVIOUS
  <2>2. \A t \in R : \E v \in W : f[v] = t
    BY <1>1 DEF Executing
  <2> QED
    BY <2>1, <2>2 DEF Surjection
<1>3. /\ IsFiniteSet(Worker) /\ Cardinality(Worker) = nMachines
      /\ IsFiniteSet(Worker \ {w}) /\ Cardinality(Worker \ {w}) = nMachines - 1
  <2>1. /\ Worker = 1 .. nMachines /\ nMachines \in Nat /\ 1 \in Int /\ nMachines \in Int
        /\ nMachines >= 1
    BY MachinesAssumption DEF Worker
  <2>2. IsFiniteSet(1 .. nMachines) /\ Cardinality(1 .. nMachines) = nMachines
    <3>1. Cardinality(1 .. nMachines) = IF 1 > nMachines THEN 0 ELSE nMachines - 1 + 1
      BY <2>1, FS_Interval
    <3> QED
      BY <2>1, <3>1, FS_Interval
  <2>3. IsFiniteSet(Worker \ {w}) /\ Cardinality(Worker \ {w}) = Cardinality(Worker) - 1
    BY <2>1, <2>2, FS_RemoveElement
  <2> QED
    BY <2>1, <2>2, <2>3
<1>4. W \subseteq Worker \ {w}
  OBVIOUS
<1>5. IsFiniteSet(W) /\ Cardinality(W) <= nMachines - 1 /\ Cardinality(W) \in Nat
  BY <1>3, <1>4, FS_Subset, FS_CardinalityType
<1>6. Cardinality(R) <= Cardinality(W) /\ IsFiniteSet(R)
  BY <1>2, <1>5, FS_Surjection
<1> QED
  BY <1>5, <1>6, FS_CardinalityType, MachinesAssumption

LEMMA DeliverStarts ==
  ASSUME SchedulerIInv, SchedulerIInv', UniqueJobIds(trace), NEW w \in Worker, DeliverTask(w)
  PROVE  TaskExec!Start(task) /\ task \in Task
<1>1. /\ schedPc = "put" /\ schedPc' \in {"wait", "scan"} /\ pc[w] = "get" /\ task \in Task
      /\ pc'[w] = "run" /\ msg'[w] = task
      /\ \A v \in Worker \ {w} : pc'[v] = pc[v] /\ msg'[v] = msg[v]
      /\ UNCHANGED <<trace, taskReadySignal, submissionQueue, i, task>>
  BY DEF DeliverTask, SchedulerIInv, ProtocolIInv, TypeOK
<1>2. statusOf[task] = "waiting"
  BY <1>1 DEF statusOf, Waiting
<1>3. \A t \in Task \ {task} : statusOf'[t] = statusOf[t]
  <2>1. \A t \in Task \ {task} : (Waiting(t)' <=> Waiting(t)) /\ (Executing(t)' <=> Executing(t))
    BY <1>1 DEF Waiting, Executing
  <2> QED
    BY <2>1 DEF statusOf
<1>4. statusOf'[task] = "running"
  <2>1. Executing(task)'
    BY <1>1 DEF Executing
  <2>2. ~Waiting(msg[w])'
    BY <1>1 DEF SchedulerIInv, ReplayInv, PlaceInv, Busy
  <2>3. ~Waiting(task)'
    BY <1>1, <2>2 DEF Waiting
  <2> QED
    BY <1>1, <2>1, <2>3 DEF statusOf
<1>5. statusOf' = [statusOf EXCEPT ![task] = "running"]
  BY <1>1, <1>3, <1>4 DEF statusOf
<1>6. ASSUME NEW u \in Task, NEW k \in DOMAIN trace.dependsOn[task],
             trace.jobId[u] = Dependance(trace, task)[k]
      PROVE  statusOf[u] = "done"
  <2> DEFINE e == <<task, k>>
  <2>1. e \in Listed(task) /\ JobOf(e) = trace.jobId[u]
    BY <1>6 DEF Listed, JobOf
  <2>2. Cardinality(Pending(task)) \in Nat /\ IsFiniteSet(Pending(task))
    BY <1>1, ListedIsFinite DEF SchedulerIInv, ProtocolIInv, TypeOK
  <2>3. /\ taskReadySignal[task] = Cardinality(Pending(task))
        /\ taskReadySignal[task] <= 0
    BY <1>1 DEF SchedulerIInv, ReplayInv, SignalInv, PlaceInv
  <2>4. Pending(task) = {}
    BY <2>2, <2>3, FS_EmptySet
  <2>5. PICK v \in Task : trace.jobId[v] = JobOf(e) /\ Visited(v, e)
    BY <2>1, <2>4 DEF Pending
  <2>6. v = u
    BY <2>1, <2>5 DEF UniqueJobIds
  <2> QED
    BY <2>5, <2>6 DEF Visited, statusOf, Executing
<1>7. \A u \in TaskExec!Predecessors(trace, task) : statusOf[u] = "done"
  BY <1>6 DEF TaskExec!Predecessors, TaskExec!Dependance, Dependance, TaskExec!Task, Task
<1>8. Cardinality(TaskExec!Running) < nMachines
  BY <1>1, FewerThanWorkers
<1>9. ASSUME NEW t \in Task, t = task
      PROVE  TaskExec!Start(t)
  <2>1. /\ statusOf[t] = "waiting"
        /\ \A u \in TaskExec!Predecessors(trace, t) : statusOf[u] = "done"
        /\ TaskExec!Cardinality(TaskExec!Running) < nMachines
        /\ statusOf' = [statusOf EXCEPT ![t] = "running"]
        /\ trace' = trace
    BY <1>1, <1>2, <1>5, <1>7, <1>8, <1>9, SameCardinality
  <2> QED
    BY <2>1 DEF TaskExec!Start
<1> QED
  BY <1>1, <1>9

LEMMA RunFinishes ==
  ASSUME SchedulerIInv, NEW w \in Worker, RunTask(w)
  PROVE  TaskExec!Finish(msg[w]) /\ msg[w] \in Task
<1>1. /\ pc[w] = "run" /\ pc'[w] # "run" /\ msg[w] \in Task
      /\ \A v \in Worker \ {w} : pc'[v] = pc[v]
      /\ UNCHANGED <<trace, taskReadySignal, submissionQueue, schedPc, i, task, msg>>
  BY DEF RunTask, NextSuccessor, schedVars, SchedulerIInv, ProtocolIInv, TypeOK
<1>2. \A t \in Task : Waiting(t)' <=> Waiting(t)
  BY <1>1 DEF Waiting
<1>3. ~Waiting(msg[w]) /\ \A v \in Worker \ {w} : msg[v] = msg[w] => pc[v] # "run"
  BY <1>1 DEF SchedulerIInv, ReplayInv, PlaceInv, Busy
<1>4. statusOf[msg[w]] = "running" /\ statusOf'[msg[w]] = "done"
  <2>1. Executing(msg[w])
    BY <1>1 DEF Executing
  <2>2. \A t \in Task : t = msg[w] => ~Executing(t)'
    BY <1>1, <1>3 DEF Executing
  <2>3. \A t \in Task : t = msg[w] => statusOf'[t] = "done"
    BY <1>2, <1>3, <2>2 DEF statusOf
  <2> QED
    BY <1>1, <1>3, <2>1, <2>3 DEF statusOf
<1>5. \A t \in Task : t # msg[w] => (Executing(t)' <=> Executing(t))
  BY <1>1 DEF Executing
<1>6. statusOf' = [statusOf EXCEPT ![msg[w]] = "done"]
  BY <1>1, <1>2, <1>4, <1>5 DEF statusOf
<1> QED
  BY <1>1, <1>4, <1>6 DEF TaskExec!Finish

(***************************************************************************)
(* The scheduler and its workers execute every task once, after the tasks  *)
(* it depends on, and at most nMachines at a time, for every trace with    *)
(* unique JobIds.                                                          *)
(***************************************************************************)
THEOREM SchedulerRefinesTaskExecution ==
  UniqueJobIds(trace) /\ Spec => RefinesTaskExecution
<1>1. /\ SchedulerIInv /\ SchedulerIInv' /\ UniqueJobIds(trace) /\ [Next]_vars
      => [TaskExec!AbsNext]_TaskExec!absVars
  <2> SUFFICES ASSUME SchedulerIInv, SchedulerIInv', UniqueJobIds(trace), [Next]_vars
               PROVE  TaskExec!AbsNext \/ UNCHANGED TaskExec!absVars
    OBVIOUS
  <2>1. TaskExec!Task = Task
    BY DEF TaskExec!Task, Task
  <2>2. ASSUME NEW w \in Worker, DeliverTask(w) PROVE TaskExec!AbsNext
    BY <2>1, <2>2, DeliverStarts DEF TaskExec!AbsNext
  <2>3. ASSUME NEW w \in Worker, RunTask(w) PROVE TaskExec!AbsNext
    BY <2>1, <2>3, RunFinishes DEF TaskExec!AbsNext
  <2>4. ASSUME UNCHANGED <<trace, msg>>, \A t \in Task : Waiting(t)' <=> Waiting(t),
               \A w \in Worker : pc[w] = "run" <=> pc'[w] = "run"
        PROVE  UNCHANGED TaskExec!absVars
    <3>1. \A t \in Task : Executing(t)' <=> Executing(t)
      BY <2>4 DEF Executing
    <3> QED
      BY <2>4, <3>1 DEF TaskExec!absVars, statusOf
  <2> QED
    BY <2>2, <2>3, <2>4, NextReplayInv
<1>2. UniqueJobIds(trace) /\ [Next]_vars => UniqueJobIds(trace)'
  BY TraceIsFixed DEF UniqueJobIds
<1> QED
  BY <1>1, <1>2, InitRefines, SchedulerInvariant, PTL
  DEF Spec, RefinesTaskExecution, TaskExec!AbsSpec
=============================================================================

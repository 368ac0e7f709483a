---------------------------- MODULE SchedulerInv ----------------------------
(***************************************************************************)
(* The inductive invariant behind the safety of Scheduler: who holds the   *)
(* mutex, what workerState says of a worker, what the scheduler knows at   *)
(* each point between looking at the workers and going to sleep, and what  *)
(* the signals, the queue and the counter say of the tasks.                *)
(***************************************************************************)
EXTENDS Scheduler

(* The scheduler looks for a worker only with a task to send. *)
QueueInv ==
  schedPc \in {"lockDispatch", "scan"} => submissionQueue # <<>>

SchedulerHolds ==
  {"scan", "put", "wait", "unlockDispatch", "check", "unlockCheck"}

WorkerHolds == {"activate", "unlockSuccessor", "signalReady", "unlockReady"}

(* The mutex has the owner that the program points say it has. *)
MutexInv ==
  /\ mutex = SCHED <=> schedPc \in SchedulerHolds
  /\ \A w \in Worker : mutex = w <=> pc[w] \in WorkerHolds

(* A worker marked busy is busy, or about to be sent the scheduler's task; *)
(* a worker marked ready has nothing left to do for its last task.         *)
ReadyInv ==
  \A w \in Worker : IF workerState[w] = 0
                     THEN Busy(w) \/ (schedPc = "put" /\ iter = w)
                     ELSE ~Busy(w)

(* What the scan of workerState has established, until the scheduler is    *)
(* notified: no ready worker is behind the iterator, and when it goes to   *)
(* sleep the queue is empty or every worker is busy.                       *)
ScanInv ==
  /\ schedPc = "scan" => \A w \in Worker : w < iter => workerState[w] = 0
  /\ schedPc = "put" => /\ iter \in Worker
                        /\ \A w \in Worker : w <= iter => workerState[w] = 0
  /\ schedPc \in {"wait", "waitWorkerReady"} => \E w \in Worker : workerState[w] = 0
  /\ schedPc = "wait" => \/ submissionQueue = <<>>
                         \/ \A w \in Worker : workerState[w] = 0
  /\ schedPc = "waitWorkerReady" => \/ submissionQueue = <<>>
                                    \/ \A w \in Worker : workerState[w] = 0
                                    \/ \E w \in Worker : Activating(w)
  /\ schedPc = "waitTaskReady" => submissionQueue = <<>>

(* The kill loop joins the workers one by one. *)
KillInv ==
  /\ schedPc \in {"kill", "join"} =>
       \A n \in 1 .. nMachines : n < i => pc[usedMachines[n]] = "exited"
  /\ schedPc = "kill" => i >= 1
  /\ schedPc = "join" => i \in 1 .. nMachines
  /\ schedPc = "done" => \A w \in Worker : pc[w] = "exited"

(* The inductive invariant of the locks and the workers' states. *)
ProtocolIInv ==
  TypeOK /\ QueueInv /\ MutexInv /\ KillInv /\ ReadyInv /\ ScanInv
-----------------------------------------------------------------------------
(***************************************************************************)
(* What is left of the trace. A task has visited an entry of the multimap  *)
(* when it is over, or when its worker's loop over its successors is past  *)
(* the entry. Where JobIds are not unique, several tasks visit an entry.   *)
(***************************************************************************)
Visited(u, e) ==
  ~Waiting(u) /\ \A w \in Worker : msg[w] = u => pc[w] # "run" /\ e \notin succ[w]

(* The entries of task t, and those nobody has visited. *)
Listed(t) == {t} \X DOMAIN trace.dependsOn[t]

JobOf(e) == Dependance(trace, e[1])[e[2]]

Pending(t) ==
  {e \in Listed(t) : \A u \in Task : trace.jobId[u] = JobOf(e) => ~Visited(u, e)}

(* Nothing runs before the scheduler has looked at all tasks, and it ends  *)
(* the workers when the counter is 0.                                      *)
PhaseInv ==
  /\ schedPc = "master" =>
       /\ i <= nTasks
       /\ \A t \in Task : taskReadySignal[t] = InitialSignal(trace, t)
       /\ \A w \in Worker : pc[w] = "get"
  /\ schedPc = "waitTaskReady" => taskCounter # 0
  /\ schedPc \in {"kill", "join", "done"} => taskCounter = 0
  /\ schedPc \notin {"kill", "join", "done"} =>
       \A w \in Worker : pc[w] \notin {"end", "exited"}

(* A worker in its loop has entries of its task still to visit. *)
SuccInv ==
  \A w \in Worker :
    IF pc[w] \in {"lockSuccessor", "activate", "unlockSuccessor"}
    THEN succ[w] \subseteq Successors(trace, trace.jobId[msg[w]])
    ELSE succ[w] = {}

(* A task is in one place: it waits for a dependency, is in the queue      *)
(* once, is being put, or has been given to one worker.                    *)
PlaceInv ==
  /\ \A m, n \in DOMAIN submissionQueue :
       submissionQueue[m] = submissionQueue[n] => m = n
  /\ \A n \in DOMAIN submissionQueue :
       /\ taskReadySignal[submissionQueue[n]] <= 0
       /\ schedPc = "put" => submissionQueue[n] # task
       /\ schedPc = "master" => submissionQueue[n] < i
  /\ schedPc = "put" => taskReadySignal[task] <= 0
  /\ \A w \in Worker : Busy(w) => ~Waiting(msg[w])
  /\ \A v, w \in Worker : Busy(v) /\ Busy(w) /\ msg[v] = msg[w] => v = w

(* The tasks taskCounter counts. *)
Unready == {t \in Task : taskReadySignal[t] > 0}
Unseen  == {t \in Task : schedPc = "master" /\ i <= t /\ taskReadySignal[t] <= 0}

CountInv ==
  taskCounter = Len(submissionQueue) + Cardinality(Unready) + Cardinality(Unseen)
                + (IF schedPc = "put" THEN 1 ELSE 0)

(* A signal counts the entries nobody has visited. An entry visited twice  *)
(* lowers it twice.                                                        *)
SignalInv ==
  \A t \in Task :
    /\ taskReadySignal[t] <= Cardinality(Pending(t))
    /\ UniqueJobIds(trace) => taskReadySignal[t] = Cardinality(Pending(t))

(* Tasks that wait for each other are never submitted. *)
BlockedInv ==
  UniqueJobIds(trace) =>
    \A S \in SUBSET Task : Blocked(trace, S) => S \subseteq Unready

ReplayInv == PhaseInv /\ SuccInv /\ PlaceInv /\ CountInv /\ SignalInv /\ BlockedInv

(* The inductive invariant. *)
SchedulerIInv == ProtocolIInv /\ ReplayInv
=============================================================================

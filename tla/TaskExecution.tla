---------------------------- MODULE TaskExecution ----------------------------
(***************************************************************************)
(* What the scheduler and its workers promise, with neither queue, mutex   *)
(* nor mailbox: every task of the graph is executed exactly once, after    *)
(* all the tasks it depends on, at most nMachines tasks at a time.         *)
(***************************************************************************)
EXTENDS TaskGraph

CONSTANT nMachines       \* the number of workers (option -t)

VARIABLES trace,         \* the trace being replayed, fixed from the start
          status         \* status[t]: what has become of task t

absVars == <<trace, status>>

AbsTypeOK == /\ trace \in Traces
             /\ status \in [Task -> {"waiting", "running", "done"}]

Running == {t \in Task : status[t] = "running"}

AbsInit == /\ trace \in Traces
           /\ status = [t \in Task |-> "waiting"]

Start(t) == /\ status[t] = "waiting"
            /\ \A u \in Predecessors(trace, t) : status[u] = "done"
            /\ Cardinality(Running) < nMachines
            /\ status' = [status EXCEPT ![t] = "running"]
            /\ UNCHANGED trace

Finish(t) == /\ status[t] = "running"
             /\ status' = [status EXCEPT ![t] = "done"]
             /\ UNCHANGED trace

AbsNext == \E t \in Task : Start(t) \/ Finish(t)

AbsSpec == AbsInit /\ [][AbsNext]_absVars
=============================================================================

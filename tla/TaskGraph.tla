------------------------------ MODULE TaskGraph ------------------------------
(***************************************************************************)
(* The task graph sOMP replays: what rec_parser.hpp hands over in its      *)
(* parsed* arrays, and what taskPopulating() (common.hpp) and master()     *)
(* (main.cpp) derive from it before the scheduler starts.                  *)
(*                                                                         *)
(* A trace is a record of two arrays indexed by the position of the task   *)
(* in the file: the JobId of the task and its DependsOn list (JobIds).     *)
(***************************************************************************)
EXTENDS Integers, Sequences, FiniteSets

CONSTANTS nTasks,   \* the number of records of the trace (parsedTasks)
          Traces    \* the traces the simulator may be started on

Task == 0 .. (nTasks - 1)          \* positions in aTask[]

TraceType == [jobId : [Task -> Int], dependsOn : [Task -> Seq(Int)]]

ASSUME GraphAssumption == /\ nTasks \in Nat \ {0}
                          /\ Traces \subseteq TraceType

(***************************************************************************)
(* The dependance vector of a task. The code overwrites every entry of the *)
(* first task's vector with JobId 0.                                       *)
(***************************************************************************)
Dependance(tr, t) ==
  [k \in DOMAIN tr.dependsOn[t] |-> IF t = 0 THEN 0 ELSE tr.dependsOn[t][k]]

(***************************************************************************)
(* The initial value of taskReadySignal: one for every listed dependency.  *)
(***************************************************************************)
InitialSignal(tr, t) == Len(tr.dependsOn[t])

(***************************************************************************)
(* successorsMap is a multimap: one entry per (task, dependency) pair,     *)
(* under the JobId depended upon. An entry is written <<t, k>>: the k-th   *)
(* dependency of task t.                                                   *)
(***************************************************************************)
Edges(tr) == UNION {{t} \X DOMAIN tr.dependsOn[t] : t \in Task}

Successors(tr, job) == {e \in Edges(tr) : Dependance(tr, e[1])[e[2]] = job}

(***************************************************************************)
(* Entries of equal key are iterated in the order master() inserted them.  *)
(***************************************************************************)
InsertedBefore(e, f) == \/ e[1] < f[1]
                        \/ e[1] = f[1] /\ e[2] <= f[2]

-----------------------------------------------------------------------------
(***************************************************************************)
(* The tasks a task waits for, and the traces that describe a task graph:  *)
(* JobIds are unique, every dependency names a task of the trace, and the  *)
(* first task depends on nothing (the traces of examples/traces are such). *)
(***************************************************************************)
Predecessors(tr, t) ==
  {u \in Task : \E k \in DOMAIN tr.dependsOn[t] : tr.jobId[u] = Dependance(tr, t)[k]}

UniqueJobIds(tr) == \A t, u \in Task : tr.jobId[t] = tr.jobId[u] => t = u

ClosedDependencies(tr) ==
  \A t \in Task : \A k \in DOMAIN tr.dependsOn[t] :
     \E u \in Task : tr.jobId[u] = Dependance(tr, t)[k]

WellFormed(tr) == UniqueJobIds(tr) /\ ClosedDependencies(tr)

(***************************************************************************)
(* All tasks can be executed in some order that respects the dependencies: *)
(* no set of tasks waits only for itself or for JobIds nobody has.         *)
(***************************************************************************)
Blocked(tr, S) ==
  \A t \in S : \E k \in DOMAIN tr.dependsOn[t] :
     \A u \in Task : tr.jobId[u] = Dependance(tr, t)[k] => u \in S

Completable(tr) == \A S \in SUBSET Task : Blocked(tr, S) => S = {}
=============================================================================

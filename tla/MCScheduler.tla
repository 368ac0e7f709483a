---------------------------- MODULE MCScheduler ----------------------------
(***************************************************************************)
(* Instances of Scheduler for TLC: the families of traces of the runs.     *)
(***************************************************************************)
EXTENDS SchedulerInv

(* JobIds need not be the positions of the records, nor be ordered. *)
MCJobId == [t \in Task |-> 10 + ((3 * t) % 7)]

(* The lists a record may carry when it depends on the records of D, in    *)
(* the order of the trace.                                                 *)
Ids(D) == [n \in 1 .. Cardinality(D) |->
             LET t == CHOOSE u \in D : Cardinality({v \in D : v <= u}) = n
             IN  MCJobId[t]]

(* Every acyclic graph whose records follow the records they depend on.    *)
WellFormedTraces ==
  {[jobId |-> MCJobId, dependsOn |-> [t \in Task |-> Ids(d[t])]] :
     d \in {f \in [Task -> SUBSET Task] : \A t \in Task : f[t] \subseteq 0 .. (t - 1)}}

(* Any lists of at most two JobIds, one of which no record has: cycles,    *)
(* forward, repeated and dangling dependencies, and a first record that    *)
(* has dependencies.                                                       *)
UnknownJob == 99

SomeLists == {<<>>} \cup {<<a>> : a \in Range(MCJobId) \cup {UnknownJob}}
             \cup {<<a, b>> : a, b \in Range(MCJobId)}

AnyTraces == {[jobId |-> MCJobId, dependsOn |-> d] : d \in [Task -> SomeLists]}

InOrder    == [n \in 1 .. nMachines |-> n]
OutOfOrder == [n \in 1 .. nMachines |-> nMachines + 1 - n]
=============================================================================

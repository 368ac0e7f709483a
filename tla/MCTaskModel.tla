---------------------------- MODULE MCTaskModel ----------------------------
(***************************************************************************)
(* Instances of TaskModel for TLC.                                         *)
(***************************************************************************)
EXTENDS TaskModel

One(h) == [handle : {h}, mode : {"R", "W", "RW"}, cacheStatus : {"NULL", "RAM"}]
UpToOne == {<<>>} \cup {<<a>> : a \in One(1)}
UpToTwo == UpToOne \cup {<<a, b>> : a \in One(1), b \in One(2)}

Ratio(w, s, t) == [whole |-> w, separator |-> s, tenths |-> t]
Setting(s, r, w, o, ratio, t, arch) ==
  [SERIALRW |-> s, OVERLAPR |-> r, SCRATCHW |-> w, OVERLAP |-> o, OVERLAPRATIO |-> ratio,
   TRACETIME |-> t, ARCH |-> arch]
Traced(s, r, w, o, ratio) == Setting(s, r, w, o, ratio, 1, "NULL")

FourCores == [cpuNumber |-> 0, nMachines |-> 4, CPS |-> 2]

(* The task is the last of the trace, and its handles are allocated. *)
Input(model, handles, setting, tasks, lines, machine) ==
  [model |-> model, handles |-> handles, located |-> {a.handle : a \in ToSet(handles)},
   setting |-> setting, tasks |-> tasks, msg |-> Len(tasks), lines |-> lines, machine |-> machine]
OneTask(model, handles, setting, n, t) ==
  Input(model, handles, setting, <<[name |-> n, time |-> t]>>, <<>>, FourCores)

(* The waits of commcache, for any values of the options. *)
Transfers ==
  {OneTask("commcache", hs, Traced(s, r, 0, 1, Ratio(1, ".", 0)), "dgemm", 2) :
     hs \in UpToTwo, s \in 0 .. 2, r \in 0 .. 2}
  \cup {OneTask("commcache", hs, Traced(s, r, w, 0, Ratio(1, ".", 0)), "dgeqrt", 2) :
     hs \in UpToOne, s \in 0 .. 2, r \in 0 .. 2, w \in 0 .. 1}

(* The overlap, for any share, of tasks short and long, named or not. *)
Overlaps ==
  {OneTask(m, hs, Traced(s, r, 0, o, d), n, t) :
     m \in {"comm", "commcache"},
     hs \in {<<[handle |-> 1, mode |-> "RW", cacheStatus |-> "L3"]>>},
     s \in 0 .. 1, r \in 0 .. 1, o \in 0 .. 1,
     d \in {Ratio(0, ".", 0), Ratio(0, ".", 5), Ratio(1, ".", 0), Ratio(0, ",", 6), Ratio(2, ".", 0)},
     n \in {"", "dplgsy", "dgemm", "dgeqrt"}, t \in 0 .. 2}

(* Allocations and other tasks whose handles are allocated, not yet, or     *)
(* never. A cache has only data that were allocated.                        *)
Unlocated ==
  {x \in {[OneTask(m, hs, Traced(1, 1, w, 0, Ratio(1, ".", 0)), n, 1) EXCEPT !.located = l] :
             m \in {"nomodel", "task", "comm", "commcache"}, hs \in UpToTwo, w \in 0 .. 1,
             n \in {"", "dplgsy", "dgemm", "dgeqrt"}, l \in SUBSET {1, 2}} :
     \A a \in ToSet(x.handles) : a.handle \notin x.located => a.cacheStatus = "RAM"}

(* The times, from traces of several tasks or from a table. *)
Names == {"", "dplgsy", "dgemm", "dgetrf"}
Trace == [name : Names, time : 0 .. 2]
Times ==
  {Input(m, <<>>, Setting(1, 1, 0, 0, Ratio(0, ".", 0), tt, "NULL"), <<a, b, c>>, <<>>, FourCores) :
     m \in {"task", "nomodel"}, tt \in 0 .. 1, a \in {[name |-> "dgemm", time |-> 1]}, b \in Trace, c \in Trace}

Line(n, t) == [nth |-> n, ktime |-> t]
Tables ==
  {Input("task", <<>>, Setting(1, 1, 0, 0, Ratio(0, ".", 0), 0, arch), <<[name |-> n, time |-> 1]>>, l,
         [cpuNumber |-> c, nMachines |-> k, CPS |-> s]) :
     arch \in {"amdpowersave", "intelpowersavelu", "other"}, n \in {"dgemm", "dgeqrt"},
     l \in {<<>>, <<Line(1, 2)>>, <<Line(1, 2), Line(2, 3)>>, <<Line(0, 0), Line(2, 3), Line(1, 1), Line(2, 2)>>},
     c \in 0 .. 3, k \in 1 .. 4, s \in 0 .. 2}

AllInputs == Transfers \cup Overlaps \cup Unlocated \cup Times \cup Tables

(* The options sOMP_env_variables.sh exports. *)
Exported == {OneTask("commcache", hs, Traced(1, 1, 0, 1, Ratio(0, ",", 6)), "dgemm", 2) : hs \in UpToTwo}
=============================================================================

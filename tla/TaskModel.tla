----------------------------- MODULE TaskModel -----------------------------
(***************************************************************************)
(* One task in a worker under the four models of the program, from the     *)
(* message to the activation of its successors (worker.hpp): nomodel,      *)
(* task (models/default.hpp), comm (models/comm.hpp), and the transfers of *)
(* commcache (models/comm_cache.hpp, models/memopcomm.hpp), whose          *)
(* placement in the caches is CommCache. Then sleeper() (models/sleep.hpp).*)
(*                                                                         *)
(* A transfer is a SimGrid activity: start() returns at once, and wait()   *)
(* when the transfer has completed. Simulated time passes, and transfers   *)
(* complete, only while the worker is blocked in a wait or asleep.         *)
(***************************************************************************)
EXTENDS KernelTimes, SequencesExt

CONSTANTS Inputs,     \* the tasks, with the options and tables they run under
          MaxTime     \* bound: when the last awaited transfer completes

(***************************************************************************)
(* An access is a handle, its mode, and its cacheStatus: "NULL" when it is *)
(* in the local cache, otherwise the host it must be fetched from, that of *)
(* another cache ("L3") or of a memory ("RAM"). A decimal number in the    *)
(* environment is its two parts and the separator.                         *)
(***************************************************************************)
StatusType  == {"NULL", "L3", "RAM"}
AccessType  == [handle : Nat, mode : {"R", "W", "RW", "S"}, cacheStatus : StatusType]
DecimalType == [whole : Nat, separator : {".", ","}, tenths : 0 .. 9]
SettingType == [SERIALRW : Int, OVERLAPR : Int, SCRATCHW : Int, OVERLAP : Int,
                OVERLAPRATIO : DecimalType, TRACETIME : Int, ARCH : STRING]

(* A map keeps one access per handle. *)
Different(handles) ==
  \A m, n \in DOMAIN handles : handles[m].handle = handles[n].handle => m = n

InputType(x) ==
  /\ x.model \in {"nomodel", "task", "comm", "commcache"}
  /\ x.handles \in Seq([handle : Nat \ {0}, mode : {"R", "W", "RW"}, cacheStatus : StatusType])
  /\ Different(x.handles)
  /\ x.located \subseteq Nat \ {0}                       \* allocated by earlier tasks
  /\ x.setting \in SettingType
  /\ x.tasks \in Seq([name : STRING, time : Nat])         \* of the trace
  /\ x.msg \in DOMAIN x.tasks                             \* the task itself
  /\ x.lines \in Seq([nth : Nat, ktime : Nat])
  /\ x.machine \in [cpuNumber : Nat, nMachines : Nat \ {0}, CPS : Nat]

ASSUME TaskModelAssumption == MaxTime \in Nat /\ \A x \in Inputs : InputType(x)

VARIABLES input,       \* fixed
          pc,
          accesses,    \* the handles and modes of the message
          located,     \* the handles that handlesLocationMap has an entry for
          started,     \* transfers started so far
          completed,   \* those that have completed
          clock,       \* simulated time, in tenths of a millisecond
          start, end,  \* what the model read of it
          quietAt      \* history: when the last transfer completed

vars == <<input, pc, accesses, located, started, completed, clock, start, end, quietAt>>

Arrival == 10                           \* when the worker gets the task

Init == /\ input \in Inputs
        /\ pc = "get"
        /\ accesses = <<>>
        /\ located = input.located
        /\ started = {} /\ completed = {}
        /\ clock = Arrival
        /\ start = 0 /\ end = 0
        /\ quietAt = Arrival

set   == input.setting
name  == input.tasks[input.msg].name
alloc == name \in memAllocNames
-----------------------------------------------------------------------------
(* The legs of the transfers, one per exec activity. *)
Leg(op, h, route) == [op |-> op, handle |-> h, route |-> route]

(* memOpCommW: core to L3, and L3 to RAM. *)
MemOpCommW(a) == {Leg("W", a.handle, "core-L3"), Leg("W", a.handle, "L3-RAM")}

MemOpCommRDirect(a) ==                  \* mutant: the host sends to the core
  IF a.cacheStatus = "NULL" THEN {Leg("R", a.handle, "L3-core")}
  ELSE {Leg("R", a.handle, "host-core")}

(* memOpCommR: L3 to core, and to the L3 first if it is not there. *)
MemOpCommR(a) ==
  {Leg("R", a.handle, "L3-core")}
    \cup IF a.cacheStatus = "NULL" THEN {} ELSE {Leg("R", a.handle, "host-L3")}

Written(a)       == a.mode \in {"W", "RW"} \/ (a.mode = "S" /\ set.SCRATCHW = 1)
ReadOnlyModes(a) == a.mode = "R"        \* mutant: RW is not read
Read(a)          == a.mode \in {"R", "RW"}

(* comm: the RAM of the handle, twice for RW; the mode is not looked at    *)
(* otherwise.                                                              *)
CommLegs(a) ==
  {Leg("C", a.handle, "core-RAM")}
    \cup IF a.mode = "RW" THEN {Leg("C", a.handle, "core-RAM again")} ELSE {}

(* The transfers of all accesses of the message. *)
LegsW == UNION {MemOpCommW(a) : a \in {x \in ToSet(accesses) : Written(x)}}
LegsR == UNION {MemOpCommR(a) : a \in {x \in ToSet(accesses) : Read(x)}}
LegsC == UNION {CommLegs(a) : a \in ToSet(accesses)}

(* handlesLocationMap: an allocation enters its first handle, and commcache *)
(* the scratch of the core under its new name. Nothing else is entered.     *)
Handleless == alloc /\ input.handles = <<>>
Allocated ==
  IF input.model # "nomodel" /\ alloc /\ ~Handleless THEN {input.handles[1].handle} ELSE {}
Entered ==
  Allocated \cup IF input.model = "commcache" /\ name \in kernelsWithS THEN {0} ELSE {}

(* Where it has no entry the program follows an end iterator.               *)
HasLocation(a) == a.handle \in located

(* commcache looks up what its caches do not give, and what is written.     *)
LookedUp(a) == a.cacheStatus = "RAM" \/ Written(a)

Completed(op)   == {l \in started : l.op = op} \subseteq completed
NeverWaits(op)  == TRUE                 \* mutant: wait() is not called
WaitsForOne(op) ==                      \* mutant: blocks on an empty vector
  Completed(op) /\ \E l \in started : l.op = op

(* wait() on every transfer of the vector. *)
AllDone(op) == Completed(op)

NotAwaited == UNCHANGED <<completed, clock, quietAt>>
-----------------------------------------------------------------------------
(* worker(): the scratch buffer is added to the message, which also stays  *)
(* in the task, and allocations enter their handle. The exception of       *)
(* handle.at(0) is caught nowhere.                                         *)
Scratch == [handle |-> 0, mode |-> "S", cacheStatus |-> "RAM"]

Get ==
  /\ pc = "get"
  /\ accesses' = IF name \in kernelsWithS THEN Append(input.handles, Scratch) ELSE input.handles
  /\ located' = located \cup Entered
  /\ pc' = CASE input.model = "nomodel" -> "sleep"
             [] input.model # "nomodel" /\ Handleless -> "undefined"
             [] input.model = "task" /\ ~Handleless -> "sleep"
             [] input.model = "comm" /\ ~Handleless -> "comm"
             [] input.model = "commcache" /\ ~Handleless -> IF alloc THEN "alloc" ELSE "begin"
  /\ UNCHANGED <<input, started, start, end>> /\ NotAwaited

(* An allocation sends to its L3 and waits, before the clock is read. *)
StartAlloc == /\ pc = "alloc"
              /\ started' = {Leg("A", accesses[n].handle, "core-L3") : n \in {1}}
              /\ pc' = "waitAlloc"
              /\ UNCHANGED <<input, accesses, located, start, end>> /\ NotAwaited

WaitAlloc == /\ pc = "waitAlloc" /\ AllDone("A")
             /\ pc' = "begin"
             /\ UNCHANGED <<input, accesses, located, started, start, end>> /\ NotAwaited

(* comm: all locations are looked up, one transfer after the other is       *)
(* started, then all are awaited.                                           *)
StartComm ==
  /\ pc = "comm"
  /\ start' = clock
  /\ IF name = "" \/ alloc
     THEN pc' = "waitComm" /\ UNCHANGED started
     ELSE IF \A n \in DOMAIN accesses : HasLocation(accesses[n])
     THEN pc' = "waitComm" /\ started' = LegsC
     ELSE pc' = "undefined" /\ UNCHANGED started
  /\ UNCHANGED <<input, accesses, located, end>> /\ NotAwaited

WaitComm == /\ pc = "waitComm" /\ AllDone("C")
            /\ end' = clock
            /\ pc' = "sleep"
            /\ UNCHANGED <<input, accesses, located, started, start>> /\ NotAwaited

(* commcache: the cache management and the writes first. What a transfer    *)
(* started before a failed lookup does is left out.                         *)
StartW ==
  /\ pc = "begin"
  /\ start' = clock
  /\ IF name = "" \/ alloc
     THEN pc' = "readEnd" /\ UNCHANGED started
     ELSE IF \A n \in DOMAIN accesses : LookedUp(accesses[n]) => HasLocation(accesses[n])
     THEN pc' = "waitW" /\ started' = LegsW
     ELSE pc' = "undefined" /\ UNCHANGED started
  /\ UNCHANGED <<input, accesses, located, end>> /\ NotAwaited

(* Blocking wait() for W, before submitting R (SERIALRW) *)
WaitWFirst == /\ pc = "waitW" /\ (set.SERIALRW = 1 => AllDone("W"))
              /\ IF \A n \in DOMAIN accesses : Read(accesses[n]) => HasLocation(accesses[n])
                 THEN pc' = "waitWLate" /\ started' = started \cup LegsR
                 ELSE pc' = "undefined" /\ UNCHANGED started
              /\ UNCHANGED <<input, accesses, located, start, end>> /\ NotAwaited

(* Blocking wait() for W *)
WaitWLate == /\ pc = "waitWLate" /\ (set.SERIALRW = 0 => AllDone("W"))
             /\ pc' = "waitROverlapped"
             /\ UNCHANGED <<input, accesses, located, started, start, end>> /\ NotAwaited

(* Overlapped Blocking wait() for R *)
WaitROverlapped == /\ pc = "waitROverlapped" /\ (set.OVERLAPR = 1 => AllDone("R"))
                   /\ pc' = "readEnd"
                   /\ UNCHANGED <<input, accesses, located, started, start, end>> /\ NotAwaited

ReadEnd == /\ pc = "readEnd"
           /\ end' = clock
           /\ pc' = "waitR"
           /\ UNCHANGED <<input, accesses, located, started, start>> /\ NotAwaited

(* non-overlapped Blocking wait() for R *)
WaitR == /\ pc = "waitR" /\ (set.OVERLAPR = 0 => AllDone("R"))
         /\ pc' = "sleep"
         /\ UNCHANGED <<input, accesses, located, started, start, end>> /\ NotAwaited
-----------------------------------------------------------------------------
(* atof() in the C locale, which the program never leaves, in tenths. *)
Atof(d) == 10 * d.whole + IF d.separator = "." THEN d.tenths ELSE 0

(* sleeper(): the time is shortened by subtract, up to a share of it. *)
Uncapped(time, subtract) == 10 * time - subtract     \* mutant: no share
Shortened(time, subtract) ==
  10 * time - Min({subtract, time * Atof(set.OVERLAPRATIO)})

(* The times a worker may sleep, none if they cannot be looked up. *)
TaskTimes(subtract) ==
  LET times == SleepTime(name, input.tasks, input.lines, input.machine, set)
  IN  CASE input.model = "nomodel" ->
             {IF alloc THEN 0 ELSE 10 * input.tasks[input.msg].time}
        [] input.model # "nomodel" /\ name = "" -> {0}
        [] input.model # "nomodel" /\ name # "" -> {Shortened(t, subtract) : t \in times}

(* sleep_for() returns at once when the time is not positive. *)
Sleep ==
  LET modelled == input.model \in {"comm", "commcache"}
      times == TaskTimes(IF modelled /\ set.OVERLAP = 1 THEN end - start ELSE 0)
  IN  /\ pc = "sleep"
      /\ IF times = {} THEN pc' = "undefined" /\ UNCHANGED clock
         ELSE /\ \E t \in times : clock' = clock + Max({t, 0})
              /\ pc' = "done"
      /\ UNCHANGED <<input, accesses, located, started, completed, start, end, quietAt>>

Blocked == \/ pc = "waitAlloc" /\ ~AllDone("A")
           \/ pc = "waitComm" /\ ~AllDone("C")
           \/ pc = "waitW" /\ set.SERIALRW = 1 /\ ~AllDone("W")
           \/ pc = "waitWLate" /\ set.SERIALRW = 0 /\ ~AllDone("W")
           \/ pc = "waitROverlapped" /\ set.OVERLAPR = 1 /\ ~AllDone("R")
           \/ pc = "waitR" /\ set.OVERLAPR = 0 /\ ~AllDone("R")

Tick == /\ Blocked /\ clock < 10 * MaxTime
        /\ clock' = clock + 10
        /\ UNCHANGED <<input, pc, accesses, located, started, completed, start, end, quietAt>>

(* The network completes a transfer. *)
Complete == /\ Blocked \/ pc = "sleep"
            /\ \E l \in started \ completed : completed' = completed \cup {l}
            /\ quietAt' = clock
            /\ UNCHANGED <<input, pc, accesses, located, started, clock, start, end>>

Step == \/ Get \/ StartAlloc \/ WaitAlloc \/ StartComm \/ WaitComm \/ StartW \/ WaitWFirst
        \/ WaitWLate \/ WaitROverlapped \/ ReadEnd \/ WaitR \/ Sleep

Next == Step \/ Tick \/ Complete

Spec == Init /\ [][Next]_vars

(* SimGrid completes every activity and resumes the actor whose wait can   *)
(* return.                                                                 *)
FairSpec == Spec /\ WF_vars(Step) /\ WF_vars(Complete)
-----------------------------------------------------------------------------
LegsType == [op : {"A", "C", "R", "W"}, handle : Nat,
             route : {"core-L3", "L3-RAM", "L3-core", "host-L3", "core-RAM", "core-RAM again"}]

TypeOK == /\ pc \in {"get", "alloc", "waitAlloc", "begin", "comm", "waitComm", "waitW",
                     "waitWLate", "waitROverlapped", "readEnd", "waitR", "sleep", "done",
                     "undefined"}
          /\ accesses \in Seq(AccessType) /\ located \subseteq Nat
          /\ started \subseteq LegsType /\ completed \subseteq started
          /\ {clock, start, end, quietAt} \subseteq Nat /\ quietAt <= clock

(* With SERIALRW the writes of a task are over when its first read starts   *)
(* (comm_cache.hpp:194-201); otherwise nothing orders them.                 *)
SerialWritesFirst ==
  set.SERIALRW = 1 /\ (\E l \in started : l.op = "R") => Completed("W")

(* The data of a task are unlocked, and so may be evicted, only when its    *)
(* transfers are over. For the writes this takes a SERIALRW of 0 or 1, and  *)
(* for the reads such an OVERLAPR: any other value makes no wait happen     *)
(* (comm_cache.hpp:195, 215, 223, 236). Each access has moved what its mode *)
(* asks for.                                                                *)
UnlockedWhenQuiet ==
  pc = "done" /\ input.model = "commcache" =>
    /\ set.SERIALRW \in {0, 1} => Completed("W")
    /\ set.OVERLAPR \in {0, 1} => Completed("R")
    /\ name # "" /\ ~alloc => \A n \in DOMAIN accesses :
         LET a == accesses[n]
             legs(op) == {l \in started : l.op = op /\ l.handle = a.handle}
         IN  CASE a.mode = "R"  -> legs("R") # {} /\ legs("W") = {}
               [] a.mode = "W"  -> legs("R") = {} /\ Cardinality(legs("W")) = 2
               [] a.mode = "RW" -> legs("R") # {} /\ Cardinality(legs("W")) = 2
               [] a.mode = "S"  -> legs("R") = {} /\ (legs("W") # {} <=> set.SCRATCHW = 1)

(* The time a task takes, from the times of its transfers and of its kernel *)
(* (comm_cache.hpp:50, 233-256, sleep.hpp:49-53): their sum without         *)
(* SOMP_OVERLAP or with a share of 0, the longer of them when all is        *)
(* overlapped and the share is 1, and never less than the kernel.           *)
KnownWaits == set.SERIALRW \in {0, 1} /\ set.OVERLAPR \in {0, 1}
KernelTime == IF name = "" THEN 0
              ELSE 10 * (CHOOSE t \in SleepTime(name, input.tasks, input.lines, input.machine, set) :
                           TRUE)

ElapsedTime ==
  pc = "done" /\ input.model \in {"comm", "commcache"} /\ KnownWaits =>
    LET spent == clock - Arrival
        moved == quietAt - Arrival
    IN  /\ KernelTime <= spent
        /\ set.OVERLAP # 1 \/ Atof(set.OVERLAPRATIO) = 0 => spent = moved + KernelTime
        /\ set.OVERLAP = 1 /\ Atof(set.OVERLAPRATIO) = 10
             /\ (set.OVERLAPR = 1 \/ input.model = "comm")
             => spent = Max({moved, KernelTime})

(* Kernels without a table take the shortest time the trace has for their   *)
(* name (time.hpp:37, sleep.hpp:41), so no task takes longer than it took.  *)
NeverSlowerThanTraced ==
  pc = "done" /\ input.model = "task" /\ name \notin mainKernels(set.TRACETIME, set.ARCH) =>
    clock - Arrival <= 10 * input.tasks[input.msg].time

(* What a task cannot do without: a handle to allocate (worker.hpp:87), an  *)
(* allocation before it of every handle it uses, and none helps the scratch *)
(* in the comm model (worker.hpp:82-88, comm.hpp:34-43,                     *)
(* comm_cache.hpp:94, 161, 181, 208), and the line of its table             *)
(* (sleep.hpp:27-35).                                                       *)
UsesUnlocated ==
  /\ input.model \in {"comm", "commcache"} /\ name # "" /\ ~alloc
  /\ \/ \E n \in DOMAIN input.handles : input.handles[n].handle \notin input.located
     \/ input.model = "comm" /\ name \in kernelsWithS

LacksLine ==
  LET m == input.machine
  IN  /\ input.model # "nomodel" /\ name \in mainKernels(set.TRACETIME, set.ARCH)
      /\ m.CPS = 0 \/ \A i \in DOMAIN input.lines :
                        input.lines[i].nth # Target(m.cpuNumber, m.nMachines, m.CPS)

(* A task goes astray exactly if it lacks one of these, whatever the order  *)
(* in which the code looks them up, the modes of its accesses, what the     *)
(* caches hold and the options: the code tests none of them.                *)
AstrayIffLacking ==
  pc \in {"done", "undefined"} =>
    (pc = "undefined" <=> \/ input.model # "nomodel" /\ Handleless
                          \/ UsesUnlocated
                          \/ LacksLine)

(* SOMP_OVERLAP=1 and a positive SOMP_OVERLAPRATIO, as sOMP_env_variables.sh *)
(* exports them, overlap the transfers of a task with its computation.      *)
OverlapShortensTasks ==
  LET d == set.OVERLAPRATIO
  IN  pc = "done" /\ input.model = "commcache" /\ KnownWaits /\ set.OVERLAPR = 1
        /\ set.OVERLAP = 1 /\ d.whole + d.tenths > 0 /\ quietAt > Arrival /\ KernelTime > 0
      => clock - Arrival < (quietAt - Arrival) + KernelTime

(* Every task ends, or goes astray. *)
TaskEnds == <>(pc \in {"done", "undefined"})
=============================================================================

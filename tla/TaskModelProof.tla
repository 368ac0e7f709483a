--------------------------- MODULE TaskModelProof ---------------------------
(***************************************************************************)
(* Theorems about TaskModel, for any tasks, options, tables and bound.     *)
(***************************************************************************)
EXTENDS TaskModel, FiniteSetTheorems, WellFoundedInduction, TLAPS

(***************************************************************************)
(* The inductive invariant. The transfers of a task are those its place in *)
(* the code says, and an awaited vector stays completed.                   *)
(***************************************************************************)
Moves      == name # "" /\ ~alloc        \* a task that has transfers
OfMode(op) == \A l \in started : l.op = op

MessageKept == pc # "get" => accesses \in Seq(AccessType) /\ Different(accesses)

StartedSoFar ==
  CASE pc \in {"get", "alloc", "comm"}          -> started = {}
    [] pc \in {"waitAlloc", "begin"}            -> OfMode("A")
    [] pc = "waitComm"                          -> OfMode("C")
    [] pc = "waitW"                             -> Moves /\ started = LegsW
    [] pc \in {"waitWLate", "waitROverlapped"}  -> Moves /\ started = LegsW \cup LegsR
    [] pc \in {"readEnd", "waitR"} ->
         IF Moves THEN started = LegsW \cup LegsR ELSE OfMode("A")
    [] pc \in {"sleep", "done"} /\ input.model = "commcache" ->
         IF Moves THEN started = LegsW \cup LegsR ELSE OfMode("A")
    [] pc \in {"sleep", "done"} /\ input.model # "commcache" -> OfMode("C")
    [] OTHER -> TRUE

ModelOfPhase ==
  /\ input.model # "commcache" =>
       pc \in {"get", "comm", "waitComm", "sleep", "done", "undefined"}
  /\ input.model = "commcache" => pc \notin {"comm", "waitComm"}

AfterReads == {"sleep", "done"}
AfterEnd   == {"readEnd", "waitR"} \cup AfterReads
AfterLate  == {"waitROverlapped"} \cup AfterEnd
AfterFirst == {"waitWLate", "undefined"} \cup AfterLate

Awaited ==
  /\ set.SERIALRW = 1 /\ pc \in AfterFirst => Completed("W")
  /\ set.SERIALRW = 0 /\ pc \in AfterLate  => Completed("W")
  /\ set.OVERLAPR = 1 /\ pc \in AfterEnd   => Completed("R")
  /\ set.OVERLAPR = 0 /\ pc \in AfterReads => Completed("R")

TaskIInv == /\ input \in Inputs
            /\ pc \in {"get", "alloc", "waitAlloc", "begin", "comm", "waitComm", "waitW",
                       "waitWLate", "waitROverlapped", "readEnd", "waitR", "sleep", "done",
                       "undefined"}
            /\ MessageKept /\ StartedSoFar /\ ModelOfPhase /\ Awaited
-----------------------------------------------------------------------------
LEMMA InputIsTyped ==
  ASSUME input \in Inputs
  PROVE  InputType(input)
  BY TaskModelAssumption

LEMMA EntryIsTyped ==
  ASSUME NEW T, NEW q \in Seq(T), NEW n \in DOMAIN q
  PROVE  q[n] \in T
  OBVIOUS

(* The legs of the writes, of the reads and of the comm model. *)
LEMMA LegsHaveTheirMode ==
  /\ \A l \in LegsW : l.op = "W"
  /\ \A l \in LegsR : l.op = "R"
  /\ \A l \in LegsC : l.op = "C"
<1>1. \A a : \A l \in MemOpCommW(a) : l.op = "W"
  BY DEF MemOpCommW, Leg
<1>2. \A a : \A l \in MemOpCommR(a) : l.op = "R"
  BY DEF MemOpCommR, Leg
<1>3. \A a : \A l \in CommLegs(a) : l.op = "C"
  <2>1. \A h, route : Leg("C", h, route).op = "C"
    BY DEF Leg
  <2> QED
    BY <2>1, Zenon DEF CommLegs
<1> QED
  BY <1>1, <1>2, <1>3 DEF LegsW, LegsR, LegsC

(* What has completed stays so when no transfer of its vector starts.      *)
LEMMA StaysCompleted ==
  ASSUME NEW op, Completed(op), completed \subseteq completed',
         \A l \in started' \ started : l.op # op
  PROVE  Completed(op)'
  BY DEF Completed

(* The scratch buffer gets a handle of its own. *)
LEMMA MessageIsTyped ==
  ASSUME input \in Inputs, Get
  PROVE  accesses' \in Seq(AccessType) /\ Different(accesses')
<1> DEFINE S  == Scratch
           hs == input.handles
           T  == [handle : Nat \ {0}, mode : {"R", "W", "RW"}, cacheStatus : StatusType]
<1>1. hs \in Seq(T) /\ Different(hs)
  BY InputIsTyped DEF InputType
<1>2. T \subseteq AccessType /\ S \in AccessType
  BY DEF AccessType, StatusType, Scratch
<1>3. hs \in Seq(AccessType)
  <2> HIDE DEF T, hs
  <2>1. Seq(T) \subseteq Seq(AccessType)
    BY <1>2
  <2> QED
    BY <1>1, <2>1
<1>4. CASE accesses' = hs
  BY <1>1, <1>3, <1>4
<1>5. CASE accesses' = Append(hs, S)
  <2> DEFINE as == Append(hs, S)
  <2>1. as \in Seq(AccessType) /\ Len(as) = Len(hs) + 1 /\ as[Len(hs) + 1] = S
    BY <1>2, <1>3
  <2>2. ASSUME NEW n \in DOMAIN hs
        PROVE  as[n] = hs[n] /\ as[n].handle # 0 /\ n # Len(hs) + 1
    <3> HIDE DEF T, S, hs
    <3>1. hs[n] \in T
      BY <1>1
    <3>2. as[n] = hs[n] /\ n # Len(hs) + 1
      BY <1>1 DEF hs
    <3> QED
      BY <3>1, <3>2 DEF T
  <2>3. DOMAIN as = DOMAIN hs \cup {Len(hs) + 1}
    BY <1>3, <2>1
  <2>4. S.handle = 0
    BY DEF Scratch
  <2> HIDE DEF as, S
  <2>5. Different(as)
    BY <1>1, <2>1, <2>2, <2>3, <2>4 DEF Different
  <2> QED
    BY <1>5, <2>1, <2>5 DEF as, S
<1> QED
  BY <1>4, <1>5 DEF Get
-----------------------------------------------------------------------------
LEMMA TaskInitIInv == Init => TaskIInv
  BY InputIsTyped DEF Init, TaskIInv, MessageKept, StartedSoFar, ModelOfPhase, Awaited,
       Completed, AfterFirst, AfterLate, AfterEnd, AfterReads

(* One step per action: where it goes, what has started, what is awaited. *)
LEMMA TaskStepIInv == TaskIInv /\ [Next]_vars => TaskIInv'
<1> SUFFICES ASSUME TaskIInv, [Next]_vars PROVE TaskIInv'
  OBVIOUS
<1> DEFINE Kept    == accesses' = accesses /\ input' = input
           Idles   == started' = started /\ completed' = completed
           Phases  == {"get", "alloc", "waitAlloc", "begin", "comm", "waitComm", "waitW",
                       "waitWLate", "waitROverlapped", "readEnd", "waitR", "sleep", "done",
                       "undefined"}
<1>1. /\ input \in Inputs /\ pc \in Phases
      /\ MessageKept /\ StartedSoFar /\ ModelOfPhase /\ Awaited
  BY DEF TaskIInv
<1>2. input.model \in {"nomodel", "task", "comm", "commcache"}
  BY <1>1, InputIsTyped DEF InputType
<1>3. Kept => /\ LegsW' = LegsW /\ LegsR' = LegsR /\ LegsC' = LegsC
              /\ name' = name /\ (Moves' <=> Moves) /\ set' = set
  BY DEF LegsW, LegsR, LegsC, Moves, name, alloc, set, MemOpCommW, MemOpCommR, CommLegs, Written, Read
<1>4. ASSUME Idles, NEW op PROVE Completed(op)' <=> Completed(op)
  BY <1>4 DEF Completed
<1>5. ASSUME Kept, pc # "get", pc' \in Phases, StartedSoFar', ModelOfPhase', Awaited'
      PROVE  TaskIInv'
  <2>1. MessageKept'
    BY <1>1, <1>5 DEF MessageKept
  <2> QED
    BY <1>1, <1>5, <2>1 DEF TaskIInv
<1>6. CASE Get
  <2>1. input' = input /\ Idles /\ pc = "get" /\ started = {}
        /\ pc' \in {"sleep", "comm", "alloc", "begin", "undefined"}
    BY <1>1, <1>2, <1>6 DEF Get, NotAwaited, StartedSoFar
  <2>2. MessageKept'
    BY <1>1, <1>6, MessageIsTyped DEF MessageKept
  <2>3. ModelOfPhase'
    BY <1>2, <1>6 DEF Get, ModelOfPhase
  <2>4. StartedSoFar'
    BY <1>2, <1>6, <2>1 DEF Get, StartedSoFar, OfMode
  <2>5. Awaited'
    BY <2>1 DEF Awaited, Completed
  <2> QED
    BY <2>1, <2>2, <2>3, <2>4, <2>5, <1>1 DEF TaskIInv
<1>7. CASE StartAlloc
  <2>1. Kept /\ completed' = completed /\ pc = "alloc" /\ pc' \in {"waitAlloc"}
    BY <1>7 DEF StartAlloc, NotAwaited
  <2>2. StartedSoFar'
    BY <1>1, <1>2, <1>3, <1>7, <2>1, LegsHaveTheirMode
       DEF StartAlloc, StartedSoFar, OfMode, ModelOfPhase, Leg
  <2>3. ModelOfPhase'
    BY <1>1, <1>2, <2>1 DEF ModelOfPhase
  <2>4. Awaited'
    BY <1>1, <1>3, <1>7, <2>1, <2>2, LegsHaveTheirMode
       DEF StartAlloc, Awaited, AfterFirst, AfterLate, AfterEnd, AfterReads, StartedSoFar, OfMode, Completed, Leg
  <2> QED
    BY <1>5, <2>1, <2>2, <2>3, <2>4
<1>8. CASE WaitAlloc
  <2>1. Kept /\ Idles /\ pc = "waitAlloc" /\ pc' = "begin"
    BY <1>8 DEF WaitAlloc, NotAwaited
  <2>2. StartedSoFar'
    BY <1>1, <1>2, <1>3, <2>1 DEF StartedSoFar, OfMode, ModelOfPhase
  <2>3. ModelOfPhase'
    BY <1>1, <1>2, <2>1 DEF ModelOfPhase
  <2>4. Awaited'
    BY <1>1, <1>3, <1>4, <1>8, <2>1 DEF Awaited, AfterFirst, AfterLate, AfterEnd, AfterReads
  <2> QED
    BY <1>5, <2>1, <2>2, <2>3, <2>4
<1>9. CASE StartComm
  <2>1. Kept /\ completed' = completed /\ pc = "comm" /\ pc' \in {"waitComm", "undefined"}
    BY <1>9 DEF StartComm, NotAwaited
  <2>2. StartedSoFar'
    BY <1>1, <1>2, <1>3, <1>9, <2>1, LegsHaveTheirMode
       DEF StartComm, StartedSoFar, OfMode, ModelOfPhase, Leg
  <2>3. ModelOfPhase'
    BY <1>1, <1>2, <2>1 DEF ModelOfPhase
  <2>4. Awaited'
    BY <1>1, <1>3, <1>9, <2>1, <2>2, LegsHaveTheirMode
       DEF StartComm, Awaited, AfterFirst, AfterLate, AfterEnd, AfterReads, StartedSoFar, OfMode, Completed, Leg
  <2> QED
    BY <1>5, <2>1, <2>2, <2>3, <2>4
<1>10. CASE WaitComm
  <2>1. Kept /\ Idles /\ pc = "waitComm" /\ pc' = "sleep"
    BY <1>10 DEF WaitComm, NotAwaited
  <2>2. StartedSoFar'
    BY <1>1, <1>2, <1>3, <2>1 DEF StartedSoFar, OfMode, ModelOfPhase
  <2>3. ModelOfPhase'
    BY <1>1, <1>2, <2>1 DEF ModelOfPhase
  <2>4. Awaited'
    BY <1>1, <1>3, <1>4, <1>10, <2>1 DEF Awaited, AfterFirst, AfterLate, AfterEnd, AfterReads, WaitComm, Completed, StartedSoFar, OfMode
  <2> QED
    BY <1>5, <2>1, <2>2, <2>3, <2>4
<1>11. CASE StartW
  <2>1. Kept /\ completed' = completed /\ pc = "begin" /\ pc' \in {"readEnd", "waitW", "undefined"}
    BY <1>11 DEF StartW, NotAwaited
  <2>2. StartedSoFar'
    BY <1>1, <1>2, <1>3, <1>11, <2>1, LegsHaveTheirMode
       DEF StartW, Moves, StartedSoFar, OfMode, ModelOfPhase, Leg
  <2>3. ModelOfPhase'
    BY <1>1, <1>2, <2>1 DEF ModelOfPhase
  <2>4. Awaited'
    BY <1>1, <1>3, <1>11, <2>1, <2>2, LegsHaveTheirMode
       DEF StartW, Awaited, AfterFirst, AfterLate, AfterEnd, AfterReads, StartedSoFar, OfMode, Completed, Leg
  <2> QED
    BY <1>5, <2>1, <2>2, <2>3, <2>4
<1>12. CASE WaitWFirst
  <2>1. Kept /\ completed' = completed /\ pc = "waitW" /\ pc' \in {"waitWLate", "undefined"}
    BY <1>12 DEF WaitWFirst, NotAwaited
  <2>2. StartedSoFar'
    BY <1>1, <1>2, <1>3, <1>12, <2>1, LegsHaveTheirMode
       DEF WaitWFirst, StartedSoFar, OfMode, ModelOfPhase, Leg
  <2>3. ModelOfPhase'
    BY <1>1, <1>2, <2>1 DEF ModelOfPhase
  <2>4. Awaited'
    BY <1>1, <1>3, <1>12, <2>1, <2>2, LegsHaveTheirMode
       DEF WaitWFirst, Awaited, AfterFirst, AfterLate, AfterEnd, AfterReads, AllDone, StartedSoFar, OfMode, Completed, Leg
  <2> QED
    BY <1>5, <2>1, <2>2, <2>3, <2>4
<1>13. CASE WaitWLate
  <2>1. Kept /\ Idles /\ pc = "waitWLate" /\ pc' = "waitROverlapped"
    BY <1>13 DEF WaitWLate, NotAwaited
  <2>2. StartedSoFar'
    BY <1>1, <1>2, <1>3, <2>1 DEF StartedSoFar, OfMode, ModelOfPhase
  <2>3. ModelOfPhase'
    BY <1>1, <1>2, <2>1 DEF ModelOfPhase
  <2>4. Awaited'
    BY <1>1, <1>3, <1>4, <1>13, <2>1 DEF Awaited, AfterFirst, AfterLate, AfterEnd, AfterReads, WaitWLate, AllDone
  <2> QED
    BY <1>5, <2>1, <2>2, <2>3, <2>4
<1>14. CASE WaitROverlapped
  <2>1. Kept /\ Idles /\ pc = "waitROverlapped" /\ pc' = "readEnd"
    BY <1>14 DEF WaitROverlapped, NotAwaited
  <2>2. StartedSoFar'
    BY <1>1, <1>2, <1>3, <2>1 DEF StartedSoFar, OfMode, ModelOfPhase
  <2>3. ModelOfPhase'
    BY <1>1, <1>2, <2>1 DEF ModelOfPhase
  <2>4. Awaited'
    BY <1>1, <1>3, <1>4, <1>14, <2>1 DEF Awaited, AfterFirst, AfterLate, AfterEnd, AfterReads, WaitROverlapped, AllDone
  <2> QED
    BY <1>5, <2>1, <2>2, <2>3, <2>4
<1>15. CASE ReadEnd
  <2>1. Kept /\ Idles /\ pc = "readEnd" /\ pc' = "waitR"
    BY <1>15 DEF ReadEnd, NotAwaited
  <2>2. StartedSoFar'
    BY <1>1, <1>2, <1>3, <2>1 DEF StartedSoFar, OfMode, ModelOfPhase
  <2>3. ModelOfPhase'
    BY <1>1, <1>2, <2>1 DEF ModelOfPhase
  <2>4. Awaited'
    BY <1>1, <1>3, <1>4, <1>15, <2>1 DEF Awaited, AfterFirst, AfterLate, AfterEnd, AfterReads
  <2> QED
    BY <1>5, <2>1, <2>2, <2>3, <2>4
<1>16. CASE WaitR
  <2>1. Kept /\ Idles /\ pc = "waitR" /\ pc' = "sleep"
    BY <1>16 DEF WaitR, NotAwaited
  <2>2. StartedSoFar'
    BY <1>1, <1>2, <1>3, <2>1 DEF StartedSoFar, OfMode, ModelOfPhase
  <2>3. ModelOfPhase'
    BY <1>1, <1>2, <2>1 DEF ModelOfPhase
  <2>4. Awaited'
    BY <1>1, <1>3, <1>4, <1>16, <2>1 DEF Awaited, AfterFirst, AfterLate, AfterEnd, AfterReads, WaitR, AllDone
  <2> QED
    BY <1>5, <2>1, <2>2, <2>3, <2>4
<1>17. CASE Sleep
  <2>1. Kept /\ Idles /\ pc = "sleep" /\ pc' \in {"done", "undefined"}
    BY <1>17 DEF Sleep
  <2>2. StartedSoFar'
    BY <1>1, <1>2, <1>3, <2>1 DEF StartedSoFar, OfMode, ModelOfPhase
  <2>3. ModelOfPhase'
    BY <1>1, <1>2, <2>1 DEF ModelOfPhase
  <2>4. Awaited'
    BY <1>1, <1>3, <1>4, <2>1 DEF Awaited, AfterFirst, AfterLate, AfterEnd, AfterReads
  <2> QED
    BY <1>5, <2>1, <2>2, <2>3, <2>4
<1>18. CASE Tick \/ Complete \/ UNCHANGED vars
  <2>1. Kept /\ started' = started /\ completed \subseteq completed' /\ pc' = pc
    BY <1>18 DEF Tick, Complete, vars
  <2>2. StartedSoFar' /\ ModelOfPhase'
    BY <1>1, <1>3, <2>1 DEF StartedSoFar, OfMode, ModelOfPhase
  <2>3. \A op : Completed(op) => Completed(op)'
    BY <2>1 DEF Completed
  <2>4. Awaited'
    BY <1>1, <1>3, <2>1, <2>3 DEF Awaited
  <2>5. MessageKept'
    BY <1>1, <2>1 DEF MessageKept
  <2> QED
    BY <1>1, <2>1, <2>2, <2>4, <2>5 DEF TaskIInv
<1> QED
  BY <1>6, <1>7, <1>8, <1>9, <1>10, <1>11, <1>12, <1>13, <1>14, <1>15, <1>16, <1>17, <1>18 DEF Next, Step
-----------------------------------------------------------------------------
LEMMA TaskInductive == Spec => []TaskIInv
  BY TaskInitIInv, TaskStepIInv, PTL DEF Spec

(* With SERIALRW every write of a task is over when its first read starts, *)
(* for all accesses, options and completion orders (comm_cache.hpp:194).   *)
THEOREM WritesPrecedeReads == Spec => []SerialWritesFirst
<1>1. TaskIInv => SerialWritesFirst
  BY LegsHaveTheirMode
     DEF TaskIInv, SerialWritesFirst, StartedSoFar, OfMode, Awaited, ModelOfPhase, Completed,
         AfterFirst, AfterLate, AfterEnd, AfterReads
<1> QED
  BY <1>1, TaskInductive, PTL

(* The transfers of one access are its own, since no other has its handle. *)
LEMMA LegsOfAccess ==
  ASSUME accesses \in Seq(AccessType), Different(accesses),
         NEW a, a \in ToSet(accesses)
  PROVE  /\ {l \in LegsW : l.handle = a.handle} = IF Written(a) THEN MemOpCommW(a) ELSE {}
         /\ {l \in LegsR : l.handle = a.handle} = IF Read(a) THEN MemOpCommR(a) ELSE {}
<1>1. ASSUME NEW x \in ToSet(accesses), x.handle = a.handle
      PROVE  x = a
  BY <1>1 DEF ToSet, Different
<1>2. ASSUME NEW x
      PROVE  /\ \A l \in MemOpCommW(x) : l.handle = x.handle
             /\ \A l \in MemOpCommR(x) : l.handle = x.handle
  BY DEF MemOpCommW, MemOpCommR, Leg
<1>3. ASSUME NEW l \in LegsW
      PROVE  l.handle = a.handle <=> Written(a) /\ l \in MemOpCommW(a)
  BY <1>1, <1>2, <1>3 DEF LegsW
<1>4. ASSUME NEW l \in LegsR
      PROVE  l.handle = a.handle <=> Read(a) /\ l \in MemOpCommR(a)
  BY <1>1, <1>2, <1>4 DEF LegsR
<1>5. /\ Written(a) => MemOpCommW(a) \subseteq LegsW
      /\ Read(a) => MemOpCommR(a) \subseteq LegsR
  BY DEF LegsW, LegsR
<1> QED
  BY <1>3, <1>4, <1>5

LEMMA TwoLegsOfAWrite ==
  ASSUME NEW a
  PROVE  Cardinality(MemOpCommW(a)) = 2
<1> DEFINE first == Leg("W", a.handle, "core-L3")
           second == Leg("W", a.handle, "L3-RAM")
<1>1. first # second
  BY DEF Leg
<1>2. MemOpCommW(a) = {first} \cup {second}
  BY DEF MemOpCommW
<1> HIDE DEF first, second
<1>3. IsFiniteSet({first}) /\ Cardinality({first}) = 1
  BY FS_Singleton
<1>4. Cardinality({first} \cup {second}) = Cardinality({first}) + 1
  BY <1>1, <1>3, FS_AddElement
<1> QED
  BY <1>2, <1>3, <1>4

(* The data of a task are unlocked only when its transfers are over, each   *)
(* access having moved what its mode asks for, unless an option has a value *)
(* at which the code makes no wait (comm_cache.hpp:194-242, 258-262).       *)
THEOREM DataAreUnlockedWhenQuiet == Spec => []UnlockedWhenQuiet
<1>1. TaskIInv => UnlockedWhenQuiet
  <2> SUFFICES ASSUME TaskIInv, pc = "done", input.model = "commcache"
               PROVE  UnlockedWhenQuiet
    BY DEF UnlockedWhenQuiet
  <2>1. /\ set.SERIALRW \in {0, 1} => Completed("W")
        /\ set.OVERLAPR \in {0, 1} => Completed("R")
    BY DEF TaskIInv, Awaited, AfterFirst, AfterLate, AfterEnd, AfterReads
  <2>2. ASSUME name # "", ~alloc, NEW n \in DOMAIN accesses
        PROVE  LET a == accesses[n]
                   legs(op) == {l \in started : l.op = op /\ l.handle = a.handle}
               IN  CASE a.mode = "R"  -> legs("R") # {} /\ legs("W") = {}
                     [] a.mode = "W"  -> legs("R") = {} /\ Cardinality(legs("W")) = 2
                     [] a.mode = "RW" -> legs("R") # {} /\ Cardinality(legs("W")) = 2
                     [] a.mode = "S"  -> legs("R") = {} /\ (legs("W") # {} <=> set.SCRATCHW = 1)
    <3> DEFINE a == accesses[n]
               legs(op) == {l \in started : l.op = op /\ l.handle = a.handle}
    <3>1. /\ accesses \in Seq(AccessType) /\ Different(accesses)
          /\ a \in AccessType /\ a \in ToSet(accesses)
      <4>1. accesses \in Seq(AccessType) /\ Different(accesses)
        BY DEF TaskIInv, MessageKept
      <4>2. a \in AccessType
        BY <2>2, <4>1, EntryIsTyped
      <4> QED
        BY <2>2, <4>1, <4>2 DEF ToSet
    <3>2. started = LegsW \cup LegsR
      BY <2>2 DEF TaskIInv, StartedSoFar, Moves
    <3> HIDE DEF a
    <3>3. /\ legs("W") = {l \in LegsW : l.handle = a.handle}
          /\ legs("R") = {l \in LegsR : l.handle = a.handle}
      BY <3>2, LegsHaveTheirMode
    <3>4. /\ legs("W") = IF Written(a) THEN MemOpCommW(a) ELSE {}
          /\ legs("R") = IF Read(a) THEN MemOpCommR(a) ELSE {}
      BY <3>1, <3>3, LegsOfAccess
    <3>5. MemOpCommW(a) # {} /\ MemOpCommR(a) # {} /\ Cardinality(MemOpCommW(a)) = 2
      BY TwoLegsOfAWrite DEF MemOpCommW, MemOpCommR
    <3>6. a.mode \in {"R", "W", "RW", "S"}
      BY <3>1 DEF AccessType
    <3> HIDE DEF legs
    <3>7. /\ a.mode = "R"  => legs("R") # {} /\ legs("W") = {}
          /\ a.mode = "W"  => legs("R") = {} /\ Cardinality(legs("W")) = 2
          /\ a.mode = "RW" => legs("R") # {} /\ Cardinality(legs("W")) = 2
          /\ a.mode = "S"  => legs("R") = {} /\ (legs("W") # {} <=> set.SCRATCHW = 1)
      BY <3>4, <3>5, <3>6 DEF Written, Read
    <3> QED
      BY <3>6, <3>7 DEF a, legs
  <2> QED
    BY <2>1, <2>2 DEF UnlockedWhenQuiet
<1> QED
  BY <1>1, TaskInductive, PTL
-----------------------------------------------------------------------------
(***************************************************************************)
(* The times of the kernels.                                               *)
(***************************************************************************)
LEMMA LeastNatural ==
  ASSUME NEW T, T \subseteq Nat, T # {}
  PROVE  Min(T) \in T /\ \A j \in T : Min(T) <= j
<1> DEFINE R == {ss \in Nat \X Nat : ss[1] < ss[2]}
<1>1. IsWellFoundedOn(R, Nat)
  BY NatLessThanWellFounded DEF OpToRel
<1> HIDE DEF R
<1>2. PICK m \in T : \A j \in T : <<j, m>> \notin R
  BY <1>1, WFMin
<1>3. ASSUME NEW j \in T PROVE m <= j
  <2>1. j \in Nat /\ m \in Nat /\ ~(j < m)
    BY <1>2 DEF R
  <2> QED
    BY <2>1
<1> QED
  BY <1>3 DEF Min

LEMMA GreatestIndex ==
  ASSUME NEW n \in Nat, NEW T, T \subseteq 1 .. n, T # {}
  PROVE  Max(T) \in T
<1> DEFINE U == {n - i : i \in T}
<1>1. U \subseteq Nat /\ U # {}
  OBVIOUS
<1>2. PICK i \in T : Min(U) = n - i
  <2> HIDE DEF U
  <2>1. Min(U) \in U
    BY <1>1, LeastNatural
  <2> QED
    BY <2>1 DEF U
<1>3. ASSUME NEW j \in T PROVE i >= j
  <2>1. n - j \in U
    OBVIOUS
  <2> HIDE DEF U
  <2>2. n - i <= n - j
    BY <1>1, <1>2, <2>1, LeastNatural
  <2> QED
    BY <2>2
<1> QED
  BY <1>3 DEF Max

LEMMA OfTwo ==
  ASSUME NEW a \in Int, NEW b \in Int
  PROVE  /\ Min({a, b}) = IF a <= b THEN a ELSE b
         /\ Max({a, b}) = IF a >= b THEN a ELSE b
<1>1. Min({a, b}) = IF a <= b THEN a ELSE b
  BY DEF Min
<1>2. Max({a, b}) = IF a >= b THEN a ELSE b
  BY DEF Max
<1> QED
  BY <1>1, <1>2

(* nthTimeMap has a time for the numbers of cores its lines give. *)
LEMMA TimesOfATable ==
  ASSUME NEW lines \in Seq([nth : Nat, ktime : Nat])
  PROVE  NthTime(lines) \in [{lines[i].nth : i \in DOMAIN lines} -> Nat]
<1> SUFFICES ASSUME NEW n \in {lines[i].nth : i \in DOMAIN lines}
             PROVE  lines[Max({i \in DOMAIN lines : lines[i].nth = n})].ktime \in Nat
  BY DEF NthTime
<1> DEFINE T == {i \in DOMAIN lines : lines[i].nth = n}
<1>1. T \subseteq 1 .. Len(lines) /\ T # {} /\ Len(lines) \in Nat
  OBVIOUS
<1>2. Max(T) \in T
  <2> HIDE DEF T
  <2> QED
    BY <1>1, GreatestIndex
<1>3. Max(T) \in DOMAIN lines
  BY <1>2
<1> HIDE DEF T
<1>4. lines[Max(T)] \in [nth : Nat, ktime : Nat]
  BY <1>3, EntryIsTyped
<1>5. lines[Max(T)].ktime \in Nat
  BY <1>4
<1> QED
  BY <1>5 DEF T

(* kernelLeastTime: no task of the name is shorter. *)
LEMMA TimesOfATrace ==
  ASSUME NEW tasks \in Seq([name : STRING, time : Nat]), NEW m \in DOMAIN tasks
  PROVE  LeastTime(tasks)[tasks[m].name] \in 0 .. tasks[m].time
<1> DEFINE k == tasks[m].name
           T == {tasks[i].time : i \in {j \in DOMAIN tasks : tasks[j].name = k}}
<1>1. \A i \in DOMAIN tasks : tasks[i].time \in Nat
  <2> TAKE i \in DOMAIN tasks
  <2>1. tasks[i] \in [name : STRING, time : Nat]
    BY EntryIsTyped
  <2> QED
    BY <2>1
<1>2. T \subseteq Nat /\ tasks[m].time \in T
  BY <1>1
<1>3. LeastTime(tasks)[k] = Min(T)
  BY DEF LeastTime
<1> HIDE DEF T
<1>4. Min(T) \in T /\ Min(T) <= tasks[m].time
  BY <1>2, LeastNatural
<1>5. Min(T) \in Nat /\ tasks[m].time \in Nat
  BY <1>2, <1>4
<1>6. Min(T) \in 0 .. tasks[m].time
  BY <1>4, <1>5
<1> QED
  BY <1>3, <1>6

(* The line is that of a number of cores a socket has. *)
LEMMA TargetIsOfASocket ==
  ASSUME NEW cpu \in Nat, NEW n \in Nat \ {0}, NEW s \in Nat \ {0}
  PROVE  Target(cpu, n, s) \in 1 .. s
<1>1. n - 1 \in Nat
  OBVIOUS
<1>2. (n - 1) % s \in 0 .. (s - 1)
  BY <1>1
<1>3. ((n - 1) % s) + 1 \in 1 .. s
  BY <1>2
<1> QED
  BY <1>3 DEF Target

Lookup == SleepTime(name, input.tasks, input.lines, input.machine, set)

LEMMA KernelTimesAreKnown ==
  ASSUME input \in Inputs
  PROVE  /\ Lookup \subseteq Nat
         /\ \A t, u \in Lookup : t = u
         /\ alloc => Lookup = {0}
         /\ input.model # "nomodel" => (Lookup = {} <=> LacksLine)
         /\ ~alloc /\ name \notin mainKernels(set.TRACETIME, set.ARCH) =>
              \A t \in Lookup : t <= input.tasks[input.msg].time
<1> DEFINE m == input.machine
           M == mainKernels(set.TRACETIME, set.ARCH)
           N == NthTime(input.lines)
           t1 == Target(m.cpuNumber, m.nMachines, m.CPS)
<1>1. /\ input.tasks \in Seq([name : STRING, time : Nat]) /\ input.msg \in DOMAIN input.tasks
      /\ input.lines \in Seq([nth : Nat, ktime : Nat])
      /\ m \in [cpuNumber : Nat, nMachines : Nat \ {0}, CPS : Nat]
  BY InputIsTyped DEF InputType
<1>2. m.cpuNumber \in Nat /\ m.nMachines \in Nat \ {0} /\ m.CPS \in Nat
  <2> HIDE DEF m
  <2> QED
    BY <1>1
<1>3. N \in [{input.lines[i].nth : i \in DOMAIN input.lines} -> Nat]
  BY <1>1, TimesOfATable
<1>4. LeastTime(input.tasks)[name] \in 0 .. input.tasks[input.msg].time
  BY <1>1, TimesOfATrace DEF name
<1>5. m.CPS # 0 => t1 \in 1 .. m.CPS
  BY <1>2, TargetIsOfASocket
<1>6. alloc => name \notin M
  BY DEF alloc, mainKernels, memAllocNames, kernelsWithS
<1> DEFINE lacks == name \in M /\ (m.CPS = 0 \/ \A i \in DOMAIN input.lines : input.lines[i].nth # t1)
<1>10. input.model # "nomodel" => (LacksLine <=> lacks)
  BY DEF LacksLine
<1>7. CASE alloc
  <2>1. Lookup = {0}
    BY <1>7 DEF Lookup, SleepTime, alloc
  <2> QED
    BY <1>6, <1>7, <1>10, <2>1
<1>8. CASE ~alloc /\ name \in M
  <2>1. Lookup = {N[t] : t \in DOMAIN N \cap IF m.CPS = 0 THEN {} ELSE {t1}}
    BY <1>8 DEF Lookup, SleepTime, alloc
  <2>2. lacks <=> m.CPS = 0 \/ t1 \notin DOMAIN N
    BY <1>3, <1>8
  <2> HIDE DEF m, N, t1
  <2>3. Lookup \subseteq Nat /\ \A t, u \in Lookup : t = u
    BY <1>3, <2>1
  <2>4. Lookup = {} <=> m.CPS = 0 \/ t1 \notin DOMAIN N
    BY <2>1
  <2> QED
    BY <1>8, <1>10, <2>2, <2>3, <2>4
<1>9. CASE ~alloc /\ name \notin M
  <2>1. Lookup = {LeastTime(input.tasks)[name]}
    BY <1>9 DEF Lookup, SleepTime, alloc
  <2>2. Lookup # {} /\ ~lacks
    BY <1>9, <2>1
  <2> HIDE DEF M, lacks
  <2> QED
    BY <1>4, <1>9, <1>10, <2>1, <2>2 DEF M
<1> QED
  BY <1>7, <1>8, <1>9

(* What is subtracted is at most what is overlapped, and a share. *)
LEMMA ShortenedTime ==
  ASSUME input \in Inputs, NEW t \in Nat, NEW s \in Nat
  PROVE  LET r == Atof(set.OVERLAPRATIO)
         IN  /\ r \in Nat
             /\ Shortened(t, s) \in (10 * t - s) .. (10 * t)
             /\ s = 0 \/ r = 0 \/ t = 0 => Shortened(t, s) = 10 * t
             /\ r = 10 => Shortened(t, s) = IF s <= 10 * t THEN 10 * t - s ELSE 0
<1> DEFINE r == Atof(set.OVERLAPRATIO)
           d == set.OVERLAPRATIO
<1>1. d.whole \in Nat /\ d.tenths \in 0 .. 9
  BY InputIsTyped DEF InputType, set, SettingType, DecimalType
<1>2. r \in Nat
  BY <1>1 DEF Atof
<1> HIDE DEF r, d
<1>3. t * r \in Nat
  BY <1>2
<1>4. /\ t = 0 \/ r = 0 => t * r = 0
      /\ r = 10 => t * r = 10 * t
  BY <1>2
<1>5. Shortened(t, s) = 10 * t - (IF s <= t * r THEN s ELSE t * r)
  BY <1>3, OfTwo DEF Shortened, r
<1> DEFINE p == t * r
<1>6. p \in Nat /\ (t = 0 \/ r = 0 => p = 0) /\ (r = 10 => p = 10 * t)
      /\ Shortened(t, s) = 10 * t - (IF s <= p THEN s ELSE p)
  BY <1>3, <1>4, <1>5
<1> HIDE DEF p
<1>7. Shortened(t, s) \in (10 * t - s) .. (10 * t)
  BY <1>6
<1>8. s = 0 \/ r = 0 \/ t = 0 => Shortened(t, s) = 10 * t
  BY <1>6
<1>9. r = 10 => Shortened(t, s) = IF s <= 10 * t THEN 10 * t - s ELSE 0
  BY <1>6
<1> QED
  BY <1>2, <1>7, <1>8, <1>9 DEF r
-----------------------------------------------------------------------------
(***************************************************************************)
(* The clock, beside TaskIInv. Time passes before the sleep only while a   *)
(* transfer is awaited, so it is the time of the last completion unless    *)
(* one is pending; start and end enclose what is to be overlapped.         *)
(***************************************************************************)
Modelled      == input.model \in {"comm", "commcache"}
EveryWaitMade == input.model = "commcache" => KnownWaits
Overlapped    == input.model = "comm" \/ set.OVERLAPR = 1    \* the reads too
Quiet         == started \subseteq completed
Subtract      == IF Modelled /\ set.OVERLAP = 1 THEN end - start ELSE 0

ClockTyped ==
  /\ {clock, start, end, quietAt} \subseteq Nat
  /\ Arrival <= quietAt /\ quietAt <= clock
  /\ started \subseteq LegsType /\ completed \subseteq started
  /\ pc = "get" => accesses = <<>>

PendingInv ==
  /\ pc \notin {"done", "undefined"} => clock = quietAt \/ ~Quiet
  /\ pc \in {"get", "alloc", "comm"} => clock = Arrival
  /\ pc \in {"alloc", "waitAlloc"} => alloc
  /\ pc = "alloc" => accesses # <<>>
  /\ pc = "begin" => Quiet /\ (~alloc => started = {} /\ clock = Arrival)
  /\ pc \in {"readEnd", "waitR"} /\ ~Moves => Quiet
  /\ pc = "sleep" /\ EveryWaitMade => Quiet
  /\ ~Modelled =>
       pc \in {"get", "sleep", "done", "undefined"} /\ started = {} /\ quietAt = Arrival

Measuring == {"waitComm", "waitW", "waitWLate", "waitROverlapped", "readEnd", "waitR"}

StartInv == pc \in Measuring \/ (pc \in {"sleep", "done"} /\ Modelled) =>
              Arrival <= start /\ start <= clock /\ (~alloc => start = Arrival)

EndInv ==
  /\ pc \in {"waitR", "sleep", "done"} /\ Modelled => start <= end /\ end <= clock
  /\ pc = "waitR" /\ KnownWaits /\ set.OVERLAPR = 1 => Quiet /\ end = clock
  /\ pc \in {"sleep", "done"} /\ Modelled /\ EveryWaitMade =>
       end <= quietAt /\ (Overlapped => end = quietAt)

SleptInv == pc = "done" /\ EveryWaitMade =>
              \E t \in TaskTimes(Subtract) : clock = quietAt + Max({t, 0})

ClockIInv == ClockTyped /\ PendingInv /\ StartInv /\ EndInv /\ SleptInv

LEMMA ClockInit == Init => ClockIInv
<1> SUFFICES ASSUME Init PROVE ClockIInv
  OBVIOUS
<1>1. ClockTyped
  BY DEF Init, ClockTyped, Arrival
<1>2. PendingInv /\ StartInv /\ EndInv
  BY DEF Init, PendingInv, StartInv, EndInv, Measuring, Quiet
<1> QED
  BY <1>1, <1>2 DEF Init, ClockIInv, SleptInv

(* The legs of every transfer are of a handle of the message. *)
LEMMA LegsAreTyped ==
  ASSUME accesses \in Seq(AccessType)
  PROVE  LegsW \subseteq LegsType /\ LegsR \subseteq LegsType /\ LegsC \subseteq LegsType
<1>1. \A a \in ToSet(accesses) : a.handle \in Nat
  <2> TAKE a \in ToSet(accesses)
  <2>1. PICK n \in DOMAIN accesses : a = accesses[n]
    BY DEF ToSet
  <2>2. a \in AccessType
    BY <2>1, EntryIsTyped
  <2> QED
    BY <2>2 DEF AccessType
<1>2. ASSUME NEW a \in ToSet(accesses)
      PROVE  /\ MemOpCommW(a) \subseteq LegsType
             /\ MemOpCommR(a) \subseteq LegsType
             /\ CommLegs(a) \subseteq LegsType
  <2>1. a.handle \in Nat
    BY <1>1
  <2>2. /\ Leg("W", a.handle, "core-L3") \in LegsType /\ Leg("W", a.handle, "L3-RAM") \in LegsType
        /\ Leg("R", a.handle, "L3-core") \in LegsType /\ Leg("R", a.handle, "host-L3") \in LegsType
        /\ Leg("C", a.handle, "core-RAM") \in LegsType
        /\ Leg("C", a.handle, "core-RAM again") \in LegsType
    BY <2>1 DEF Leg, LegsType
  <2>3. MemOpCommW(a) \subseteq LegsType
    BY <2>2 DEF MemOpCommW
  <2>4. MemOpCommR(a) \subseteq LegsType
    BY <2>2, Zenon DEF MemOpCommR
  <2>5. CommLegs(a) \subseteq LegsType
    BY <2>2, Zenon DEF CommLegs
  <2> QED
    BY <2>3, <2>4, <2>5
<1> QED
  BY <1>2 DEF LegsW, LegsR, LegsC

LEMMA TaskTimesAreKnown ==
  ASSUME input \in Inputs, Subtract \in Nat
  PROVE  /\ TaskTimes(Subtract) \subseteq Int
         /\ TaskTimes(Subtract) = {} <=> LacksLine
         /\ input.model # "nomodel" => \A t \in TaskTimes(Subtract) :
              IF name = "" THEN t = 0 ELSE \E u \in Lookup : t = Shortened(u, Subtract)
<1>1. /\ input.model \in {"nomodel", "task", "comm", "commcache"}
      /\ input.tasks \in Seq([name : STRING, time : Nat]) /\ input.msg \in DOMAIN input.tasks
  BY InputIsTyped DEF InputType
<1>2. Lookup \subseteq Nat /\ (input.model # "nomodel" => (Lookup = {} <=> LacksLine))
  BY KernelTimesAreKnown
<1>3. \A u \in Lookup : Shortened(u, Subtract) \in Int
  BY <1>2, ShortenedTime
<1>4. CASE input.model = "nomodel"
  <2>1. input.tasks[input.msg] \in [name : STRING, time : Nat]
    BY <1>1, EntryIsTyped
  <2>2. TaskTimes(Subtract) = {IF alloc THEN 0 ELSE 10 * input.tasks[input.msg].time}
    BY <1>4 DEF TaskTimes
  <2>3. ~LacksLine
    BY <1>4 DEF LacksLine
  <2>4. (IF alloc THEN 0 ELSE 10 * input.tasks[input.msg].time) \in Int
    BY <2>1
  <2>5. TaskTimes(Subtract) \subseteq Int /\ TaskTimes(Subtract) # {}
    BY <2>2, <2>4
  <2> QED
    BY <1>4, <2>3, <2>5
<1>5. CASE input.model # "nomodel" /\ name = ""
  <2>1. TaskTimes(Subtract) = {0}
    BY <1>5 DEF TaskTimes
  <2>2. /\ TaskTimes(Subtract) \subseteq Int /\ TaskTimes(Subtract) # {}
        /\ \A t \in TaskTimes(Subtract) : t = 0
    BY <2>1
  <2>3. ~LacksLine
    BY <1>5 DEF LacksLine, mainKernels, kernelsWithS
  <2> QED
    BY <1>5, <2>2, <2>3, Zenon
<1>6. CASE input.model # "nomodel" /\ name # ""
  <2>1. TaskTimes(Subtract) = {Shortened(t, Subtract) : t \in Lookup}
    BY <1>6 DEF TaskTimes, Lookup
  <2> QED
    BY <1>2, <1>3, <1>6, <2>1
<1> QED
  BY <1>4, <1>5, <1>6

(* One step per action: the clock, what is pending, what is measured. *)
LEMMA ClockStep == TaskIInv /\ TaskIInv' /\ ClockIInv /\ [Next]_vars => ClockIInv'
<1> SUFFICES ASSUME TaskIInv, TaskIInv', ClockIInv, [Next]_vars PROVE ClockIInv'
  OBVIOUS
<1> DEFINE Kept  == accesses' = accesses /\ input' = input
           Still == completed' = completed /\ clock' = clock /\ quietAt' = quietAt
           Idles == Still /\ started' = started
<1>1. /\ input \in Inputs /\ MessageKept /\ StartedSoFar /\ ModelOfPhase /\ Awaited
      /\ MessageKept' /\ StartedSoFar' /\ ModelOfPhase' /\ Awaited'
  BY DEF TaskIInv
<1>2. ClockTyped /\ PendingInv /\ StartInv /\ EndInv /\ SleptInv
  BY DEF ClockIInv
<1>3. input.model \in {"nomodel", "task", "comm", "commcache"}
  BY <1>1, InputIsTyped DEF InputType
<1>4. ASSUME Kept
      PROVE  /\ set' = set /\ name' = name /\ (alloc' <=> alloc) /\ (Moves' <=> Moves)
             /\ (Modelled' <=> Modelled) /\ (KnownWaits' <=> KnownWaits)
             /\ (EveryWaitMade' <=> EveryWaitMade) /\ (Overlapped' <=> Overlapped)
  BY <1>4 DEF set, name, alloc, Moves, Modelled, KnownWaits, EveryWaitMade, Overlapped
<1>5. ASSUME Idles PROVE Quiet' <=> Quiet
  BY <1>5 DEF Quiet
<1>7. ASSUME Kept, start' = start, end' = end
      PROVE  TaskTimes(Subtract)' = TaskTimes(Subtract)
  <2>1. Subtract' = Subtract
    BY <1>4, <1>7 DEF Subtract
  <2> QED
    BY <1>4, <1>7, <2>1, Zenon DEF TaskTimes, Shortened, set, name, alloc
<1>8. ASSUME Kept, pc # "get", pc' # "done",
             ClockTyped', PendingInv', StartInv', EndInv'
      PROVE  ClockIInv'
  BY <1>8 DEF ClockIInv, SleptInv
<1>9. CASE Get
  <2>1. input' = input /\ Idles /\ started = {} /\ start' = start /\ end' = end /\ pc = "get"
        /\ clock = Arrival
    BY <1>1, <1>2, <1>9 DEF Get, NotAwaited, StartedSoFar, PendingInv
  <2>2. /\ pc' \in {"sleep", "comm", "alloc", "begin", "undefined"}
        /\ pc' = "sleep" => ~Modelled
        /\ pc' \in {"comm", "alloc", "begin"} => Modelled
        /\ pc' = "alloc" => alloc /\ ~Handleless
        /\ pc' = "begin" => ~alloc
    BY <1>3, <1>9 DEF Get, Modelled
  <2>3. (alloc' <=> alloc) /\ (Modelled' <=> Modelled)
    BY <2>1 DEF alloc, name, Modelled
  <2>4. ClockTyped'
    BY <1>2, <2>1, <2>2 DEF ClockTyped
  <2>5. Quiet' /\ quietAt = Arrival
    BY <1>2, <2>1 DEF ClockTyped, Quiet, Arrival
  <2>6. pc' = "alloc" => accesses' # <<>>
    <3>1. pc' = "alloc" => input.handles # <<>> /\ name \notin kernelsWithS
      BY <2>2 DEF Handleless, alloc, memAllocNames, kernelsWithS
    <3> QED
      BY <1>9, <3>1 DEF Get
  <2>7. PendingInv'
    BY <1>2, <2>1, <2>2, <2>3, <2>5, <2>6 DEF PendingInv
  <2>8. StartInv' /\ EndInv'
    BY <2>2, <2>3 DEF StartInv, EndInv, Measuring
  <2> QED
    BY <2>2, <2>4, <2>7, <2>8 DEF ClockIInv, SleptInv
<1>10. CASE StartAlloc
  <2>1. Kept /\ Still /\ start' = start /\ end' = end /\ pc = "alloc" /\ pc' = "waitAlloc"
        /\ started' = {Leg("A", accesses[1].handle, "core-L3")} /\ started = {} /\ alloc
    BY <1>1, <1>2, <1>10 DEF StartAlloc, NotAwaited, StartedSoFar, PendingInv
  <2>2. Leg("A", accesses[1].handle, "core-L3") \in LegsType
    <3>1. accesses \in Seq(AccessType) /\ accesses # <<>>
      BY <1>1, <1>2, <2>1 DEF MessageKept, PendingInv
    <3>2. accesses[1] \in AccessType
      BY <3>1
    <3> QED
      BY <3>2 DEF AccessType, Leg, LegsType
  <2>3. ClockTyped'
    BY <1>2, <2>1, <2>2 DEF ClockTyped
  <2>4. PendingInv'
    BY <1>1, <1>2, <1>4, <2>1 DEF PendingInv, Quiet, ClockTyped, Modelled, ModelOfPhase
  <2>5. StartInv' /\ EndInv'
    BY <2>1 DEF StartInv, EndInv, Measuring
  <2> QED
    BY <1>8, <2>1, <2>3, <2>4, <2>5
<1>11. CASE WaitAlloc
  <2>1. Kept /\ Idles /\ start' = start /\ end' = end /\ pc = "waitAlloc" /\ pc' = "begin" /\ alloc
        /\ Completed("A") /\ OfMode("A")
    BY <1>1, <1>2, <1>11 DEF WaitAlloc, NotAwaited, AllDone, StartedSoFar, PendingInv
  <2>2. Quiet
    BY <2>1 DEF Completed, OfMode, Quiet
  <2>3. ClockTyped'
    BY <1>2, <2>1 DEF ClockTyped
  <2>4. PendingInv'
    BY <1>1, <1>2, <1>4, <1>5, <2>1, <2>2 DEF PendingInv, Modelled, ModelOfPhase
  <2>5. StartInv' /\ EndInv'
    BY <2>1 DEF StartInv, EndInv, Measuring
  <2> QED
    BY <1>8, <2>1, <2>3, <2>4, <2>5
<1>12. CASE StartComm
  <2>1. Kept /\ Still /\ start' = clock /\ end' = end /\ pc = "comm"
        /\ pc' \in {"waitComm", "undefined"} /\ started' \in {started, LegsC}
    BY <1>12 DEF StartComm, NotAwaited
  <2>2. started = {} /\ clock = Arrival /\ Modelled
    BY <1>1, <1>2, <2>1 DEF StartedSoFar, PendingInv
  <2>3. quietAt = Arrival /\ completed = {}
    BY <1>2, <2>2, <2>1 DEF ClockTyped, PendingInv, Quiet, Arrival
  <2>4. input.model = "comm"
    BY <1>1, <2>1, <2>2 DEF ModelOfPhase, Modelled
  <2>5. Kept /\ Still /\ start' = clock /\ end' = end /\ pc = "comm" /\ started = {}
        /\ clock = Arrival /\ quietAt = Arrival /\ pc' \in {"waitComm", "undefined"}
        /\ started' \in {{}, LegsC} /\ Modelled /\ input.model = "comm" /\ completed = {}
    BY <2>1, <2>2, <2>3, <2>4
  <2>6. ClockTyped'
    BY <1>1, <1>2, <2>5, LegsAreTyped DEF ClockTyped, MessageKept
  <2>7. PendingInv'
    BY <1>1, <1>2, <1>4, <2>5 DEF PendingInv
  <2>8. StartInv' /\ EndInv'
    BY <1>2, <1>4, <2>5 DEF StartInv, EndInv, Measuring, ClockTyped
  <2> QED
    BY <1>8, <2>5, <2>6, <2>7, <2>8
<1>13. CASE WaitComm
  <2>1. Kept /\ Idles /\ start' = start /\ end' = clock /\ pc = "waitComm" /\ pc' = "sleep"
        /\ input.model = "comm" /\ Modelled /\ EveryWaitMade /\ Overlapped
        /\ Completed("C") /\ OfMode("C")
    <3>1. Kept /\ Idles /\ start' = start /\ end' = clock /\ pc = "waitComm" /\ pc' = "sleep"
          /\ Completed("C")
      BY <1>13 DEF WaitComm, NotAwaited, AllDone
    <3>2. OfMode("C") /\ Modelled
      BY <1>1, <1>2, <3>1 DEF StartedSoFar, PendingInv
    <3>3. input.model = "comm"
      BY <1>1, <3>1, <3>2 DEF ModelOfPhase, Modelled
    <3> QED
      BY <3>1, <3>2, <3>3 DEF EveryWaitMade, Overlapped
  <2>2. Quiet
    BY <2>1 DEF Completed, OfMode, Quiet
  <2>3. clock = quietAt
    BY <1>2, <2>1, <2>2 DEF PendingInv
  <2>4. ClockTyped'
    BY <1>2, <2>1 DEF ClockTyped
  <2>5. PendingInv'
    BY <1>4, <1>5, <2>1, <2>2, <2>3 DEF PendingInv
  <2>6. StartInv' /\ EndInv'
    BY <1>2, <1>4, <2>1, <2>3 DEF StartInv, EndInv, Measuring, ClockTyped
  <2> QED
    BY <1>8, <2>1, <2>4, <2>5, <2>6
<1>14. CASE StartW
  <2>1. Kept /\ Still /\ start' = clock /\ end' = end /\ pc = "begin" /\ input.model = "commcache"
        /\ Modelled /\ Quiet /\ clock = quietAt /\ pc' \in {"readEnd", "waitW", "undefined"}
        /\ (~alloc => started = {} /\ clock = Arrival) /\ (pc' = "readEnd" => ~Moves)
        /\ (started' = started \/ (started' = LegsW /\ ~alloc /\ pc' = "waitW"))
    BY <1>1, <1>2, <1>3, <1>14
       DEF StartW, NotAwaited, PendingInv, Modelled, ModelOfPhase, Moves
  <2>2. completed \subseteq started' /\ started' \subseteq LegsType
    <3>1. ~alloc => completed = {}
      BY <1>2, <2>1 DEF ClockTyped
    <3> QED
      BY <1>1, <1>2, <2>1, <3>1, LegsAreTyped DEF ClockTyped, MessageKept
  <2>3. ClockTyped'
    BY <1>2, <2>1, <2>2 DEF ClockTyped
  <2>4. pc' = "readEnd" => Quiet'
    BY <2>1 DEF Quiet
  <2>5. PendingInv'
    BY <1>4, <2>1, <2>4 DEF PendingInv
  <2>6. StartInv' /\ EndInv'
    BY <1>2, <1>4, <2>1 DEF StartInv, EndInv, Measuring, ClockTyped
  <2> QED
    BY <1>8, <2>1, <2>3, <2>5, <2>6
<1>15. CASE WaitWFirst
  <2>1. Kept /\ Still /\ start' = start /\ end' = end /\ pc = "waitW"
        /\ pc' \in {"waitWLate", "undefined"} /\ started' \in {started, started \cup LegsR}
    BY <1>15 DEF WaitWFirst, NotAwaited
  <2>2. ClockTyped'
    BY <1>1, <1>2, <2>1, LegsAreTyped DEF ClockTyped, MessageKept
  <2>3. ~Quiet => ~Quiet'
    BY <2>1 DEF Quiet
  <2>4. PendingInv'
    BY <1>1, <1>2, <1>3, <1>4, <2>1, <2>3 DEF PendingInv, Modelled, ModelOfPhase
  <2>5. StartInv' /\ EndInv'
    BY <1>2, <1>4, <2>1 DEF StartInv, EndInv, Measuring
  <2> QED
    BY <1>8, <2>1, <2>2, <2>4, <2>5
<1>16. CASE WaitWLate
  <2>1. Kept /\ Idles /\ start' = start /\ end' = end /\ pc = "waitWLate" /\ pc' = "waitROverlapped"
    BY <1>16 DEF WaitWLate, NotAwaited
  <2>2. ClockTyped'
    BY <1>2, <2>1 DEF ClockTyped
  <2>3. PendingInv'
    BY <1>1, <1>2, <1>4, <1>5, <2>1 DEF PendingInv
  <2>4. StartInv' /\ EndInv'
    BY <1>2, <1>4, <2>1 DEF StartInv, EndInv, Measuring
  <2> QED
    BY <1>8, <2>1, <2>2, <2>3, <2>4
<1>17. CASE WaitROverlapped
  <2>1. Kept /\ Idles /\ start' = start /\ end' = end /\ pc = "waitROverlapped" /\ pc' = "readEnd"
        /\ Moves
    BY <1>1, <1>17 DEF WaitROverlapped, NotAwaited, StartedSoFar
  <2>2. ClockTyped'
    BY <1>2, <2>1 DEF ClockTyped
  <2>3. PendingInv'
    BY <1>1, <1>2, <1>4, <1>5, <2>1 DEF PendingInv
  <2>4. StartInv' /\ EndInv'
    BY <1>2, <1>4, <2>1 DEF StartInv, EndInv, Measuring
  <2> QED
    BY <1>8, <2>1, <2>2, <2>3, <2>4
<1>18. CASE ReadEnd
  <2>1. Kept /\ Idles /\ start' = start /\ end' = clock /\ pc = "readEnd" /\ pc' = "waitR"
    BY <1>18 DEF ReadEnd, NotAwaited
  <2>2. ClockTyped'
    BY <1>2, <2>1 DEF ClockTyped
  <2>3. PendingInv'
    BY <1>1, <1>2, <1>4, <1>5, <2>1 DEF PendingInv
  <2>4. KnownWaits /\ set.OVERLAPR = 1 => Quiet
    <3>1. CASE ~Moves
      BY <1>2, <2>1, <3>1 DEF PendingInv
    <3>2. ASSUME Moves, KnownWaits, set.OVERLAPR = 1 PROVE Quiet
      <4>1. started = LegsW \cup LegsR /\ Completed("W") /\ Completed("R")
        BY <1>1, <2>1, <3>2 DEF StartedSoFar, Awaited, KnownWaits, AfterFirst, AfterLate, AfterEnd
      <4> QED
        BY <4>1, LegsHaveTheirMode DEF Completed, Quiet
    <3> QED
      BY <3>1, <3>2
  <2>5. StartInv' /\ EndInv'
    BY <1>2, <1>4, <1>5, <2>1, <2>4 DEF StartInv, EndInv, Measuring, ClockTyped
  <2> QED
    BY <1>8, <2>1, <2>2, <2>3, <2>5
<1>19. CASE WaitR
  <2>1. Kept /\ Idles /\ start' = start /\ end' = end /\ pc = "waitR" /\ pc' = "sleep"
        /\ input.model = "commcache" /\ Modelled
    BY <1>1, <1>3, <1>19 DEF WaitR, NotAwaited, ModelOfPhase, Modelled
  <2>2. ClockTyped'
    BY <1>2, <2>1 DEF ClockTyped
  <2>3. KnownWaits => Quiet
    <3>1. CASE ~Moves
      BY <1>2, <2>1, <3>1 DEF PendingInv
    <3>2. ASSUME Moves, KnownWaits PROVE Quiet
      <4>1. started = LegsW \cup LegsR /\ Completed("W") /\ Completed("R")
        BY <1>1, <1>19, <2>1, <3>2
           DEF StartedSoFar, Awaited, KnownWaits, WaitR, AllDone, AfterFirst, AfterLate, AfterEnd
      <4> QED
        BY <4>1, LegsHaveTheirMode DEF Completed, Quiet
    <3> QED
      BY <3>1, <3>2
  <2>4. KnownWaits => clock = quietAt
    BY <1>2, <2>1, <2>3 DEF PendingInv
  <2>5. PendingInv'
    BY <1>2, <1>4, <1>5, <2>1, <2>3 DEF PendingInv, EveryWaitMade
  <2>6. StartInv' /\ EndInv'
    BY <1>2, <1>4, <2>1, <2>4 DEF StartInv, EndInv, Measuring, EveryWaitMade, Overlapped
  <2> QED
    BY <1>8, <2>1, <2>2, <2>5, <2>6
<1>20. CASE Sleep
  <2> DEFINE modelled == input.model \in {"comm", "commcache"}
             times == TaskTimes(IF modelled /\ set.OVERLAP = 1 THEN end - start ELSE 0)
  <2>1. Kept /\ pc = "sleep" /\ pc' \in {"done", "undefined"} /\ times = TaskTimes(Subtract)
        /\ start' = start /\ end' = end /\ quietAt' = quietAt /\ completed' = completed
        /\ started' = started
        /\ (times = {} => pc' = "undefined" /\ clock' = clock)
        /\ (times # {} => pc' = "done" /\ \E t \in times : clock' = clock + Max({t, 0}))
    BY <1>20 DEF Sleep, Subtract, Modelled
  <2>2. Subtract \in Nat
    BY <1>2, <2>1 DEF Subtract, EndInv, ClockTyped
  <2>3. times \subseteq Int
    BY <1>1, <2>1, <2>2, TaskTimesAreKnown
  <2>4. \A t \in times : Max({t, 0}) \in Nat
    <3> TAKE t \in times
    <3>1. t \in Int
      BY <2>3
    <3> HIDE DEF times
    <3>2. Max({t, 0}) = IF t >= 0 THEN t ELSE 0
      BY <3>1, OfTwo
    <3> QED
      BY <3>1, <3>2
  <2>5. clock' \in Nat /\ clock <= clock'
    <3> HIDE DEF times
    <3>1. clock \in Nat
      BY <1>2 DEF ClockTyped
    <3>2. CASE times = {}
      BY <2>1, <3>1, <3>2
    <3>3. CASE times # {}
      <4>1. PICK t \in times : clock' = clock + Max({t, 0})
        BY <2>1, <3>3
      <4>2. Max({t, 0}) \in Nat
        BY <2>4
      <4> QED
        BY <3>1, <4>1, <4>2
    <3> QED
      BY <3>2, <3>3
  <2>6. ClockTyped'
    BY <1>2, <2>1, <2>5 DEF ClockTyped
  <2>7. PendingInv'
    BY <1>2, <1>4, <2>1 DEF PendingInv
  <2>8. StartInv'
    BY <1>2, <1>4, <2>1, <2>5 DEF StartInv, Measuring, ClockTyped
  <2>9. EndInv'
    BY <1>2, <1>4, <2>1, <2>5 DEF EndInv, ClockTyped
  <2>10. TaskTimes(Subtract)' = TaskTimes(Subtract)
    BY <1>7, <2>1
  <2>11. EveryWaitMade => clock = quietAt
    BY <1>2, <2>1 DEF PendingInv
  <2>12. SleptInv'
    BY <1>4, <2>1, <2>10, <2>11 DEF SleptInv
  <2> QED
    BY <2>1, <2>6, <2>7, <2>8, <2>9, <2>12 DEF ClockIInv
<1>21. CASE Tick
  <2>1. Kept /\ Blocked /\ clock' = clock + 10 /\ pc' = pc /\ started' = started
        /\ completed' = completed /\ start' = start /\ end' = end /\ quietAt' = quietAt
    BY <1>21 DEF Tick
  <2>2. ~Quiet /\ pc \in {"waitAlloc"} \cup Measuring /\ (pc = "waitR" => set.OVERLAPR = 0)
    BY <2>1 DEF Blocked, AllDone, Completed, Quiet, Measuring
  <2>3. ~Quiet'
    BY <2>1, <2>2 DEF Quiet
  <2>4. ClockTyped'
    BY <1>2, <2>1 DEF ClockTyped
  <2>5. PendingInv'
    BY <1>2, <1>4, <2>1, <2>2, <2>3 DEF PendingInv, Measuring
  <2>6. StartInv'
    BY <1>2, <1>4, <2>1 DEF StartInv, Measuring, ClockTyped
  <2>7. EndInv'
    BY <1>2, <1>4, <2>1, <2>2 DEF EndInv, Measuring, ClockTyped
  <2> QED
    BY <1>8, <2>1, <2>2, <2>4, <2>5, <2>6, <2>7 DEF Measuring
<1>22. CASE Complete
  <2>1. Kept /\ clock' = clock /\ pc' = pc /\ started' = started /\ quietAt' = clock
        /\ start' = start /\ end' = end /\ (Blocked \/ pc = "sleep")
    BY <1>22 DEF Complete
  <2>2. completed \subseteq completed' /\ completed' \subseteq started
    BY <1>2, <1>22 DEF Complete, ClockTyped
  <2>3. ~Quiet /\ started # {} /\ Modelled /\ pc \in {"waitAlloc", "sleep"} \cup Measuring
        /\ (pc = "sleep" => ~EveryWaitMade) /\ (pc = "waitR" => set.OVERLAPR = 0)
    BY <1>2, <1>22, <2>1 DEF Complete, Quiet, Blocked, Measuring, PendingInv
  <2>4. ClockTyped'
    BY <1>2, <2>1, <2>2 DEF ClockTyped, Arrival
  <2>5. Quiet => Quiet'
    BY <2>1, <2>2 DEF Quiet
  <2>6. PendingInv'
    BY <1>2, <1>4, <2>1, <2>3, <2>5 DEF PendingInv, Measuring
  <2>7. StartInv'
    BY <1>2, <1>4, <2>1 DEF StartInv, Measuring
  <2>8. EndInv'
    BY <1>2, <1>4, <2>1, <2>3 DEF EndInv, Measuring
  <2> QED
    BY <1>8, <2>1, <2>3, <2>4, <2>6, <2>7, <2>8 DEF Measuring
<1>23. CASE UNCHANGED vars
  <2>1. Kept /\ Idles /\ pc' = pc /\ start' = start /\ end' = end
    BY <1>23 DEF vars
  <2>2. ClockTyped'
    BY <1>2, <2>1 DEF ClockTyped
  <2>3. PendingInv' /\ StartInv' /\ EndInv'
    BY <1>2, <1>4, <1>5, <2>1 DEF PendingInv, StartInv, EndInv
  <2>4. TaskTimes(Subtract)' = TaskTimes(Subtract)
    BY <1>7, <2>1
  <2>5. SleptInv'
    BY <1>2, <1>4, <2>1, <2>4 DEF SleptInv
  <2> QED
    BY <2>2, <2>3, <2>5 DEF ClockIInv
<1> QED
  BY <1>9, <1>10, <1>11, <1>12, <1>13, <1>14, <1>15, <1>16, <1>17, <1>18, <1>19, <1>20, <1>21, <1>22, <1>23 DEF Next, Step
-----------------------------------------------------------------------------
LEMMA ClockInductive == Spec => []ClockIInv
  BY TaskInductive, ClockInit, ClockStep, PTL DEF Spec

(***************************************************************************)
(* The lookups. What has been passed on the way to a place in the code has *)
(* found what it needs.                                                    *)
(***************************************************************************)
Message == IF name \in kernelsWithS THEN Append(input.handles, Scratch) ELSE input.handles
Lacking == (input.model # "nomodel" /\ Handleless) \/ UsesUnlocated \/ LacksLine

AfterLookups == {"waitComm", "waitWLate", "waitROverlapped", "readEnd", "waitR", "sleep", "done"}

LocationInv ==
  IF pc = "get" THEN located = input.located
  ELSE located = input.located \cup Entered /\ accesses = Message

AstrayInv ==
  /\ pc = "undefined" => Lacking
  /\ pc \notin {"get", "undefined"} => ~(input.model # "nomodel" /\ Handleless)
  /\ pc = "waitW" => \A n \in DOMAIN accesses : LookedUp(accesses[n]) => HasLocation(accesses[n])
  /\ pc \in AfterLookups => ~UsesUnlocated
  /\ pc = "done" => ~LacksLine

(* Only the scratch is entered at handle 0, and an allocation enters data. *)
LEMMA HandlesAreTyped ==
  ASSUME input \in Inputs
  PROVE  /\ input.handles \in Seq(AccessType) /\ input.located \subseteq Nat \ {0}
         /\ \A n \in DOMAIN input.handles :
              input.handles[n].handle \in Nat \ {0} /\ input.handles[n].mode \in {"R", "W", "RW"}
<1> DEFINE T == [handle : Nat \ {0}, mode : {"R", "W", "RW"}, cacheStatus : StatusType]
           hs == input.handles
<1>1. hs \in Seq(T) /\ input.located \subseteq Nat \ {0}
  BY InputIsTyped DEF InputType
<1>2. \A t \in T : t \in AccessType /\ t.handle \in Nat \ {0} /\ t.mode \in {"R", "W", "RW"}
  BY DEF AccessType
<1> HIDE DEF T, hs
<1>3. \A n \in DOMAIN hs : hs[n] \in T
  BY <1>1, EntryIsTyped
<1>4. hs \in Seq(AccessType)
  BY <1>1, <1>2
<1> QED
  BY <1>1, <1>2, <1>3, <1>4 DEF hs

LEMMA LocationsAreTyped ==
  ASSUME input \in Inputs, LocationInv
  PROVE  located \subseteq Nat
<1>1. Entered \subseteq Nat
  <2>1. Allocated \subseteq Nat
    <3>1. CASE Handleless \/ ~alloc
      BY <3>1 DEF Allocated
    <3>2. CASE alloc /\ ~Handleless
      <4>1. input.handles # <<>>
        BY <3>2 DEF Handleless
      <4>2. 1 \in DOMAIN input.handles
        BY <4>1, HandlesAreTyped
      <4> QED
        BY <4>2, HandlesAreTyped DEF Allocated
    <3> QED
      BY <3>1, <3>2
  <2> QED
    BY <2>1 DEF Entered
<1> QED
  BY <1>1, HandlesAreTyped DEF LocationInv

(* The accesses of the message are those of the task and the scratch. *)
LEMMA AccessesOfTheMessage ==
  ASSUME input \in Inputs, accesses = Message
  PROVE  /\ DOMAIN input.handles \subseteq DOMAIN accesses
         /\ \A n \in DOMAIN input.handles : accesses[n] = input.handles[n]
         /\ \A n \in DOMAIN accesses \ DOMAIN input.handles :
              name \in kernelsWithS /\ accesses[n] = Scratch
         /\ name \in kernelsWithS => \E n \in DOMAIN accesses : accesses[n] = Scratch
<1> DEFINE hs == input.handles
<1>1. hs \in Seq(AccessType) /\ Scratch \in AccessType
  BY HandlesAreTyped DEF Scratch, AccessType, StatusType
<1>2. CASE name \in kernelsWithS
  <2>1. accesses = Append(hs, Scratch)
    BY <1>2 DEF Message
  <2> HIDE DEF hs
  <2>2. /\ DOMAIN accesses = DOMAIN hs \cup {Len(hs) + 1}
        /\ accesses[Len(hs) + 1] = Scratch
        /\ \A n \in DOMAIN hs : accesses[n] = hs[n]
    BY <1>1, <2>1
  <2> QED
    BY <1>2, <2>2 DEF hs
<1>3. CASE name \notin kernelsWithS
  BY <1>3 DEF Message
<1> QED
  BY <1>2, <1>3

(* An access of a task that moves data lacks its location exactly if the    *)
(* task uses something that is not located.                                 *)
LEMMA LocationsOfTheMessage ==
  ASSUME input \in Inputs, pc # "get", LocationInv,
         input.model \in {"comm", "commcache"}, name # "", ~alloc
  PROVE  UsesUnlocated <=> \E n \in DOMAIN accesses : ~HasLocation(accesses[n])
<1>1. accesses = Message /\ located = input.located \cup Entered
  BY DEF LocationInv
<1>2. Entered = IF input.model = "commcache" /\ name \in kernelsWithS THEN {0} ELSE {}
  BY DEF Entered, Allocated
<1>3. \A n \in DOMAIN input.handles :
        HasLocation(accesses[n]) <=> input.handles[n].handle \in input.located
  BY <1>1, <1>2, HandlesAreTyped, AccessesOfTheMessage DEF HasLocation
<1>4. name \in kernelsWithS => (HasLocation(Scratch) <=> input.model = "commcache")
  BY <1>1, <1>2, HandlesAreTyped DEF HasLocation, Scratch
<1> QED
  BY <1>1, <1>3, <1>4, AccessesOfTheMessage DEF UsesUnlocated

(* Every access of a message is looked up by commcache, or read. *)
LEMMA EveryAccessIsLookedUp ==
  ASSUME input \in Inputs, accesses = Message, NEW n \in DOMAIN accesses
  PROVE  LookedUp(accesses[n]) \/ Read(accesses[n])
<1>1. CASE n \in DOMAIN input.handles
  BY <1>1, HandlesAreTyped, AccessesOfTheMessage DEF LookedUp, Read, Written
<1>2. CASE n \notin DOMAIN input.handles
  BY <1>2, AccessesOfTheMessage DEF LookedUp, Scratch
<1> QED
  BY <1>1, <1>2

LEMMA AstrayInit == Init => LocationInv /\ AstrayInv
  BY DEF Init, LocationInv, AstrayInv, AfterLookups

(* One step per action that looks something up. *)
LEMMA AstrayStep ==
  TaskIInv /\ ClockIInv /\ LocationInv /\ AstrayInv /\ [Next]_vars => LocationInv' /\ AstrayInv'
<1> SUFFICES ASSUME TaskIInv, ClockIInv, LocationInv, AstrayInv, [Next]_vars
             PROVE  LocationInv' /\ AstrayInv'
  OBVIOUS
<1> DEFINE Kept == accesses' = accesses /\ input' = input /\ located' = located
<1>1. /\ input \in Inputs /\ input.model \in {"nomodel", "task", "comm", "commcache"}
      /\ StartedSoFar /\ ModelOfPhase
  BY InputIsTyped DEF TaskIInv, InputType
<1>2. ASSUME input' = input
      PROVE  /\ (alloc' <=> alloc) /\ name' = name /\ (Handleless' <=> Handleless)
             /\ (UsesUnlocated' <=> UsesUnlocated) /\ (LacksLine' <=> LacksLine)
             /\ Entered' = Entered /\ Message' = Message /\ (Lacking' <=> Lacking)
  BY <1>2 DEF alloc, name, set, Handleless, UsesUnlocated, LacksLine, Allocated, Entered, Message, Lacking
<1>3. ASSUME Kept, pc # "get", pc' # "get" PROVE LocationInv'
  BY <1>2, <1>3 DEF LocationInv
<1>4. CASE Get
  <2>1. /\ input' = input /\ pc = "get" /\ pc' # "get" /\ accesses' = Message
        /\ located' = located \cup Entered
        /\ pc' \in {"sleep", "comm", "alloc", "begin", "undefined"}
        /\ (pc' = "sleep" => input.model \notin {"comm", "commcache"})
        /\ (pc' = "undefined" <=> input.model # "nomodel" /\ Handleless)
    BY <1>1, <1>4 DEF Get, Message
  <2>2. LocationInv'
    BY <1>2, <2>1 DEF LocationInv
  <2>3. AstrayInv'
    BY <1>2, <2>1 DEF AstrayInv, AfterLookups, Lacking, UsesUnlocated
  <2> QED
    BY <2>2, <2>3
<1>5. CASE StartComm
  <2>1. Kept /\ pc = "comm" /\ pc' \in {"waitComm", "undefined"} /\ input.model = "comm"
    BY <1>1, <1>5 DEF StartComm, ModelOfPhase, ClockIInv, PendingInv, Modelled
  <2>2. CASE name = "" \/ alloc
    <3>1. pc' = "waitComm" /\ ~UsesUnlocated
      BY <1>5, <2>2 DEF StartComm, UsesUnlocated
    <3> QED
      BY <1>2, <1>3, <2>1, <3>1 DEF AstrayInv, AfterLookups
  <2>3. CASE ~(name = "" \/ alloc)
    <3>1. UsesUnlocated <=> \E n \in DOMAIN accesses : ~HasLocation(accesses[n])
      BY <1>1, <2>1, <2>3, LocationsOfTheMessage
    <3>2. pc' = "undefined" <=> UsesUnlocated
      BY <1>5, <2>3, <3>1 DEF StartComm
    <3> QED
      BY <1>2, <1>3, <2>1, <3>2 DEF AstrayInv, AfterLookups, Lacking
  <2> QED
    BY <2>2, <2>3
<1>6. CASE StartW
  <2>1. Kept /\ pc = "begin" /\ pc' \in {"readEnd", "waitW", "undefined"} /\ input.model = "commcache"
    BY <1>1, <1>6 DEF StartW, ModelOfPhase
  <2>2. CASE name = "" \/ alloc
    <3>1. pc' = "readEnd" /\ ~UsesUnlocated
      BY <1>6, <2>2 DEF StartW, UsesUnlocated
    <3> QED
      BY <1>2, <1>3, <2>1, <3>1 DEF AstrayInv, AfterLookups
  <2>3. CASE ~(name = "" \/ alloc)
    <3>1. UsesUnlocated <=> \E n \in DOMAIN accesses : ~HasLocation(accesses[n])
      BY <1>1, <2>1, <2>3, LocationsOfTheMessage
    <3>2. /\ pc' \in {"waitW", "undefined"}
          /\ pc' = "undefined" => UsesUnlocated
          /\ pc' = "waitW" =>
               \A n \in DOMAIN accesses : LookedUp(accesses[n]) => HasLocation(accesses[n])
      BY <1>6, <2>3, <3>1 DEF StartW
    <3>3. pc' = "waitW" =>
            (\A n \in DOMAIN accesses : LookedUp(accesses[n]) => HasLocation(accesses[n]))'
      BY <1>2, <2>1, <3>2 DEF LookedUp, Written, HasLocation, set
    <3> QED
      BY <1>2, <1>3, <2>1, <3>2, <3>3 DEF AstrayInv, AfterLookups, Lacking
  <2> QED
    BY <2>2, <2>3
<1>7. CASE WaitWFirst
  <2>1. /\ Kept /\ pc = "waitW" /\ pc' \in {"waitWLate", "undefined"} /\ Moves
        /\ input.model = "commcache"
    BY <1>1, <1>7 DEF WaitWFirst, ModelOfPhase, StartedSoFar
  <2>2. UsesUnlocated <=> \E n \in DOMAIN accesses : ~HasLocation(accesses[n])
    BY <1>1, <2>1, LocationsOfTheMessage DEF Moves
  <2>3. \A n \in DOMAIN accesses : LookedUp(accesses[n]) => HasLocation(accesses[n])
    BY <2>1 DEF AstrayInv
  <2>4. \A n \in DOMAIN accesses : LookedUp(accesses[n]) \/ Read(accesses[n])
    BY <1>1, <2>1, EveryAccessIsLookedUp DEF LocationInv
  <2>5. pc' = "undefined" <=> UsesUnlocated
    BY <1>7, <2>2, <2>3, <2>4 DEF WaitWFirst
  <2> QED
    BY <1>2, <1>3, <2>1, <2>5 DEF AstrayInv, AfterLookups, Lacking
<1>8. CASE Sleep
  <2> DEFINE times == TaskTimes(IF input.model \in {"comm", "commcache"} /\ set.OVERLAP = 1
                                THEN end - start ELSE 0)
  <2>1. Kept /\ pc = "sleep" /\ times = TaskTimes(Subtract)
        /\ pc' = IF times = {} THEN "undefined" ELSE "done"
    BY <1>8 DEF Sleep, Subtract, Modelled
  <2>2. Subtract \in Nat
    BY <2>1 DEF Subtract, ClockIInv, EndInv, ClockTyped
  <2>3. times = {} <=> LacksLine
    BY <1>1, <2>1, <2>2, TaskTimesAreKnown
  <2> HIDE DEF times
  <2> QED
    BY <1>2, <1>3, <2>1, <2>3 DEF AstrayInv, AfterLookups, Lacking
<1>9. CASE StartAlloc \/ WaitAlloc
  BY <1>2, <1>3, <1>9 DEF StartAlloc, WaitAlloc, AstrayInv, AfterLookups
<1>10. CASE WaitComm \/ WaitWLate \/ WaitROverlapped \/ ReadEnd \/ WaitR
  BY <1>2, <1>3, <1>10 DEF WaitComm, WaitWLate, WaitROverlapped, ReadEnd, WaitR, AstrayInv, AfterLookups
<1>11. CASE Tick \/ Complete \/ UNCHANGED vars
  <2>1. Kept /\ pc' = pc
    BY <1>11 DEF Tick, Complete, vars
  <2>2. \A n \in DOMAIN accesses :
          (LookedUp(accesses[n]) => HasLocation(accesses[n])) =>
            (LookedUp(accesses[n]) => HasLocation(accesses[n]))'
    BY <1>2, <2>1 DEF LookedUp, Written, HasLocation, set
  <2>3. LocationInv'
    BY <1>2, <2>1 DEF LocationInv
  <2> QED
    BY <1>2, <2>1, <2>2, <2>3 DEF AstrayInv
<1> QED
  BY <1>4, <1>5, <1>6, <1>7, <1>8, <1>9, <1>10, <1>11 DEF Next, Step

LEMMA AstrayInductive == Spec => [](LocationInv /\ AstrayInv)
  BY TaskInductive, ClockInductive, AstrayInit, AstrayStep, PTL DEF Spec

(* The variables keep their types and no transfer completes that was not    *)
(* started, whatever the task, its tables and its options.                  *)
THEOREM TaskTypeOK == Spec => []TypeOK
<1>1. TaskIInv /\ ClockIInv /\ LocationInv => TypeOK
  <2> SUFFICES ASSUME TaskIInv, ClockIInv, LocationInv PROVE TypeOK
    OBVIOUS
  <2>1. accesses \in Seq(AccessType)
    <3>1. pc # "get" => accesses \in Seq(AccessType)
      BY DEF TaskIInv, MessageKept
    <3>2. pc = "get" => accesses = <<>>
      BY DEF ClockIInv, ClockTyped
    <3>3. <<>> \in Seq(AccessType)
      OBVIOUS
    <3> QED
      BY <3>1, <3>2, <3>3
  <2>2. located \subseteq Nat
    BY LocationsAreTyped DEF TaskIInv
  <2> QED
    BY <2>1, <2>2 DEF TaskIInv, ClockIInv, ClockTyped, TypeOK
<1> QED
  BY <1>1, TaskInductive, ClockInductive, AstrayInductive, PTL

(* A task goes astray exactly if it lacks a handle to allocate, an          *)
(* allocation of the data it uses, or a line of its table, for any task,    *)
(* modes, caches, options and order of the lookups (worker.hpp:82-88,       *)
(* comm.hpp:34-43, comm_cache.hpp:161, 181, 208, sleep.hpp:27-35).          *)
THEOREM AstrayForLackOnly == Spec => []AstrayIffLacking
<1>1. AstrayInv => AstrayIffLacking
  BY DEF AstrayInv, Lacking, AstrayIffLacking, AfterLookups
<1> QED
  BY <1>1, AstrayInductive, PTL

(* Without a table a task never takes longer than it took in the trace,     *)
(* since leastTime() takes the least of its name (time.hpp:37).             *)
THEOREM TracedTimeIsABound == Spec => []NeverSlowerThanTraced
<1>1. TaskIInv /\ ClockIInv => NeverSlowerThanTraced
  <2> DEFINE traced == input.tasks[input.msg].time
  <2> SUFFICES ASSUME TaskIInv, ClockIInv, pc = "done", input.model = "task",
                      name \notin mainKernels(set.TRACETIME, set.ARCH)
               PROVE  clock - Arrival <= 10 * traced
    BY DEF NeverSlowerThanTraced
  <2>1. input \in Inputs /\ ~Modelled /\ EveryWaitMade
    BY DEF TaskIInv, Modelled, EveryWaitMade
  <2>2. Subtract = 0 /\ quietAt = Arrival
    BY <2>1 DEF Subtract, ClockIInv, PendingInv
  <2>3. PICK t \in TaskTimes(Subtract) : clock = quietAt + Max({t, 0})
    BY <2>1 DEF ClockIInv, SleptInv
  <2>4. IF name = "" THEN t = 0 ELSE \E u \in Lookup : t = Shortened(u, Subtract)
    BY <2>1, <2>2, <2>3, TaskTimesAreKnown
  <2>5. traced \in Nat
    <3>1. input.tasks \in Seq([name : STRING, time : Nat]) /\ input.msg \in DOMAIN input.tasks
      BY <2>1, InputIsTyped DEF InputType
    <3>2. input.tasks[input.msg] \in [name : STRING, time : Nat]
      BY <3>1, EntryIsTyped
    <3> QED
      BY <3>2
  <2>6. \A u \in Lookup : u \in Nat /\ u <= traced
    <3>1. CASE alloc
      BY <2>1, <2>5, <3>1, KernelTimesAreKnown
    <3>2. CASE ~alloc
      BY <2>1, <3>2, KernelTimesAreKnown
    <3> QED
      BY <3>1, <3>2
  <2>7. \A u \in Lookup : Shortened(u, 0) = 10 * u
    BY <2>1, <2>6, ShortenedTime
  <2> HIDE DEF traced
  <2>8. t \in Nat /\ t <= 10 * traced
    <3>1. CASE name = ""
      <4>1. t = 0
        BY <2>4, <3>1, Zenon
      <4> QED
        BY <2>5, <4>1
    <3>2. CASE name # ""
      <4>1. PICK u \in Lookup : t = Shortened(u, 0)
        BY <2>2, <2>4, <3>2
      <4>2. t = 10 * u /\ u \in Nat /\ u <= traced
        BY <2>6, <2>7, <4>1
      <4> QED
        BY <2>5, <4>2
    <3> QED
      BY <3>1, <3>2
  <2>9. Max({t, 0}) = t
    <3>1. t \in Int /\ 0 \in Int /\ t >= 0
      BY <2>8
    <3>2. Max({t, 0}) = IF t >= 0 THEN t ELSE 0
      BY <3>1, OfTwo, Zenon
    <3> QED
      BY <3>1, <3>2
  <2>10. clock = Arrival + t
    BY <2>2, <2>3, <2>9
  <2> QED
    BY <2>5, <2>8, <2>10 DEF Arrival
<1> QED
  BY <1>1, TaskInductive, ClockInductive, PTL

(* A task takes the time of its transfers and of its kernel, less what is   *)
(* overlapped: their sum without overlap, the longer of the two when all is *)
(* overlapped at a share of 1, and never less than its kernel               *)
(* (comm_cache.hpp:50, 233-256, sleep.hpp:49-53).                           *)
THEOREM TaskTakesItsTime == Spec => []ElapsedTime
<1>1. TaskIInv /\ ClockIInv => ElapsedTime
  <2> DEFINE r     == Atof(set.OVERLAPRATIO)
             moved == quietAt - Arrival
             spent == clock - Arrival
  <2> SUFFICES ASSUME TaskIInv, ClockIInv, pc = "done", Modelled, KnownWaits
               PROVE  /\ KernelTime <= spent
                      /\ set.OVERLAP # 1 \/ r = 0 => spent = moved + KernelTime
                      /\ set.OVERLAP = 1 /\ r = 10 /\ Overlapped =>
                           spent = Max({moved, KernelTime})
    <3>1. Overlapped <=> set.OVERLAPR = 1 \/ input.model = "comm"
      BY DEF Overlapped
    <3> QED
      BY <3>1 DEF ElapsedTime, Modelled
  <2>1. input \in Inputs /\ EveryWaitMade /\ input.model # "nomodel"
    BY DEF TaskIInv, EveryWaitMade, Modelled
  <2>2. /\ {clock, start, end, quietAt} \subseteq Nat /\ Arrival <= start /\ start <= end
        /\ end <= quietAt /\ (~alloc => start = Arrival) /\ (Overlapped => end = quietAt)
    BY <2>1 DEF ClockIInv, ClockTyped, StartInv, EndInv
  <2>3. Subtract = (IF set.OVERLAP = 1 THEN end - start ELSE 0)
    BY DEF Subtract
  <2>4. Subtract \in Nat /\ moved \in Nat /\ Subtract <= moved
    BY <2>2, <2>3 DEF Arrival
  <2>5. set.OVERLAP = 1 /\ Overlapped /\ ~alloc => Subtract = moved
    BY <2>2, <2>3
  <2>6. PICK t \in TaskTimes(Subtract) : clock = quietAt + Max({t, 0})
    BY <2>1 DEF ClockIInv, SleptInv
  <2>7. IF name = "" THEN t = 0 ELSE \E u \in Lookup : t = Shortened(u, Subtract)
    BY <2>1, <2>4, <2>6, TaskTimesAreKnown
  <2>8. t \in Int
    BY <2>1, <2>4, <2>6, TaskTimesAreKnown
  <2>9. Max({t, 0}) = IF t >= 0 THEN t ELSE 0
    BY <2>8, OfTwo
  <2>10. spent = moved + (IF t >= 0 THEN t ELSE 0)
    BY <2>2, <2>6, <2>8, <2>9 DEF Arrival
  <2>11. CASE name = ""
    <3>1. KernelTime = 0 /\ t = 0
      BY <2>7, <2>11 DEF KernelTime
    <3>2. Max({moved, KernelTime}) = moved
      <4> HIDE DEF moved
      <4>1. moved \in Int /\ 0 \in Int /\ moved >= 0
        BY <2>4
      <4>2. Max({moved, 0}) = IF moved >= 0 THEN moved ELSE 0
        BY <4>1, OfTwo, Zenon
      <4> QED
        BY <3>1, <4>1, <4>2
    <3> HIDE DEF moved, spent
    <3> QED
      BY <2>4, <2>10, <3>1, <3>2
  <2>12. CASE name # ""
    <3>1. PICK u \in Lookup : t = Shortened(u, Subtract)
      BY <2>7, <2>12
    <3>2. u \in Nat /\ \A v \in Lookup : v = u
      BY <2>1, <3>1, KernelTimesAreKnown
    <3>3. KernelTime = 10 * u
      BY <2>12, <3>1, <3>2 DEF KernelTime, Lookup
    <3>4. /\ t \in (10 * u - Subtract) .. (10 * u)
          /\ Subtract = 0 \/ r = 0 \/ u = 0 => t = 10 * u
          /\ r = 10 => t = IF Subtract <= 10 * u THEN 10 * u - Subtract ELSE 0
      BY <2>1, <2>4, <3>1, <3>2, ShortenedTime
    <3>5. alloc => u = 0
      BY <2>1, <3>2, KernelTimesAreKnown
    <3>6. Max({moved, KernelTime}) = IF moved >= 10 * u THEN moved ELSE 10 * u
      <4> HIDE DEF moved
      <4>1. moved \in Int /\ 10 * u \in Int
        BY <2>4, <3>2
      <4>2. Max({moved, 10 * u}) = IF moved >= 10 * u THEN moved ELSE 10 * u
        BY <4>1, OfTwo, Zenon
      <4> QED
        BY <3>3, <4>2
    <3> HIDE DEF moved, spent, r
    <3>7. KernelTime <= spent
      BY <2>4, <2>8, <2>10, <3>2, <3>3, <3>4
    <3>8. set.OVERLAP # 1 \/ r = 0 => spent = moved + KernelTime
      BY <2>3, <2>4, <2>10, <3>2, <3>3, <3>4
    <3>9. set.OVERLAP = 1 /\ r = 10 /\ Overlapped => spent = Max({moved, KernelTime})
      <4> SUFFICES ASSUME set.OVERLAP = 1, r = 10, Overlapped
                   PROVE  spent = Max({moved, KernelTime})
        OBVIOUS
      <4>1. CASE alloc
        BY <2>4, <2>10, <3>2, <3>4, <3>5, <3>6, <4>1
      <4>2. CASE ~alloc
        BY <2>4, <2>5, <2>10, <3>2, <3>4, <3>6, <4>2
      <4> QED
        BY <4>1, <4>2
    <3> QED
      BY <3>7, <3>8, <3>9
  <2> QED
    BY <2>11, <2>12
<1> QED
  BY <1>1, TaskInductive, ClockInductive, PTL
=============================================================================

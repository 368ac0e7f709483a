--------------------------- MODULE CommFlagsProof ---------------------------
(***************************************************************************)
(* Over the invariant of CommCacheProof: the flags of the caches are exact *)
(* reference counts, the sources a task is given are right, and a source   *)
(* is lost only by eviction. Last, what the cache-aware scheduler chooses. *)
(***************************************************************************)
EXTENDS CommCacheProof

(* What a granted lock and the unlock of a locked handle do to its flag. *)
LEMMA FirstLock ==
  ASSUME NEW c, NEW x \in Handle, Sound(c), HasRoom(c), ~IsLocked(c, x)
  PROVE  LET d == AppendToCache(c, x)
         IN  IsLocked(d, x) /\ (CACHELOCK => d.dataLockFlag[x] = 1)
<1>1. c \in Cache
  BY DEF Sound
<1>2. CASE ~InCache(c, x)
  <2>1. MakeRoom(c) \in Cache
    BY <1>1, <1>2, MakeRoomIsReady DEF ReadyFor
  <2>2. AppendToCache(c, x) = PushLocked(MakeRoom(c), x)
    BY <1>2 DEF AppendToCache
  <2> QED
    BY <2>1, <2>2, MakeRoomEffect, PushEffect
<1>3. CASE InCache(c, x)
  <2>1. Reclaim(c, x) \in Cache
    BY <1>1, <1>3, ReclaimIsReady DEF ReadyFor
  <2>2. /\ Reclaim(c, x).lockedList = c.lockedList
        /\ Reclaim(c, x).dataLockFlag = c.dataLockFlag
        /\ Reclaim(c, x).cacheHashMap = c.cacheHashMap
    BY <1>1 DEF Reclaim, Cache
  <2>3. AppendToCache(c, x) = PushLocked(Reclaim(c, x), x)
    BY <1>3 DEF AppendToCache
  <2> QED
    BY <2>1, <2>2, <2>3, PushEffect
<1> QED
  BY <1>2, <1>3

LEMMA AppendRaises ==
  ASSUME NEW c, NEW x \in Handle, Sound(c), CACHELOCK, AppendSucceeds(c, x)
  PROVE  AppendToCache(c, x).dataLockFlag[x] = c.dataLockFlag[x] + 1
<1>1. HasRoom(c) /\ c \in Cache
  BY DEF AppendSucceeds, Sound
<1>2. c.dataLockFlag[x] \in Int /\ (~IsLocked(c, x) => c.dataLockFlag[x] = 0)
  BY UnlockedFlagIsZero
<1>3. CASE ~IsLocked(c, x)
  BY <1>1, <1>2, <1>3, FirstLock
<1>4. CASE IsLocked(c, x)
  <2>1. AppendToCache(c, x) = LockAgain(c, x)
    BY <1>1, <1>4, LockedIsCached DEF AppendToCache
  <2>2. LockAgain(c, x).dataLockFlag = [c.dataLockFlag EXCEPT ![x] = @ + 1]
    BY <1>1 DEF LockAgain, Cache
  <2>3. c.dataLockFlag \in [Handle -> Int]
    BY <1>1, ListLengths
  <2> QED
    BY <2>1, <2>2, <2>3
<1> QED
  BY <1>3, <1>4

LEMMA UnlockLowers ==
  ASSUME NEW c, NEW x \in Handle, Sound(c), CACHELOCK, IsLocked(c, x)
  PROVE  UnlockData(c, x).dataLockFlag[x] = c.dataLockFlag[x] - 1
<1> DEFINE low == LowerFlag(c, x)
<1>1. c \in Cache /\ c.dataLockFlag \in [Handle -> Int]
  BY ListLengths DEF Sound
<1>2. low.dataLockFlag[x] = c.dataLockFlag[x] - 1
  BY <1>1 DEF LowerFlag, Cache
<1>3. Release(low, x).dataLockFlag = low.dataLockFlag
  BY <1>1 DEF Release, LowerFlag, Cache
<1>4. UnlockData(c, x) = IF low.dataLockFlag[x] = 0 THEN Release(low, x) ELSE low
  BY DEF UnlockData
<1> QED
  BY <1>2, <1>3, <1>4

LEMMA UnlockOfUnlocked ==
  ASSUME NEW c, NEW x, ~IsLocked(c, x)
  PROVE  UnlockData(c, x) = c
  BY DEF UnlockData
-----------------------------------------------------------------------------
(***************************************************************************)
(* The tasks that hold a datum.                                            *)
(***************************************************************************)
LEMMA HoldersAreFinite ==
  ASSUME NEW n, NEW h
  PROVE  IsFiniteSet(Holders(n, h)) /\ Cardinality(Holders(n, h)) \in Nat
<1>1. IsFiniteSet(Core)
  BY CommAssumption, FS_Interval DEF Core
<1>2. IsFiniteSet(Holders(n, h))
  BY <1>1, FS_Subset DEF Holders
<1> QED
  BY <1>2, FS_CardinalityType

CountsAgree(n, h) == cache[n].dataLockFlag[h] = Cardinality(Holders(n, h))

LEMMA FlagsCountHoldersMeans ==
  ASSUME ~refused
  PROVE  FlagsCountHolders <=>
           \A n \in Node : \A h \in Data : OfNodeZero(h) => CountsAgree(n, h)
  BY DEF FlagsCountHolders, CountsAgree, Holders

LEMMA FlagsCountHoldersMeansAfter ==
  ASSUME ~refused'
  PROVE  FlagsCountHolders' <=>
           \A n \in Node : \A h \in Data : OfNodeZero(h)' => CountsAgree(n, h)'
  BY DEF FlagsCountHolders, CountsAgree, Holders

(* Steps that hold the same data and keep the flags keep the counts. *)
LEMMA CountsKept ==
  ASSUME NEW n, NEW h, cache'[n].dataLockFlag[h] = cache[n].dataLockFlag[h],
         \A k \in Core : h \in held'[k] <=> h \in held[k], CountsAgree(n, h)
  PROVE  CountsAgree(n, h)'
  BY DEF CountsAgree, Holders

(* Steps that hold the same data and keep the flags keep the counts. *)
LEMMA AllCountsKept ==
  ASSUME FlagInv, CommIInv, UNCHANGED <<cache, refused>>,
         \A h \in Data : handlesLocationMap'[h] = handlesLocationMap[h],
         \A k \in Core : \A h \in Data : h \in held'[k] <=> h \in held[k]
  PROVE  CACHELOCK /\ ~refused' => FlagsCountHolders'
<1> SUFFICES ASSUME CACHELOCK, ~refused', NEW n \in Node, NEW h \in Data, OfNodeZero(h)'
             PROVE  CountsAgree(n, h)'
  BY FlagsCountHoldersMeansAfter
<1>1. CountsAgree(n, h)
  BY FlagsCountHoldersMeans DEF FlagInv, OfNodeZero
<1> QED
  BY <1>1, CountsKept

(* A step of core k, seen from the other cores. *)
LEMMA OthersKept ==
  ASSUME FlagInv, NEW k \in Core, OnlyCore(k), ~refused,
         \A l \in Core \ {k} : held'[l] = held[l]
  PROVE  \A l \in Core \ {k} : \A h \in Data :
            h \in held'[l] <=> Claims(l, h)' /\ ~IsAllocation(task'[l])
  BY OtherClaims DEF FlagInv, HeldIsClaimed, OnlyCore

LEMMA NoTask == IsShape(<<>>) /\ ~IsAllocation(<<>>)
  BY DEF IsShape, OncePerHandle, IsAllocation

LEMMA ShapesKept ==
  ASSUME FlagInv, NEW k \in Core, OnlyCore(k), IsShape(task'[k]),
         pc'[k] # "place" => toPlace'[k] = {}
  PROVE  TaskShapes'
<1>1. ASSUME NEW l \in Core PROVE IsShape(task'[l]) /\ (pc'[l] # "place" => toPlace'[l] = {})
  <2>1. CASE l = k
    BY <2>1
  <2>2. CASE l # k
    BY <2>2 DEF OnlyCore, FlagInv, TaskShapes
  <2> QED
    BY <2>1, <2>2
<1> QED
  BY <1>1 DEF TaskShapes

LEMMA StartTaskKeepsFlagInv ==
  ASSUME CommIInv, FlagInv, NEW k \in Core, NEW t \in Kernels, StartTask(k, t), OncePerHandle(t)
  PROVE  FlagInv'
<1>1. /\ pc[k] = "idle" /\ UNCHANGED <<cache, unlocked, held, refused>>
      /\ task' = [task EXCEPT ![k] = t]
      /\ toPlace' = [toPlace EXCEPT ![k] = DOMAIN HandleModeMap(k, t)]
      /\ pc' = [pc EXCEPT ![k] = IF t = <<>> THEN "placed" ELSE "place"]
  BY DEF StartTask
<1>2. \A h \in Data : handlesLocationMap'[h] = handlesLocationMap[h]
  BY Names DEF StartTask, CommIInv, CacheInv, TypeOK
<1>3. /\ t \in Seq(Access) /\ ~IsAllocation(t)
      /\ t = <<>> => DOMAIN HandleModeMap(k, t) = {}
  <2>1. t \in Seq({a \in Access : a.mode # "A"})
    BY CommAssumption
  <2>2. /\ Len(t) \in Nat /\ DOMAIN t = 1 .. Len(t) /\ t \in Seq(Access)
        /\ \A m \in 1 .. Len(t) : t[m].mode # "A"
    BY <2>1
  <2>3. t = <<>> => Uses(t) = {}
    BY DEF Uses
  <2>4. t # <<>> => 1 \in 1 .. Len(t)
    BY <2>2, EmptySeq
  <2> QED
    BY <2>2, <2>3, <2>4 DEF IsAllocation, HandleModeMap
<1>4. OnlyCore(k)
  BY <1>1 DEF OnlyCore, CommIInv, CacheInv, TypeOK
<1>5. /\ pc'[k] = IF t = <<>> THEN "placed" ELSE "place"
      /\ task'[k] = t /\ toPlace'[k] = DOMAIN HandleModeMap(k, t)
  BY <1>1 DEF CommIInv, CacheInv, TypeOK
<1>6. TaskShapes'
  BY <1>3, <1>4, <1>5, ShapesKept DEF IsShape
<1>7. ASSUME ~refused' PROVE HeldIsClaimed'
  <2>1. \A h \in Data : ~Claims(k, h) /\ ~Claims(k, h)'
    BY <1>1, <1>5 DEF Claims, Taken
  <2>2. \A h \in Data : h \notin held[k]
    BY <1>1, <1>7, <2>1 DEF FlagInv, HeldIsClaimed
  <2> QED
    BY <1>1, <1>4, <1>7, <2>1, <2>2, OthersKept DEF HeldIsClaimed
<1>8. CACHELOCK /\ ~refused' => FlagsCountHolders'
  BY <1>1, <1>2, AllCountsKept
<1> QED
  BY <1>6, <1>7, <1>8 DEF FlagInv

LEMMA StartReadsKeepsFlagInv ==
  ASSUME CommIInv, FlagInv, NEW k \in Core, StartReads(k)
  PROVE  FlagInv'
<1>1. /\ pc[k] = "placed" /\ pc' = [pc EXCEPT ![k] = "fetch"]
      /\ UNCHANGED <<cache, handlesLocationMap, task, toPlace, unlocked, held, refused>>
  BY DEF StartReads
<1>2. OnlyCore(k) /\ pc'[k] = "fetch"
  BY <1>1 DEF OnlyCore, CommIInv, CacheInv, TypeOK
<1>3. TaskShapes'
  <2>1. IsShape(task'[k]) /\ toPlace'[k] = {}
    BY <1>1 DEF FlagInv, TaskShapes
  <2> QED
    BY <1>2, <2>1, ShapesKept
<1>4. \A h \in Data : Claims(k, h)' <=> Claims(k, h)
  BY <1>1, <1>2 DEF Claims, Taken
<1>5. ASSUME ~refused' PROVE HeldIsClaimed'
  BY <1>1, <1>2, <1>4, <1>5, OthersKept DEF FlagInv, HeldIsClaimed
<1> QED
  BY <1>1, <1>3, <1>5, AllCountsKept DEF FlagInv

LEMMA FinishTaskKeepsFlagInv ==
  ASSUME CommIInv, FlagInv, NEW k \in Core, FinishTask(k)
  PROVE  FlagInv'
<1>1. /\ pc[k] = "fetch" /\ UNCHANGED <<cache, handlesLocationMap, toPlace, refused>>
  BY DEF FinishTask
<1>2. task[k] \in Seq(Access) /\ unlocked[k] = 0 /\ toPlace[k] = {}
  BY <1>1 DEF CommIInv, CacheInv, TypeOK, PhasesAgree, FlagInv, TaskShapes
<1>3. CASE task[k] = <<>>
  <2>1. Leave(k)
    BY <1>3 DEF FinishTask
  <2>2. /\ OnlyCore(k) /\ pc'[k] = "idle" /\ task'[k] = <<>> /\ held'[k] = {}
        /\ \A l \in Core \ {k} : held'[l] = held[l]
    BY <1>1, <2>1 DEF Leave, Idle, OnlyCore, CommIInv, CacheInv, TypeOK
  <2>3. TaskShapes'
    BY <1>1, <1>2, <2>2, NoTask, ShapesKept
  <2>4. \A h \in Data : ~Claims(k, h) /\ ~Claims(k, h)'
    BY <1>1, <1>3, <2>2 DEF Claims, Taken
  <2>5. ASSUME ~refused' PROVE HeldIsClaimed'
    BY <1>1, <2>2, <2>4, <2>5, OthersKept DEF HeldIsClaimed
  <2>6. ~refused' => \A l \in Core : \A h \in Data : h \in held'[l] <=> h \in held[l]
    BY <1>1, <2>2, <2>4 DEF FlagInv, HeldIsClaimed
  <2> QED
    BY <1>1, <2>3, <2>5, <2>6, AllCountsKept DEF FlagInv
<1>4. CASE task[k] # <<>>
  <2>1. pc' = [pc EXCEPT ![k] = "unlock"] /\ UNCHANGED <<task, unlocked, held>>
    BY <1>4 DEF FinishTask
  <2>2. OnlyCore(k) /\ pc'[k] = "unlock"
    BY <1>1, <2>1 DEF OnlyCore, CommIInv, CacheInv, TypeOK
  <2>3. TaskShapes'
    <3>1. IsShape(task'[k]) /\ toPlace'[k] = {}
      BY <1>1, <1>2, <2>1 DEF FlagInv, TaskShapes
    <3> QED
      BY <2>2, <3>1, ShapesKept
  <2>4. ToUnlock(k)' = Uses(task[k])
    <3>1. DOMAIN task[k] = (0 + 1) .. Len(task[k])
      BY <1>2
    <3> QED
      BY <1>2, <2>1, <3>1 DEF ToUnlock, Uses
  <2>5. ASSUME ~IsAllocation(task[k]), NEW h \in Data
        PROVE  Claims(k, h)' <=> Claims(k, h)
    <3>1. Claims(k, h) <=> h \in Uses(task[k])
      BY <1>1, <1>2, <1>4, <2>5, UsesOfTask DEF Claims, Taken, IsAllocation
    <3>2. Claims(k, h)' <=> h \in Uses(task[k])
      BY <2>2, <2>4 DEF Claims, Taken
    <3> QED
      BY <3>1, <3>2
  <2>6. ASSUME ~refused' PROVE HeldIsClaimed'
    BY <1>1, <2>1, <2>2, <2>5, <2>6, OthersKept DEF FlagInv, HeldIsClaimed
  <2> QED
    BY <1>1, <2>1, <2>3, <2>6, AllCountsKept DEF FlagInv
<1> QED
  BY <1>3, <1>4

LEMMA AllocateKeepsFlagInv ==
  ASSUME CommIInv, FlagInv, NEW k \in Core, NEW x \in Data, Allocate(k, x)
  PROVE  FlagInv'
<1> DEFINE node == CacheNum[k]
           t == <<[handle |-> x, mode |-> "A"]>>
           C == [cache EXCEPT ![0] = AppendToCache(@, x)]
<1>1. /\ pc[k] = "idle" /\ handlesLocationMap[x] = NoNode
      /\ handlesLocationMap' = [handlesLocationMap EXCEPT ![x] = node]
      /\ cache' = [C EXCEPT ![node] = UnlockData(@, x)]
      /\ task' = [task EXCEPT ![k] = t] /\ pc' = [pc EXCEPT ![k] = "fetch"]
      /\ UNCHANGED <<toPlace, unlocked, held, refused>>
  BY DEF Allocate
<1>2. /\ x \in Handle /\ node \in Node /\ 0 \in Node /\ node # NoNode
      /\ Data \subseteq Handle
  BY Names
<1>3. \A n \in Node : Sound(cache[n]) /\ ~InCache(cache[n], x) /\ ~IsLocked(cache[n], x)
  BY <1>1, <1>2, SoundCaches, LockedIsCached
     DEF CommIInv, CacheInv, TypeOK, AllSound, LockInv, NewIsUncached
<1>4. /\ C \in [Node -> Cache] /\ \A n \in Node : Sound(C[n])
      /\ C[0] = AppendToCache(cache[0], x) /\ \A n \in Node \ {0} : C[n] = cache[n]
  BY <1>2, <1>3, AppendKeepsSound DEF CommIInv, CacheInv, TypeOK, Sound
<1>5. OncePerHandle(t) /\ IsAllocation(t) /\ \E h \in Data : t = <<[handle |-> h, mode |-> "A"]>>
  BY DEF OncePerHandle, IsAllocation
<1> HIDE DEF node, t, C
<1>6. /\ cache'[node] = UnlockData(C[node], x)
      /\ \A n \in Node \ {node} : cache'[n] = C[n]
  BY <1>1, <1>2, <1>4
<1>7. OnlyCore(k) /\ pc'[k] = "fetch" /\ task'[k] = t
  BY <1>1 DEF OnlyCore, CommIInv, CacheInv, TypeOK
<1>8. TaskShapes'
  <2>1. IsShape(task'[k]) /\ toPlace'[k] = {}
    BY <1>1, <1>5, <1>7 DEF IsShape, FlagInv, TaskShapes
  <2> QED
    BY <1>7, <2>1, ShapesKept
<1>9. ASSUME ~refused' PROVE HeldIsClaimed'
  <2>1. \A h \in Data : ~Claims(k, h)
    BY <1>1 DEF Claims, Taken
  <2>2. \A h \in Data : h \notin held[k]
    BY <1>1, <1>9, <2>1 DEF FlagInv, HeldIsClaimed
  <2> QED
    BY <1>1, <1>5, <1>7, <1>9, <2>2, OthersKept DEF HeldIsClaimed
<1>10. ASSUME NEW n \in Node, NEW h \in Data, h # x
       PROVE  cache'[n].dataLockFlag[h] = cache[n].dataLockFlag[h]
  <2>1. C[n].dataLockFlag[h] = cache[n].dataLockFlag[h]
    BY <1>2, <1>3, <1>4, <1>10, AppendEffect DEF SameLocks
  <2>2. cache'[n].dataLockFlag[h] = C[n].dataLockFlag[h]
    BY <1>2, <1>4, <1>6, <1>10, UnlockEffect DEF SameLocks
  <2> QED
    BY <2>1, <2>2
<1>11. ASSUME CACHELOCK, node = 0, NEW n \in Node
       PROVE  cache'[n].dataLockFlag[x] = 0
  <2>1. Sound(cache'[n]) /\ ~IsLocked(cache'[n], x)
    <3>1. CASE n = 0
      <4>1. ~InCache(cache[0], x) /\ Sound(cache[0])
        BY <1>2, <1>3
      <4>2. ~IsLocked(UnlockData(AppendToCache(cache[0], x), x), x)
        BY <1>2, <4>1, AllocationUnlocks
      <4>3. Sound(UnlockData(C[0], x))
        BY <1>2, <1>4, UnlockKeepsSound
      <4> QED
        BY <1>4, <1>6, <1>11, <3>1, <4>2, <4>3
    <3>2. CASE n # 0
      BY <1>3, <1>4, <1>6, <1>11, <3>2
    <3> QED
      BY <3>1, <3>2
  <2> QED
    BY <1>2, <1>11, <2>1, UnlockedFlagIsZero
<1>12. ASSUME CACHELOCK, ~refused', NEW n \in Node, NEW h \in Data, OfNodeZero(h)'
       PROVE  CountsAgree(n, h)'
  <2>1. CASE h # x
    <3>1. OfNodeZero(h)
      BY <1>1, <1>12, <2>1 DEF OfNodeZero, CommIInv, CacheInv, TypeOK
    <3>2. CountsAgree(n, h)
      BY <1>1, <1>12, <3>1, FlagsCountHoldersMeans DEF FlagInv
    <3> QED
      BY <1>1, <1>10, <2>1, <3>2, CountsKept
  <2>2. CASE h = x
    <3>1. node = 0
      BY <1>1, <1>2, <1>12, <2>2 DEF OfNodeZero, CommIInv, CacheInv, TypeOK
    <3>2. \A l \in Core : x \notin Uses(task[l])
      BY <1>1 DEF CommIInv, CacheInv, Located
    <3>3. \A l \in Core : x \notin held[l]
      BY <1>1, <1>12, <3>2, ClaimsAreUses DEF FlagInv, HeldIsClaimed, CommIInv
    <3>4. Holders(n, x)' = {}
      BY <1>1, <3>3 DEF Holders
    <3> QED
      BY <1>11, <1>12, <2>2, <3>1, <3>4, FS_EmptySet DEF CountsAgree
  <2> QED
    BY <2>1, <2>2
<1>13. CACHELOCK /\ ~refused' => FlagsCountHolders'
  BY <1>12, FlagsCountHoldersMeansAfter
<1> QED
  BY <1>8, <1>9, <1>13 DEF FlagInv

LEMMA PlaceNextKeepsFlagInv ==
  ASSUME CommIInv, FlagInv, NEW k \in Core, PlaceNext(k)
  PROVE  FlagInv'
<1> DEFINE node == CacheNum[k]
           mode(h) == HandleModeMap(k, task[k])[h]
<1>1. PICK x \in toPlace[k] :
        /\ cache' = Place(node, x, mode(x))
        /\ held' = IF AppendSucceeds(cache[node], x)
                   THEN [held EXCEPT ![k] = @ \cup {x}] ELSE held
        /\ refused' = (refused \/ ~AppendSucceeds(cache[node], x))
        /\ toPlace' = [toPlace EXCEPT ![k] = @ \ {x}]
        /\ pc' = [pc EXCEPT ![k] = IF toPlace[k] = {x} THEN "placed" ELSE "place"]
  BY DEF PlaceNext
<1>2. pc[k] = "place" /\ UNCHANGED <<handlesLocationMap, task, unlocked>>
  BY DEF PlaceNext
<1>3. x \in Handle /\ node \in Node /\ Data \subseteq Handle
  BY Names DEF CommIInv, CacheInv, TypeOK
<1> HIDE DEF node, mode
<1>4. /\ OnlyCore(k) /\ pc'[k] \in {"place", "placed"} /\ task'[k] = task[k]
      /\ toPlace'[k] = toPlace[k] \ {x} /\ (pc'[k] # "place" => toPlace'[k] = {})
      /\ \A l \in Core \ {k} : held'[l] = held[l]
  BY <1>1, <1>2 DEF OnlyCore, CommIInv, CacheInv, TypeOK
<1>5. \A n \in Node : Sound(cache[n])
  BY SoundCaches DEF CommIInv, CacheInv, TypeOK, AllSound
<1>6. /\ cache'[node] = AppendToCache(cache[node], x)
      /\ \A n \in Node \ {node} : cache'[n] \in {cache[n], EraseFromCache(cache[n], x)}
  BY <1>1, <1>3 DEF Place
<1>7. TaskShapes'
  <2>1. IsShape(task'[k])
    BY <1>4 DEF FlagInv, TaskShapes
  <2> QED
    BY <1>4, <2>1, ShapesKept
<1>8. /\ task[k] \in Seq(Access) /\ task[k] # <<>> /\ ~IsAllocation(task[k])
      /\ task[k][1].mode # "A" /\ x \in DOMAIN HandleModeMap(k, task[k])
  <2>1. task[k] \in Seq(Access) /\ \A m \in DOMAIN task[k] : task[k][m].mode # "A"
    BY <1>2 DEF CommIInv, CacheInv, TypeOK, PhasesAgree
  <2>2. x \in {LocalName(k, h) : h \in Uses(task[k])}
    BY <1>1, <1>2 DEF CommIInv, CacheInv, PhasesAgree
  <2>3. PICK m \in DOMAIN task[k] : TRUE
    BY <2>2 DEF Uses
  <2>4. 1 \in DOMAIN task[k]
    BY <2>1, <2>3
  <2>5. x \in DOMAIN HandleModeMap(k, task[k])
    BY <2>1, <2>2, UsesOfTask
  <2>6. task[k] # <<>>
    BY <2>4
  <2> QED
    BY <2>1, <2>4, <2>5, <2>6 DEF IsAllocation
<1>9. ASSUME NEW h \in Data
      PROVE  /\ Claims(k, h)' <=> Claims(k, h) \/ h = x
             /\ ~Claims(k, x)
  BY <1>1, <1>2, <1>4, <1>8 DEF Claims, Taken, HandleModeMap, IsAllocation
<1>10. ASSUME ~refused'
       PROVE  /\ ~refused /\ AppendSucceeds(cache[node], x)
              /\ held'[k] = held[k] \cup {x} /\ HeldIsClaimed'
  <2>1. ~refused /\ AppendSucceeds(cache[node], x) /\ held'[k] = held[k] \cup {x}
    BY <1>1, <1>10 DEF CommIInv, CacheInv, TypeOK
  <2> QED
    BY <1>4, <1>8, <1>9, <2>1, OthersKept DEF FlagInv, HeldIsClaimed
<1>11. ASSUME CACHELOCK, ~refused', NEW n \in Node, NEW h \in Data, OfNodeZero(h)'
       PROVE  CountsAgree(n, h)'
  <2>1. CountsAgree(n, h) /\ h \in Handle
    BY <1>2, <1>3, <1>10, <1>11, FlagsCountHoldersMeans DEF FlagInv, OfNodeZero
  <2>2. CASE n # node
    <3>1. cache'[n].dataLockFlag[h] = cache[n].dataLockFlag[h]
      BY <1>3, <1>5, <1>6, <2>2, EraseEffect
    <3>2. Holders(n, h)' = Holders(n, h)
      BY <1>4, <2>2 DEF Holders, node
    <3> QED
      BY <2>1, <3>1, <3>2 DEF CountsAgree
  <2>3. CASE n = node /\ h # x
    <3>1. cache'[n].dataLockFlag[h] = cache[n].dataLockFlag[h]
      BY <1>3, <1>5, <1>6, <2>1, <2>3, AppendEffect DEF SameLocks
    <3>2. \A l \in Core : h \in held'[l] <=> h \in held[l]
      BY <1>4, <1>10, <1>11, <2>3
    <3> QED
      BY <2>1, <3>1, <3>2, CountsKept
  <2>4. CASE n = node /\ h = x
    <3>1. cache'[n].dataLockFlag[h] = cache[n].dataLockFlag[h] + 1
      BY <1>3, <1>5, <1>6, <1>10, <1>11, <2>4, AppendRaises
    <3>2. k \notin Holders(n, h)
      BY <1>9, <1>10, <1>11, <2>4 DEF FlagInv, HeldIsClaimed, Holders
    <3>3. Holders(n, h)' = Holders(n, h) \cup {k}
      BY <1>4, <1>10, <1>11, <2>4 DEF Holders, node
    <3>4. Cardinality(Holders(n, h) \cup {k}) = Cardinality(Holders(n, h)) + 1
      BY <3>2, HoldersAreFinite, FS_AddElement
    <3> QED
      BY <2>1, <3>1, <3>3, <3>4 DEF CountsAgree
  <2> QED
    BY <2>2, <2>3, <2>4
<1>12. CACHELOCK /\ ~refused' => FlagsCountHolders'
  BY <1>11, FlagsCountHoldersMeansAfter
<1> QED
  BY <1>7, <1>10, <1>12 DEF FlagInv

(* What the loop of the unlocks has left to do. *)
LEMMA UnlockNextClaims ==
  ASSUME CommIInv, FlagInv, NEW k \in Core, UnlockNext(k),
         NEW x, x = task[k][unlocked[k] + 1].handle
  PROVE  /\ x \in Data \cup {MYHANDLE} /\ Claims(k, x)
         /\ \A h \in Data : Claims(k, h)' <=> Claims(k, h) /\ h # x
         /\ task'[k] = task[k] \/ pc'[k] = "idle"
<1>1. /\ pc[k] = "unlock" /\ UNCHANGED <<handlesLocationMap, toPlace>>
      /\ IF LastUnlocked(k) THEN Leave(k)
         ELSE unlocked' = [unlocked EXCEPT ![k] = @ + 1] /\ UNCHANGED <<pc, task>>
  BY DEF UnlockNext
<1>2. /\ task[k] \in Seq(Access) /\ unlocked[k] \in Nat /\ unlocked[k] < Len(task[k])
      /\ Len(task[k]) \in Nat
  BY <1>1 DEF CommIInv, CacheInv, TypeOK, PhasesAgree
<1>3. unlocked[k] + 1 \in DOMAIN task[k]
  BY <1>2
<1>4. x \in Data \cup {MYHANDLE}
  BY <1>2, <1>3, UsesOfTask
<1>5. \A h : Claims(k, h) <=> h \in ToUnlock(k)
  BY <1>1 DEF Claims, Taken
<1>6. ToUnlock(k) = {x} \cup {task[k][m].handle : m \in (unlocked[k] + 2) .. Len(task[k])}
  <2>1. (unlocked[k] + 1) .. Len(task[k]) = {unlocked[k] + 1} \cup (unlocked[k] + 2) .. Len(task[k])
    BY <1>2
  <2> QED
    BY <2>1 DEF ToUnlock
<1>7. x \notin {task[k][m].handle : m \in (unlocked[k] + 2) .. Len(task[k])}
  <2> SUFFICES ASSUME NEW m \in (unlocked[k] + 2) .. Len(task[k]), task[k][m].handle = x
               PROVE  FALSE
    OBVIOUS
  <2>1. m \in DOMAIN task[k] /\ m # unlocked[k] + 1
    BY <1>2
  <2> QED
    BY <1>3, <2>1 DEF FlagInv, TaskShapes, IsShape, OncePerHandle
<1>8. CASE LastUnlocked(k)
  <2>1. pc'[k] = "idle"
    BY <1>1, <1>8 DEF Leave, CommIInv, CacheInv, TypeOK
  <2>2. \A h : ~Claims(k, h)'
    BY <2>1 DEF Claims, Taken
  <2>3. (unlocked[k] + 2) .. Len(task[k]) = {}
    BY <1>2, <1>8 DEF LastUnlocked
  <2> QED
    BY <1>4, <1>5, <1>6, <2>1, <2>2, <2>3
<1>9. CASE ~LastUnlocked(k)
  <2>1. pc'[k] = "unlock" /\ task'[k] = task[k] /\ unlocked'[k] = unlocked[k] + 1
    BY <1>1, <1>9 DEF CommIInv, CacheInv, TypeOK
  <2>2. \A h : Claims(k, h)' <=> h \in ToUnlock(k)'
    BY <2>1 DEF Claims, Taken
  <2>3. ToUnlock(k)' = {task[k][m].handle : m \in (unlocked[k] + 2) .. Len(task[k])}
    BY <1>2, <2>1 DEF ToUnlock
  <2> QED
    BY <1>4, <1>5, <1>6, <1>7, <2>1, <2>2, <2>3
<1> QED
  BY <1>8, <1>9

(* No task holds what an allocation is about to unlock. *)
LEMMA AllocatedIsFree ==
  ASSUME CommIInv, TaskShapes, HeldIsClaimed, Ordered, NEW k \in Core, NEW h \in Data,
         Claims(k, h), IsAllocation(task[k])
  PROVE  \A l \in Core : h \notin held[l]
<1>1. h \in Changed(task[k])
  <2>1. PICK g \in Data : task[k] = <<[handle |-> g, mode |-> "A"]>>
    BY DEF TaskShapes, IsShape
  <2>2. Uses(task[k]) = {g} /\ Changed(task[k]) = {g}
    BY <2>1 DEF Uses, Changed
  <2>3. h \in Uses(task[k])
    BY ClaimsAreUses DEF CommIInv
  <2> QED
    BY <2>2, <2>3
<1>2. h \notin held[k]
  BY DEF HeldIsClaimed
<1>3. ASSUME NEW l \in Core \ {k}, h \in held[l] PROVE FALSE
  <2>1. h \in Uses(task[l])
    BY <1>3, ClaimsAreUses DEF HeldIsClaimed, CommIInv
  <2>2. ~Conflict(task[k], task[l])
    BY DEF CommIInv, NoConflict
  <2> QED
    BY <1>1, <2>1, <2>2 DEF Conflict
<1> QED
  BY <1>2, <1>3

LEMMA UnlockNextKeepsFlagInv ==
  ASSUME CommIInv, FlagInv, Ordered, NEW k \in Core, UnlockNext(k)
  PROVE  FlagInv'
<1> DEFINE node == CacheNum[k]
           x == task[k][unlocked[k] + 1].handle
<1>1. /\ pc[k] = "unlock" /\ cache' = [cache EXCEPT ![node] = UnlockData(@, x)]
      /\ UNCHANGED <<handlesLocationMap, toPlace, refused>>
      /\ IF LastUnlocked(k) THEN Leave(k)
         ELSE /\ unlocked' = [unlocked EXCEPT ![k] = @ + 1]
              /\ held' = [held EXCEPT ![k] = @ \ {x}] /\ UNCHANGED <<pc, task>>
  BY DEF UnlockNext
<1>2. /\ x \in Data \cup {MYHANDLE} /\ Claims(k, x)
      /\ \A h \in Data : Claims(k, h)' <=> Claims(k, h) /\ h # x
      /\ task'[k] = task[k] \/ pc'[k] = "idle"
  BY UnlockNextClaims
<1>3. node \in Node /\ Data \subseteq Handle /\ (x \in Handle <=> x \in Data)
  BY <1>2, Names
<1> HIDE DEF node, x
<1>4. /\ OnlyCore(k) /\ pc'[k] # "place" /\ (task'[k] = task[k] \/ task'[k] = <<>>)
      /\ \A l \in Core \ {k} : held'[l] = held[l]
      /\ \/ held'[k] = {} /\ pc'[k] = "idle"
         \/ held'[k] = held[k] \ {x} /\ task'[k] = task[k]
  <2>1. CASE LastUnlocked(k)
    <3>1. Leave(k) /\ UNCHANGED toPlace
      BY <1>1, <2>1
    <3> QED
      BY <3>1 DEF OnlyCore, Leave, Idle, CommIInv, CacheInv, TypeOK
  <2>2. CASE ~LastUnlocked(k)
    <3>1. /\ unlocked' = [unlocked EXCEPT ![k] = @ + 1]
          /\ held' = [held EXCEPT ![k] = @ \ {x}] /\ UNCHANGED <<pc, task, toPlace>>
      BY <1>1, <2>2
    <3> QED
      BY <1>1, <3>1 DEF OnlyCore, CommIInv, CacheInv, TypeOK
  <2> QED
    BY <2>1, <2>2
<1>5. \A n \in Node : Sound(cache[n])
  BY SoundCaches DEF CommIInv, CacheInv, TypeOK, AllSound
<1>6. /\ cache'[node] = UnlockData(cache[node], x)
      /\ \A n \in Node \ {node} : cache'[n] = cache[n]
  BY <1>1, <1>3 DEF CommIInv, CacheInv, TypeOK
<1>7. TaskShapes'
  <2>1. toPlace' = toPlace /\ toPlace[k] = {}
    BY <1>1 DEF FlagInv, TaskShapes
  <2>2. IsShape(task'[k])
    BY <1>4, NoTask DEF FlagInv, TaskShapes
  <2> QED
    BY <1>4, <2>1, <2>2, ShapesKept
<1>8. ASSUME ~refused'
      PROVE  /\ \A h \in Data : h \in held[k] <=> Claims(k, h) /\ ~IsAllocation(task[k])
             /\ \A h \in Data : h \in held'[k] <=> h \in held[k] /\ h # x
             /\ HeldIsClaimed'
  <2>1. \A h \in Data : h \in held[k] <=> Claims(k, h) /\ ~IsAllocation(task[k])
    BY <1>1, <1>8 DEF FlagInv, HeldIsClaimed
  <2>2. pc'[k] = "idle" => \A h : ~Claims(k, h)'
    BY DEF Claims, Taken
  <2>3. \A h \in Data : h \in held'[k] <=> h \in held[k] /\ h # x
    BY <1>2, <1>4, <2>1, <2>2
  <2>4. \A h \in Data : h \in held'[k] <=> Claims(k, h)' /\ ~IsAllocation(task'[k])
    BY <1>2, <1>4, <2>1, <2>2, <2>3
  <2> QED
    BY <1>1, <1>4, <1>8, <2>1, <2>3, <2>4, OthersKept DEF HeldIsClaimed
<1>9. ASSUME CACHELOCK, ~refused', NEW n \in Node, NEW h \in Data, OfNodeZero(h)'
      PROVE  CountsAgree(n, h)'
  <2>1. CountsAgree(n, h) /\ h \in Handle
    BY <1>1, <1>3, <1>9, FlagsCountHoldersMeans DEF FlagInv, OfNodeZero
  <2>2. CASE n # node
    <3>1. Holders(n, h)' = Holders(n, h)
      BY <1>4, <2>2 DEF Holders, node
    <3> QED
      BY <1>6, <2>1, <2>2, <3>1 DEF CountsAgree
  <2>3. CASE n = node /\ h # x
    <3>1. cache'[n].dataLockFlag[h] = cache[n].dataLockFlag[h]
      <4>1. CASE x \in Handle
        BY <1>5, <1>6, <2>1, <2>3, <4>1, UnlockEffect DEF SameLocks
      <4>2. CASE x \notin Handle
        BY <1>5, <1>6, <2>3, <4>2, UnlockOther
      <4> QED
        BY <4>1, <4>2
    <3>2. \A l \in Core : h \in held'[l] <=> h \in held[l]
      BY <1>4, <1>8, <1>9, <2>3
    <3> QED
      BY <2>1, <3>1, <3>2, CountsKept
  <2>4. CASE n = node /\ h = x /\ ~IsAllocation(task[k])
    <3>1. k \in Holders(n, h)
      BY <1>2, <1>8, <1>9, <2>4 DEF Holders, node
    <3>2. /\ Cardinality(Holders(n, h) \ {k}) = Cardinality(Holders(n, h)) - 1
          /\ Cardinality(Holders(n, h) \ {k}) \in Nat
      BY <3>1, HoldersAreFinite, FS_RemoveElement, FS_CardinalityType
    <3>3. IsLocked(cache[n], h)
      BY <1>5, <1>9, <2>1, <3>2, HoldersAreFinite, UnlockedFlagIsZero DEF CountsAgree
    <3>4. cache'[n].dataLockFlag[h] = cache[n].dataLockFlag[h] - 1
      BY <1>5, <1>6, <1>9, <2>1, <2>4, <3>3, UnlockLowers
    <3>5. Holders(n, h)' = Holders(n, h) \ {k}
      BY <1>4, <1>8, <1>9, <2>4 DEF Holders
    <3> QED
      BY <2>1, <3>2, <3>4, <3>5 DEF CountsAgree
  <2>5. CASE n = node /\ h = x /\ IsAllocation(task[k])
    <3>1. \A l \in Core : h \notin held[l]
      BY <1>1, <1>2, <1>9, <2>5, AllocatedIsFree DEF FlagInv
    <3>2. Holders(n, h) = {} /\ Holders(n, h)' = {}
      BY <1>4, <1>8, <1>9, <3>1 DEF Holders
    <3>3. cache[n].dataLockFlag[h] = 0
      BY <2>1, <3>2, FS_EmptySet DEF CountsAgree
    <3>4. ~IsLocked(cache[n], h)
      BY <1>5, <1>9, <2>1, <3>3, UnlockedFlagIsZero
    <3>5. cache'[n] = cache[n]
      BY <1>6, <2>5, <3>4, UnlockOfUnlocked
    <3> QED
      BY <2>1, <3>2, <3>5 DEF CountsAgree
  <2> QED
    BY <2>2, <2>3, <2>4, <2>5
<1>10. CACHELOCK /\ ~refused' => FlagsCountHolders'
  BY <1>9, FlagsCountHoldersMeansAfter
<1> QED
  BY <1>7, <1>8, <1>10 DEF FlagInv
-----------------------------------------------------------------------------
LEMMA FlagInvInit == Init => FlagInv
<1> SUFFICES ASSUME Init PROVE FlagInv
  OBVIOUS
<1>1. TaskShapes
  BY NoTask DEF Init, TaskShapes, Idle
<1>2. HeldIsClaimed
  BY DEF Init, HeldIsClaimed, Claims, Taken
<1>3. \A h \in Data : ~OfNodeZero(h)
  BY Names DEF Init, OfNodeZero, NoNode
<1>4. FlagsCountHolders
  BY <1>3 DEF FlagsCountHolders
<1> QED
  BY <1>1, <1>2, <1>4 DEF FlagInv

LEMMA FlagInvNext ==
  ASSUME Ordered, \A t \in Kernels : OncePerHandle(t)
  PROVE  CommIInv /\ FlagInv /\ [Next]_vars => FlagInv'
<1> SUFFICES ASSUME CommIInv, FlagInv, [Next]_vars PROVE FlagInv'
  OBVIOUS
<1>1. CASE UNCHANGED vars
  <2>1. \A k, h : Claims(k, h)' <=> Claims(k, h)
    BY <1>1 DEF vars, Claims, Taken, ToUnlock
  <2>2. TaskShapes' /\ (~refused' => HeldIsClaimed')
    BY <1>1, <2>1 DEF vars, FlagInv, TaskShapes, HeldIsClaimed
  <2>3. CACHELOCK /\ ~refused' => FlagsCountHolders'
    BY <1>1, AllCountsKept DEF vars
  <2> QED
    BY <2>2, <2>3 DEF FlagInv
<1>2. ASSUME NEW k \in Core, NEW h \in Data, Allocate(k, h) PROVE FlagInv'
  BY <1>2, AllocateKeepsFlagInv
<1>3. ASSUME NEW k \in Core, NEW t \in Kernels, StartTask(k, t) PROVE FlagInv'
  BY <1>3, StartTaskKeepsFlagInv
<1>4. ASSUME NEW k \in Core, PlaceNext(k) PROVE FlagInv'
  BY <1>4, PlaceNextKeepsFlagInv
<1>5. ASSUME NEW k \in Core, StartReads(k) PROVE FlagInv'
  BY <1>5, StartReadsKeepsFlagInv
<1>6. ASSUME NEW k \in Core, FinishTask(k) PROVE FlagInv'
  BY <1>6, FinishTaskKeepsFlagInv
<1>7. ASSUME NEW k \in Core, UnlockNext(k) PROVE FlagInv'
  BY <1>7, UnlockNextKeepsFlagInv
<1> QED
  BY <1>1, <1>2, <1>3, <1>4, <1>5, <1>6, <1>7 DEF Next

(* With SOMP_CACHELOCK, a trace that orders conflicting tasks, and tasks    *)
(* that access each handle once, the flag of a datum of node 0 is the       *)
(* number of running tasks of the node that have locked it, until a cache   *)
(* refuses a lock (cache.hpp:94, 119, 139).                                 *)
THEOREM FlagsAreReferenceCounts ==
  ASSUME CACHELOCK, Ordered, \A t \in Kernels : OncePerHandle(t)
  PROVE  Spec => []FlagsCountHolders
<1>1. Init => CommIInv /\ FlagInv
  BY CommIInvInit, FlagInvInit
<1>2. CommIInv /\ FlagInv /\ [Next]_vars => (CommIInv /\ FlagInv)'
  BY CommIInvNext, FlagInvNext
<1>3. FlagInv => FlagsCountHolders
  BY DEF FlagInv, FlagsCountHolders
<1> QED
  BY <1>1, <1>2, <1>3, PTL DEF Spec
-----------------------------------------------------------------------------
(***************************************************************************)
(* The locks of the data the tasks hold, with SOMP_CACHELOCK or without.   *)
(***************************************************************************)
LEMMA LocksAreNatural ==
  ASSUME NEW c, NEW x \in Handle, Sound(c)
  PROVE  /\ Locks(c, x) \in Nat
         /\ Locks(c, x) > 0 <=> IsLocked(c, x)
  BY UnlockedFlagIsZero DEF Locks

LEMMA LocksKept ==
  ASSUME NEW c, NEW d, NEW x, NEW y \in Handle \ {x}, SameLocks(d, c, x)
  PROVE  Locks(d, y) = Locks(c, y)
  BY DEF SameLocks, Locks

LEMMA AppendAddsLock ==
  ASSUME NEW c, NEW x \in Handle, Sound(c), AppendSucceeds(c, x)
  PROVE  Locks(AppendToCache(c, x), x) >= Locks(c, x) + 1
<1>1. HasRoom(c) /\ (~CACHELOCK => ~IsLocked(c, x))
  BY LockedIsCached DEF AppendSucceeds
<1>2. Sound(AppendToCache(c, x))
  BY AppendKeepsSound
<1>3. CASE ~IsLocked(c, x)
  BY <1>1, <1>3, FirstLock DEF Locks
<1>4. CASE IsLocked(c, x)
  <2>1. CACHELOCK /\ Locks(c, x) = c.dataLockFlag[x] /\ Locks(c, x) \in Nat
    BY <1>1, <1>4, LocksAreNatural DEF Locks
  <2>2. AppendToCache(c, x).dataLockFlag[x] = Locks(c, x) + 1
    BY <2>1, AppendRaises
  <2>3. IsLocked(AppendToCache(c, x), x)
    BY <1>2, <2>1, <2>2, UnlockedFlagIsZero
  <2> QED
    BY <2>1, <2>2, <2>3 DEF Locks
<1> QED
  BY <1>3, <1>4

LEMMA UnlockTakesLock ==
  ASSUME NEW c, NEW x \in Handle, Sound(c)
  PROVE  Locks(UnlockData(c, x), x) >= Locks(c, x) - 1
<1>1. Sound(UnlockData(c, x))
  BY UnlockKeepsSound
<1>2. Locks(c, x) \in Nat /\ Locks(UnlockData(c, x), x) \in Nat
  BY <1>1, LocksAreNatural
<1>3. CASE ~IsLocked(c, x)
  BY <1>2, <1>3 DEF Locks
<1>4. CASE IsLocked(c, x) /\ ~CACHELOCK
  BY <1>2, <1>4 DEF Locks
<1>5. CASE IsLocked(c, x) /\ CACHELOCK
  <2>1. UnlockData(c, x).dataLockFlag[x] = c.dataLockFlag[x] - 1 /\ c.dataLockFlag[x] \in Int
    BY <1>5, UnlockLowers, UnlockedFlagIsZero
  <2>2. ~IsLocked(UnlockData(c, x), x) => UnlockData(c, x).dataLockFlag[x] = 0
    BY <1>1, <1>5, UnlockedFlagIsZero
  <2> QED
    BY <1>5, <2>1, <2>2 DEF Locks
<1> QED
  BY <1>3, <1>4, <1>5

LEMMA FewerHolders ==
  ASSUME NEW n, NEW h, Holders(n, h)' \subseteq Holders(n, h)
  PROVE  /\ Cardinality(Holders(n, h)') \in Nat
         /\ Cardinality(Holders(n, h)') <= Cardinality(Holders(n, h))
<1>1. IsFiniteSet(Holders(n, h)) /\ Cardinality(Holders(n, h)) \in Nat
  BY HoldersAreFinite
<1> QED
  BY <1>1, FS_Subset, FS_CardinalityType

HasLocks(n, h) == Cardinality(Holders(n, h)) <= Locks(cache[n], h)

LEMMA HasLocksKept ==
  ASSUME NEW n \in Node, NEW h \in Handle, Sound(cache[n]), HasLocks(n, h),
         Holders(n, h)' \subseteq Holders(n, h), Locks(cache'[n], h) = Locks(cache[n], h)
  PROVE  HasLocks(n, h)'
<1>1. Locks(cache[n], h) \in Nat /\ Cardinality(Holders(n, h)) \in Nat
  BY LocksAreNatural, HoldersAreFinite
<1> QED
  BY <1>1, FewerHolders DEF HasLocks

(* Steps that leave the caches alone. *)
LEMMA LettingGo ==
  ASSUME CommIInv, HoldersHaveLocks, UNCHANGED <<cache, refused>>,
         \A l \in Core : held'[l] \subseteq held[l]
  PROVE  HoldersHaveLocks'
<1> SUFFICES ASSUME ~refused', NEW n \in Node, NEW h \in Handle
             PROVE  HasLocks(n, h)'
  BY DEF HoldersHaveLocks, HasLocks
<1>1. Sound(cache[n]) /\ HasLocks(n, h)
  BY SoundCaches DEF CommIInv, CacheInv, TypeOK, AllSound, HoldersHaveLocks, HasLocks
<1>2. Holders(n, h)' \subseteq Holders(n, h)
  BY DEF Holders
<1> QED
  BY <1>1, <1>2, HasLocksKept

LEMMA AllocateKeepsLocks ==
  ASSUME CommIInv, FlagInv, HoldersHaveLocks, NEW k \in Core, NEW x \in Data, Allocate(k, x)
  PROVE  HoldersHaveLocks'
<1> DEFINE node == CacheNum[k]
           C == [cache EXCEPT ![0] = AppendToCache(@, x)]
<1>1. /\ handlesLocationMap[x] = NoNode
      /\ cache' = [C EXCEPT ![node] = UnlockData(@, x)]
      /\ UNCHANGED <<held, refused>>
  BY DEF Allocate
<1>2. x \in Handle /\ node \in Node /\ 0 \in Node
  BY Names
<1>3. \A n \in Node : Sound(cache[n])
  BY SoundCaches DEF CommIInv, CacheInv, TypeOK, AllSound
<1>4. /\ C \in [Node -> Cache] /\ \A n \in Node : Sound(C[n])
      /\ C[0] = AppendToCache(cache[0], x) /\ \A n \in Node \ {0} : C[n] = cache[n]
  BY <1>2, <1>3, AppendKeepsSound DEF CommIInv, CacheInv, TypeOK, Sound
<1> HIDE DEF node, C
<1>5. /\ cache'[node] = UnlockData(C[node], x)
      /\ \A n \in Node \ {node} : cache'[n] = C[n]
  BY <1>1, <1>2, <1>4
<1> SUFFICES ASSUME ~refused', NEW n \in Node, NEW h \in Handle
             PROVE  HasLocks(n, h)'
  BY DEF HoldersHaveLocks, HasLocks
<1>6. Holders(n, h)' = Holders(n, h)
  BY <1>1 DEF Holders
<1>7. CASE h # x
  <2>1. Locks(C[n], h) = Locks(cache[n], h)
    BY <1>2, <1>3, <1>4, <1>7, AppendEffect, LocksKept
  <2>2. Locks(cache'[n], h) = Locks(C[n], h)
    BY <1>2, <1>4, <1>5, <1>7, UnlockEffect, LocksKept
  <2>3. HasLocks(n, h)
    BY <1>1 DEF HoldersHaveLocks, HasLocks
  <2> QED
    BY <1>3, <1>6, <2>1, <2>2, <2>3, HasLocksKept
<1>8. CASE h = x
  <2>1. \A l \in Core : x \notin Uses(task[l])
    BY <1>1 DEF CommIInv, CacheInv, Located
  <2>2. \A l \in Core : x \notin held[l]
    BY <1>1, <2>1, ClaimsAreUses DEF FlagInv, HeldIsClaimed, CommIInv
  <2>3. Holders(n, h)' = {}
    BY <1>6, <1>8, <2>2 DEF Holders
  <2>4. Sound(cache'[n])
    BY <1>2, <1>4, <1>5, UnlockKeepsSound
  <2>5. Locks(cache'[n], h) \in Nat
    BY <2>4, LocksAreNatural
  <2> QED
    BY <2>3, <2>5, FS_EmptySet DEF HasLocks
<1> QED
  BY <1>7, <1>8

LEMMA PlaceNextKeepsLocks ==
  ASSUME CommIInv, HoldersHaveLocks, NEW k \in Core, PlaceNext(k)
  PROVE  HoldersHaveLocks'
<1> DEFINE node == CacheNum[k]
           mode(h) == HandleModeMap(k, task[k])[h]
<1>1. PICK x \in toPlace[k] :
        /\ cache' = Place(node, x, mode(x))
        /\ held' = IF AppendSucceeds(cache[node], x)
                   THEN [held EXCEPT ![k] = @ \cup {x}] ELSE held
        /\ refused' = (refused \/ ~AppendSucceeds(cache[node], x))
  BY DEF PlaceNext
<1>2. x \in Handle /\ node \in Node
  BY Names DEF CommIInv, CacheInv, TypeOK
<1> HIDE DEF node, mode
<1>3. \A n \in Node : Sound(cache[n])
  BY SoundCaches DEF CommIInv, CacheInv, TypeOK, AllSound
<1>4. /\ cache'[node] = AppendToCache(cache[node], x)
      /\ \A n \in Node \ {node} : cache'[n] \in {cache[n], EraseFromCache(cache[n], x)}
  BY <1>1, <1>2 DEF Place
<1> SUFFICES ASSUME ~refused', NEW n \in Node, NEW h \in Handle
             PROVE  HasLocks(n, h)'
  BY DEF HoldersHaveLocks, HasLocks
<1>5. ~refused /\ AppendSucceeds(cache[node], x) /\ held' = [held EXCEPT ![k] = @ \cup {x}]
  BY <1>1 DEF CommIInv, CacheInv, TypeOK
<1>6. HasLocks(n, h)
  BY <1>5 DEF HoldersHaveLocks, HasLocks
<1>7. /\ \A l \in Core \ {k} : held'[l] = held[l]
      /\ held'[k] = held[k] \cup {x}
  BY <1>5 DEF CommIInv, CacheInv, TypeOK
<1>8. CASE n # node
  <2>1. Holders(n, h)' = Holders(n, h)
    BY <1>7, <1>8 DEF Holders, node
  <2>2. Locks(cache'[n], h) = Locks(cache[n], h)
    BY <1>2, <1>3, <1>4, <1>8, EraseEffect DEF Locks, IsLocked
  <2> QED
    BY <1>3, <1>6, <2>1, <2>2, HasLocksKept
<1>9. CASE n = node /\ h # x
  <2>1. Holders(n, h)' = Holders(n, h)
    BY <1>7, <1>9 DEF Holders
  <2>2. Locks(cache'[n], h) = Locks(cache[n], h)
    BY <1>2, <1>3, <1>4, <1>9, AppendEffect, LocksKept
  <2> QED
    BY <1>3, <1>6, <2>1, <2>2, HasLocksKept
<1>10. CASE n = node /\ h = x
  <2>1. Holders(n, h)' = Holders(n, h) \cup {k}
    BY <1>7, <1>10 DEF Holders, node
  <2>2. /\ IsFiniteSet(Holders(n, h)) /\ Cardinality(Holders(n, h)) \in Nat
        /\ Cardinality(Holders(n, h) \cup {k}) <= Cardinality(Holders(n, h)) + 1
    BY HoldersAreFinite, FS_AddElement
  <2>3. Cardinality(Holders(n, h) \cup {k}) \in Nat
    BY <2>2, FS_AddElement, FS_CardinalityType
  <2>4. Locks(cache'[n], h) >= Locks(cache[n], h) + 1 /\ Locks(cache[n], h) \in Nat
    BY <1>3, <1>4, <1>5, <1>10, AppendAddsLock, LocksAreNatural
  <2>5. Sound(cache'[n]) /\ Locks(cache'[n], h) \in Nat
    BY <1>3, <1>4, <1>10, AppendKeepsSound, LocksAreNatural
  <2> QED
    BY <1>6, <2>1, <2>2, <2>3, <2>4, <2>5 DEF HasLocks
<1> QED
  BY <1>8, <1>9, <1>10

LEMMA UnlockNextKeepsLocks ==
  ASSUME CommIInv, FlagInv, HoldersHaveLocks, Ordered, NEW k \in Core, UnlockNext(k)
  PROVE  HoldersHaveLocks'
<1> DEFINE node == CacheNum[k]
           x == task[k][unlocked[k] + 1].handle
<1>1. /\ cache' = [cache EXCEPT ![node] = UnlockData(@, x)] /\ refused' = refused
      /\ IF LastUnlocked(k) THEN Leave(k) ELSE held' = [held EXCEPT ![k] = @ \ {x}]
  BY DEF UnlockNext
<1>2. x \in Data \cup {MYHANDLE} /\ Claims(k, x)
  BY UnlockNextClaims
<1>3. node \in Node /\ Data \subseteq Handle /\ (x \in Handle <=> x \in Data)
  BY <1>2, Names
<1> HIDE DEF node, x
<1>4. /\ \A l \in Core \ {k} : held'[l] = held[l]
      /\ held'[k] = {} \/ held'[k] = held[k] \ {x}
  BY <1>1 DEF Leave, CommIInv, CacheInv, TypeOK
<1>5. \A n \in Node : Sound(cache[n])
  BY SoundCaches DEF CommIInv, CacheInv, TypeOK, AllSound
<1>6. /\ cache'[node] = UnlockData(cache[node], x)
      /\ \A n \in Node \ {node} : cache'[n] = cache[n]
  BY <1>1, <1>3 DEF CommIInv, CacheInv, TypeOK
<1> SUFFICES ASSUME ~refused', NEW n \in Node, NEW h \in Handle
             PROVE  HasLocks(n, h)'
  BY DEF HoldersHaveLocks, HasLocks
<1>7. ~refused /\ HasLocks(n, h) /\ HeldIsClaimed
  BY <1>1 DEF HoldersHaveLocks, HasLocks, FlagInv
<1>8. Holders(n, h)' \subseteq Holders(n, h)
  BY <1>4 DEF Holders
<1>9. CASE n # node \/ h # x
  <2>1. Locks(cache'[n], h) = Locks(cache[n], h)
    <3>1. CASE n # node
      BY <1>6, <3>1
    <3>2. CASE n = node /\ h # x /\ x \in Handle
      BY <1>5, <1>6, <3>2, UnlockEffect, LocksKept
    <3>3. CASE n = node /\ x \notin Handle
      BY <1>5, <1>6, <3>3, UnlockOther
    <3> QED
      BY <1>9, <3>1, <3>2, <3>3
  <2> QED
    BY <1>5, <1>7, <1>8, <2>1, HasLocksKept
<1>10. CASE n = node /\ h = x
  <2>1. Locks(cache'[n], h) >= Locks(cache[n], h) - 1 /\ Locks(cache[n], h) \in Nat
    BY <1>5, <1>6, <1>10, UnlockTakesLock, LocksAreNatural
  <2>2. Sound(cache'[n]) /\ Locks(cache'[n], h) \in Nat
    BY <1>5, <1>6, <1>10, UnlockKeepsSound, LocksAreNatural
  <2>3. CASE ~IsAllocation(task[k])
    <3>1. k \in Holders(n, h) /\ k \notin Holders(n, h)'
      BY <1>2, <1>3, <1>4, <1>7, <1>10, <2>3 DEF Holders, HeldIsClaimed, node
    <3>2. Holders(n, h)' \subseteq Holders(n, h) \ {k}
      BY <1>8, <3>1
    <3>3. /\ IsFiniteSet(Holders(n, h) \ {k}) /\ Cardinality(Holders(n, h)) \in Nat
          /\ Cardinality(Holders(n, h) \ {k}) = Cardinality(Holders(n, h)) - 1
      BY <3>1, HoldersAreFinite, FS_RemoveElement
    <3>4. /\ Cardinality(Holders(n, h)') <= Cardinality(Holders(n, h) \ {k})
          /\ Cardinality(Holders(n, h)') \in Nat
      BY <3>2, <3>3, FS_Subset, FS_CardinalityType
    <3> QED
      BY <1>7, <2>1, <2>2, <3>3, <3>4 DEF HasLocks
  <2>4. CASE IsAllocation(task[k])
    <3>1. \A l \in Core : h \notin held[l]
      BY <1>2, <1>3, <1>7, <1>10, <2>4, AllocatedIsFree DEF FlagInv
    <3>2. Holders(n, h)' = {}
      BY <1>8, <3>1 DEF Holders
    <3> QED
      BY <2>2, <3>2, FS_EmptySet DEF HasLocks
  <2> QED
    BY <2>3, <2>4
<1> QED
  BY <1>9, <1>10

LEMMA LocksNext ==
  ASSUME Ordered
  PROVE  CommIInv /\ FlagInv /\ HoldersHaveLocks /\ [Next]_vars => HoldersHaveLocks'
<1> SUFFICES ASSUME CommIInv, FlagInv, HoldersHaveLocks, [Next]_vars PROVE HoldersHaveLocks'
  OBVIOUS
<1>1. CASE UNCHANGED vars
  BY <1>1, LettingGo DEF vars
<1>2. ASSUME NEW k \in Core, NEW h \in Data, Allocate(k, h) PROVE HoldersHaveLocks'
  BY <1>2, AllocateKeepsLocks
<1>3. ASSUME NEW k \in Core, NEW t \in Kernels, StartTask(k, t) PROVE HoldersHaveLocks'
  BY <1>3, LettingGo DEF StartTask
<1>4. ASSUME NEW k \in Core, PlaceNext(k) PROVE HoldersHaveLocks'
  BY <1>4, PlaceNextKeepsLocks
<1>5. ASSUME NEW k \in Core, StartReads(k) PROVE HoldersHaveLocks'
  BY <1>5, LettingGo DEF StartReads
<1>6. ASSUME NEW k \in Core, FinishTask(k) PROVE HoldersHaveLocks'
  BY <1>6, LettingGo DEF FinishTask, Leave, CommIInv, CacheInv, TypeOK
<1>7. ASSUME NEW k \in Core, UnlockNext(k) PROVE HoldersHaveLocks'
  BY <1>7, UnlockNextKeepsLocks
<1> QED
  BY <1>1, <1>2, <1>3, <1>4, <1>5, <1>6, <1>7 DEF Next
-----------------------------------------------------------------------------
(***************************************************************************)
(* The statuses of a task, along the handles of its map.                   *)
(***************************************************************************)
LEMMA StatusKept ==
  ASSUME NEW l, task'[l] = task[l], toPlace'[l] = toPlace[l], pc'[l] = pc[l],
         cacheStatus'[l] = cacheStatus[l], held'[l] = held[l], refused => refused',
         \A h \in Taken(l) : handlesLocationMap'[h] = handlesLocationMap[h], StatusOf(l)
  PROVE  StatusOf(l)'
<1>1. Taken(l)' = Taken(l) /\ \A h : PositionOf(l, h)' = PositionOf(l, h)
  BY DEF Taken, PositionOf
<1>2. \A h \in Taken(l) : \A source :
        SourceIsRight(l, h, source) => SourceIsRight(l, h, source)'
  BY DEF SourceIsRight, RAM
<1> QED
  BY <1>1, <1>2 DEF StatusOf

LEMMA StatusOfOthers ==
  ASSUME StatusInv, NEW k \in Core, OnlyCore(k), refused => refused',
         \A l \in Core \ {k} : cacheStatus'[l] = cacheStatus[l] /\ held'[l] = held[l],
         \A l \in Core \ {k} : \A h \in Taken(l) :
           handlesLocationMap'[h] = handlesLocationMap[h]
  PROVE  \A l \in Core \ {k} : StatusOf(l)'
<1> TAKE l \in Core \ {k}
<1>1. /\ task'[l] = task[l] /\ toPlace'[l] = toPlace[l] /\ pc'[l] = pc[l] /\ StatusOf(l)
  BY DEF OnlyCore, StatusInv
<1> QED
  BY <1>1, StatusKept

(* The names of the handles of a task. *)
LEMMA TakenNames ==
  ASSUME CacheInv, NEW l \in Core
  PROVE  Taken(l) \subseteq Data \cup {ScratchOf(l)}
<1>1. task[l] \in Seq(Access)
  BY DEF CacheInv, TypeOK
<1>2. /\ Uses(task[l]) \subseteq Data \cup {MYHANDLE}
      /\ DOMAIN HandleModeMap(l, task[l]) = {LocalName(l, h) : h \in Uses(task[l])}
  BY <1>1, UsesOfTask
<1>3. \A h \in Data \cup {MYHANDLE} : LocalName(l, h) \in Data \cup {ScratchOf(l)}
  BY DEF LocalName
<1> QED
  BY <1>2, <1>3 DEF Taken

LEMMA AllocateKeepsStatus ==
  ASSUME CommIInv, StatusInv, NEW k \in Core, NEW x \in Data, Allocate(k, x)
  PROVE  StatusInv'
<1>1. /\ pc[k] = "idle" /\ handlesLocationMap[x] = NoNode
      /\ handlesLocationMap' = [handlesLocationMap EXCEPT ![x] = CacheNum[k]]
      /\ task' = [task EXCEPT ![k] = <<[handle |-> x, mode |-> "A"]>>]
      /\ pc' = [pc EXCEPT ![k] = "fetch"]
      /\ UNCHANGED <<toPlace, unlocked, cacheStatus, held, refused>>
  BY DEF Allocate
<1>2. OnlyCore(k) /\ pc'[k] = "fetch"
  BY <1>1 DEF OnlyCore, CommIInv, CacheInv, TypeOK
<1>3. ASSUME NEW l \in Core, NEW h \in Taken(l)
      PROVE  handlesLocationMap'[h] = handlesLocationMap[h]
  <2>1. x \notin Uses(task[l])
    BY <1>1 DEF CommIInv, CacheInv, Located
  <2>2. h # x
    BY <2>1, ClaimsAreUses DEF Claims, CommIInv
  <2> QED
    BY <1>1, <2>2 DEF CommIInv, CacheInv, TypeOK
<1>4. StatusOf(k)'
  BY <1>1, <1>2 DEF StatusInv, StatusOf
<1> QED
  BY <1>1, <1>2, <1>3, <1>4, StatusOfOthers DEF StatusInv

LEMMA StartTaskKeepsStatus ==
  ASSUME CommIInv, StatusInv, NEW k \in Core, NEW t \in Kernels, StartTask(k, t)
  PROVE  StatusInv'
<1>1. /\ pc[k] = "idle" /\ UNCHANGED <<unlocked, cacheStatus, held, refused>>
      /\ task' = [task EXCEPT ![k] = t]
      /\ toPlace' = [toPlace EXCEPT ![k] = DOMAIN HandleModeMap(k, t)]
      /\ pc' = [pc EXCEPT ![k] = IF t = <<>> THEN "placed" ELSE "place"]
      /\ \/ handlesLocationMap' = handlesLocationMap
         \/ handlesLocationMap' = [handlesLocationMap EXCEPT ![ScratchOf(k)] = CacheNum[k]]
  BY DEF StartTask
<1>2. /\ OnlyCore(k) /\ task'[k] = t /\ toPlace'[k] = DOMAIN HandleModeMap(k, t)
      /\ cacheStatus'[k] = <<>>
  BY <1>1 DEF OnlyCore, StatusInv, StatusOf, CommIInv, CacheInv, TypeOK
<1>3. ASSUME NEW l \in Core \ {k}, NEW h \in Taken(l)
      PROVE  handlesLocationMap'[h] = handlesLocationMap[h]
  <2>1. h \in Data \/ h = ScratchOf(l)
    BY TakenNames DEF CommIInv
  <2>2. ScratchOf(k) \notin Data /\ ScratchOf(k) # ScratchOf(l)
    BY Names DEF ScratchOf, Core
  <2>3. h \in Handle /\ h # ScratchOf(k)
    BY <2>1, <2>2, Names
  <2> QED
    BY <1>1, <2>3 DEF CommIInv, CacheInv, TypeOK
<1>4. Taken(k)' = {}
  BY <1>2 DEF Taken
<1>5. StatusOf(k)'
  BY <1>2, <1>4, FS_EmptySet DEF StatusOf
<1> QED
  BY <1>1, <1>2, <1>3, <1>5, StatusOfOthers DEF StatusInv

(* What Fetch pushes is right for the handle that is placed. *)
LEMMA FetchIsRight ==
  ASSUME NEW k \in Core, NEW x \in Handle, NEW mode, NEW s \in Fetch(CacheNum[k], x, mode)
  PROVE  \E status : /\ s = <<status>>
                     /\ \/ status.source = Local /\ AppendSucceeds(cache[CacheNum[k]], x)
                        \/ status.source = RAM(x)
                        \/ \E n \in Node \ {CacheNum[k]} : status.source = L3(n)
<1> DEFINE node == CacheNum[k]
           st(hit, source) == [hit |-> hit, source |-> source]
<1>1. CASE InCache(cache[node], x)
  <2>1. s = <<st("localCacheHit", IF AppendSucceeds(cache[node], x) THEN Local ELSE RAM(x))>>
    BY <1>1 DEF Fetch
  <2> QED
    BY <2>1
<1>2. CASE ~InCache(cache[node], x) /\ Copies(node, x) = {}
  <2>1. s = <<st("cacheMiss", RAM(x))>>
    BY <1>2 DEF Fetch
  <2> QED
    BY <2>1
<1>3. CASE ~InCache(cache[node], x) /\ Copies(node, x) # {}
  <2>1. PICK n \in FoundIn(node, x) :
          s = <<st("distantCacheHit", IF Writes(mode) /\ ~EraseSucceeds(cache[n], x)
                                      THEN RAM(x) ELSE L3(n))>>
    BY <1>3 DEF Fetch
  <2>2. n \in Node \ {node}
    BY DEF FoundIn, Copies
  <2> QED
    BY <2>1, <2>2
<1> QED
  BY <1>1, <1>2, <1>3

(* A task takes the handles of its map in order: what it has taken is the   *)
(* beginning of the map, and the next handle comes right after it.          *)
LEMMA PositionsOfTaken ==
  ASSUME CommIInv, NEW k \in Core, pc[k] = "place",
         NEW x \in toPlace[k], \A g \in toPlace[k] : x <= g,
         \A h \in Taken(k) : \A g \in toPlace[k] : h < g
  PROVE  /\ IsFiniteSet(Taken(k)) /\ Cardinality(Taken(k)) \in Nat
         /\ x \notin Taken(k)
         /\ DOMAIN HandleModeMap(k, task[k]) \subseteq Int
         /\ DOMAIN HandleModeMap(k, task[k]) = Taken(k) \cup toPlace[k]
         /\ task[k] # <<>> /\ task[k][1].mode # "A"
         /\ PositionOf(k, x) = Cardinality(Taken(k)) + 1
         /\ \A h \in Taken(k) : PositionOf(k, h) \in 1 .. Cardinality(Taken(k))
<1> DEFINE D == DOMAIN HandleModeMap(k, task[k])
<1>1. /\ task[k] \in Seq(Access) /\ \A m \in DOMAIN task[k] : task[k][m].mode # "A"
      /\ toPlace[k] \subseteq {LocalName(k, h) : h \in Uses(task[k])}
  BY DEF CommIInv, CacheInv, TypeOK, PhasesAgree
<1>2. D = {LocalName(k, h) : h \in Uses(task[k])} /\ D \subseteq Handle /\ toPlace[k] \subseteq D
  BY <1>1, UsesOfTask
<1>3. task[k] # <<>> /\ task[k][1].mode # "A"
  <2>1. PICK m \in DOMAIN task[k] : TRUE
    BY <1>1 DEF Uses
  <2>2. 1 \in DOMAIN task[k]
    BY <1>1, <2>1
  <2> QED
    BY <1>1, <2>2
<1>4. D \subseteq Int
  <2>1. \A l \in Core : ScratchOf(l) \in Int
    BY CommAssumption DEF ScratchOf, Core
  <2>2. Handle = Data \cup {ScratchOf(l) : l \in Core} /\ Data \subseteq 1 .. 99
    BY CommAssumption
  <2>3. ASSUME NEW h \in Handle PROVE h \in Int
    <3>1. h \in 1 .. 99 \/ \E l \in Core : h = ScratchOf(l)
      BY <2>2
    <3> QED
      BY <2>1, <3>1
  <2> HIDE DEF D
  <2> QED
    BY <1>2, <2>3
<1>5. IsFiniteSet(D)
  <2> DEFINE L == 1 .. Len(task[k])
             f == [m \in L |-> LocalName(k, task[k][m].handle)]
  <2>1. Len(task[k]) \in Nat /\ DOMAIN task[k] = L
    BY <1>1
  <2>2. D = {LocalName(k, task[k][m].handle) : m \in L}
    BY <1>2, <2>1 DEF Uses
  <2>3. f \in Surjection(L, D)
    <3> HIDE DEF D, L
    <3> QED
      BY <2>2 DEF Surjection
  <2>4. IsFiniteSet(L)
    BY <2>1, FS_Interval
  <2> HIDE DEF f, L, D
  <2> QED
    BY <2>3, <2>4, FS_Surjection
<1>6. Taken(k) = D \ toPlace[k]
  BY <1>3 DEF Taken
<1> HIDE DEF D
<1>7. IsFiniteSet(Taken(k)) /\ Cardinality(Taken(k)) \in Nat
  BY <1>5, <1>6, FS_Subset, FS_CardinalityType
<1>8. \A h : PositionOf(k, h) = Cardinality({g \in D : g <= h})
  BY DEF PositionOf, D
<1>9. PositionOf(k, x) = Cardinality(Taken(k)) + 1
  <2>1. ASSUME NEW g \in D PROVE g <= x <=> g \in Taken(k) \cup {x}
    <3>1. g \in Int /\ x \in Int
      BY <1>2, <1>4
    <3>2. CASE g \in toPlace[k]
      BY <1>6, <3>1, <3>2
    <3>3. CASE g \notin toPlace[k]
      BY <1>6, <3>1, <3>3
    <3> QED
      BY <3>2, <3>3
  <2>2. {g \in D : g <= x} = Taken(k) \cup {x}
    BY <1>2, <1>6, <2>1
  <2>3. Cardinality(Taken(k) \cup {x}) = Cardinality(Taken(k)) + 1
    BY <1>6, <1>7, FS_AddElement
  <2> QED
    BY <1>8, <2>2, <2>3
<1>10. ASSUME NEW h \in Taken(k)
       PROVE  PositionOf(k, h) \in 1 .. Cardinality(Taken(k))
  <2> DEFINE S == {g \in D : g <= h}
  <2>1. S \subseteq Taken(k) /\ h \in S
    BY <1>2, <1>4, <1>6
  <2> HIDE DEF S
  <2>2. /\ IsFiniteSet(S) /\ Cardinality(S) \in Nat
        /\ Cardinality(S) <= Cardinality(Taken(k)) /\ Cardinality(S) # 0
    BY <1>7, <2>1, FS_Subset, FS_CardinalityType, FS_EmptySet
  <2>3. PositionOf(k, h) = Cardinality(S)
    BY <1>8 DEF S
  <2> QED
    BY <1>7, <2>2, <2>3
<1> QED
  BY <1>2, <1>3, <1>4, <1>6, <1>7, <1>9, <1>10 DEF D

LEMMA OneStatusMore ==
  ASSUME NEW statuses \in Seq(Status), NEW status
  PROVE  LET longer == statuses \o <<status>>
         IN  /\ Len(longer) = Len(statuses) + 1
             /\ \A p \in 1 .. Len(statuses) : longer[p] = statuses[p]
             /\ longer[Len(statuses) + 1] = status
  OBVIOUS

LEMMA PlaceNextKeepsStatus ==
  ASSUME CommIInv, StatusInv, NEW k \in Core, PlaceNext(k)
  PROVE  StatusInv'
<1> DEFINE node == CacheNum[k]
           mode(h) == HandleModeMap(k, task[k])[h]
<1>1. PICK x \in toPlace[k] :
        /\ \A g \in toPlace[k] : x <= g
        /\ \E s \in Fetch(node, x, mode(x)) : cacheStatus' = [cacheStatus EXCEPT ![k] = @ \o s]
        /\ held' = IF AppendSucceeds(cache[node], x)
                   THEN [held EXCEPT ![k] = @ \cup {x}] ELSE held
        /\ refused' = (refused \/ ~AppendSucceeds(cache[node], x))
        /\ toPlace' = [toPlace EXCEPT ![k] = @ \ {x}]
        /\ pc' = [pc EXCEPT ![k] = IF toPlace[k] = {x} THEN "placed" ELSE "place"]
  BY DEF PlaceNext
<1>2. pc[k] = "place" /\ UNCHANGED <<handlesLocationMap, task, unlocked>>
  BY DEF PlaceNext
<1>3. x \in Handle
  BY DEF CommIInv, CacheInv, TypeOK
<1>4. PICK status :
        /\ cacheStatus' = [cacheStatus EXCEPT ![k] = @ \o <<status>>]
        /\ \/ status.source = Local /\ AppendSucceeds(cache[node], x)
           \/ status.source = RAM(x)
           \/ \E n \in Node \ {node} : status.source = L3(n)
  <2>1. PICK s \in Fetch(node, x, mode(x)) : cacheStatus' = [cacheStatus EXCEPT ![k] = @ \o s]
    BY <1>1
  <2> HIDE DEF mode
  <2>2. PICK status : /\ s = <<status>>
                      /\ \/ status.source = Local /\ AppendSucceeds(cache[node], x)
                         \/ status.source = RAM(x)
                         \/ \E n \in Node \ {node} : status.source = L3(n)
    BY <1>3, FetchIsRight
  <2> QED
    BY <2>1, <2>2
<1> HIDE DEF node, mode
<1>5. /\ OnlyCore(k) /\ pc'[k] \in {"place", "placed"} /\ toPlace'[k] = toPlace[k] \ {x}
      /\ cacheStatus'[k] = cacheStatus[k] \o <<status>>
      /\ \A l \in Core \ {k} : cacheStatus'[l] = cacheStatus[l] /\ held'[l] = held[l]
      /\ held[k] \subseteq held'[k] /\ (AppendSucceeds(cache[node], x) => x \in held'[k])
      /\ refused => refused'
  BY <1>1, <1>2, <1>4 DEF OnlyCore, CommIInv, CacheInv, TypeOK
<1>6. /\ cacheStatus[k] \in Seq(Status) /\ Len(cacheStatus[k]) = Cardinality(Taken(k))
      /\ \A h \in Taken(k) : \A g \in toPlace[k] : h < g
      /\ \A h \in Taken(k) :
           SourceIsRight(k, h, cacheStatus[k][PositionOf(k, h)].source)
  BY <1>2 DEF StatusInv, StatusOf, CommIInv, CacheInv, TypeOK
<1>7. /\ IsFiniteSet(Taken(k)) /\ Cardinality(Taken(k)) \in Nat /\ x \notin Taken(k)
      /\ DOMAIN HandleModeMap(k, task[k]) \subseteq Int
      /\ DOMAIN HandleModeMap(k, task[k]) = Taken(k) \cup toPlace[k]
      /\ task[k] # <<>> /\ task[k][1].mode # "A"
      /\ PositionOf(k, x) = Cardinality(Taken(k)) + 1
      /\ \A h \in Taken(k) : PositionOf(k, h) \in 1 .. Cardinality(Taken(k))
  BY <1>1, <1>2, <1>6, PositionsOfTaken
<1>8. Taken(k)' = Taken(k) \cup {x}
  BY <1>2, <1>5, <1>6, <1>7 DEF Taken
<1>9. \A h : PositionOf(k, h)' = PositionOf(k, h)
  BY <1>2 DEF PositionOf
<1>10. /\ Len(cacheStatus'[k]) = Cardinality(Taken(k)) + 1
       /\ \A p \in 1 .. Cardinality(Taken(k)) : cacheStatus'[k][p] = cacheStatus[k][p]
       /\ cacheStatus'[k][Cardinality(Taken(k)) + 1] = status
  BY <1>5, <1>6, OneStatusMore
<1>11. Len(cacheStatus'[k]) = Cardinality(Taken(k)')
  BY <1>7, <1>8, <1>10, FS_AddElement
<1>12. \A h \in Taken(k)' : \A g \in toPlace'[k] : h < g
  BY <1>1, <1>5, <1>6, <1>7, <1>8
<1>13. ASSUME NEW h \in Taken(k)'
       PROVE  SourceIsRight(k, h, cacheStatus[k][PositionOf(k, h)].source)'
  <2>1. CASE h \in Taken(k)
    <3>1. cacheStatus'[k][PositionOf(k, h)'] = cacheStatus[k][PositionOf(k, h)]
      BY <1>7, <1>9, <1>10, <2>1
    <3>2. SourceIsRight(k, h, cacheStatus[k][PositionOf(k, h)].source)
      BY <1>6, <2>1
    <3> QED
      BY <1>2, <1>5, <3>1, <3>2 DEF SourceIsRight, RAM
  <2>2. CASE h = x
    <3>1. cacheStatus'[k][PositionOf(k, h)'] = status
      BY <1>7, <1>9, <1>10, <2>2
    <3>2. \/ status.source = Local /\ x \in held'[k]
          \/ status.source = RAM(x)
          \/ \E n \in Node \ {node} : status.source = L3(n)
      BY <1>4, <1>5
    <3>3. CASE status.source = Local /\ x \in held'[k]
      BY <2>2, <3>1, <3>3 DEF SourceIsRight, Local
    <3>4. CASE status.source = RAM(x)
      BY <1>2, <2>2, <3>1, <3>4 DEF SourceIsRight, RAM
    <3>5. ASSUME NEW n \in Node \ {node}, status.source = L3(n)
          PROVE  SourceIsRight(k, h, cacheStatus[k][PositionOf(k, h)].source)'
      BY <2>2, <3>1, <3>5 DEF SourceIsRight, L3, node
    <3> QED
      BY <3>2, <3>3, <3>4, <3>5
  <2> QED
    BY <1>8, <2>1, <2>2
<1>14. StatusOf(k)'
  BY <1>5, <1>11, <1>12, <1>13 DEF StatusOf
<1> QED
  BY <1>2, <1>5, <1>14, StatusOfOthers DEF StatusInv

(* Steps after which k has no statuses. *)
LEMMA StatusesUsed ==
  ASSUME StatusInv, NEW k \in Core, OnlyCore(k), UNCHANGED <<handlesLocationMap, refused>>,
         \A l \in Core \ {k} : cacheStatus'[l] = cacheStatus[l] /\ held'[l] = held[l],
         pc'[k] \notin {"place", "placed"}, cacheStatus'[k] = <<>>
  PROVE  StatusInv'
<1>1. StatusOf(k)'
  BY DEF StatusOf
<1> QED
  BY <1>1, StatusOfOthers DEF StatusInv

LEMMA StatusNext == CommIInv /\ StatusInv /\ [Next]_vars => StatusInv'
<1> SUFFICES ASSUME CommIInv, StatusInv, [Next]_vars PROVE StatusInv'
  OBVIOUS
<1>1. CASE UNCHANGED vars
  <2>1. ASSUME NEW l \in Core PROVE StatusOf(l)'
    BY <1>1, StatusKept DEF vars, StatusInv
  <2> QED
    BY <2>1 DEF StatusInv
<1>2. ASSUME NEW k \in Core, NEW h \in Data, Allocate(k, h) PROVE StatusInv'
  BY <1>2, AllocateKeepsStatus
<1>3. ASSUME NEW k \in Core, NEW t \in Kernels, StartTask(k, t) PROVE StatusInv'
  BY <1>3, StartTaskKeepsStatus
<1>4. ASSUME NEW k \in Core, PlaceNext(k) PROVE StatusInv'
  BY <1>4, PlaceNextKeepsStatus
<1>5. ASSUME NEW k \in Core, StartReads(k) PROVE StatusInv'
  <2>1. /\ pc' = [pc EXCEPT ![k] = "fetch"]
        /\ cacheStatus' = [cacheStatus EXCEPT ![k] = <<>>]
        /\ UNCHANGED <<handlesLocationMap, task, toPlace, unlocked, held, refused>>
    BY <1>5 DEF StartReads
  <2>2. /\ OnlyCore(k) /\ pc'[k] = "fetch" /\ cacheStatus'[k] = <<>>
        /\ \A l \in Core \ {k} : cacheStatus'[l] = cacheStatus[l]
    BY <2>1 DEF OnlyCore, CommIInv, CacheInv, TypeOK
  <2> QED
    BY <2>1, <2>2, StatusesUsed
<1>6. ASSUME NEW k \in Core, FinishTask(k) \/ UnlockNext(k) PROVE StatusInv'
  <2>1. /\ pc[k] \in {"fetch", "unlock"}
        /\ UNCHANGED <<handlesLocationMap, toPlace, cacheStatus, refused>>
    BY <1>6 DEF FinishTask, UnlockNext
  <2>2. /\ OnlyCore(k) /\ pc'[k] \in {"idle", "unlock"}
        /\ \A l \in Core \ {k} : held'[l] = held[l]
    <3>1. CASE FinishTask(k)
      BY <3>1 DEF FinishTask, Leave, OnlyCore, CommIInv, CacheInv, TypeOK
    <3>2. CASE UnlockNext(k)
      BY <3>2 DEF UnlockNext, Leave, OnlyCore, CommIInv, CacheInv, TypeOK
    <3> QED
      BY <1>6, <3>1, <3>2
  <2>3. cacheStatus[k] = <<>>
    BY <2>1 DEF StatusInv, StatusOf
  <2> QED
    BY <2>1, <2>2, <2>3, StatusesUsed
<1> QED
  BY <1>1, <1>2, <1>3, <1>4, <1>5, <1>6 DEF Next

LEMMA SourcesInit == Init => HoldersHaveLocks /\ StatusInv
<1> SUFFICES ASSUME Init PROVE HoldersHaveLocks /\ StatusInv
  OBVIOUS
<1>1. StatusInv
  BY DEF Init, StatusInv, StatusOf
<1>2. ASSUME NEW n \in Node, NEW h \in Handle
      PROVE  Cardinality(Holders(n, h)) <= Locks(cache[n], h)
  <2>1. Holders(n, h) = {}
    BY DEF Init, Holders
  <2>2. Sound(cache[n])
    BY CacheInvInit, SoundCaches DEF CacheInv, TypeOK, AllSound
  <2>3. Locks(cache[n], h) \in Nat
    BY <2>2, LocksAreNatural
  <2> QED
    BY <2>1, <2>3, FS_EmptySet
<1> QED
  BY <1>1, <1>2 DEF HoldersHaveLocks

(* What is to be read from the local cache is held, hence locked there. *)
LEMMA HeldSourcesAreCached ==
  ASSUME CommIInv, HoldersHaveLocks, StatusInv
  PROVE  SourcesAreRight
<1> SUFFICES ASSUME NEW k \in Core, pc[k] = "placed", NEW h \in Taken(k),
                    SourceIsRight(k, h, cacheStatus[k][PositionOf(k, h)].source),
                    cacheStatus[k][PositionOf(k, h)].source.level = "NULL", ~refused
             PROVE  InCache(cache[CacheNum[k]], h)
  BY DEF SourcesAreRight, StatusInv, StatusOf, SourceIsRight
<1> DEFINE node == CacheNum[k]
<1>1. h \in held[k] /\ h \in Handle /\ node \in Node
  BY TakenNames, Names DEF SourceIsRight, CommIInv
<1>2. Sound(cache[node]) /\ Cardinality(Holders(node, h)) <= Locks(cache[node], h)
  BY <1>1, SoundCaches DEF CommIInv, CacheInv, TypeOK, AllSound, HoldersHaveLocks
<1>3. Holders(node, h) # {}
  BY <1>1 DEF Holders
<1>4. Cardinality(Holders(node, h)) \in Nat /\ Cardinality(Holders(node, h)) # 0
  BY <1>3, HoldersAreFinite, FS_EmptySet
<1>5. IsLocked(cache[node], h)
  BY <1>1, <1>2, <1>4, LocksAreNatural
<1> QED
  BY <1>1, <1>2, <1>5, LockedIsCached

(* With SOMP_CACHELOCK or without, for a trace that orders conflicting      *)
(* tasks and tasks that access each handle once: cacheStatus has one entry  *)
(* per handle, at the place where comm_cache.hpp:203-212 looks for it; RAM  *)
(* is the handle's own, L3 that of another node, and what is taken to be in *)
(* the local cache has not been evicted or erased when the reads start,     *)
(* unless a cache has refused a lock.                                       *)
THEOREM SourcesStayRight ==
  ASSUME Ordered, \A t \in Kernels : OncePerHandle(t)
  PROVE  Spec => []SourcesAreRight
<1> DEFINE I == CommIInv /\ FlagInv /\ HoldersHaveLocks /\ StatusInv
<1>1. Init => I
  BY CommIInvInit, FlagInvInit, SourcesInit
<1>2. I /\ [Next]_vars => I'
  BY CommIInvNext, FlagInvNext, LocksNext, StatusNext
<1>3. I => SourcesAreRight
  BY HeldSourcesAreCached
<1> QED
  BY <1>1, <1>2, <1>3, PTL DEF Spec
-----------------------------------------------------------------------------
(***************************************************************************)
(* How a datum may leave a cache.                                          *)
(***************************************************************************)
Gains(d, c) == d.cacheHashMap \ c.cacheHashMap # {}

LEMMA AppendLosesOnlyByGaining ==
  ASSUME NEW c, NEW x \in Handle, Sound(c), NEW h, InCache(c, h), ~InCache(AppendToCache(c, x), h)
  PROVE  Gains(AppendToCache(c, x), c)
<1>1. c \in Cache
  BY DEF Sound
<1>2. CASE HasRoom(c) /\ ~InCache(c, x)
  <2>1. MakeRoom(c) \in Cache
    BY <1>1, <1>2, MakeRoomIsReady DEF ReadyFor
  <2>2. AppendToCache(c, x) = PushLocked(MakeRoom(c), x)
    BY <1>2 DEF AppendToCache
  <2>3. x \in PushLocked(MakeRoom(c), x).cacheHashMap
    BY <2>1 DEF PushLocked, Cache
  <2> QED
    BY <1>2, <2>2, <2>3 DEF InCache, Gains
<1>3. CASE HasRoom(c) /\ InCache(c, x) /\ ~IsLocked(c, x)
  <2>1. Reclaim(c, x) \in Cache /\ Reclaim(c, x).cacheHashMap = c.cacheHashMap
    BY <1>1, <1>3, ReclaimIsReady DEF ReadyFor, Reclaim, Cache
  <2>2. AppendToCache(c, x) = PushLocked(Reclaim(c, x), x)
    BY <1>3 DEF AppendToCache
  <2>3. PushLocked(Reclaim(c, x), x).cacheHashMap = c.cacheHashMap \cup {x}
    BY <2>1 DEF PushLocked, Cache
  <2> QED
    BY <2>2, <2>3 DEF InCache
<1>4. CASE ~HasRoom(c) \/ (InCache(c, x) /\ IsLocked(c, x))
  BY <1>1, <1>4 DEF AppendToCache, LockAgain, Cache, InCache
<1> QED
  BY <1>2, <1>3, <1>4

LEMMA EraseLosesOnlyTheErased ==
  ASSUME NEW c, NEW x \in Handle, Sound(c), NEW h, h # x, InCache(c, h)
  PROVE  InCache(EraseFromCache(c, x), h)
  BY DEF EraseFromCache, InCache, Sound, Cache

(* A task does not write what another one reads. *)
LEMMA ReadersHaveNoWriter ==
  ASSUME CommIInv, Ordered, NEW k \in Core, NEW l \in Core, k # l,
         NEW h \in Taken(k), pc[l] = "place", h \in toPlace[l]
  PROVE  ~Writes(HandleModeMap(l, task[l])[h])
<1> SUFFICES ASSUME Writes(HandleModeMap(l, task[l])[h]) PROVE FALSE
  OBVIOUS
<1>1. /\ task[l] \in Seq(Access)
      /\ h \in {LocalName(l, g) : g \in Uses(task[l])}
      /\ Uses(task[l]) \subseteq Data \cup {MYHANDLE}
  BY UsesOfTask DEF CommIInv, CacheInv, TypeOK, PhasesAgree
<1>2. h \in Data \/ h = ScratchOf(k)
  BY TakenNames DEF CommIInv
<1>3. h \in Data \/ h = ScratchOf(l)
  BY <1>1 DEF LocalName
<1>4. ScratchOf(k) # ScratchOf(l) /\ ScratchOf(k) \notin Data /\ ScratchOf(l) \notin Data
  BY Names DEF ScratchOf, Core
<1>5. h \in Data
  BY <1>2, <1>3, <1>4
<1>6. h \in Uses(task[l])
  BY <1>1, <1>4, <1>5, Names DEF LocalName
<1>7. h \in Changed(task[l])
  BY <1>1, <1>5, <1>6, ModeIsOfAccess
<1>8. h \in Uses(task[k])
  BY <1>5, ClaimsAreUses DEF CommIInv, Claims
<1> QED
  BY <1>7, <1>8 DEF CommIInv, NoConflict, Conflict

LEMMA AllocateLosesByGaining ==
  ASSUME CommIInv, NEW l \in Core, NEW x \in Data, Allocate(l, x), NEW n \in Node, NEW h,
         InCache(cache[n], h), ~InCache(cache'[n], h)
  PROVE  Gains(cache'[n], cache[n])
<1> DEFINE node == CacheNum[l]
           C == [cache EXCEPT ![0] = AppendToCache(@, x)]
<1>1. cache' = [C EXCEPT ![node] = UnlockData(@, x)]
  BY DEF Allocate
<1>2. x \in Handle /\ node \in Node /\ 0 \in Node
  BY Names
<1>3. \A m \in Node : Sound(cache[m])
  BY SoundCaches DEF CommIInv, CacheInv, TypeOK, AllSound
<1>4. /\ C \in [Node -> Cache] /\ \A m \in Node : Sound(C[m])
      /\ C[0] = AppendToCache(cache[0], x) /\ \A m \in Node \ {0} : C[m] = cache[m]
  BY <1>2, <1>3, AppendKeepsSound DEF CommIInv, CacheInv, TypeOK, Sound
<1> HIDE DEF node, C
<1>5. cache'[n].cacheHashMap = C[n].cacheHashMap
  <2>1. UnlockData(C[node], x).cacheHashMap = C[node].cacheHashMap
    BY <1>2, <1>4, UnlockEffect
  <2> QED
    BY <1>1, <1>2, <1>4, <2>1
<1>6. n = 0 /\ ~InCache(C[n], h)
  BY <1>4, <1>5 DEF InCache
<1>7. Gains(C[n], cache[n])
  BY <1>2, <1>3, <1>4, <1>6, AppendLosesOnlyByGaining
<1> QED
  BY <1>5, <1>7 DEF Gains

LEMMA PlaceNextLosesByGaining ==
  ASSUME CommIInv, Ordered, NEW l \in Core, PlaceNext(l), NEW k \in Core, NEW n \in Node,
         NEW h \in ReadFrom(k, n)', InCache(cache[n], h), ~InCache(cache'[n], h)
  PROVE  Gains(cache'[n], cache[n])
<1> DEFINE node == CacheNum[l]
           mode(g) == HandleModeMap(l, task[l])[g]
<1>1. PICK x \in toPlace[l] :
        /\ cache' = Place(node, x, mode(x))
        /\ toPlace' = [toPlace EXCEPT ![l] = @ \ {x}]
        /\ pc' = [pc EXCEPT ![l] = IF toPlace[l] = {x} THEN "placed" ELSE "place"]
  BY DEF PlaceNext
<1>2. pc[l] = "place" /\ UNCHANGED <<handlesLocationMap, task, unlocked>>
  BY DEF PlaceNext
<1>3. x \in Handle /\ node \in Node
  BY Names DEF CommIInv, CacheInv, TypeOK
<1>4. \A m \in Node : Sound(cache[m])
  BY SoundCaches DEF CommIInv, CacheInv, TypeOK, AllSound
<1>5. /\ cache'[node] = AppendToCache(cache[node], x)
      /\ \A m \in Node \ {node} : Writes(mode(x)) \/ cache'[m] = cache[m]
      /\ \A m \in Node \ {node} : cache'[m] \in {cache[m], EraseFromCache(cache[m], x)}
  BY <1>1, <1>3 DEF Place
<1>6. CASE n = node
  BY <1>3, <1>4, <1>5, <1>6, AppendLosesOnlyByGaining
<1>7. CASE n # node
  <2>1. Writes(mode(x)) /\ h = x
    BY <1>3, <1>4, <1>5, <1>7, EraseLosesOnlyTheErased
  <2>2. h \in Taken(k)' /\ ~Writes(HandleModeMap(k, task[k])[h])
    BY <1>2 DEF ReadFrom
  <2>3. k # l
    BY <2>1, <2>2
  <2>4. Taken(k)' = Taken(k)
    BY <1>1, <1>2, <2>3 DEF Taken, CommIInv, CacheInv, TypeOK
  <2> QED
    BY <1>2, <2>1, <2>2, <2>3, <2>4, ReadersHaveNoWriter
<1> QED
  BY <1>6, <1>7

(* When the trace orders conflicting tasks, the cache a datum is to be read *)
(* from may lose it only when a step brings another datum into that cache:  *)
(* no task erases a datum that another one is about to read                 *)
(* (comm_cache.hpp:139-151, 164-174).                                       *)
THEOREM SourcesAreLostByEviction ==
  ASSUME Ordered
  PROVE  Spec => SourceLostOnlyByEviction
<1> DEFINE A == \A k \in Core : \A n \in Node : \A h \in ReadFrom(k, n)' :
                  InCache(cache[n], h) /\ ~InCache(cache'[n], h) =>
                    cache'[n].cacheHashMap \ cache[n].cacheHashMap # {}
<1>1. CommIInv /\ [Next]_vars => [A]_vars
  <2> SUFFICES ASSUME CommIInv, Next, NEW k \in Core, NEW n \in Node, NEW h \in ReadFrom(k, n)',
                      InCache(cache[n], h), ~InCache(cache'[n], h)
               PROVE  Gains(cache'[n], cache[n])
    BY DEF Gains
  <2>1. \A m \in Node : Sound(cache[m])
    BY SoundCaches DEF CommIInv, CacheInv, TypeOK, AllSound
  <2>2. cache' # cache
    OBVIOUS
  <2>3. ASSUME NEW l \in Core, NEW x \in Data, Allocate(l, x) PROVE Gains(cache'[n], cache[n])
    BY <2>3, AllocateLosesByGaining
  <2>4. ASSUME NEW l \in Core, NEW t \in Kernels, StartTask(l, t) PROVE FALSE
    BY <2>2, <2>4 DEF StartTask
  <2>5. ASSUME NEW l \in Core, PlaceNext(l) PROVE Gains(cache'[n], cache[n])
    BY <2>5, PlaceNextLosesByGaining
  <2>6. ASSUME NEW l \in Core, StartReads(l) PROVE FALSE
    BY <2>2, <2>6 DEF StartReads
  <2>7. ASSUME NEW l \in Core, FinishTask(l) PROVE FALSE
    BY <2>2, <2>7 DEF FinishTask
  <2>8. ASSUME NEW l \in Core, UnlockNext(l) PROVE FALSE
    <3> DEFINE node == CacheNum[l]
               x == task[l][unlocked[l] + 1].handle
    <3>1. cache' = [cache EXCEPT ![node] = UnlockData(@, x)]
      BY <2>8 DEF UnlockNext
    <3>2. node \in Node /\ x \in Data \cup {MYHANDLE}
      <4>1. /\ pc[l] = "unlock" /\ task[l] \in Seq(Access) /\ unlocked[l] \in Nat
            /\ unlocked[l] < Len(task[l])
        BY <2>8 DEF UnlockNext, CommIInv, CacheInv, TypeOK, PhasesAgree
      <4>2. unlocked[l] + 1 \in DOMAIN task[l]
        BY <4>1
      <4> QED
        BY <4>1, <4>2, UsesOfTask, Names
    <3> HIDE DEF node, x
    <3>3. UnlockData(cache[node], x).cacheHashMap = cache[node].cacheHashMap
      BY <2>1, <3>2, Names, UnlockEffect, UnlockOther
    <3>4. cache'[n].cacheHashMap = cache[n].cacheHashMap
      BY <3>1, <3>3 DEF CommIInv, CacheInv, TypeOK
    <3> QED
      BY <3>4 DEF InCache
  <2> QED
    BY <2>3, <2>4, <2>5, <2>6, <2>7, <2>8 DEF Next
<1> QED
  BY <1>1, CommIInvInit, CommIInvNext, PTL DEF Spec, SourceLostOnlyByEviction
-----------------------------------------------------------------------------
(***************************************************************************)
(* The choice of the cache-aware scheduler: a scan of the queue, which is  *)
(* a recursive function. Both that it is defined and what it finds are     *)
(* shown by the least position where they would fail.                      *)
(***************************************************************************)
Iterates(f, N, v0, next) ==
  f[0] = v0 /\ \A m \in 1 .. N : f[m] = next[<<m, f[m - 1]>>]

LEMMA IterationExists ==
  ASSUME NEW N \in Nat, NEW V, NEW v0 \in V, NEW next \in [(1 .. N) \X V -> V]
  PROVE  \E f \in [0 .. N -> V] : Iterates(f, N, v0, next)
<1> DEFINE Is(f, k) == /\ f \in [0 .. k -> V] /\ f[0] = v0
                       /\ \A m \in 1 .. k : f[m] = next[<<m, f[m - 1]>>]
           T == {k \in 0 .. N : ~\E f : Is(f, k)}
<1>1. T = {}
  <2> SUFFICES ASSUME T # {} PROVE FALSE
    OBVIOUS
  <2>1. PICK k \in T : \A j \in T : k <= j
    <3> HIDE DEF T
    <3>1. T \subseteq Nat
      BY DEF T
    <3> QED
      BY <3>1, LeastIndex
  <2>2. k \in 0 .. N /\ ~\E f : Is(f, k)
    OBVIOUS
  <2>3. k # 0
    <3>1. Is([m \in 0 .. 0 |-> v0], 0)
      OBVIOUS
    <3> HIDE DEF Is
    <3> QED
      BY <2>2, <3>1
  <2>4. PICK f : Is(f, k - 1)
    <3>1. k - 1 \in 0 .. N /\ ~(k <= k - 1)
      BY <2>2, <2>3
    <3>2. k - 1 \notin T
      BY <2>1, <3>1
    <3> HIDE DEF Is
    <3> QED
      BY <3>1, <3>2
  <2> DEFINE g == [m \in 0 .. k |-> IF m = k THEN next[<<k, f[k - 1]>>] ELSE f[m]]
  <2>5. f[k - 1] \in V /\ k \in 1 .. N
    BY <2>2, <2>3, <2>4
  <2>6. next[<<k, f[k - 1]>>] \in V
    BY <2>5
  <2>7. g \in [0 .. k -> V]
    BY <2>2, <2>3, <2>4, <2>6
  <2>8. g[0] = v0
    BY <2>2, <2>3, <2>4
  <2>9. ASSUME NEW m \in 1 .. k PROVE g[m] = next[<<m, g[m - 1]>>]
    <3>1. g[m - 1] = f[m - 1]
      BY <2>2, <2>9
    <3>2. CASE m = k
      <4>1. g[k] = next[<<k, f[k - 1]>>]
        BY <2>2, <2>5
      <4> HIDE DEF g
      <4> QED
        BY <3>1, <3>2, <4>1
    <3>3. CASE m # k
      <4>1. m \in 1 .. (k - 1) /\ g[m] = f[m]
        BY <2>2, <2>9, <3>3
      <4> HIDE DEF g
      <4> QED
        BY <2>4, <3>1, <4>1
    <3> QED
      BY <3>2, <3>3
  <2>10. Is(g, k)
    BY <2>7, <2>8, <2>9
  <2> HIDE DEF Is
  <2> QED
    BY <2>2, <2>10
<1>2. \E f : Is(f, N)
  <2>1. N \in 0 .. N
    OBVIOUS
  <2> HIDE DEF Is
  <2> QED
    BY <1>1, <2>1
<1> QED
  BY <1>2 DEF Iterates

(* How many of a task's data are there. *)
LEMMA AvailIsCounted ==
  ASSUME NEW t \in Seq(Access), NEW n
  PROVE  Avail(t, n) \in Nat
<1> DEFINE S == {j \in GivenHandles(t) : InCache(cache[n], t[j].handle)}
<1>1. IsFiniteSet(DOMAIN t)
  BY FS_Interval
<1>2. S \subseteq DOMAIN t
  BY DEF GivenHandles
<1> HIDE DEF S
<1>3. Cardinality(S) \in Nat
  BY <1>1, <1>2, FS_Subset, FS_CardinalityType
<1> QED
  BY <1>3 DEF S, Avail

(* The loop of scheduler.hpp:66-90, a turn and what it has found after m. *)
ScanStart == [best |-> 0, bestavail |-> -1, found |-> FALSE]

ScanTurn(q, n, m, s) ==
  IF s.found THEN s
  ELSE IF AllAvail(q[m], n) THEN [s EXCEPT !.best = m, !.found = TRUE]
  ELSE IF Avail(q[m], n) > s.bestavail
       THEN [s EXCEPT !.best = m, !.bestavail = Avail(q[m], n)] ELSE s

ScanState(q) == [best : 0 .. Len(q), bestavail : Int, found : BOOLEAN]

Scanned(q, n, m, s) ==
  IF s.found
  THEN /\ s.best \in 1 .. m /\ AllAvail(q[s.best], n)
       /\ \A j \in 1 .. m : j < s.best => ~AllAvail(q[j], n)
  ELSE /\ \A j \in 1 .. m : ~AllAvail(q[j], n) /\ Avail(q[j], n) <= s.bestavail
       /\ IF m = 0 THEN s.bestavail = -1
          ELSE /\ s.best \in 1 .. m /\ s.bestavail = Avail(q[s.best], n)
               /\ \A j \in 1 .. m : j < s.best => Avail(q[j], n) < s.bestavail

LEMMA TurnIsTyped ==
  ASSUME NEW q \in Seq(Seq(Access)), NEW n, NEW m \in 1 .. Len(q), NEW s \in ScanState(q)
  PROVE  ScanTurn(q, n, m, s) \in ScanState(q)
<1>1. q[m] \in Seq(Access)
  OBVIOUS
<1>2. Avail(q[m], n) \in Nat
  BY <1>1, AvailIsCounted
<1>3. m \in 0 .. Len(q)
  OBVIOUS
<1>4. /\ s.best \in 0 .. Len(q) /\ s.bestavail \in Int /\ s.found \in BOOLEAN
      /\ s = [best |-> s.best, bestavail |-> s.bestavail, found |-> s.found]
  BY DEF ScanState
<1>5. ScanTurn(q, n, m, s) \in
        {s, [best |-> m, bestavail |-> s.bestavail, found |-> TRUE],
         [best |-> m, bestavail |-> Avail(q[m], n), found |-> s.found]}
  BY <1>4, ZenonT(30) DEF ScanTurn
<1>6. /\ [best |-> m, bestavail |-> s.bestavail, found |-> TRUE] \in ScanState(q)
      /\ [best |-> m, bestavail |-> Avail(q[m], n), found |-> s.found] \in ScanState(q)
  BY <1>2, <1>3, <1>4 DEF ScanState
<1> QED
  BY <1>5, <1>6

LEMMA TurnKeepsScanned ==
  ASSUME NEW q \in Seq(Seq(Access)), NEW n, NEW m \in 1 .. Len(q), NEW s \in ScanState(q),
         Scanned(q, n, m - 1, s)
  PROVE  Scanned(q, n, m, ScanTurn(q, n, m, s))
<1>1. \A j \in 1 .. Len(q) : Avail(q[j], n) \in Nat
  <2> TAKE j \in 1 .. Len(q)
  <2>1. q[j] \in Seq(Access)
    OBVIOUS
  <2> QED
    BY <2>1, AvailIsCounted
<1>2. m \in Nat /\ m >= 1 /\ m - 1 \in Nat /\ 1 .. m = (1 .. (m - 1)) \cup {m}
      /\ 1 .. m \subseteq 1 .. Len(q) /\ Len(q) \in Nat
  OBVIOUS
<1>3. s.bestavail \in Int /\ s.found \in BOOLEAN /\ s.best \in 0 .. Len(q)
      /\ s = [best |-> s.best, bestavail |-> s.bestavail, found |-> s.found]
  BY DEF ScanState
<1> DEFINE r == ScanTurn(q, n, m, s)
           av(j) == Avail(q[j], n)
           all(j) == AllAvail(q[j], n)
<1>4. CASE s.found
  <2>1. r = s
    BY <1>4 DEF ScanTurn
  <2>2. s.best \in 1 .. (m - 1) /\ all(s.best) /\ \A j \in 1 .. (m - 1) : j < s.best => ~all(j)
    BY <1>4 DEF Scanned
  <2>3. s.best \in 1 .. m /\ ~(m < s.best)
    BY <1>2, <2>2
  <2> HIDE DEF r, all
  <2>4. \A j \in 1 .. m : j < s.best => ~all(j)
    BY <1>2, <2>2, <2>3
  <2> QED
    BY <1>4, <2>1, <2>2, <2>3, <2>4 DEF Scanned, r, all
<1>5. ASSUME ~s.found
      PROVE  /\ \A j \in 1 .. (m - 1) : ~all(j) /\ av(j) <= s.bestavail
             /\ IF m - 1 = 0 THEN s.bestavail = -1
                ELSE /\ s.best \in 1 .. (m - 1) /\ s.bestavail = av(s.best)
                     /\ \A j \in 1 .. (m - 1) : j < s.best => av(j) < s.bestavail
  BY <1>5 DEF Scanned
<1>6. CASE ~s.found /\ all(m)
  <2>1. r.best = m /\ r.found
    BY <1>3, <1>6 DEF ScanTurn
  <2> HIDE DEF r, av, all
  <2>2. \A j \in 1 .. m : j < m => ~all(j)
    BY <1>2, <1>5, <1>6
  <2>3. m \in 1 .. m
    BY <1>2
  <2> QED
    BY <1>6, <2>1, <2>2, <2>3 DEF Scanned, r, all
<1>7. CASE ~s.found /\ ~all(m) /\ av(m) > s.bestavail
  <2>1. r.best = m /\ ~r.found /\ r.bestavail = av(m)
    BY <1>3, <1>7 DEF ScanTurn
  <2> HIDE DEF r, av, all
  <2>2. \A j \in 1 .. (m - 1) : av(j) \in Int /\ av(j) < av(m)
    BY <1>1, <1>2, <1>3, <1>5, <1>7 DEF av
  <2>3. av(m) \in Int
    BY <1>1 DEF av
  <2>4. ASSUME NEW j \in 1 .. m PROVE ~all(j) /\ av(j) <= av(m)
    <3>1. CASE j = m
      BY <1>7, <2>3, <3>1
    <3>2. CASE j # m
      <4>1. j \in 1 .. (m - 1)
        BY <1>2, <3>2
      <4>2. ~all(j) /\ av(j) \in Int /\ av(j) < av(m)
        BY <1>5, <1>7, <2>2, <4>1
      <4> QED
        BY <2>3, <4>2
    <3> QED
      BY <3>1, <3>2
  <2>5. \A j \in 1 .. m : j < m => av(j) < av(m)
    BY <1>2, <2>2
  <2>6. m \in 1 .. m /\ m # 0
    BY <1>2
  <2> QED
    BY <2>1, <2>4, <2>5, <2>6 DEF Scanned, r, av, all
<1>8. CASE ~s.found /\ ~all(m) /\ ~(av(m) > s.bestavail)
  <2>1. r = s
    BY <1>8 DEF ScanTurn
  <2> HIDE DEF r, av, all
  <2>2. av(m) \in Nat /\ av(m) <= s.bestavail
    BY <1>1, <1>3, <1>8 DEF av
  <2>3. m - 1 # 0
    BY <1>5, <1>8, <2>2
  <2>4. /\ s.best \in 1 .. (m - 1) /\ s.bestavail = av(s.best)
        /\ \A j \in 1 .. (m - 1) : j < s.best => av(j) < s.bestavail
        /\ \A j \in 1 .. (m - 1) : ~all(j) /\ av(j) <= s.bestavail
    BY <1>5, <1>8, <2>3
  <2>5. \A j \in 1 .. m : ~all(j) /\ av(j) <= s.bestavail
    BY <1>2, <1>8, <2>2, <2>4
  <2>6. s.best \in 1 .. m /\ ~(m < s.best) /\ m # 0
    BY <1>2, <2>4
  <2>7. \A j \in 1 .. m : j < s.best => av(j) < s.bestavail
    BY <1>2, <2>4, <2>6
  <2> QED
    BY <1>8, <2>1, <2>4, <2>5, <2>6, <2>7 DEF Scanned, r, av, all
<1> QED
  BY <1>4, <1>6, <1>7, <1>8

LEMMA BestIsScanned ==
  ASSUME NEW q \in Seq(Seq(Access)), NEW n
  PROVE  \E s \in ScanState(q) : Scanned(q, n, Len(q), s) /\ Best(q, n) = s.best
<1> DEFINE N == Len(q)
           V == ScanState(q)
           next == [p \in (1 .. N) \X V |-> ScanTurn(q, n, p[1], p[2])]
           F(f) == f = [m \in 0 .. N |-> IF m = 0 THEN ScanStart ELSE ScanTurn(q, n, m, f[m - 1])]
<1>1. N \in Nat /\ ScanStart \in V
  BY DEF ScanStart, ScanState
<1>2. next \in [(1 .. N) \X V -> V]
  <2>1. \A p \in (1 .. N) \X V : ScanTurn(q, n, p[1], p[2]) \in V
    <3> TAKE p \in (1 .. N) \X V
    <3>1. p[1] \in 1 .. N /\ p[2] \in V
      OBVIOUS
    <3> QED
      BY <3>1, TurnIsTyped
  <2> QED
    BY <2>1
<1>3. PICK f \in [0 .. N -> V] : Iterates(f, N, ScanStart, next)
  <2> HIDE DEF next, V, N
  <2> QED
    BY <1>1, <1>2, IterationExists
<1>4. \A m \in 1 .. N : f[m] = ScanTurn(q, n, m, f[m - 1])
  <2> TAKE m \in 1 .. N
  <2> HIDE DEF V
  <2>1. f[m - 1] \in V
    <3>1. m - 1 \in 0 .. N
      BY <1>1
    <3> QED
      BY <3>1
  <2>2. <<m, f[m - 1]>> \in (1 .. N) \X V
    BY <2>1
  <2> QED
    BY <1>3, <2>2 DEF Iterates
<1>5. F(f)
  BY <1>1, <1>3, <1>4 DEF Iterates
<1>6. PICK g : F(g) /\ Best(q, n) = g[N].best
  BY <1>5 DEF Best, ScanTurn, ScanStart
<1>7. g[0] = ScanStart /\ \A m \in 1 .. N : g[m] = ScanTurn(q, n, m, g[m - 1])
  <2>1. 0 \in 0 .. N /\ \A m \in 1 .. N : m \in 0 .. N /\ m # 0
    BY <1>1
  <2>2. \A m \in 0 .. N : g[m] = IF m = 0 THEN ScanStart ELSE ScanTurn(q, n, m, g[m - 1])
    <3> HIDE DEF N
    <3> QED
      BY <1>6, Zenon
  <2> HIDE DEF N
  <2> QED
    BY <2>1, <2>2, Zenon
<1> DEFINE T == {m \in 0 .. N : ~(g[m] \in V /\ Scanned(q, n, m, g[m]))}
<1>8. T = {}
  <2> SUFFICES ASSUME T # {} PROVE FALSE
    OBVIOUS
  <2>1. PICK m \in T : \A j \in T : m <= j
    <3> HIDE DEF T
    <3>1. T \subseteq Nat
      BY DEF T
    <3> QED
      BY <3>1, LeastIndex
  <2>2. m # 0
    <3>1. Scanned(q, n, 0, ScanStart)
      BY DEF Scanned, ScanStart
    <3> HIDE DEF V, N
    <3> QED
      BY <1>1, <1>7, <3>1
  <2>3. m \in 1 .. N /\ m - 1 \in 0 .. N /\ ~(m <= m - 1)
    BY <1>1, <2>2
  <2>4. m - 1 \notin T
    BY <2>1, <2>3
  <2>5. g[m - 1] \in V /\ Scanned(q, n, m - 1, g[m - 1])
    BY <2>3, <2>4
  <2>6. g[m] \in V /\ Scanned(q, n, m, g[m])
    BY <1>7, <2>3, <2>5, TurnIsTyped, TurnKeepsScanned
  <2> QED
    BY <2>6
<1>9. g[N] \in V /\ Scanned(q, n, N, g[N])
  <2>1. N \in 0 .. N /\ N \notin T
    BY <1>1, <1>8
  <2> HIDE DEF V, N
  <2> QED
    BY <2>1
<1> QED
  BY <1>6, <1>9

(* The cache-aware scheduler sends a worker the first task of the queue     *)
(* that has all of its data in the worker's cache, or else the first of     *)
(* those that have most there (scheduler.hpp:66-90), for every queue.       *)
THEOREM MostCachedIsServed == Spec => []ServesMostCached
<1>1. ServesMostCached
  <2> SUFFICES ASSUME NEW q \in Queues, NEW n
               PROVE
    LET b == Best(q, n)
        first(S) == b \in S /\ \A m \in S : b <= m
        complete == {m \in DOMAIN q : AllAvail(q[m], n)}
        fullest  == {m \in DOMAIN q : \A j \in DOMAIN q : Avail(q[j], n) <= Avail(q[m], n)}
    IN  IF complete # {} THEN first(complete) ELSE first(fullest)
    BY DEF ServesMostCached
  <2> DEFINE complete == {m \in DOMAIN q : AllAvail(q[m], n)}
             fullest  == {m \in DOMAIN q : \A j \in DOMAIN q : Avail(q[j], n) <= Avail(q[m], n)}
             b == Best(q, n)
  <2>1. q \in Seq(Seq(Access)) /\ q # <<>>
    BY CommAssumption
  <2>2. DOMAIN q = 1 .. Len(q) /\ Len(q) \in Nat /\ Len(q) # 0
    BY <2>1
  <2>3. PICK s \in ScanState(q) : Scanned(q, n, Len(q), s) /\ b = s.best
    BY <2>1, BestIsScanned
  <2>4. \A j \in DOMAIN q : Avail(q[j], n) \in Nat
    <3> TAKE j \in DOMAIN q
    <3>1. q[j] \in Seq(Access)
      BY <2>1
    <3> QED
      BY <3>1, AvailIsCounted
  <2>5. b \in DOMAIN q
    BY <2>2, <2>3 DEF Scanned
  <2>6. CASE s.found
    <3>1. b \in complete /\ \A j \in DOMAIN q : j < b => ~AllAvail(q[j], n)
      BY <2>2, <2>3, <2>5, <2>6 DEF Scanned
    <3>2. \A m \in complete : b <= m
      BY <2>2, <2>5, <3>1
    <3> QED
      BY <3>1, <3>2
  <2>7. CASE ~s.found
    <3>1. /\ \A j \in DOMAIN q : ~AllAvail(q[j], n) /\ Avail(q[j], n) <= Avail(q[b], n)
          /\ \A j \in DOMAIN q : j < b => Avail(q[j], n) < Avail(q[b], n)
      BY <2>2, <2>3, <2>7 DEF Scanned
    <3>2. complete = {} /\ b \in fullest
      BY <2>5, <3>1
    <3>3. ASSUME NEW m \in fullest PROVE b <= m
      <4>1. m \in DOMAIN q /\ Avail(q[b], n) <= Avail(q[m], n)
        BY <2>5
      <4>2. ~(Avail(q[m], n) < Avail(q[b], n))
        BY <2>4, <2>5, <4>1
      <4> QED
        BY <2>2, <2>5, <3>1, <4>1, <4>2
    <3> QED
      BY <3>2, <3>3
  <2> QED
    BY <2>6, <2>7
<1> QED
  BY <1>1, PTL
=============================================================================

--------------------------- MODULE CommCacheProof ---------------------------
(***************************************************************************)
(* Theorems about CommCache, for any number of caches, cores, data and     *)
(* kernels, any place of the cores and of the data, any size of the        *)
(* caches, and both values of SOMP_CACHELOCK.                              *)
(***************************************************************************)
EXTENDS CommCacheInv, CacheLRULemmas, FiniteSetTheorems, WellFoundedInduction

(***************************************************************************)
(* What the methods of a cache do to its index, its locks and its flags.   *)
(***************************************************************************)
LEMMA LockedIsCached ==
  ASSUME NEW c, Sound(c), NEW x \in Handle, IsLocked(c, x)
  PROVE  InCache(c, x)
<1>1. c \in Cache /\ ListsAgree(c) /\ IndexExact(c)
  BY DEF Sound, CacheOK
<1>2. x \in ToSet(c.lockedList)
  BY <1>1, LockedIsMember
<1> QED
  BY <1>1, <1>2 DEF ListsAgree, IndexExact, InCache

LEMMA UnlockedFlagIsZero ==
  ASSUME NEW c, Sound(c), NEW x \in Handle
  PROVE  /\ c.dataLockFlag[x] \in Int
         /\ CACHELOCK => IF IsLocked(c, x) THEN c.dataLockFlag[x] > 0
                         ELSE c.dataLockFlag[x] = 0
  BY DEF Sound, CacheOK, FlagsExact, Cache

(* d has the locks of c, but for x. *)
SameLocks(d, c, x) ==
  \A y \in Handle \ {x} : /\ IsLocked(d, y) <=> IsLocked(c, y)
                          /\ d.dataLockFlag[y] = c.dataLockFlag[y]

LEMMA ReleaseEffect ==
  ASSUME NEW c, NEW x \in Handle, c \in Cache, ListsAgree(c), IsLocked(c, x)
  PROVE  /\ Release(c, x).cacheHashMap = c.cacheHashMap
         /\ SameLocks(Release(c, x), c, x)
         /\ ~IsLocked(Release(c, x), x)
<1> DEFINE d == Release(c, x)
<1>1. c.lockedList \in Seq(Handle) /\ x \in ToSet(c.lockedList) /\ IsInjective(c.lockedList)
  BY LockedIsMember, ListLengths DEF ListsAgree
<1>2. Distinct(RemoveFirst(c.lockedList, x), Handle, ToSet(c.lockedList) \ {x},
               Len(c.lockedList) - 1)
  BY <1>1, RemoveDistinct
<1>3. /\ d.lockedList = RemoveFirst(c.lockedList, x)
      /\ d.cacheHashMap = c.cacheHashMap /\ d.dataLockFlag = c.dataLockFlag
  BY DEF Release, Cache
<1> HIDE DEF d
<1>4. ASSUME NEW y \in Handle
      PROVE  IsLocked(d, y) <=> y \in ToSet(c.lockedList) \ {x}
  <2>1. d.lockedList \in Seq(Handle) /\ ToSet(d.lockedList) = ToSet(c.lockedList) \ {x}
    BY <1>2, <1>3 DEF Distinct
  <2> QED
    BY <2>1, ContainsIsMember DEF IsLocked
<1>5. \A y \in Handle : IsLocked(c, y) <=> y \in ToSet(c.lockedList)
  BY <1>1, ContainsIsMember DEF IsLocked
<1> QED
  BY <1>3, <1>4, <1>5 DEF SameLocks, d

LEMMA UnlockEffect ==
  ASSUME NEW c, NEW x \in Handle, Sound(c)
  PROVE  LET d == UnlockData(c, x)
         IN  /\ d.cacheHashMap = c.cacheHashMap
             /\ SameLocks(d, c, x)
             /\ IsLocked(d, x) => /\ IsLocked(c, x) /\ CACHELOCK
                                  /\ d.dataLockFlag[x] = c.dataLockFlag[x] - 1
<1> DEFINE low == LowerFlag(c, x)
<1>1. c \in Cache /\ ListsAgree(c)
  BY DEF Sound, CacheOK
<1>2. CASE ~IsLocked(c, x)
  BY <1>2 DEF UnlockData, SameLocks
<1>3. CASE IsLocked(c, x) /\ ~CACHELOCK
  <2>1. UnlockData(c, x) = Release(c, x)
    BY <1>3 DEF UnlockData
  <2> QED
    BY <1>1, <1>3, <2>1, ReleaseEffect
<1>4. CASE IsLocked(c, x) /\ CACHELOCK
  <2>1. UnlockData(c, x) = IF low.dataLockFlag[x] = 0 THEN Release(low, x) ELSE low
    BY <1>4 DEF UnlockData
  <2>2. /\ low \in Cache /\ low.handlesList = c.handlesList
        /\ low.lockedList = c.lockedList /\ low.unlockedList = c.unlockedList
        /\ low.cacheHashMap = c.cacheHashMap
        /\ low.dataLockFlag = [c.dataLockFlag EXCEPT ![x] = @ - 1]
    <3>1. low = [c EXCEPT !.dataLockFlag = [c.dataLockFlag EXCEPT ![x] = @ - 1]]
      BY <1>1 DEF LowerFlag, Cache
    <3>2. [c.dataLockFlag EXCEPT ![x] = @ - 1] \in [Handle -> Int]
      BY <1>1, ListLengths
    <3> HIDE DEF low
    <3> QED
      BY <1>1, <3>1, <3>2 DEF Cache
  <2> HIDE DEF low
  <2>3. ListsAgree(low) /\ IsLocked(low, x)
    BY <1>1, <1>4, <2>2 DEF ListsAgree, IsLocked
  <2>4. SameLocks(low, c, x) /\ low.dataLockFlag[x] = c.dataLockFlag[x] - 1
    <3>1. c.dataLockFlag \in [Handle -> Int]
      BY <1>1, ListLengths
    <3> QED
      BY <2>2, <3>1 DEF SameLocks, IsLocked
  <2>5. CASE low.dataLockFlag[x] = 0
    <3>1. /\ Release(low, x).cacheHashMap = c.cacheHashMap
          /\ SameLocks(Release(low, x), low, x) /\ ~IsLocked(Release(low, x), x)
      BY <2>2, <2>3, ReleaseEffect
    <3> QED
      BY <2>1, <2>4, <2>5, <3>1 DEF SameLocks
  <2>6. CASE low.dataLockFlag[x] # 0
    BY <1>4, <2>1, <2>2, <2>4, <2>6
  <2> QED
    BY <2>5, <2>6
<1> QED
  BY <1>2, <1>3, <1>4

LEMMA EraseEffect ==
  ASSUME NEW c, NEW x \in Handle, Sound(c)
  PROVE  LET d == EraseFromCache(c, x)
         IN  /\ d.cacheHashMap \subseteq c.cacheHashMap
             /\ d.lockedList = c.lockedList /\ d.dataLockFlag = c.dataLockFlag
             /\ ~IsLocked(c, x) => ~InCache(d, x)
<1>1. c \in Cache
  BY DEF Sound
<1>2. CASE ~EraseSucceeds(c, x)
  BY <1>2 DEF EraseFromCache, EraseSucceeds
<1>3. CASE EraseSucceeds(c, x)
  <2> DEFINE d == EraseFromCache(c, x)
  <2>1. /\ d.cacheHashMap = c.cacheHashMap \ {x}
        /\ d.lockedList = c.lockedList /\ d.dataLockFlag = c.dataLockFlag
    BY <1>1, <1>3 DEF EraseFromCache, Cache
  <2> QED
    BY <2>1 DEF InCache
<1> QED
  BY <1>2, <1>3

LEMMA PushEffect ==
  ASSUME NEW e, NEW c, NEW x \in Handle, e \in Cache, Sound(c), ~IsLocked(c, x),
         e.lockedList = c.lockedList, e.dataLockFlag = c.dataLockFlag,
         e.cacheHashMap \subseteq c.cacheHashMap
  PROVE  LET d == PushLocked(e, x)
         IN  /\ d.cacheHashMap \subseteq c.cacheHashMap \cup {x}
             /\ SameLocks(d, c, x) /\ IsLocked(d, x)
             /\ CACHELOCK => d.dataLockFlag[x] = 1
<1> DEFINE d == PushLocked(e, x)
<1>1. /\ c \in Cache /\ c.lockedList \in Seq(Handle) /\ x \notin ToSet(c.lockedList)
      /\ IsInjective(c.lockedList)
  BY LockedIsMember, ListLengths DEF Sound, CacheOK, ListsAgree
<1>2. Distinct(Cons(x, c.lockedList), Handle, ToSet(c.lockedList) \cup {x},
               Len(c.lockedList) + 1)
  BY <1>1, ConsDistinct
<1>3. /\ d.lockedList = Cons(x, c.lockedList)
      /\ d.cacheHashMap = e.cacheHashMap \cup {x}
      /\ d.dataLockFlag = IF CACHELOCK THEN [c.dataLockFlag EXCEPT ![x] = 1]
                          ELSE c.dataLockFlag
  BY DEF PushLocked, Cache
<1> HIDE DEF d
<1>4. ASSUME NEW y \in Handle
      PROVE  IsLocked(d, y) <=> y \in ToSet(c.lockedList) \cup {x}
  <2>1. /\ d.lockedList \in Seq(Handle)
        /\ ToSet(d.lockedList) = ToSet(c.lockedList) \cup {x}
    BY <1>2, <1>3 DEF Distinct
  <2> QED
    BY <2>1, ContainsIsMember DEF IsLocked
<1>5. \A y \in Handle : IsLocked(c, y) <=> y \in ToSet(c.lockedList)
  BY <1>1, ContainsIsMember DEF IsLocked
<1>6. /\ \A y \in Handle \ {x} : d.dataLockFlag[y] = c.dataLockFlag[y]
      /\ CACHELOCK => d.dataLockFlag[x] = 1
  <2>1. c.dataLockFlag \in [Handle -> Int]
    BY <1>1, ListLengths
  <2> QED
    BY <1>3, <2>1
<1> QED
  BY <1>3, <1>4, <1>5, <1>6 DEF SameLocks, d

LEMMA MakeRoomEffect ==
  ASSUME NEW c, Sound(c)
  PROVE  /\ MakeRoom(c).lockedList = c.lockedList
         /\ MakeRoom(c).dataLockFlag = c.dataLockFlag
         /\ MakeRoom(c).cacheHashMap \subseteq c.cacheHashMap
  BY DEF Sound, MakeRoom, Evict, Cache

LEMMA AppendEffect ==
  ASSUME NEW c, NEW x \in Handle, Sound(c)
  PROVE  LET d == AppendToCache(c, x)
         IN  /\ d.cacheHashMap \subseteq c.cacheHashMap \cup {x}
             /\ SameLocks(d, c, x)
             /\ CACHELOCK => d.dataLockFlag[x] <= c.dataLockFlag[x] + 1
             /\ ~IsLocked(c, x) /\ IsLocked(d, x) /\ CACHELOCK => d.dataLockFlag[x] = 1
<1>1. /\ c \in Cache /\ c.dataLockFlag[x] \in Int
      /\ CACHELOCK /\ ~IsLocked(c, x) => c.dataLockFlag[x] = 0
  BY UnlockedFlagIsZero DEF Sound
<1>2. CASE ~HasRoom(c)
  BY <1>1, <1>2 DEF AppendToCache, SameLocks
<1>3. CASE HasRoom(c) /\ ~InCache(c, x)
  <2>1. ~IsLocked(c, x)
    BY <1>3, LockedIsCached
  <2>2. MakeRoom(c) \in Cache
    BY <1>3, MakeRoomIsReady DEF ReadyFor
  <2>3. AppendToCache(c, x) = PushLocked(MakeRoom(c), x)
    BY <1>3 DEF AppendToCache
  <2> QED
    BY <1>1, <2>1, <2>2, <2>3, MakeRoomEffect, PushEffect
<1>4. CASE HasRoom(c) /\ InCache(c, x) /\ ~IsLocked(c, x)
  <2>1. Reclaim(c, x) \in Cache
    BY <1>4, ReclaimIsReady DEF ReadyFor
  <2>2. /\ Reclaim(c, x).lockedList = c.lockedList
        /\ Reclaim(c, x).dataLockFlag = c.dataLockFlag
        /\ Reclaim(c, x).cacheHashMap = c.cacheHashMap
    BY <1>1 DEF Reclaim, Cache
  <2>3. AppendToCache(c, x) = PushLocked(Reclaim(c, x), x)
    BY <1>4 DEF AppendToCache
  <2> QED
    BY <1>1, <1>4, <2>1, <2>2, <2>3, PushEffect
<1>5. CASE HasRoom(c) /\ InCache(c, x) /\ IsLocked(c, x)
  <2>1. CASE ~CACHELOCK
    BY <1>1, <1>5, <2>1 DEF AppendToCache, SameLocks
  <2>2. CASE CACHELOCK
    <3>1. AppendToCache(c, x) = LockAgain(c, x)
      BY <1>5, <2>2 DEF AppendToCache
    <3>2. /\ LockAgain(c, x).cacheHashMap = c.cacheHashMap
          /\ LockAgain(c, x).lockedList = c.lockedList
          /\ LockAgain(c, x).dataLockFlag = [c.dataLockFlag EXCEPT ![x] = @ + 1]
      BY <1>1 DEF LockAgain, Cache
    <3>3. c.dataLockFlag \in [Handle -> Int]
      BY <1>1, ListLengths
    <3> QED
      BY <1>1, <1>5, <3>1, <3>2, <3>3 DEF SameLocks, IsLocked
  <2> QED
    BY <2>1, <2>2
<1> QED
  BY <1>2, <1>3, <1>4, <1>5

(* A handle that was in no cache is not left locked by its allocation. *)
LEMMA AllocationUnlocks ==
  ASSUME NEW c, NEW x \in Handle, Sound(c), ~InCache(c, x)
  PROVE  ~IsLocked(UnlockData(AppendToCache(c, x), x), x)
<1> DEFINE d == AppendToCache(c, x)
<1>1. ~IsLocked(c, x) /\ Sound(d)
  BY LockedIsCached, AppendKeepsSound
<1>2. CACHELOCK /\ IsLocked(d, x) => d.dataLockFlag[x] = 1
  BY <1>1, AppendEffect
<1> HIDE DEF d
<1>3. /\ Sound(UnlockData(d, x))
      /\ IsLocked(UnlockData(d, x), x) =>
           /\ IsLocked(d, x) /\ CACHELOCK
           /\ UnlockData(d, x).dataLockFlag[x] = d.dataLockFlag[x] - 1
  BY <1>1, UnlockEffect, UnlockKeepsSound
<1>4. CACHELOCK /\ IsLocked(UnlockData(d, x), x) => UnlockData(d, x).dataLockFlag[x] > 0
  BY <1>3, UnlockedFlagIsZero
<1>5. ~IsLocked(UnlockData(d, x), x)
  BY <1>2, <1>3, <1>4
<1> QED
  BY <1>5 DEF d

(* Only the scratch has no entry in a cache under the name of the message. *)
LEMMA UnlockOther ==
  ASSUME NEW c, Sound(c), NEW x, x \notin Handle
  PROVE  UnlockData(c, x) = c
<1>1. c.lockedList \in Seq(Handle)
  BY ListLengths DEF Sound
<1>2. ~IsLocked(c, x)
  BY <1>1 DEF IsLocked, Contains
<1> QED
  BY <1>2 DEF UnlockData

LEMMA Names ==
  /\ Data \subseteq Handle /\ MYHANDLE \notin Handle /\ MYHANDLE \notin Data
  /\ \A k \in Core : ScratchOf(k) \in Handle \ Data
  /\ 0 \in Node /\ NoNode \notin Node
  /\ \A k \in Core : CacheNum[k] \in Node
<1>1. \A k \in Core : k \in Nat /\ k >= 1
  BY CommAssumption DEF Core
<1>2. \A k \in Core : ScratchOf(k) > 100
  BY <1>1 DEF ScratchOf
<1>3. \A h \in Data : h \in 1 .. 99
  BY CommAssumption
<1>4. MYHANDLE \notin Handle /\ \A k \in Core : ScratchOf(k) \in Handle \ Data
  BY <1>2, <1>3, CommAssumption DEF MYHANDLE
<1>5. 0 \in Node /\ NoNode \notin Node
  BY CommAssumption DEF Node, NoNode
<1> QED
  BY <1>4, <1>5, CommAssumption

LEMMA UsesOfTask ==
  ASSUME NEW t \in Seq(Access), NEW k \in Core
  PROVE  /\ Uses(t) \subseteq Data \cup {MYHANDLE}
         /\ \A m \in DOMAIN t : t[m].handle \in Uses(t)
         /\ DOMAIN HandleModeMap(k, t) = {LocalName(k, h) : h \in Uses(t)}
         /\ DOMAIN HandleModeMap(k, t) \subseteq Handle
         /\ \A h \in Data : h \in DOMAIN HandleModeMap(k, t) <=> h \in Uses(t)
<1>1. \A m \in DOMAIN t : t[m] \in Access
  OBVIOUS
<1>2. \A a \in Access : a.handle \in Data \cup {MYHANDLE}
  BY DEF Access
<1>3. Uses(t) \subseteq Data \cup {MYHANDLE} /\ \A m \in DOMAIN t : t[m].handle \in Uses(t)
  BY <1>1, <1>2 DEF Uses
<1>4. DOMAIN HandleModeMap(k, t) = {LocalName(k, h) : h \in Uses(t)}
  BY DEF HandleModeMap
<1>5. \A h \in Uses(t) : LocalName(k, h) = IF h = MYHANDLE THEN ScratchOf(k) ELSE h
  BY DEF LocalName
<1> QED
  BY <1>3, <1>4, <1>5, Names

(* The caches of the type invariant and of CachesConsistent together. *)
AllSound == cache \in [Node -> Cache] /\ \A n \in Node : Sound(cache[n])

LEMMA SoundCaches == cache \in [Node -> Cache] /\ CachesConsistent <=> AllSound
  BY DEF AllSound, CachesConsistent, Sound

LEMMA PlaceIsSound ==
  ASSUME AllSound, NEW node \in Node, NEW h \in Handle, NEW mode,
         cache' = Place(node, h, mode)
  PROVE  AllSound'
<1>1. \A n \in Node : Sound(AppendToCache(cache[n], h)) /\ Sound(EraseFromCache(cache[n], h))
  BY AppendKeepsSound, EraseKeepsSound DEF AllSound
<1>2. \A n \in Node : Sound(cache'[n])
  BY <1>1 DEF Place, AllSound
<1>3. cache' = [n \in Node |-> cache'[n]]
  BY DEF Place
<1> QED
  BY <1>2, <1>3 DEF AllSound, Sound

LEMMA UnlockIsSound ==
  ASSUME NEW C \in [Node -> Cache], \A n \in Node : Sound(C[n]), NEW node \in Node,
         NEW x \in Handle \cup {MYHANDLE}
  PROVE  LET D == [C EXCEPT ![node] = UnlockData(@, x)]
         IN  D \in [Node -> Cache] /\ \A n \in Node : Sound(D[n])
<1>1. Sound(UnlockData(C[node], x))
  BY UnlockKeepsSound, UnlockOther, Names
<1> QED
  BY <1>1 DEF Sound

LEMMA AllocateIsSound ==
  ASSUME AllSound, NEW k \in Core, NEW h \in Data, Allocate(k, h)
  PROVE  AllSound'
<1> DEFINE C == [cache EXCEPT ![0] = AppendToCache(@, h)]
<1>1. h \in Handle /\ CacheNum[k] \in Node /\ 0 \in Node
  BY Names
<1>2. C \in [Node -> Cache] /\ \A n \in Node : Sound(C[n])
  BY <1>1, AppendKeepsSound DEF AllSound, Sound
<1>3. cache' = [C EXCEPT ![CacheNum[k]] = UnlockData(@, h)]
  BY DEF Allocate
<1> HIDE DEF C
<1> QED
  BY <1>1, <1>2, <1>3, UnlockIsSound DEF AllSound

(* What Fetch pushes is a status, if the handle has a RAM node. *)
LEMMA FetchIsStatus ==
  ASSUME NEW node \in Node, NEW h \in Handle, NEW mode, handlesLocationMap[h] \in Node,
         NEW s \in Fetch(node, h, mode)
  PROVE  s \in Seq(Status)
<1>1. Local \in Source /\ RAM(h) \in Source /\ \A n \in Node : L3(n) \in Source
  BY DEF Source, Local, RAM, L3
<1>2. FoundIn(node, h) \subseteq Node
  BY DEF FoundIn, Copies
<1>3. \E x \in Status : s = <<x>>
  <2> DEFINE st(hit, source) == [hit |-> hit, source |-> source]
  <2>1. \A source \in Source :
          /\ st("localCacheHit", source) \in Status
          /\ st("distantCacheHit", source) \in Status
          /\ st("cacheMiss", source) \in Status
    BY DEF Status
  <2> HIDE DEF Status
  <2>2. CASE InCache(cache[node], h)
    BY <1>1, <2>1, <2>2 DEF Fetch
  <2>3. CASE ~InCache(cache[node], h) /\ Copies(node, h) = {}
    BY <1>1, <2>1, <2>3 DEF Fetch
  <2>4. CASE ~InCache(cache[node], h) /\ Copies(node, h) # {}
    <3>1. PICK n \in FoundIn(node, h) :
            s = <<st("distantCacheHit", IF Writes(mode) /\ ~EraseSucceeds(cache[n], h)
                                        THEN RAM(h) ELSE L3(n))>>
      BY <2>4 DEF Fetch
    <3> QED
      BY <1>1, <1>2, <2>1, <3>1
  <2> QED
    BY <2>2, <2>3, <2>4
<1> QED
  BY <1>3

LEMMA CacheInvInit == Init => CacheInv
<1> SUFFICES ASSUME Init PROVE CacheInv
  OBVIOUS
<1>1. AllSound
  BY EmptyIsSound DEF Init, AllSound, Sound
<1>2. TypeOK /\ CachesConsistent
  <2>1. Idle \in Seq(Access) /\ <<>> \in Seq(Status)
    BY DEF Idle
  <2>2. task \in [Core -> Seq(Access)] /\ cacheStatus \in [Core -> Seq(Status)]
    BY <2>1 DEF Init
  <2> QED
    BY <1>1, <2>2, SoundCaches DEF Init, TypeOK, Phase
<1>3. Located
  BY DEF Init, Located, Uses, Idle
<1>4. PhasesAgree
  BY DEF Init, PhasesAgree
<1> QED
  BY <1>2, <1>3, <1>4 DEF CacheInv

LEMMA AllocateKeepsCacheInv ==
  ASSUME CacheInv, NEW k \in Core, NEW h \in Data, Allocate(k, h)
  PROVE  CacheInv'
<1> DEFINE t == <<[handle |-> h, mode |-> "A"]>>
<1> USE DEF CacheInv
<1>1. CacheNum[k] \in Node /\ CacheNum[k] # NoNode /\ h \in Handle
  BY Names
<1>2. t \in Seq(Access) /\ Uses(t) = {h}
  BY DEF Access, Uses
<1>3. /\ handlesLocationMap' = [handlesLocationMap EXCEPT ![h] = CacheNum[k]]
      /\ task' = [task EXCEPT ![k] = t] /\ pc' = [pc EXCEPT ![k] = "fetch"] /\ pc[k] = "idle"
      /\ UNCHANGED <<scratchCpuHandle, toPlace, unlocked, cacheStatus, held, refused>>
  BY DEF Allocate
<1> HIDE DEF t
<1>4. AllSound'
  BY SoundCaches, AllocateIsSound DEF TypeOK
<1>5. TypeOK' /\ CachesConsistent'
  <2>1. cache' \in [Node -> Cache] /\ CachesConsistent'
    BY <1>4 DEF AllSound, CachesConsistent, Sound
  <2> QED
    BY <1>1, <1>2, <1>3, <2>1 DEF TypeOK, Phase
<1>6. Located'
  BY <1>1, <1>2, <1>3 DEF Located, TypeOK
<1>7. PhasesAgree'
  BY <1>3 DEF PhasesAgree, TypeOK
<1> QED
  BY <1>5, <1>6, <1>7

LEMMA StartTaskKeepsCacheInv ==
  ASSUME CacheInv, NEW k \in Core, NEW t \in Kernels, StartTask(k, t)
  PROVE  CacheInv'
<1> DEFINE names == DOMAIN HandleModeMap(k, t)
           node == CacheNum[k]
<1> USE DEF CacheInv
<1>1. t \in Seq(Access) /\ \A m \in DOMAIN t : t[m].mode # "A"
  <2>1. t \in Seq({a \in Access : a.mode # "A"})
    BY CommAssumption
  <2>2. /\ Len(t) \in Nat /\ DOMAIN t = 1 .. Len(t)
        /\ \A m \in 1 .. Len(t) : t[m] \in Access /\ t[m].mode # "A"
    BY <2>1
  <2> QED
    BY <2>1, <2>2
<1>2. /\ names \subseteq Handle /\ names = {LocalName(k, h) : h \in Uses(t)}
      /\ Uses(t) \subseteq Data \cup {MYHANDLE}
  BY <1>1, UsesOfTask
<1>3. /\ task' = [task EXCEPT ![k] = t] /\ toPlace' = [toPlace EXCEPT ![k] = names]
      /\ pc' = [pc EXCEPT ![k] = IF t = <<>> THEN "placed" ELSE "place"] /\ pc[k] = "idle"
      /\ UNCHANGED <<cache, unlocked, cacheStatus, held, refused>>
      /\ \A h \in Uses(t) \ {MYHANDLE} : handlesLocationMap[h] # NoNode
  BY DEF StartTask
<1>4. /\ node \in Node /\ node # NoNode /\ ScratchOf(k) \in Handle
      /\ MYHANDLE \notin Data /\ \A l \in Core : ScratchOf(l) \notin Data
  BY Names
<1> HIDE DEF names, node
<1>5. /\ handlesLocationMap' \in [Handle -> Node \cup {NoNode}]
      /\ scratchCpuHandle' \in [Core -> BOOLEAN]
      /\ \A h \in Handle : handlesLocationMap[h] # NoNode => handlesLocationMap'[h] # NoNode
      /\ \A l \in Core : scratchCpuHandle'[l] => handlesLocationMap'[ScratchOf(l)] # NoNode
      /\ MYHANDLE \in Uses(t) => handlesLocationMap'[ScratchOf(k)] # NoNode
  <2>1. CASE MYHANDLE \in Uses(t) /\ ~scratchCpuHandle[k]
    <3>1. /\ scratchCpuHandle' = [scratchCpuHandle EXCEPT ![k] = TRUE]
          /\ handlesLocationMap' = [handlesLocationMap EXCEPT ![ScratchOf(k)] = node]
      BY <2>1 DEF StartTask, node
    <3>2. \A l \in Core : ScratchOf(l) \in Handle
      BY Names
    <3> QED
      BY <1>4, <3>1, <3>2 DEF TypeOK, Located
  <2>2. CASE ~(MYHANDLE \in Uses(t) /\ ~scratchCpuHandle[k])
    <3>1. UNCHANGED <<scratchCpuHandle, handlesLocationMap>>
      BY <2>2 DEF StartTask
    <3> QED
      BY <2>2, <3>1 DEF TypeOK, Located
  <2> QED
    BY <2>1, <2>2
<1>6. TypeOK' /\ CachesConsistent'
  BY <1>1, <1>2, <1>3, <1>5 DEF TypeOK, CachesConsistent, Phase
<1>7. Located'
  <2>1. \A h \in names : handlesLocationMap'[h] # NoNode
    <3> SUFFICES ASSUME NEW h \in Uses(t)
                 PROVE  handlesLocationMap'[LocalName(k, h)] # NoNode
      BY <1>2
    <3>1. CASE h = MYHANDLE
      BY <1>5, <3>1 DEF LocalName
    <3>2. CASE h # MYHANDLE
      BY <1>2, <1>3, <1>5, <3>2, Names DEF LocalName
    <3> QED
      BY <3>1, <3>2
  <2>2. \A l \in Core : \A h \in toPlace'[l] : handlesLocationMap'[h] # NoNode
    BY <1>3, <1>5, <2>1 DEF Located, TypeOK
  <2>3. ASSUME NEW l \in Core, NEW h \in Data, h \in Uses(task'[l])
        PROVE  handlesLocationMap'[h] # NoNode
    <3>1. h \in Handle
      BY Names
    <3>2. CASE l = k
      BY <1>3, <1>4, <1>5, <2>3, <3>1, <3>2 DEF TypeOK
    <3>3. CASE l # k
      BY <1>3, <1>5, <2>3, <3>1, <3>3 DEF TypeOK, Located
    <3> QED
      BY <3>2, <3>3
  <2> QED
    BY <1>5, <2>2, <2>3 DEF Located
<1>8. PhasesAgree'
  BY <1>1, <1>2, <1>3 DEF PhasesAgree, TypeOK
<1> QED
  BY <1>6, <1>7, <1>8

LEMMA PlaceNextKeepsCacheInv ==
  ASSUME CacheInv, NEW k \in Core, PlaceNext(k)
  PROVE  CacheInv'
<1> USE DEF CacheInv
<1> DEFINE node == CacheNum[k]
           mode(h) == HandleModeMap(k, task[k])[h]
<1>1. PICK h \in toPlace[k] :
        /\ cache' = Place(node, h, mode(h))
        /\ \E s \in Fetch(node, h, mode(h)) : cacheStatus' = [cacheStatus EXCEPT ![k] = @ \o s]
        /\ held' = IF AppendSucceeds(cache[node], h)
                   THEN [held EXCEPT ![k] = @ \cup {h}] ELSE held
        /\ refused' = (refused \/ ~AppendSucceeds(cache[node], h))
        /\ toPlace' = [toPlace EXCEPT ![k] = @ \ {h}]
        /\ pc' = [pc EXCEPT ![k] = IF toPlace[k] = {h} THEN "placed" ELSE "place"]
  BY DEF PlaceNext
<1>2. pc[k] = "place" /\ UNCHANGED <<handlesLocationMap, scratchCpuHandle, task, unlocked>>
  BY DEF PlaceNext
<1>3. h \in Handle /\ node \in Node
  BY Names DEF TypeOK
<1> HIDE DEF node, mode
<1>4. AllSound'
  BY <1>1, <1>3, SoundCaches, PlaceIsSound DEF TypeOK
<1>5. cacheStatus' \in [Core -> Seq(Status)]
  <2>1. handlesLocationMap[h] \in Node
    BY <1>3 DEF Located, TypeOK
  <2>2. PICK s \in Fetch(node, h, mode(h)) : cacheStatus' = [cacheStatus EXCEPT ![k] = @ \o s]
    BY <1>1
  <2>3. s \in Seq(Status)
    BY <1>3, <2>1, FetchIsStatus
  <2>4. cacheStatus[k] \o s \in Seq(Status)
    BY <2>3, ConcatProperties DEF TypeOK
  <2> QED
    BY <2>2, <2>4 DEF TypeOK
<1>6. TypeOK' /\ CachesConsistent'
  <2>1. cache' \in [Node -> Cache] /\ CachesConsistent'
    BY <1>4 DEF AllSound, CachesConsistent, Sound
  <2>2. held' \in [Core -> SUBSET Handle] /\ refused' \in BOOLEAN
    BY <1>1, <1>3 DEF TypeOK
  <2>3. toPlace' \in [Core -> SUBSET Handle] /\ pc' \in [Core -> Phase]
    BY <1>1, <1>3 DEF TypeOK, Phase
  <2> QED
    BY <1>2, <1>5, <2>1, <2>2, <2>3 DEF TypeOK
<1>7. Located'
  BY <1>1, <1>2 DEF Located, TypeOK
<1>8. PhasesAgree'
  BY <1>1, <1>2 DEF PhasesAgree, TypeOK
<1> QED
  BY <1>6, <1>7, <1>8

LEMMA StartReadsKeepsCacheInv ==
  ASSUME CacheInv, NEW k \in Core, StartReads(k)
  PROVE  CacheInv'
<1> USE DEF CacheInv
<1>1. /\ pc[k] = "placed" /\ pc' = [pc EXCEPT ![k] = "fetch"]
      /\ cacheStatus' = [cacheStatus EXCEPT ![k] = <<>>]
      /\ UNCHANGED <<cache, handlesLocationMap, scratchCpuHandle, task, toPlace, unlocked,
                     held, refused>>
  BY DEF StartReads
<1>2. TypeOK' /\ CachesConsistent'
  <2>1. <<>> \in Seq(Status)
    OBVIOUS
  <2>2. cacheStatus' \in [Core -> Seq(Status)]
    BY <1>1, <2>1 DEF TypeOK
  <2> QED
    BY <1>1, <2>2 DEF TypeOK, CachesConsistent, Phase
<1>3. Located'
  BY <1>1 DEF Located
<1>4. PhasesAgree'
  BY <1>1 DEF PhasesAgree, TypeOK
<1> QED
  BY <1>2, <1>3, <1>4

(* What the end of a task leaves. *)
LEMMA LeaveEffect ==
  ASSUME CacheInv, NEW k \in Core, Leave(k),
         UNCHANGED <<handlesLocationMap, scratchCpuHandle, toPlace, cacheStatus>>
  PROVE  /\ task' \in [Core -> Seq(Access)] /\ pc' \in [Core -> Phase]
         /\ unlocked' \in [Core -> Nat] /\ held' \in [Core -> SUBSET Handle]
         /\ Located' /\ PhasesAgree'
<1> USE DEF CacheInv
<1>1. /\ pc' = [pc EXCEPT ![k] = "idle"] /\ task' = [task EXCEPT ![k] = Idle]
      /\ unlocked' = [unlocked EXCEPT ![k] = 0] /\ held' = [held EXCEPT ![k] = {}]
  BY DEF Leave
<1>2. Idle \in Seq(Access) /\ Uses(Idle) = {}
  BY DEF Idle, Uses
<1>3. /\ task' \in [Core -> Seq(Access)] /\ pc' \in [Core -> Phase]
      /\ unlocked' \in [Core -> Nat] /\ held' \in [Core -> SUBSET Handle]
  BY <1>1, <1>2 DEF TypeOK, Phase
<1>4. Located'
  BY <1>1, <1>2 DEF Located, TypeOK
<1>5. PhasesAgree'
  BY <1>1 DEF PhasesAgree, TypeOK
<1> QED
  BY <1>3, <1>4, <1>5

LEMMA FinishTaskKeepsCacheInv ==
  ASSUME CacheInv, NEW k \in Core, FinishTask(k)
  PROVE  CacheInv'
<1> USE DEF CacheInv
<1>1. /\ pc[k] = "fetch"
      /\ UNCHANGED <<cache, handlesLocationMap, scratchCpuHandle, toPlace, cacheStatus, refused>>
  BY DEF FinishTask
<1>2. CASE task[k] = <<>>
  <2>1. Leave(k)
    BY <1>2 DEF FinishTask
  <2> QED
    BY <1>1, <2>1, LeaveEffect DEF TypeOK, CachesConsistent
<1>3. CASE task[k] # <<>>
  <2>1. pc' = [pc EXCEPT ![k] = "unlock"] /\ UNCHANGED <<task, unlocked, held>>
    BY <1>3 DEF FinishTask
  <2>2. Len(task[k]) > 0
    BY <1>3, EmptySeq DEF TypeOK
  <2>3. TypeOK' /\ CachesConsistent'
    BY <1>1, <2>1 DEF TypeOK, CachesConsistent, Phase
  <2>4. Located'
    BY <1>1, <2>1 DEF Located
  <2>5. PhasesAgree'
    BY <1>1, <2>1, <2>2 DEF PhasesAgree, TypeOK
  <2> QED
    BY <2>3, <2>4, <2>5
<1> QED
  BY <1>2, <1>3

LEMMA UnlockNextKeepsCacheInv ==
  ASSUME CacheInv, NEW k \in Core, UnlockNext(k)
  PROVE  CacheInv'
<1> USE DEF CacheInv
<1> DEFINE h == task[k][unlocked[k] + 1].handle
<1>1. /\ pc[k] = "unlock" /\ cache' = [cache EXCEPT ![CacheNum[k]] = UnlockData(@, h)]
      /\ UNCHANGED <<handlesLocationMap, scratchCpuHandle, toPlace, cacheStatus, refused>>
  BY DEF UnlockNext
<1>2. h \in Handle \cup {MYHANDLE}
  <2>1. unlocked[k] + 1 \in DOMAIN task[k] /\ task[k] \in Seq(Access)
    BY <1>1 DEF PhasesAgree, TypeOK
  <2> QED
    BY <2>1, UsesOfTask, Names
<1> HIDE DEF h
<1>3. cache' \in [Node -> Cache] /\ CachesConsistent'
  <2>1. cache \in [Node -> Cache] /\ \A n \in Node : Sound(cache[n])
    BY SoundCaches DEF TypeOK, AllSound
  <2>2. cache' \in [Node -> Cache] /\ \A n \in Node : Sound(cache'[n])
    BY <1>1, <1>2, <2>1, Names, UnlockIsSound
  <2> QED
    BY <2>2 DEF CachesConsistent, Sound
<1>4. CASE LastUnlocked(k)
  <2>1. Leave(k)
    BY <1>4 DEF UnlockNext
  <2>2. Located' /\ PhasesAgree'
    BY <1>1, <2>1, LeaveEffect
  <2>3. TypeOK'
    BY <1>1, <1>3, <2>1, LeaveEffect DEF TypeOK
  <2> QED
    BY <1>3, <2>2, <2>3
<1>5. CASE ~LastUnlocked(k)
  <2>1. /\ unlocked' = [unlocked EXCEPT ![k] = @ + 1] /\ held' = [held EXCEPT ![k] = @ \ {h}]
        /\ UNCHANGED <<pc, task>>
    BY <1>5 DEF UnlockNext, h
  <2>2. TypeOK'
    BY <1>1, <1>3, <2>1 DEF TypeOK
  <2>3. Located'
    BY <1>1, <2>1 DEF Located
  <2>4. PhasesAgree'
    <3>1. unlocked[k] + 1 < Len(task[k])
      BY <1>1, <1>5 DEF LastUnlocked, PhasesAgree, TypeOK
    <3> QED
      BY <1>1, <2>1, <3>1 DEF PhasesAgree, TypeOK
  <2> QED
    BY <1>3, <2>2, <2>3, <2>4
<1> QED
  BY <1>4, <1>5

LEMMA CacheInvNext == CacheInv /\ [Next]_vars => CacheInv'
<1> SUFFICES ASSUME CacheInv, [Next]_vars PROVE CacheInv'
  OBVIOUS
<1>1. CASE UNCHANGED vars
  BY <1>1 DEF vars, CacheInv, TypeOK, CachesConsistent, Located, PhasesAgree
<1>2. ASSUME NEW k \in Core, NEW h \in Data, Allocate(k, h) PROVE CacheInv'
  BY <1>2, AllocateKeepsCacheInv
<1>3. ASSUME NEW k \in Core, NEW t \in Kernels, StartTask(k, t) PROVE CacheInv'
  BY <1>3, StartTaskKeepsCacheInv
<1>4. ASSUME NEW k \in Core, PlaceNext(k) PROVE CacheInv'
  BY <1>4, PlaceNextKeepsCacheInv
<1>5. ASSUME NEW k \in Core, StartReads(k) PROVE CacheInv'
  BY <1>5, StartReadsKeepsCacheInv
<1>6. ASSUME NEW k \in Core, FinishTask(k) PROVE CacheInv'
  BY <1>6, FinishTaskKeepsCacheInv
<1>7. ASSUME NEW k \in Core, UnlockNext(k) PROVE CacheInv'
  BY <1>7, UnlockNextKeepsCacheInv
<1> QED
  BY <1>1, <1>2, <1>3, <1>4, <1>5, <1>6, <1>7 DEF Next

LEMMA CommCacheInvariant == Spec => []CacheInv
<1>1. Init => CacheInv
  BY CacheInvInit
<1>2. CacheInv /\ [Next]_vars => CacheInv'
  BY CacheInvNext
<1> QED
  BY <1>1, <1>2, PTL DEF Spec

(* The variables of CommCache keep their types: every handle that is placed *)
(* has a RAM node to be fetched from, and a task unlocks only what it has.  *)
THEOREM CommCacheTypeOK == Spec => []TypeOK
<1>1. CacheInv => TypeOK
  BY DEF CacheInv
<1> QED
  BY <1>1, CommCacheInvariant, PTL
-----------------------------------------------------------------------------
(***************************************************************************)
(* Who may have locked a datum. A step of core k leaves the claims of the  *)
(* other cores alone, and those of k are compared before and after it.     *)
(***************************************************************************)
OnlyCore(k) == \A l \in Core \ {k} : /\ pc'[l] = pc[l] /\ task'[l] = task[l]
                                     /\ toPlace'[l] = toPlace[l] /\ unlocked'[l] = unlocked[l]

LEMMA OtherClaims ==
  ASSUME NEW k \in Core, OnlyCore(k), NEW l \in Core \ {k}, NEW h
  PROVE  Claims(l, h)' <=> Claims(l, h)
  BY DEF OnlyCore, Claims, Taken, ToUnlock

LEMMA ClaimantsAfter ==
  ASSUME NEW k \in Core, OnlyCore(k), NEW n \in Node, NEW h
  PROVE  /\ n # CacheNum[k] => Claimants(n, h)' = Claimants(n, h)
         /\ n = CacheNum[k] =>
              Claimants(n, h)' = IF Claims(k, h)' THEN Claimants(n, h) \cup {k}
                                 ELSE Claimants(n, h) \ {k}
  BY OtherClaims DEF Claimants

LEMMA ClaimantsAreFinite ==
  ASSUME NEW n, NEW h
  PROVE  /\ Claimants(n, h) \subseteq Core /\ IsFiniteSet(Claimants(n, h))
         /\ Cardinality(Claimants(n, h)) \in Nat
<1>1. nCores \in Nat
  BY CommAssumption
<1>2. IsFiniteSet(Core)
  BY <1>1, FS_Interval DEF Core
<1>3. Claimants(n, h) \subseteq Core
  BY DEF Claimants
<1> QED
  BY <1>2, <1>3, FS_Subset, FS_CardinalityType

LEMMA ClaimantsAfterAreFinite ==
  ASSUME NEW k \in Core, OnlyCore(k), NEW n \in Node, NEW h
  PROVE  IsFiniteSet(Claimants(n, h)')
<1>1. IsFiniteSet(Claimants(n, h))
  BY ClaimantsAreFinite
<1>2. IsFiniteSet(Claimants(n, h) \cup {k}) /\ IsFiniteSet(Claimants(n, h) \ {k})
  BY <1>1, FS_AddElement, FS_RemoveElement
<1> QED
  BY <1>1, <1>2, ClaimantsAfter

(* A lock of h is claimed by the cores of S. *)
Claimed(c, h, S) == IsLocked(c, h) => /\ S # {}
                                      /\ CACHELOCK => c.dataLockFlag[h] <= Cardinality(S)

LEMMA ClaimedByMore ==
  ASSUME NEW c, NEW d, NEW h \in Handle, NEW S, NEW T, Sound(c), IsFiniteSet(T), S \subseteq T,
         Claimed(c, h, S), IsLocked(d, h) => IsLocked(c, h) /\ d.dataLockFlag[h] = c.dataLockFlag[h]
  PROVE  Claimed(d, h, T)
<1>1. Cardinality(S) <= Cardinality(T) /\ Cardinality(S) \in Nat /\ Cardinality(T) \in Nat
  BY FS_Subset, FS_CardinalityType
<1>2. c.dataLockFlag[h] \in Int
  BY UnlockedFlagIsZero
<1> QED
  BY <1>1, <1>2 DEF Claimed

LEMMA ClaimedByOneMore ==
  ASSUME NEW c, NEW h \in Handle, NEW S, NEW k, Sound(c), IsFiniteSet(S), k \notin S,
         Claimed(c, h, S)
  PROVE  Claimed(AppendToCache(c, h), h, S \cup {k})
<1> DEFINE d == AppendToCache(c, h)
<1>1. Cardinality(S \cup {k}) = Cardinality(S) + 1 /\ Cardinality(S) \in Nat
  BY FS_AddElement, FS_CardinalityType
<1>2. c.dataLockFlag[h] \in Int /\ d.dataLockFlag[h] \in Int
  BY UnlockedFlagIsZero, AppendKeepsSound
<1>3. /\ CACHELOCK => d.dataLockFlag[h] <= c.dataLockFlag[h] + 1
      /\ ~IsLocked(c, h) /\ IsLocked(d, h) /\ CACHELOCK => d.dataLockFlag[h] = 1
  BY AppendEffect
<1> HIDE DEF d
<1>4. Claimed(d, h, S \cup {k})
  BY <1>1, <1>2, <1>3 DEF Claimed
<1> QED
  BY <1>4 DEF d

LEMMA ClaimedByOneLess ==
  ASSUME NEW c, NEW h \in Handle, NEW S, NEW k, NEW T, Sound(c), IsFiniteSet(S),
         T = S \cup {k} \/ T = S \ {k}, Claimed(c, h, S)
  PROVE  Claimed(UnlockData(c, h), h, T)
<1> DEFINE d == UnlockData(c, h)
<1>1. /\ IsFiniteSet(T) /\ Cardinality(S) \in Nat /\ Cardinality(T) \in Nat
      /\ Cardinality(T) >= Cardinality(S) - 1
  <2>1. IsFiniteSet(S \cup {k}) /\ IsFiniteSet(S \ {k}) /\ Cardinality(S) \in Nat
    BY FS_AddElement, FS_RemoveElement, FS_CardinalityType
  <2>2. /\ Cardinality(S \cup {k}) = IF k \in S THEN Cardinality(S) ELSE Cardinality(S) + 1
        /\ Cardinality(S \ {k}) = IF k \in S THEN Cardinality(S) - 1 ELSE Cardinality(S)
    BY FS_AddElement, FS_RemoveElement, Zenon
  <2>3. IsFiniteSet(T)
    BY <2>1
  <2>4. Cardinality(T) \in Nat
    BY <2>3, FS_CardinalityType
  <2>5. Cardinality(T) >= Cardinality(S) - 1
    BY <2>1, <2>2
  <2> QED
    BY <2>1, <2>3, <2>4, <2>5
<1>2. /\ c.dataLockFlag[h] \in Int /\ d.dataLockFlag[h] \in Int
      /\ CACHELOCK /\ IsLocked(d, h) => d.dataLockFlag[h] > 0
  BY UnlockedFlagIsZero, UnlockKeepsSound
<1>3. IsLocked(d, h) => /\ IsLocked(c, h) /\ CACHELOCK
                        /\ d.dataLockFlag[h] = c.dataLockFlag[h] - 1
  BY UnlockEffect
<1>4. T = {} => Cardinality(T) = 0
  BY FS_EmptySet
<1> HIDE DEF d
<1>5. Claimed(d, h, T)
  <2> SUFFICES ASSUME IsLocked(d, h)
               PROVE  T # {} /\ (CACHELOCK => d.dataLockFlag[h] <= Cardinality(T))
    BY DEF Claimed
  <2>1. CACHELOCK /\ c.dataLockFlag[h] <= Cardinality(S)
    BY <1>3 DEF Claimed
  <2>2. d.dataLockFlag[h] <= Cardinality(T) /\ Cardinality(T) > 0
    BY <1>1, <1>2, <1>3, <2>1
  <2> QED
    BY <1>4, <2>2
<1> QED
  BY <1>5 DEF d

LEMMA LocksAreClaimedMeans ==
  LocksAreClaimed <=> \A n \in Node : \A h \in Data :
                        OfNodeZero(h) => Claimed(cache[n], h, Claimants(n, h))
  BY DEF LocksAreClaimed, Claimed

(* Steps that change no cache, and after which k claims no less. *)
LEMMA ClaimsGrow ==
  ASSUME CacheInv, LockInv, NEW k \in Core, OnlyCore(k), UNCHANGED cache,
         \A h \in Data : handlesLocationMap'[h] = handlesLocationMap[h],
         \A h \in Data : Claims(k, h) => Claims(k, h)'
  PROVE  LockInv'
<1>1. NewIsUncached'
  BY DEF LockInv, NewIsUncached
<1>2. ASSUME NEW n \in Node, NEW h \in Data, OfNodeZero(h)'
      PROVE  Claimed(cache'[n], h, Claimants(n, h)')
  <2>1. OfNodeZero(h) /\ h \in Handle
    BY <1>2, Names DEF OfNodeZero
  <2>2. Claimed(cache[n], h, Claimants(n, h)) /\ Sound(cache[n])
    BY <2>1, LocksAreClaimedMeans, SoundCaches DEF LockInv, CacheInv, TypeOK, AllSound
  <2>3. Claimants(n, h) \subseteq Claimants(n, h)'
    <3>1. k \in Claimants(n, h) => Claims(k, h)'
      BY DEF Claimants
    <3> QED
      BY <3>1, ClaimantsAfter
  <2>4. IsFiniteSet(Claimants(n, h)')
    BY ClaimantsAfterAreFinite
  <2> QED
    BY <2>1, <2>2, <2>3, <2>4, ClaimedByMore
<1>3. LocksAreClaimed'
  BY <1>2 DEF LocksAreClaimed, Claimed
<1> QED
  BY <1>1, <1>3 DEF LockInv

LEMMA StartTaskKeepsLockInv ==
  ASSUME CacheInv, LockInv, NEW k \in Core, NEW t \in Kernels, StartTask(k, t)
  PROVE  LockInv'
<1>1. /\ pc[k] = "idle" /\ UNCHANGED <<cache, unlocked>>
      /\ task' = [task EXCEPT ![k] = t] /\ toPlace' = [toPlace EXCEPT ![k] = DOMAIN HandleModeMap(k, t)]
      /\ pc' = [pc EXCEPT ![k] = IF t = <<>> THEN "placed" ELSE "place"]
  BY DEF StartTask
<1>2. OnlyCore(k)
  BY <1>1 DEF OnlyCore, CacheInv, TypeOK
<1>3. \A h \in Data : handlesLocationMap'[h] = handlesLocationMap[h]
  <2>1. \/ UNCHANGED handlesLocationMap
        \/ handlesLocationMap' = [handlesLocationMap EXCEPT ![ScratchOf(k)] = CacheNum[k]]
    BY DEF StartTask
  <2> QED
    BY <2>1, Names DEF CacheInv, TypeOK
<1>4. \A h \in Data : ~Claims(k, h)
  BY <1>1 DEF Claims, Taken
<1> QED
  BY <1>1, <1>2, <1>3, <1>4, ClaimsGrow

LEMMA StartReadsKeepsLockInv ==
  ASSUME CacheInv, LockInv, NEW k \in Core, StartReads(k)
  PROVE  LockInv'
<1>1. /\ pc[k] = "placed" /\ pc' = [pc EXCEPT ![k] = "fetch"]
      /\ UNCHANGED <<cache, handlesLocationMap, task, toPlace, unlocked>>
  BY DEF StartReads
<1>2. OnlyCore(k) /\ pc'[k] = "fetch"
  BY <1>1 DEF OnlyCore, CacheInv, TypeOK
<1>3. \A h \in Data : Claims(k, h) => Claims(k, h)'
  BY <1>1, <1>2 DEF Claims, Taken
<1> QED
  BY <1>1, <1>2, <1>3, ClaimsGrow

LEMMA FinishTaskKeepsLockInv ==
  ASSUME CacheInv, LockInv, NEW k \in Core, FinishTask(k)
  PROVE  LockInv'
<1>1. /\ pc[k] = "fetch" /\ UNCHANGED <<cache, handlesLocationMap, toPlace>>
      /\ IF task[k] = <<>> THEN Leave(k)
         ELSE pc' = [pc EXCEPT ![k] = "unlock"] /\ UNCHANGED <<task, unlocked>>
  BY DEF FinishTask
<1>2. OnlyCore(k)
  BY <1>1 DEF OnlyCore, Leave, CacheInv, TypeOK
<1>3. ASSUME NEW h \in Data, Claims(k, h) PROVE Claims(k, h)'
  <2>1. task[k] # <<>> /\ h \in DOMAIN HandleModeMap(k, task[k])
    BY <1>1, <1>3 DEF Claims, Taken
  <2>2. h \in Uses(task[k])
    BY <2>1, UsesOfTask DEF CacheInv, TypeOK
  <2>3. pc'[k] = "unlock" /\ task'[k] = task[k] /\ unlocked'[k] = 0
    BY <1>1, <2>1 DEF CacheInv, TypeOK, PhasesAgree
  <2>4. task[k] \in Seq(Access)
    BY DEF CacheInv, TypeOK
  <2>5. PICK m \in 1 .. Len(task[k]) : task[k][m].handle = h
    BY <2>2, <2>4 DEF Uses
  <2>6. m \in (0 + 1) .. Len(task[k])
    OBVIOUS
  <2> QED
    BY <2>3, <2>5, <2>6 DEF Claims, ToUnlock
<1> QED
  BY <1>1, <1>2, <1>3, ClaimsGrow

LEMMA PlaceNextKeepsLockInv ==
  ASSUME CacheInv, LockInv, NEW k \in Core, PlaceNext(k)
  PROVE  LockInv'
<1> DEFINE node == CacheNum[k]
           mode(h) == HandleModeMap(k, task[k])[h]
<1>1. PICK x \in toPlace[k] :
        /\ cache' = Place(node, x, mode(x))
        /\ toPlace' = [toPlace EXCEPT ![k] = @ \ {x}]
        /\ pc' = [pc EXCEPT ![k] = IF toPlace[k] = {x} THEN "placed" ELSE "place"]
  BY DEF PlaceNext
<1>2. pc[k] = "place" /\ UNCHANGED <<handlesLocationMap, task, unlocked>>
  BY DEF PlaceNext
<1>3. /\ x \in Handle /\ node \in Node /\ handlesLocationMap[x] # NoNode
      /\ Data \subseteq Handle
  BY Names DEF CacheInv, TypeOK, Located
<1> HIDE DEF node, mode
<1>4. OnlyCore(k) /\ pc'[k] \in {"place", "placed"} /\ task'[k] = task[k]
      /\ toPlace'[k] = toPlace[k] \ {x}
  BY <1>1, <1>2 DEF OnlyCore, CacheInv, TypeOK
<1>5. \A n \in Node : Sound(cache[n])
  BY SoundCaches DEF CacheInv, TypeOK, AllSound
<1>6. /\ cache'[node] = AppendToCache(cache[node], x)
      /\ \A n \in Node \ {node} : cache'[n] \in {cache[n], EraseFromCache(cache[n], x)}
  BY <1>1, <1>3 DEF Place
<1>7. NewIsUncached'
  <2> SUFFICES ASSUME NEW h \in Data, handlesLocationMap[h] = NoNode, NEW n \in Node
               PROVE  ~InCache(cache'[n], h)
    BY <1>2 DEF NewIsUncached
  <2>1. h # x /\ ~InCache(cache[n], h)
    BY <1>3 DEF LockInv, NewIsUncached
  <2>2. cache'[n].cacheHashMap \subseteq cache[n].cacheHashMap \cup {x}
    BY <1>3, <1>5, <1>6, AppendEffect, EraseEffect
  <2> QED
    BY <2>1, <2>2 DEF InCache
<1>8. /\ x \in Data => ~Claims(k, x) /\ Claims(k, x)'
      /\ \A h \in Data \ {x} : Claims(k, h)' <=> Claims(k, h)
  <2>1. toPlace[k] \subseteq DOMAIN HandleModeMap(k, task[k]) /\ task[k] \in Seq(Access)
    BY <1>2, UsesOfTask DEF CacheInv, TypeOK, PhasesAgree
  <2>2. task[k] # <<>>
    BY <1>1, <1>2, <2>1 DEF CacheInv, PhasesAgree, Uses
  <2>3. task[k][1].mode # "A"
    <3>1. 1 \in DOMAIN task[k]
      BY <2>1, <2>2, EmptySeq
    <3> QED
      BY <1>2, <3>1 DEF CacheInv, PhasesAgree
  <2>4. Taken(k) = DOMAIN HandleModeMap(k, task[k]) \ toPlace[k]
    BY <1>2, <2>2, <2>3 DEF Taken
  <2>5. Taken(k)' = DOMAIN HandleModeMap(k, task[k]) \ (toPlace[k] \ {x})
    BY <1>4, <2>2, <2>3 DEF Taken
  <2>6. \A h : (Claims(k, h) <=> h \in Taken(k)) /\ (Claims(k, h)' <=> h \in Taken(k)')
    BY <1>2, <1>4 DEF Claims
  <2> QED
    BY <1>1, <2>1, <2>4, <2>5, <2>6
<1>9. ASSUME NEW n \in Node, NEW h \in Data, OfNodeZero(h)'
      PROVE  Claimed(cache'[n], h, Claimants(n, h)')
  <2>1. h \in Handle /\ Claimed(cache[n], h, Claimants(n, h))
    BY <1>2, <1>9, Names, LocksAreClaimedMeans DEF LockInv, OfNodeZero
  <2>2. /\ IsFiniteSet(Claimants(n, h)) /\ IsFiniteSet(Claimants(n, h)')
    BY <1>4, ClaimantsAreFinite, ClaimantsAfterAreFinite
  <2>3. CASE n # node
    <3>1. cache'[n].lockedList = cache[n].lockedList /\ cache'[n].dataLockFlag = cache[n].dataLockFlag
      BY <1>3, <1>5, <1>6, <2>3, EraseEffect
    <3>2. Claimants(n, h)' = Claimants(n, h)
      BY <1>4, <2>3, ClaimantsAfter DEF node
    <3> QED
      BY <2>1, <3>1, <3>2 DEF Claimed, IsLocked
  <2>4. CASE n = node /\ h # x
    <3>1. SameLocks(cache'[n], cache[n], x)
      BY <1>3, <1>5, <1>6, <2>4, AppendEffect
    <3>2. Claimants(n, h)' = Claimants(n, h)
      <4>1. k \in Claimants(n, h) <=> Claims(k, h)
        BY <2>4 DEF Claimants, node
      <4>2. Claims(k, h)' <=> Claims(k, h)
        BY <1>8, <1>9, <2>4
      <4>3. Claimants(n, h)' = IF Claims(k, h)' THEN Claimants(n, h) \cup {k}
                               ELSE Claimants(n, h) \ {k}
        BY <1>4, <2>4, ClaimantsAfter DEF node
      <4> QED
        BY <4>1, <4>2, <4>3, Zenon
    <3> QED
      BY <2>1, <2>4, <3>1, <3>2 DEF Claimed, SameLocks
  <2>5. CASE n = node /\ h = x
    <3>1. Claimants(n, h)' = Claimants(n, h) \cup {k}
      BY <1>4, <1>8, <2>5, ClaimantsAfter DEF node
    <3>2. k \notin Claimants(n, h)
      BY <1>8, <2>5 DEF Claimants
    <3> QED
      BY <1>5, <1>6, <2>1, <2>2, <2>5, <3>1, <3>2, ClaimedByOneMore
  <2> QED
    BY <2>3, <2>4, <2>5
<1>10. LocksAreClaimed'
  BY <1>9 DEF LocksAreClaimed, Claimed
<1> QED
  BY <1>7, <1>10 DEF LockInv

LEMMA UnlockNextKeepsLockInv ==
  ASSUME CacheInv, LockInv, NEW k \in Core, UnlockNext(k)
  PROVE  LockInv'
<1> DEFINE node == CacheNum[k]
           x == task[k][unlocked[k] + 1].handle
<1>1. /\ pc[k] = "unlock" /\ cache' = [cache EXCEPT ![node] = UnlockData(@, x)]
      /\ UNCHANGED <<handlesLocationMap, toPlace>>
      /\ IF LastUnlocked(k) THEN Leave(k)
         ELSE unlocked' = [unlocked EXCEPT ![k] = @ + 1] /\ UNCHANGED <<pc, task>>
  BY DEF UnlockNext
<1>2. /\ task[k] \in Seq(Access) /\ unlocked[k] \in Nat /\ unlocked[k] < Len(task[k])
      /\ node \in Node
  BY <1>1, Names DEF CacheInv, TypeOK, PhasesAgree
<1>3. x \in Data \cup {MYHANDLE}
  <2>1. unlocked[k] + 1 \in DOMAIN task[k]
    BY <1>2
  <2> QED
    BY <1>2, <2>1, UsesOfTask
<1>4. ASSUME NEW h \in Data, h # x PROVE Claims(k, h)' <=> Claims(k, h)
  <2>1. Claims(k, h) <=> h \in ToUnlock(k)
    BY <1>1 DEF Claims, Taken
  <2>2. CASE LastUnlocked(k)
    <3>1. pc'[k] = "idle"
      BY <1>1, <2>2 DEF Leave, CacheInv, TypeOK
    <3>2. ~Claims(k, h)'
      BY <3>1 DEF Claims, Taken
    <3>3. h \notin ToUnlock(k)
      BY <1>2, <1>4, <2>2 DEF ToUnlock, LastUnlocked
    <3> QED
      BY <2>1, <3>2, <3>3
  <2>3. CASE ~LastUnlocked(k)
    <3>1. pc'[k] = "unlock" /\ task'[k] = task[k] /\ unlocked'[k] = unlocked[k] + 1
      BY <1>1, <2>3 DEF CacheInv, TypeOK
    <3>2. Claims(k, h)' <=> h \in ToUnlock(k)'
      BY <3>1 DEF Claims, Taken
    <3>3. ToUnlock(k)' = {task[k][m].handle : m \in (unlocked[k] + 2) .. Len(task[k])}
      BY <1>2, <3>1 DEF ToUnlock
    <3>4. (unlocked[k] + 1) .. Len(task[k]) = {unlocked[k] + 1} \cup (unlocked[k] + 2) .. Len(task[k])
      BY <1>2
    <3>5. h \in ToUnlock(k) <=> h \in ToUnlock(k)'
      BY <1>4, <3>3, <3>4 DEF ToUnlock
    <3> QED
      BY <2>1, <3>2, <3>5
  <2> QED
    BY <2>2, <2>3
<1> HIDE DEF node, x
<1>5. OnlyCore(k)
  BY <1>1 DEF OnlyCore, Leave, CacheInv, TypeOK
<1>6. \A n \in Node : Sound(cache[n])
  BY SoundCaches DEF CacheInv, TypeOK, AllSound
<1>7. /\ cache'[node] = UnlockData(cache[node], x)
      /\ \A n \in Node \ {node} : cache'[n] = cache[n]
  BY <1>1, <1>2 DEF CacheInv, TypeOK
<1>8. x \notin Handle => cache'[node] = cache[node]
  BY <1>2, <1>6, <1>7, UnlockOther
<1>9. x \in Handle <=> x \in Data
  BY <1>3, Names
<1>10. NewIsUncached'
  <2> SUFFICES ASSUME NEW h \in Data, handlesLocationMap[h] = NoNode, NEW n \in Node
               PROVE  ~InCache(cache'[n], h)
    BY <1>1 DEF NewIsUncached
  <2>1. ~InCache(cache[n], h)
    BY DEF LockInv, NewIsUncached
  <2>2. cache'[n].cacheHashMap = cache[n].cacheHashMap
    BY <1>2, <1>6, <1>7, <1>8, UnlockEffect
  <2> QED
    BY <2>1, <2>2 DEF InCache
<1>11. ASSUME NEW n \in Node, NEW h \in Data, OfNodeZero(h)'
       PROVE  Claimed(cache'[n], h, Claimants(n, h)')
  <2>1. h \in Handle /\ Claimed(cache[n], h, Claimants(n, h))
    BY <1>1, <1>11, Names, LocksAreClaimedMeans DEF LockInv, OfNodeZero
  <2>2. IsFiniteSet(Claimants(n, h))
    BY ClaimantsAreFinite
  <2>3. CASE n # node
    <3>1. Claimants(n, h)' = Claimants(n, h)
      BY <1>5, <2>3, ClaimantsAfter DEF node
    <3> QED
      BY <1>7, <2>1, <2>3, <3>1
  <2>4. CASE n = node /\ h # x
    <3>1. SameLocks(cache'[n], cache[n], x) \/ cache'[n] = cache[n]
      BY <1>6, <1>7, <1>8, <2>4, UnlockEffect
    <3>2. Claimants(n, h)' = Claimants(n, h)
      <4>1. k \in Claimants(n, h) <=> Claims(k, h)
        BY <2>4 DEF Claimants, node
      <4> QED
        BY <1>4, <1>5, <2>4, <4>1, ClaimantsAfter DEF node
    <3> QED
      BY <2>1, <2>4, <3>1, <3>2 DEF Claimed, SameLocks
  <2>5. CASE n = node /\ h = x
    <3>1. \/ Claimants(n, h)' = Claimants(n, h) \cup {k}
          \/ Claimants(n, h)' = Claimants(n, h) \ {k}
      BY <1>5, <2>5, ClaimantsAfter DEF node
    <3>2. cache'[n] = UnlockData(cache[n], h)
      BY <1>7, <2>5
    <3> QED
      BY <1>6, <2>1, <2>2, <3>1, <3>2, ClaimedByOneLess
  <2> QED
    BY <2>3, <2>4, <2>5
<1>12. LocksAreClaimed'
  BY <1>11 DEF LocksAreClaimed, Claimed
<1> QED
  BY <1>10, <1>12 DEF LockInv

LEMMA AllocateKeepsLockInv ==
  ASSUME CacheInv, LockInv, NEW k \in Core, NEW x \in Data, Allocate(k, x)
  PROVE  LockInv'
<1> DEFINE node == CacheNum[k]
           t == <<[handle |-> x, mode |-> "A"]>>
           C == [cache EXCEPT ![0] = AppendToCache(@, x)]
<1>1. /\ pc[k] = "idle" /\ handlesLocationMap[x] = NoNode
      /\ handlesLocationMap' = [handlesLocationMap EXCEPT ![x] = node]
      /\ cache' = [C EXCEPT ![node] = UnlockData(@, x)]
      /\ task' = [task EXCEPT ![k] = t] /\ pc' = [pc EXCEPT ![k] = "fetch"]
      /\ UNCHANGED <<toPlace, unlocked>>
  BY DEF Allocate
<1>2. /\ x \in Handle /\ node \in Node /\ 0 \in Node /\ node # NoNode
      /\ Data \subseteq Handle
  BY Names
<1>3. \A n \in Node : Sound(cache[n]) /\ ~InCache(cache[n], x) /\ ~IsLocked(cache[n], x)
  BY <1>1, <1>2, SoundCaches, LockedIsCached DEF CacheInv, TypeOK, AllSound, LockInv, NewIsUncached
<1>4. /\ C \in [Node -> Cache] /\ \A n \in Node : Sound(C[n])
      /\ C[0] = AppendToCache(cache[0], x) /\ \A n \in Node \ {0} : C[n] = cache[n]
  BY <1>2, <1>3, AppendKeepsSound DEF CacheInv, TypeOK, Sound
<1>5. t[1].mode = "A"
  OBVIOUS
<1> HIDE DEF node, t, C
<1>6. /\ cache'[node] = UnlockData(C[node], x)
      /\ \A n \in Node \ {node} : cache'[n] = C[n]
  BY <1>1, <1>2, <1>4
<1>7. ASSUME NEW n \in Node
      PROVE  /\ SameLocks(cache'[n], cache[n], x)
             /\ cache'[n].cacheHashMap \subseteq cache[n].cacheHashMap \cup {x}
  <2>1. /\ SameLocks(C[n], cache[n], x)
        /\ C[n].cacheHashMap \subseteq cache[n].cacheHashMap \cup {x}
    <3>1. CASE n = 0
      BY <1>2, <1>3, <1>4, <3>1, AppendEffect
    <3>2. CASE n # 0
      BY <1>4, <3>2 DEF SameLocks
    <3> QED
      BY <3>1, <3>2
  <2>2. SameLocks(cache'[n], C[n], x) /\ cache'[n].cacheHashMap = C[n].cacheHashMap
    <3>1. CASE n = node
      BY <1>2, <1>4, <1>6, <3>1, UnlockEffect
    <3>2. CASE n # node
      BY <1>6, <3>2 DEF SameLocks
    <3> QED
      BY <3>1, <3>2
  <2> QED
    BY <2>1, <2>2 DEF SameLocks
<1>8. node = 0 => \A n \in Node : ~IsLocked(cache'[n], x)
  <2>1. ~InCache(cache[0], x) /\ Sound(cache[0])
    BY <1>2, <1>3
  <2>2. ~IsLocked(UnlockData(AppendToCache(cache[0], x), x), x)
    BY <1>2, <2>1, AllocationUnlocks
  <2> QED
    BY <1>3, <1>4, <1>6, <2>2
<1>9. NewIsUncached'
  <2> SUFFICES ASSUME NEW h \in Data, handlesLocationMap'[h] = NoNode, NEW n \in Node
               PROVE  ~InCache(cache'[n], h)
    BY DEF NewIsUncached
  <2>1. h # x /\ ~InCache(cache[n], h)
    BY <1>1, <1>2 DEF CacheInv, TypeOK, LockInv, NewIsUncached
  <2> QED
    BY <1>7, <2>1 DEF InCache
<1>10. OnlyCore(k)
  BY <1>1 DEF OnlyCore, CacheInv, TypeOK
<1>11. \A h : ~Claims(k, h) /\ ~Claims(k, h)'
  <2>1. pc'[k] = "fetch" /\ task'[k] = t
    BY <1>1 DEF CacheInv, TypeOK
  <2> QED
    BY <1>1, <1>5, <2>1 DEF Claims, Taken
<1>12. ASSUME NEW n \in Node, NEW h \in Data, OfNodeZero(h)'
       PROVE  Claimed(cache'[n], h, Claimants(n, h)')
  <2>1. CASE h = x
    <3>1. node = 0
      BY <1>1, <1>2, <1>12, <2>1 DEF OfNodeZero, CacheInv, TypeOK
    <3> QED
      BY <1>8, <2>1, <3>1 DEF Claimed
  <2>2. CASE h # x
    <3>1. h \in Handle /\ Claimed(cache[n], h, Claimants(n, h))
      BY <1>1, <1>2, <1>12, <2>2, LocksAreClaimedMeans
         DEF OfNodeZero, LockInv, CacheInv, TypeOK
    <3>2. Claimants(n, h)' = Claimants(n, h)
      <4>1. k \notin Claimants(n, h)
        BY <1>11 DEF Claimants
      <4> QED
        BY <1>10, <1>11, <4>1, ClaimantsAfter
    <3> QED
      BY <1>7, <2>2, <3>1, <3>2 DEF Claimed, SameLocks
  <2> QED
    BY <2>1, <2>2
<1>13. LocksAreClaimed'
  BY <1>12 DEF LocksAreClaimed, Claimed
<1> QED
  BY <1>9, <1>13 DEF LockInv

LEMMA LockInvInit == Init => LockInv
<1> SUFFICES ASSUME Init PROVE LockInv
  OBVIOUS
<1>1. NewIsUncached
  BY DEF Init, NewIsUncached, InCache, EmptyCache
<1>2. \A h \in Data : ~OfNodeZero(h)
  BY Names DEF Init, OfNodeZero, NoNode
<1> QED
  BY <1>1, <1>2 DEF LockInv, LocksAreClaimed

LEMMA LockInvNext == CacheInv /\ LockInv /\ [Next]_vars => LockInv'
<1> SUFFICES ASSUME CacheInv, LockInv, [Next]_vars PROVE LockInv'
  OBVIOUS
<1>1. CASE UNCHANGED vars
  <2>1. NewIsUncached'
    BY <1>1 DEF vars, LockInv, NewIsUncached
  <2>2. \A k, h : Claims(k, h)' <=> Claims(k, h)
    BY <1>1 DEF vars, Claims, Taken, ToUnlock
  <2>3. \A n, h : Claimants(n, h)' = Claimants(n, h)
    BY <2>2 DEF Claimants
  <2> QED
    BY <1>1, <2>1, <2>3 DEF vars, LockInv, LocksAreClaimed, OfNodeZero
<1>2. ASSUME NEW k \in Core, NEW h \in Data, Allocate(k, h) PROVE LockInv'
  BY <1>2, AllocateKeepsLockInv
<1>3. ASSUME NEW k \in Core, NEW t \in Kernels, StartTask(k, t) PROVE LockInv'
  BY <1>3, StartTaskKeepsLockInv
<1>4. ASSUME NEW k \in Core, PlaceNext(k) PROVE LockInv'
  BY <1>4, PlaceNextKeepsLockInv
<1>5. ASSUME NEW k \in Core, StartReads(k) PROVE LockInv'
  BY <1>5, StartReadsKeepsLockInv
<1>6. ASSUME NEW k \in Core, FinishTask(k) PROVE LockInv'
  BY <1>6, FinishTaskKeepsLockInv
<1>7. ASSUME NEW k \in Core, UnlockNext(k) PROVE LockInv'
  BY <1>7, UnlockNextKeepsLockInv
<1> QED
  BY <1>1, <1>2, <1>3, <1>4, <1>5, <1>6, <1>7 DEF Next

LEMMA LocksInvariant == Spec => [](CacheInv /\ LockInv)
<1>1. Init => CacheInv /\ LockInv
  BY CacheInvInit, LockInvInit
<1>2. CacheInv /\ LockInv /\ [Next]_vars => (CacheInv /\ LockInv)'
  BY CacheInvNext, LockInvNext
<1> QED
  BY <1>1, <1>2, PTL DEF Spec

(* Who claims a datum uses it. *)
LEMMA ClaimsAreUses ==
  ASSUME CacheInv, NEW k \in Core, NEW h \in Data, Claims(k, h)
  PROVE  h \in Uses(task[k])
<1>1. task[k] \in Seq(Access) /\ unlocked[k] \in Nat
  BY DEF CacheInv, TypeOK
<1>2. CASE h \in Taken(k)
  <2>1. h \in DOMAIN HandleModeMap(k, task[k])
    BY <1>2 DEF Taken
  <2> QED
    BY <1>1, <2>1, UsesOfTask
<1>3. CASE h \in ToUnlock(k)
  <2>1. PICK m \in (unlocked[k] + 1) .. Len(task[k]) : h = task[k][m].handle
    BY <1>3 DEF ToUnlock
  <2>2. m \in DOMAIN task[k]
    BY <1>1
  <2> QED
    BY <1>1, <2>1, <2>2, UsesOfTask
<1> QED
  BY <1>2, <1>3 DEF Claims

LEMMA LocksAreInUse == CacheInv /\ LockInv => LockedDataIsInUse
<1> SUFFICES ASSUME CacheInv, LockInv,
                    NEW n \in Node, NEW h \in ToSet(cache[n].lockedList), OfNodeZero(h)
             PROVE  LockedInUse(n, h)
  BY DEF LockedDataIsInUse
<1>1. h \in Data /\ h # MYHANDLE
  BY Names DEF OfNodeZero
<1>2. IsLocked(cache[n], h)
  BY LockedIsMember DEF CacheInv, TypeOK
<1>3. PICK k \in Claimants(n, h) : TRUE
  BY <1>1, <1>2 DEF LockInv, LocksAreClaimed
<1>4. k \in Core /\ CacheNum[k] = n /\ h \in Uses(task[k])
  BY <1>1, <1>3, ClaimsAreUses DEF Claimants
<1> QED
  BY <1>1, <1>4 DEF LockedInUse, LocalName

(* A datum allocated on node 0 that some cache keeps locked belongs to a    *)
(* task that a core of that cache runs: after the last task of the node     *)
(* with it, it can be evicted and erased again (comm_cache.hpp:258-262).    *)
THEOREM LocksAreOfRunningTasks == Spec => []LockedDataIsInUse
  BY LocksInvariant, LocksAreInUse, PTL
-----------------------------------------------------------------------------
(***************************************************************************)
(* What the order of the tasks excludes, and what a writer finds and       *)
(* leaves in the other caches.                                             *)
(***************************************************************************)
LEMMA LeastIndex ==
  ASSUME NEW T, T \subseteq Nat, T # {}
  PROVE  \E m \in T : \A j \in T : m <= j
<1> DEFINE R == {ss \in Nat \X Nat : ss[1] < ss[2]}
<1>1. IsWellFoundedOn(R, Nat)
  BY NatLessThanWellFounded DEF OpToRel
<1> HIDE DEF R
<1>2. PICK m \in T : \A j \in T : <<j, m>> \notin R
  BY <1>1, WFMin
<1>3. ASSUME NEW j \in T PROVE m <= j
  <2>1. j \in Nat /\ m \in Nat /\ ~(j < m)
    BY <1>2 DEF R
  <2> QED
    BY <2>1
<1> QED
  BY <1>3

(* The mode of a handle is the mode of one of its accesses. *)
LEMMA ModeIsOfAccess ==
  ASSUME NEW t \in Seq(Access), NEW k \in Core, NEW h \in Data, h \in Uses(t),
         Writes(HandleModeMap(k, t)[h])
  PROVE  h \in Changed(t)
<1> DEFINE isFirst(n) == t[n].handle = h /\ \A j \in 1 .. (n - 1) : t[j].handle # h
<1>1. h \in DOMAIN HandleModeMap(k, t) /\ h # ScratchOf(k)
  BY UsesOfTask, Names
<1>2. \E n \in DOMAIN t : isFirst(n)
  <2> DEFINE T == {n \in DOMAIN t : t[n].handle = h}
  <2>1. T \subseteq Nat /\ T # {}
    BY DEF Uses
  <2>2. PICK m \in T : \A j \in T : m <= j
    BY <2>1, LeastIndex
  <2>3. \A j \in 1 .. (m - 1) : j \in DOMAIN t /\ ~(m <= j)
    BY <2>1, <2>2
  <2> QED
    BY <2>2, <2>3
<1>3. HandleModeMap(k, t)[h] = t[CHOOSE n \in DOMAIN t : isFirst(n)].mode
  BY <1>1 DEF HandleModeMap
<1>4. PICK n \in DOMAIN t : t[n].handle = h /\ t[n].mode \in {"W", "RW"}
  BY <1>2, <1>3 DEF Writes
<1> QED
  BY <1>4 DEF Changed

LEMMA WritesAreChanges ==
  ASSUME CacheInv, NEW k \in Core, NEW h \in Data, h \in Written(k)
  PROVE  h \in Changed(task[k]) /\ h \in Uses(task[k])
<1>1. task[k] \in Seq(Access)
  BY DEF CacheInv, TypeOK
<1>2. h \in DOMAIN HandleModeMap(k, task[k]) /\ Writes(HandleModeMap(k, task[k])[h])
  BY DEF Written, Taken
<1> QED
  BY <1>1, <1>2, UsesOfTask, ModeIsOfAccess

LEMMA NoConflictMeans ==
  ASSUME CacheInv, NoConflict, Ordered, NEW k \in Core, NEW l \in Core, k # l,
         NEW h \in Data, h \in Written(k)
  PROVE  h \notin Uses(task[l])
  BY WritesAreChanges DEF NoConflict, Conflict

(* A step of core k that gives it a task without conflicts. *)
LEMMA NewTaskNoConflict ==
  ASSUME CacheInv, NoConflict, NEW k \in Core, NEW t, task' = [task EXCEPT ![k] = t],
         Ordered => \A l \in Core \ {k} : ~Conflict(t, task[l])
  PROVE  NoConflict'
<1> SUFFICES ASSUME Ordered, NEW a \in Core, NEW b \in Core, a # b
             PROVE  ~Conflict(task'[a], task'[b])
  BY DEF NoConflict, Conflict, Uses, Changed
<1>1. task'[k] = t /\ \A l \in Core \ {k} : task'[l] = task[l]
  BY DEF CacheInv, TypeOK
<1>2. \A x, y : Conflict(x, y) <=> Conflict(y, x)
  BY DEF Conflict
<1>3. \A x \in Core : \A y \in Core : x # y => ~Conflict(task[x], task[y])
  BY DEF NoConflict
<1>4. CASE a = k
  BY <1>1, <1>4
<1>5. CASE b = k
  BY <1>1, <1>2, <1>5
<1>6. CASE a # k /\ b # k
  BY <1>1, <1>3, <1>6
<1> QED
  BY <1>4, <1>5, <1>6

LEMMA NoConflictNext == CacheInv /\ NoConflict /\ [Next]_vars => NoConflict'
<1> SUFFICES ASSUME CacheInv, NoConflict, [Next]_vars PROVE NoConflict'
  OBVIOUS
<1>1. CASE UNCHANGED task
  BY <1>1 DEF NoConflict
<1>2. ASSUME NEW k \in Core, Leave(k) PROVE NoConflict'
  <2>1. task' = [task EXCEPT ![k] = Idle]
    BY <1>2 DEF Leave
  <2>2. \A t : ~Conflict(Idle, t)
    BY DEF Conflict, Uses, Changed, Idle
  <2> QED
    BY <2>1, <2>2, NewTaskNoConflict
<1>3. ASSUME NEW k \in Core, NEW h \in Data, Allocate(k, h) PROVE NoConflict'
  <2> DEFINE t == <<[handle |-> h, mode |-> "A"]>>
  <2>1. task' = [task EXCEPT ![k] = t] /\ handlesLocationMap[h] = NoNode
    BY <1>3 DEF Allocate
  <2>2. Uses(t) = {h} /\ Changed(t) = {h}
    BY DEF Uses, Changed
  <2> HIDE DEF t
  <2>3. ASSUME NEW l \in Core PROVE ~Conflict(t, task[l])
    <3>1. h \notin Uses(task[l]) /\ Changed(task[l]) \subseteq Uses(task[l])
      BY <2>1 DEF CacheInv, Located, Uses, Changed
    <3> QED
      BY <2>2, <3>1 DEF Conflict
  <2> QED
    BY <2>1, <2>3, NewTaskNoConflict
<1>4. ASSUME NEW k \in Core, NEW t \in Kernels, StartTask(k, t) PROVE NoConflict'
  <2>1. task' = [task EXCEPT ![k] = t] /\ MayStart(t)
    BY <1>4 DEF StartTask
  <2> QED
    BY <2>1, NewTaskNoConflict DEF MayStart
<1>5. ASSUME NEW k \in Core, PlaceNext(k) \/ StartReads(k) PROVE NoConflict'
  BY <1>1, <1>5 DEF PlaceNext, StartReads
<1>6. ASSUME NEW k \in Core, FinishTask(k) \/ UnlockNext(k) PROVE NoConflict'
  BY <1>1, <1>2, <1>6 DEF FinishTask, UnlockNext
<1>7. UNCHANGED vars => UNCHANGED task
  BY DEF vars
<1> QED
  BY <1>1, <1>3, <1>4, <1>5, <1>6, <1>7 DEF Next

LEMMA OthersWritten ==
  ASSUME NEW k \in Core, OnlyCore(k), NEW l \in Core \ {k}
  PROVE  Written(l)' = Written(l)
<1>1. pc'[l] = pc[l] /\ task'[l] = task[l] /\ toPlace'[l] = toPlace[l]
  BY DEF OnlyCore
<1>2. Taken(l)' = Taken(l)
  BY <1>1 DEF Taken
<1> QED
  BY <1>1, <1>2 DEF Written

(* Steps that bring no written handle into a cache. *)
LEMMA NoNewCopy ==
  ASSUME WrittenHasOneCopy,
         \A l \in Core : \A h \in Data : h \in Written(l)' /\ OfNodeZero(h)' =>
           /\ h \in Written(l) /\ OfNodeZero(h)
           /\ \A n \in Node : InCache(cache'[n], h) => InCache(cache[n], h)
  PROVE  WrittenHasOneCopy'
<1> SUFFICES ASSUME NEW l \in Core, NEW h \in Written(l)', OfNodeZero(h)',
                    NEW n \in Node \ {CacheNum[l]}
             PROVE  ~InCache(cache'[n], h)
  BY DEF WrittenHasOneCopy, NoOtherCopy
<1>1. h \in Data
  BY DEF OfNodeZero
<1> QED
  BY <1>1 DEF WrittenHasOneCopy, NoOtherCopy

(* The task of core k has taken nothing after the step, or no more. *)
LEMMA TakesNoMore ==
  ASSUME CacheInv, WrittenHasOneCopy, NEW k \in Core, OnlyCore(k),
         Taken(k)' = {} \/ (Taken(k)' = Taken(k) /\ task' = task),
         \A h \in Data : handlesLocationMap'[h] = handlesLocationMap[h],
         \A n \in Node : cache'[n].cacheHashMap = cache[n].cacheHashMap
  PROVE  WrittenHasOneCopy'
<1>1. Written(k)' \subseteq Written(k)
  <2>1. CASE Taken(k)' = {}
    BY <2>1 DEF Written
  <2>2. CASE Taken(k)' = Taken(k) /\ task' = task
    BY <2>2 DEF Written
  <2> QED
    BY <2>1, <2>2
<1>2. \A l \in Core : Written(l)' \subseteq Written(l)
  BY <1>1, OthersWritten
<1>3. \A h \in Data : OfNodeZero(h)' => OfNodeZero(h)
  BY DEF OfNodeZero
<1> QED
  BY <1>2, <1>3, NoNewCopy DEF InCache

LEMMA AllocateKeepsOneCopy ==
  ASSUME CacheInv, LockInv, WrittenHasOneCopy, NEW k \in Core, NEW x \in Data, Allocate(k, x)
  PROVE  WrittenHasOneCopy'
<1> DEFINE node == CacheNum[k]
           t == <<[handle |-> x, mode |-> "A"]>>
           C == [cache EXCEPT ![0] = AppendToCache(@, x)]
<1>1. /\ pc[k] = "idle" /\ handlesLocationMap[x] = NoNode
      /\ handlesLocationMap' = [handlesLocationMap EXCEPT ![x] = node]
      /\ cache' = [C EXCEPT ![node] = UnlockData(@, x)]
      /\ task' = [task EXCEPT ![k] = t] /\ pc' = [pc EXCEPT ![k] = "fetch"]
      /\ UNCHANGED <<toPlace, unlocked>>
  BY DEF Allocate
<1>2. x \in Handle /\ node \in Node /\ 0 \in Node /\ Data \subseteq Handle
  BY Names
<1>3. OnlyCore(k)
  BY <1>1 DEF OnlyCore, CacheInv, TypeOK
<1>4. Written(k)' = {}
  <2>1. task'[k] = t /\ t[1].mode = "A"
    BY <1>1 DEF CacheInv, TypeOK
  <2> QED
    BY <2>1 DEF Written, Taken
<1> HIDE DEF node, t, C
<1>5. /\ C \in [Node -> Cache] /\ \A n \in Node : Sound(C[n])
      /\ \A n \in Node : C[n].cacheHashMap \subseteq cache[n].cacheHashMap \cup {x}
  <2>1. \A n \in Node : Sound(cache[n])
    BY SoundCaches DEF CacheInv, TypeOK, AllSound
  <2>2. Sound(AppendToCache(cache[0], x))
        /\ AppendToCache(cache[0], x).cacheHashMap \subseteq cache[0].cacheHashMap \cup {x}
    BY <1>2, <2>1, AppendKeepsSound, AppendEffect
  <2>3. /\ C[0] = AppendToCache(cache[0], x) /\ \A n \in Node \ {0} : C[n] = cache[n]
        /\ C = [n \in Node |-> C[n]]
    BY <1>2 DEF C, CacheInv, TypeOK
  <2> QED
    BY <2>1, <2>2, <2>3 DEF Sound
<1>6. \A n \in Node : cache'[n].cacheHashMap \subseteq cache[n].cacheHashMap \cup {x}
  <2>1. UnlockData(C[node], x).cacheHashMap = C[node].cacheHashMap
    BY <1>2, <1>5, UnlockEffect
  <2> QED
    BY <1>1, <1>2, <1>5, <2>1
<1>7. ASSUME NEW l \in Core, NEW h \in Data, h \in Written(l)', OfNodeZero(h)'
      PROVE  /\ h \in Written(l) /\ OfNodeZero(h)
             /\ \A n \in Node : InCache(cache'[n], h) => InCache(cache[n], h)
  <2>1. l # k /\ h \in Written(l)
    BY <1>3, <1>4, <1>7, OthersWritten
  <2>2. h # x
    BY <1>1, <2>1, WritesAreChanges DEF CacheInv, Located
  <2> QED
    BY <1>1, <1>2, <1>6, <1>7, <2>1, <2>2 DEF OfNodeZero, InCache, CacheInv, TypeOK
<1> QED
  BY <1>7, NoNewCopy

LEMMA StartTaskKeepsOneCopy ==
  ASSUME CacheInv, WrittenHasOneCopy, NEW k \in Core, NEW t \in Kernels, StartTask(k, t)
  PROVE  WrittenHasOneCopy'
<1>1. /\ UNCHANGED <<cache, unlocked>>
      /\ task' = [task EXCEPT ![k] = t] /\ toPlace' = [toPlace EXCEPT ![k] = DOMAIN HandleModeMap(k, t)]
      /\ pc' = [pc EXCEPT ![k] = IF t = <<>> THEN "placed" ELSE "place"]
  BY DEF StartTask
<1>2. OnlyCore(k) /\ task'[k] = t /\ toPlace'[k] = DOMAIN HandleModeMap(k, t)
  BY <1>1 DEF OnlyCore, CacheInv, TypeOK
<1>3. Taken(k)' = {}
  BY <1>2 DEF Taken
<1>4. \A h \in Data : handlesLocationMap'[h] = handlesLocationMap[h]
  <2>1. \/ UNCHANGED handlesLocationMap
        \/ handlesLocationMap' = [handlesLocationMap EXCEPT ![ScratchOf(k)] = CacheNum[k]]
    BY DEF StartTask
  <2> QED
    BY <2>1, Names DEF CacheInv, TypeOK
<1> QED
  BY <1>1, <1>2, <1>3, <1>4, TakesNoMore

LEMMA StartReadsKeepsOneCopy ==
  ASSUME CacheInv, WrittenHasOneCopy, NEW k \in Core, StartReads(k)
  PROVE  WrittenHasOneCopy'
<1>1. /\ pc[k] = "placed" /\ pc' = [pc EXCEPT ![k] = "fetch"]
      /\ UNCHANGED <<cache, handlesLocationMap, task, toPlace, unlocked>>
  BY DEF StartReads
<1>2. OnlyCore(k) /\ pc'[k] = "fetch"
  BY <1>1 DEF OnlyCore, CacheInv, TypeOK
<1>3. Taken(k)' = Taken(k)
  BY <1>1, <1>2 DEF Taken
<1> QED
  BY <1>1, <1>2, <1>3, TakesNoMore

LEMMA FinishTaskKeepsOneCopy ==
  ASSUME CacheInv, WrittenHasOneCopy, NEW k \in Core, FinishTask(k)
  PROVE  WrittenHasOneCopy'
<1>1. /\ UNCHANGED <<cache, handlesLocationMap, toPlace>>
      /\ IF task[k] = <<>> THEN Leave(k)
         ELSE pc' = [pc EXCEPT ![k] = "unlock"] /\ UNCHANGED <<task, unlocked>>
  BY DEF FinishTask
<1>2. OnlyCore(k) /\ pc'[k] \in {"idle", "unlock"}
  BY <1>1 DEF OnlyCore, Leave, CacheInv, TypeOK
<1>3. Taken(k)' = {}
  BY <1>2 DEF Taken
<1> QED
  BY <1>1, <1>2, <1>3, TakesNoMore

LEMMA UnlockNextKeepsOneCopy ==
  ASSUME CacheInv, WrittenHasOneCopy, NEW k \in Core, UnlockNext(k)
  PROVE  WrittenHasOneCopy'
<1> DEFINE node == CacheNum[k]
           x == task[k][unlocked[k] + 1].handle
<1>1. /\ pc[k] = "unlock" /\ cache' = [cache EXCEPT ![node] = UnlockData(@, x)]
      /\ UNCHANGED <<handlesLocationMap, toPlace>>
      /\ IF LastUnlocked(k) THEN Leave(k)
         ELSE unlocked' = [unlocked EXCEPT ![k] = @ + 1] /\ UNCHANGED <<pc, task>>
  BY DEF UnlockNext
<1> HIDE DEF node, x
<1>2. OnlyCore(k) /\ pc'[k] \in {"idle", "unlock"}
  BY <1>1 DEF OnlyCore, Leave, CacheInv, TypeOK
<1>3. Taken(k)' = {}
  BY <1>2 DEF Taken
<1>4. \A n \in Node : cache'[n].cacheHashMap = cache[n].cacheHashMap
  <2>1. \A n \in Node : Sound(cache[n])
    BY SoundCaches DEF CacheInv, TypeOK, AllSound
  <2>2. node \in Node => UnlockData(cache[node], x).cacheHashMap = cache[node].cacheHashMap
    BY <2>1, UnlockEffect, UnlockOther
  <2> QED
    BY <1>1, <2>2 DEF CacheInv, TypeOK
<1> QED
  BY <1>1, <1>2, <1>3, <1>4, TakesNoMore

LEMMA PlaceNextKeepsOneCopy ==
  ASSUME CacheInv, LockInv, NoConflict, WrittenHasOneCopy, Ordered, NEW k \in Core, PlaceNext(k)
  PROVE  WrittenHasOneCopy'
<1> DEFINE node == CacheNum[k]
           mode(h) == HandleModeMap(k, task[k])[h]
<1>1. PICK x \in toPlace[k] :
        /\ cache' = Place(node, x, mode(x))
        /\ toPlace' = [toPlace EXCEPT ![k] = @ \ {x}]
        /\ pc' = [pc EXCEPT ![k] = IF toPlace[k] = {x} THEN "placed" ELSE "place"]
  BY DEF PlaceNext
<1>2. pc[k] = "place" /\ UNCHANGED <<handlesLocationMap, task, unlocked>>
  BY DEF PlaceNext
<1>3. /\ x \in Handle /\ node \in Node /\ Data \subseteq Handle
      /\ \A n \in Node : Sound(cache[n])
  BY Names, SoundCaches DEF CacheInv, TypeOK, AllSound
<1>4. task[k] \in Seq(Access) /\ (x \in Data => x \in Uses(task[k]))
  BY <1>2, UsesOfTask DEF CacheInv, TypeOK, PhasesAgree
<1>5. OnlyCore(k) /\ toPlace'[k] = toPlace[k] \ {x} /\ pc'[k] \in {"place", "placed"}
  BY <1>1, <1>2 DEF OnlyCore, CacheInv, TypeOK
<1>6. /\ cache'[node] = AppendToCache(cache[node], x)
      /\ \A n \in Node \ {node} :
           cache'[n] = IF Writes(mode(x)) THEN EraseFromCache(cache[n], x) ELSE cache[n]
  BY <1>1, <1>3 DEF Place
<1>7. \A n \in Node : cache'[n].cacheHashMap \subseteq cache[n].cacheHashMap \cup {x}
  BY <1>3, <1>6, AppendEffect, EraseEffect
<1> SUFFICES ASSUME NEW l \in Core, NEW h \in Written(l)', OfNodeZero(h)',
                    NEW n \in Node \ {CacheNum[l]}
             PROVE  ~InCache(cache'[n], h)
  BY DEF WrittenHasOneCopy, NoOtherCopy
<1>8. h \in Data /\ OfNodeZero(h)
  BY <1>2 DEF OfNodeZero
<1>9. CASE h # x
  <2>1. h \in Written(l)
    <3>1. CASE l = k
      BY <1>2, <1>5, <1>9, <3>1 DEF Written, Taken
    <3>2. CASE l # k
      BY <1>5, <3>2, OthersWritten
    <3> QED
      BY <3>1, <3>2
  <2>2. ~InCache(cache[n], h)
    BY <1>8, <2>1 DEF WrittenHasOneCopy, NoOtherCopy
  <2> QED
    BY <1>7, <1>9, <2>2 DEF InCache
<1>10. CASE h = x
  <2>1. l = k
    BY <1>4, <1>5, <1>8, <1>10, OthersWritten, NoConflictMeans
  <2>2. Writes(mode(x)) /\ n # node
    BY <1>2, <1>10, <2>1 DEF Written
  <2>3. x \in Changed(task[k])
    BY <1>4, <1>8, <1>10, <2>2, ModeIsOfAccess
  <2>4. ~IsLocked(cache[n], x)
    <3> SUFFICES ASSUME IsLocked(cache[n], x) PROVE FALSE
      OBVIOUS
    <3>1. PICK j \in Claimants(n, x) : TRUE
      BY <1>8, <1>10 DEF LockInv, LocksAreClaimed
    <3>2. j \in Core /\ j # k /\ x \in Uses(task[j])
      BY <1>8, <1>10, <2>2, <3>1, ClaimsAreUses DEF Claimants
    <3> QED
      BY <2>3, <3>2 DEF NoConflict, Conflict
  <2> QED
    BY <1>3, <1>6, <1>10, <2>2, <2>4, EraseEffect
<1> QED
  BY <1>9, <1>10

LEMMA CommIInvNext == CommIInv /\ [Next]_vars => CommIInv'
<1> SUFFICES ASSUME CommIInv, [Next]_vars PROVE CommIInv'
  OBVIOUS
<1>1. CacheInv' /\ LockInv' /\ NoConflict'
  BY CacheInvNext, LockInvNext, NoConflictNext DEF CommIInv
<1>2. ASSUME Ordered PROVE WrittenHasOneCopy'
  <2> USE <1>2 DEF CommIInv
  <2>1. CASE UNCHANGED vars
    <3>1. \A k : Taken(k)' = Taken(k)
      BY <2>1 DEF vars, Taken
    <3>2. \A k : Written(k)' = Written(k)
      BY <2>1, <3>1 DEF vars, Written
    <3> QED
      BY <2>1, <3>2, NoNewCopy DEF vars, OfNodeZero
  <2>2. ASSUME NEW k \in Core, NEW h \in Data, Allocate(k, h) PROVE WrittenHasOneCopy'
    BY <2>2, AllocateKeepsOneCopy
  <2>3. ASSUME NEW k \in Core, NEW t \in Kernels, StartTask(k, t) PROVE WrittenHasOneCopy'
    BY <2>3, StartTaskKeepsOneCopy
  <2>4. ASSUME NEW k \in Core, PlaceNext(k) PROVE WrittenHasOneCopy'
    BY <2>4, PlaceNextKeepsOneCopy
  <2>5. ASSUME NEW k \in Core, StartReads(k) PROVE WrittenHasOneCopy'
    BY <2>5, StartReadsKeepsOneCopy
  <2>6. ASSUME NEW k \in Core, FinishTask(k) PROVE WrittenHasOneCopy'
    BY <2>6, FinishTaskKeepsOneCopy
  <2>7. ASSUME NEW k \in Core, UnlockNext(k) PROVE WrittenHasOneCopy'
    BY <2>7, UnlockNextKeepsOneCopy
  <2> QED
    BY <2>1, <2>2, <2>3, <2>4, <2>5, <2>6, <2>7 DEF Next
<1> QED
  BY <1>1, <1>2 DEF CommIInv

LEMMA CommIInvInit == Init => CommIInv
<1> SUFFICES ASSUME Init PROVE CommIInv
  OBVIOUS
<1>1. NoConflict
  BY DEF Init, NoConflict, Conflict, Uses, Changed, Idle
<1>2. WrittenHasOneCopy
  BY DEF Init, WrittenHasOneCopy, Written, Taken
<1> QED
  BY <1>1, <1>2, CacheInvInit, LockInvInit DEF CommIInv

(* When the trace orders conflicting tasks, no other cache holds a copy of  *)
(* a datum of node 0 that a running task writes: what the writer erased was *)
(* not locked, since only tasks that use the datum lock it                  *)
(* (comm_cache.hpp:164-174).                                                *)
THEOREM WritersHaveTheOnlyCopy == Spec => [](Ordered => WrittenHasOneCopy)
<1>1. CommIInv => (Ordered => WrittenHasOneCopy)
  BY DEF CommIInv
<1> QED
  BY <1>1, CommIInvInit, CommIInvNext, PTL DEF Spec
-----------------------------------------------------------------------------
(* Only a placement adds to what a task has written. *)
LEMMA OthersWriteNoMore ==
  ASSUME CacheInv, NEW k \in Core,
         \/ \E x \in Data : Allocate(k, x)
         \/ \E t \in Kernels : StartTask(k, t)
         \/ StartReads(k) \/ FinishTask(k) \/ UnlockNext(k),
         NEW l \in Core
  PROVE  Written(l)' \subseteq Written(l)
<1> DEFINE NoMore == OnlyCore(k) /\ (Taken(k)' = {} \/ (Taken(k)' = Taken(k) /\ task' = task))
<1>1. NoMore
  <2>1. ASSUME NEW x \in Data, Allocate(k, x) PROVE NoMore
    <3>1. /\ UNCHANGED <<toPlace, unlocked>> /\ pc' = [pc EXCEPT ![k] = "fetch"]
          /\ task' = [task EXCEPT ![k] = <<[handle |-> x, mode |-> "A"]>>]
      BY <2>1 DEF Allocate
    <3>2. OnlyCore(k) /\ task'[k][1].mode = "A"
      BY <3>1 DEF OnlyCore, CacheInv, TypeOK
    <3> QED
      BY <3>2 DEF Taken
  <2>2. ASSUME NEW t \in Kernels, StartTask(k, t) PROVE NoMore
    <3>1. /\ UNCHANGED unlocked /\ task' = [task EXCEPT ![k] = t]
          /\ toPlace' = [toPlace EXCEPT ![k] = DOMAIN HandleModeMap(k, t)]
          /\ pc' = [pc EXCEPT ![k] = IF t = <<>> THEN "placed" ELSE "place"]
      BY <2>2 DEF StartTask
    <3>2. OnlyCore(k) /\ task'[k] = t /\ toPlace'[k] = DOMAIN HandleModeMap(k, t)
      BY <3>1 DEF OnlyCore, CacheInv, TypeOK
    <3> QED
      BY <3>2 DEF Taken
  <2>3. CASE StartReads(k)
    <3>1. /\ pc[k] = "placed" /\ pc' = [pc EXCEPT ![k] = "fetch"]
          /\ UNCHANGED <<task, toPlace, unlocked>>
      BY <2>3 DEF StartReads
    <3> QED
      BY <3>1 DEF Taken, OnlyCore, CacheInv, TypeOK
  <2>4. CASE FinishTask(k) \/ UnlockNext(k)
    <3>1. /\ UNCHANGED toPlace
          /\ \/ Leave(k)
             \/ pc' = [pc EXCEPT ![k] = "unlock"] /\ UNCHANGED <<task, unlocked>>
             \/ /\ unlocked' = [unlocked EXCEPT ![k] = @ + 1]
                /\ pc[k] = "unlock" /\ UNCHANGED <<pc, task>>
      BY <2>4 DEF FinishTask, UnlockNext
    <3>2. OnlyCore(k) /\ pc'[k] \in {"idle", "unlock"}
      BY <3>1 DEF Leave, OnlyCore, CacheInv, TypeOK
    <3> QED
      BY <3>2 DEF Taken
  <2> QED
    BY <2>1, <2>2, <2>3, <2>4
<1>2. Written(k)' \subseteq Written(k)
  BY <1>1 DEF Written
<1> QED
  BY <1>1, <1>2, OthersWritten

(* What a writer places is erased from every cache that has not locked it. *)
LEMMA PlacedIsErasedElsewhere ==
  ASSUME CacheInv, LockInv, NEW k \in Core, PlaceNext(k), NEW l \in Core,
         NEW h \in Written(l)' \ Written(l), OfNodeZero(h),
         NEW n \in Node \ {CacheNum[l]}, InCache(cache'[n], h)
  PROVE  LockedInUse(n, h)'
<1> DEFINE node == CacheNum[k]
           mode(x) == HandleModeMap(k, task[k])[x]
<1>1. PICK x \in toPlace[k] :
        /\ cache' = Place(node, x, mode(x))
        /\ toPlace' = [toPlace EXCEPT ![k] = @ \ {x}]
        /\ pc' = [pc EXCEPT ![k] = IF toPlace[k] = {x} THEN "placed" ELSE "place"]
  BY DEF PlaceNext
<1>2. pc[k] = "place" /\ UNCHANGED <<task, unlocked>>
  BY DEF PlaceNext
<1>3. OnlyCore(k) /\ toPlace'[k] = toPlace[k] \ {x}
  BY <1>1, <1>2 DEF OnlyCore, CacheInv, TypeOK
<1>4. l = k /\ h = x /\ Writes(mode(x))
  <2>1. l = k
    BY <1>3, OthersWritten
  <2> QED
    BY <1>2, <1>3, <2>1 DEF Written, Taken
<1>5. x \in Handle /\ Sound(cache[n])
  BY SoundCaches DEF CacheInv, TypeOK, AllSound
<1>6. cache'[n] = EraseFromCache(cache[n], x)
  BY <1>1, <1>4 DEF Place
<1>7. IsLocked(cache[n], h)
  BY <1>4, <1>5, <1>6, EraseEffect
<1>8. h \in ToSet(cache[n].lockedList)
  BY <1>5, <1>7, LockedIsMember DEF Sound
<1>9. LockedInUse(n, h)
  BY <1>8, LocksAreInUse DEF LockedDataIsInUse
<1> QED
  BY <1>2, <1>9 DEF LockedInUse

(* Whatever tasks share a datum of node 0, ordered or not: a writer that    *)
(* places it leaves a copy in another cache only where a running task uses  *)
(* the datum (comm_cache.hpp:164-174).                                      *)
THEOREM WritersEraseUnusedCopies == Spec => WriterLeavesOnlyUsedCopies
<1> DEFINE A == \A k \in Core : \A h \in Written(k)' \ Written(k) : OfNodeZero(h) =>
                  \A n \in Node \ {CacheNum[k]} :
                    InCache(cache'[n], h) => LockedInUse(n, h)'
<1>1. CacheInv /\ LockInv /\ [Next]_vars => [A]_vars
  <2> SUFFICES ASSUME CacheInv, LockInv, Next PROVE A
    OBVIOUS
  <2>1. ASSUME NEW k \in Core, PlaceNext(k) PROVE A
    BY <2>1, PlacedIsErasedElsewhere
  <2>2. CASE \A k \in Core : ~PlaceNext(k)
    <3>1. \A l \in Core : Written(l)' \subseteq Written(l)
      BY <2>2, OthersWriteNoMore DEF Next
    <3> QED
      BY <3>1
  <2> QED
    BY <2>1, <2>2
<1> QED
  BY <1>1, LocksInvariant, PTL DEF Spec, WriterLeavesOnlyUsedCopies
=============================================================================

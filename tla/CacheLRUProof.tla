--------------------------- MODULE CacheLRUProof ----------------------------
(***************************************************************************)
(* The theorems about one cache under any sequence of calls.               *)
(***************************************************************************)
EXTENDS CacheLRUSpec, CacheLRULemmas

(* The inductive invariant of one cache. *)
LEMMA CacheIsSound == Spec => []Sound(cache)
<1>1. Init => Sound(cache)
  BY EmptyIsSound DEF Init
<1>2. Sound(cache) /\ [Next]_vars => Sound(cache)'
  <2> SUFFICES ASSUME Sound(cache), [Next]_vars PROVE Sound(cache')
    BY DEF Sound, CacheOK, ListsAgree, IndexExact, WithinCapacity, FlagsExact, VictimExists,
           HasRoom, IsLocked
  <2>1. ASSUME NEW x \in Handle, AppendTo(x) PROVE Sound(cache')
    BY <2>1, AppendKeepsSound DEF AppendTo
  <2>2. ASSUME NEW x \in Handle, Unlock(x) PROVE Sound(cache')
    BY <2>2, UnlockKeepsSound DEF Unlock
  <2>3. ASSUME NEW x \in Handle, Erase(x) PROVE Sound(cache')
    BY <2>3, EraseKeepsSound DEF Erase
  <2>4. CASE UNCHANGED vars
    BY <2>4 DEF vars
  <2> QED
    BY <2>1, <2>2, <2>3, <2>4 DEF Next
<1> QED
  BY <1>1, <1>2, PTL DEF Spec

(* The lists, the index and the flags of a cache agree after any calls, it  *)
(* holds at most cacheSize handles, and back() never meets an empty list.   *)
THEOREM CacheStaysConsistent == Spec => []Consistent
<1>1. Sound(cache) => Consistent
  BY DEF Sound, Consistent
<1> QED
  BY <1>1, CacheIsSound, PTL

-----------------------------------------------------------------------------
(* What a call of appendToCache() does to the unlocked data and the index. *)
LEMMA AppendEffect ==
  ASSUME NEW c, NEW x \in Handle, Sound(c)
  PROVE  LET d == AppendToCache(c, x)
         IN  \/ /\ d.unlockedList = c.unlockedList
                /\ c.cacheHashMap \subseteq d.cacheHashMap
             \/ /\ c.unlockedList # <<>>
                /\ d.unlockedList = Front(c.unlockedList)
                /\ c.cacheHashMap \ {Last(c.unlockedList)} \subseteq d.cacheHashMap
             \/ /\ x \in ToSet(c.unlockedList)
                /\ d.unlockedList = RemoveFirst(c.unlockedList, x)
                /\ c.cacheHashMap \subseteq d.cacheHashMap
<1> DEFINE d == AppendToCache(c, x)
<1>1. c \in Cache /\ VictimExists(c)
  BY DEF Sound, CacheOK
<1>2. CASE ~HasRoom(c)
  BY <1>2 DEF AppendToCache
<1>3. CASE HasRoom(c) /\ ~InCache(c, x)
  <2>1. d = PushLocked(MakeRoom(c), x)
    BY <1>3 DEF AppendToCache
  <2>2. CASE Len(c.handlesList) = cacheSize
    <3>1. d = PushLocked(Evict(c), x) /\ c.unlockedList # <<>>
      BY <1>1, <1>3, <2>1, <2>2 DEF MakeRoom, VictimExists
    <3>2. /\ Evict(c).unlockedList = Front(c.unlockedList)
          /\ Evict(c).cacheHashMap = c.cacheHashMap \ {Last(c.unlockedList)}
          /\ PushLocked(Evict(c), x).unlockedList = Evict(c).unlockedList
          /\ PushLocked(Evict(c), x).cacheHashMap = Evict(c).cacheHashMap \cup {x}
      BY <1>1 DEF Evict, PushLocked, Cache
    <3> QED
      BY <3>1, <3>2
  <2>3. CASE Len(c.handlesList) # cacheSize
    <3>1. d = PushLocked(c, x)
      BY <2>1, <2>3 DEF MakeRoom
    <3> QED
      BY <1>1, <3>1 DEF PushLocked, Cache
  <2> QED
    BY <2>2, <2>3
<1>4. CASE HasRoom(c) /\ InCache(c, x) /\ ~IsLocked(c, x)
  <2>1. d = PushLocked(Reclaim(c, x), x)
    BY <1>4 DEF AppendToCache
  <2>2. /\ Reclaim(c, x).unlockedList = RemoveFirst(c.unlockedList, x)
        /\ Reclaim(c, x).cacheHashMap = c.cacheHashMap
        /\ PushLocked(Reclaim(c, x), x).unlockedList = Reclaim(c, x).unlockedList
        /\ PushLocked(Reclaim(c, x), x).cacheHashMap = Reclaim(c, x).cacheHashMap \cup {x}
    BY <1>1 DEF Reclaim, PushLocked, Cache
  <2>3. x \in ToSet(c.unlockedList)
    BY <1>1, <1>4, LockedIsMember
       DEF Sound, CacheOK, ListsAgree, IndexExact, InCache
  <2> QED
    BY <2>1, <2>2, <2>3
<1>5. CASE HasRoom(c) /\ InCache(c, x) /\ IsLocked(c, x)
  <2>1. d = IF CACHELOCK THEN LockAgain(c, x) ELSE c
    BY <1>5 DEF AppendToCache
  <2> QED
    BY <1>1, <2>1 DEF LockAgain, Cache
<1> QED
  BY <1>2, <1>3, <1>4, <1>5

(* unlockData() releases x, or leaves the lists alone. *)
LEMMA UnlockEffect ==
  ASSUME NEW c, NEW x \in Handle, Sound(c)
  PROVE  LET d == UnlockData(c, x)
         IN  /\ d.cacheHashMap = c.cacheHashMap
             /\ \/ /\ d.unlockedList = c.unlockedList
                   /\ IsLocked(d, x) <=> IsLocked(c, x)
                \/ /\ IsLocked(c, x) /\ ~IsLocked(d, x)
                   /\ x \notin ToSet(c.unlockedList)
                   /\ d.unlockedList = Cons(x, c.unlockedList)
<1> DEFINE d == UnlockData(c, x)
           low == LowerFlag(c, x)
<1>1. c \in Cache /\ ListsAgree(c)
  BY DEF Sound, CacheOK
<1>2. CASE ~IsLocked(c, x)
  BY <1>2 DEF UnlockData
<1>3. CASE IsLocked(c, x)
  <2>1. /\ x \in ToSet(c.lockedList) /\ x \notin ToSet(c.unlockedList)
        /\ c.lockedList \in Seq(Handle) /\ IsInjective(c.lockedList)
    BY <1>1, <1>3, LockedIsMember, ListLengths DEF ListsAgree
  <2>2. /\ RemoveFirst(c.lockedList, x) \in Seq(Handle)
        /\ x \notin ToSet(RemoveFirst(c.lockedList, x))
    BY <2>1, RemoveDistinct DEF Distinct
  <2>3. ~Contains(RemoveFirst(c.lockedList, x), x)
    BY <2>2, ContainsIsMember
  <2>4. /\ low.lockedList = c.lockedList /\ low.unlockedList = c.unlockedList
        /\ low.cacheHashMap = c.cacheHashMap
    BY <1>1 DEF LowerFlag, Cache
  <2>5. d \in {Release(c, x), Release(low, x), low}
    BY <1>3 DEF UnlockData
  <2>6. ASSUME NEW b \in {c, low}
        PROVE  /\ Release(b, x).lockedList = RemoveFirst(c.lockedList, x)
               /\ Release(b, x).unlockedList = Cons(x, c.unlockedList)
               /\ Release(b, x).cacheHashMap = c.cacheHashMap
    BY <1>1, <2>4 DEF Release, LowerFlag, Cache
  <2> HIDE DEF d, low
  <2>7. CASE d = low
    BY <2>4, <2>7 DEF IsLocked, d
  <2>8. CASE d \in {Release(c, x), Release(low, x)}
    BY <1>3, <2>1, <2>3, <2>6, <2>8 DEF IsLocked, d
  <2> QED
    BY <2>5, <2>7, <2>8
<1> QED
  BY <1>2, <1>3

(* eraseFromCache() drops x if it is unlocked, and nothing else. *)
LEMMA EraseEffect ==
  ASSUME NEW c, NEW x \in Handle, Sound(c)
  PROVE  LET d == EraseFromCache(c, x)
         IN  \/ d = c
             \/ /\ ~IsLocked(c, x) /\ x \in ToSet(c.unlockedList)
                /\ d.cacheHashMap = c.cacheHashMap \ {x}
                /\ d.unlockedList = RemoveFirst(c.unlockedList, x)
<1>1. c \in Cache /\ ListsAgree(c) /\ IndexExact(c)
  BY DEF Sound, CacheOK
<1>2. CASE EraseSucceeds(c, x)
  <2>1. ~IsLocked(c, x) /\ x \in ToSet(c.unlockedList)
    BY <1>1, <1>2, LockedIsMember DEF EraseSucceeds, InCache, ListsAgree, IndexExact
  <2> QED
    BY <1>1, <1>2, <2>1 DEF EraseFromCache, Cache
<1> QED
  BY <1>2 DEF EraseFromCache
-----------------------------------------------------------------------------
LEMMA KeepsOrderTransitive ==
  ASSUME NEW r, NEW s, NEW t, KeepsOrder(t, s), KeepsOrder(s, r)
  PROVE  KeepsOrder(t, r)
  BY DEF KeepsOrder

(* A list and one whose order it keeps, with the same element put first. *)
LEMMA ConsKeepsOrder ==
  ASSUME NEW S, NEW s \in Seq(S), NEW t \in Seq(S), NEW x \in S,
         KeepsOrder(t, s), ToSet(t) \subseteq ToSet(s)
  PROVE  KeepsOrder(Cons(x, t), Cons(x, s))
<1> DEFINE ct == Cons(x, t)
           cs == Cons(x, s)
<1>1. /\ ct \in Seq(S) /\ Len(ct) = Len(t) + 1
      /\ \A i \in 1 .. Len(ct) : ct[i] = IF i = 1 THEN x ELSE t[i - 1]
  BY DEF Cons
<1>2. /\ cs \in Seq(S) /\ Len(cs) = Len(s) + 1
      /\ \A i \in 1 .. Len(cs) : cs[i] = IF i = 1 THEN x ELSE s[i - 1]
  BY DEF Cons
<1> HIDE DEF ct, cs
<1>3. ASSUME NEW a \in DOMAIN s PROVE a + 1 \in DOMAIN cs /\ cs[a + 1] = s[a]
  BY <1>2
<1> SUFFICES ASSUME NEW i \in 1 .. Len(ct), NEW j \in 1 .. Len(ct), i < j
             PROVE  \E a, b \in DOMAIN cs : a < b /\ ct[i] = cs[a] /\ ct[j] = cs[b]
  BY <1>1 DEF KeepsOrder, ct, cs
<1>4. j - 1 \in DOMAIN t /\ ct[j] = t[j - 1]
  BY <1>1
<1>5. CASE i = 1
  <2>1. t[j - 1] \in ToSet(s)
    BY <1>4 DEF ToSet
  <2>2. PICK b \in DOMAIN s : s[b] = t[j - 1]
    BY <2>1 DEF ToSet
  <2>3. 1 \in DOMAIN cs /\ cs[1] = x /\ ct[1] = x
    BY <1>1, <1>2
  <2>4. b + 1 \in DOMAIN cs /\ cs[b + 1] = ct[j] /\ 1 < b + 1
    BY <1>3, <1>4, <2>2
  <2> QED
    BY <1>5, <2>3, <2>4
<1>6. CASE i # 1
  <2>1. i - 1 \in DOMAIN t /\ ct[i] = t[i - 1] /\ i - 1 < j - 1
    BY <1>1, <1>6
  <2>2. PICK a, b \in DOMAIN s : a < b /\ t[i - 1] = s[a] /\ t[j - 1] = s[b]
    BY <1>4, <2>1 DEF KeepsOrder
  <2>3. a + 1 < b + 1
    BY <2>2
  <2> QED
    BY <1>3, <1>4, <2>1, <2>2, <2>3
<1> QED
  BY <1>5, <1>6

(* What is known of the releases: none is listed twice, and the unlocked   *)
(* data are among them, in the order of their latest releases.             *)
OrderInv == /\ Sound(cache)
            /\ releases \in Seq(Handle) /\ IsInjective(releases)
            /\ ToSet(cache.unlockedList) \subseteq ToSet(releases)
            /\ KeepsOrder(cache.unlockedList, releases)

(* A release puts x in front of both lists. *)
LEMMA ReleaseKeepsOrder ==
  ASSUME NEW u \in Seq(Handle), NEW r \in Seq(Handle), NEW x \in Handle, IsInjective(r),
         ToSet(u) \subseteq ToSet(r), KeepsOrder(u, r), x \notin ToSet(u)
  PROVE  LET s == Cons(x, RemoveFirst(r, x))
         IN  /\ s \in Seq(Handle) /\ IsInjective(s)
             /\ ToSet(Cons(x, u)) \subseteq ToSet(s)
             /\ KeepsOrder(Cons(x, u), s)
<1> DEFINE q == RemoveFirst(r, x)
<1>1. /\ q \in Seq(Handle) /\ IsInjective(q) /\ x \notin ToSet(q)
      /\ ToSet(u) \subseteq ToSet(q) /\ KeepsOrder(u, q)
  <2>1. CASE x \notin ToSet(r)
    <3>1. q = r
      BY <2>1 DEF RemoveFirst, ToSet
    <3> QED
      BY <2>1, <3>1
  <2>2. CASE x \in ToSet(r)
    <3>1. Distinct(q, Handle, ToSet(r) \ {x}, Len(r) - 1)
      BY <2>2, RemoveDistinct
    <3>2. \A a, b \in DOMAIN r : a < b /\ r[a] # x /\ r[b] # x =>
            \E i, j \in DOMAIN q : i < j /\ q[i] = r[a] /\ q[j] = r[b]
      BY <2>2, RemoveKeepsOrder
    <3> HIDE DEF q
    <3>3. ASSUME NEW i \in DOMAIN u, NEW j \in DOMAIN u, i < j
          PROVE  \E a, b \in DOMAIN q : a < b /\ u[i] = q[a] /\ u[j] = q[b]
      <4>1. PICK a, b \in DOMAIN r : a < b /\ u[i] = r[a] /\ u[j] = r[b]
        BY <3>3 DEF KeepsOrder
      <4>2. u[i] # x /\ u[j] # x
        BY DEF ToSet
      <4>3. PICK c, d \in DOMAIN q : c < d /\ q[c] = r[a] /\ q[d] = r[b]
        BY <3>2, <4>1, <4>2
      <4> QED
        BY <4>1, <4>3
    <3> QED
      BY <3>1, <3>3 DEF Distinct, KeepsOrder
  <2> QED
    BY <2>1, <2>2
<1> HIDE DEF q
<1>2. Distinct(Cons(x, q), Handle, ToSet(q) \cup {x}, Len(q) + 1)
  BY <1>1, ConsDistinct
<1>3. ToSet(Cons(x, u)) \subseteq ToSet(u) \cup {x}
  BY DEF Cons, ToSet
<1>4. KeepsOrder(Cons(x, u), Cons(x, q))
  BY <1>1, ConsKeepsOrder
<1> QED
  BY <1>1, <1>2, <1>3, <1>4 DEF Distinct, q

(* No step disturbs it. *)
LEMMA NextKeepsOrder ==
  ASSUME OrderInv, [Next]_vars, Sound(cache')
  PROVE  OrderInv'
<1> DEFINE u == cache.unlockedList
           OrderOf(t, r) == /\ r \in Seq(Handle) /\ IsInjective(r)
                            /\ ToSet(t) \subseteq ToSet(r) /\ KeepsOrder(t, r)
<1>1. /\ Sound(cache) /\ OrderOf(u, releases)
      /\ u \in Seq(Handle) /\ IsInjective(u)
  BY ListLengths DEF OrderInv, Sound, CacheOK, ListsAgree
<1>2. SUFFICES OrderOf(cache'.unlockedList, releases')
  BY DEF OrderInv, Sound, CacheOK, ListsAgree, IndexExact, WithinCapacity, FlagsExact,
         VictimExists, HasRoom, IsLocked, KeepsOrder, IsInjective, ToSet
<1>3. ASSUME NEW y \in ToSet(u) PROVE OrderOf(RemoveFirst(u, y), releases)
  <2>1. Distinct(RemoveFirst(u, y), Handle, ToSet(u) \ {y}, Len(u) - 1)
    BY <1>1, RemoveDistinct
  <2>2. KeepsOrder(RemoveFirst(u, y), u)
    BY <1>1, RemoveKeepsOrder
  <2> QED
    BY <1>1, <2>1, <2>2, KeepsOrderTransitive DEF Distinct
<1>4. ASSUME u # <<>> PROVE OrderOf(Front(u), releases)
  <2>1. Distinct(Front(u), Handle, ToSet(u) \ {Last(u)}, Len(u) - 1)
    BY <1>1, <1>4, FrontDistinct
  <2>2. KeepsOrder(Front(u), u)
    BY <1>1, <1>4, FrontKeepsOrder
  <2> QED
    BY <1>1, <2>1, <2>2, KeepsOrderTransitive DEF Distinct
<1>5. ASSUME NEW x \in Handle, AppendTo(x)
      PROVE  OrderOf(cache'.unlockedList, releases')
  <2>1. releases' = releases /\ cache' = AppendToCache(cache, x)
    BY <1>5 DEF AppendTo
  <2>2. \/ cache'.unlockedList = u
        \/ u # <<>> /\ cache'.unlockedList = Front(u)
        \/ x \in ToSet(u) /\ cache'.unlockedList = RemoveFirst(u, x)
    BY <1>1, <2>1, AppendEffect
  <2> HIDE DEF OrderOf
  <2> QED
    BY <1>1, <1>3, <1>4, <2>1, <2>2
<1>6. ASSUME NEW x \in Handle, Unlock(x)
      PROVE  OrderOf(cache'.unlockedList, releases')
  <2>1. /\ cache' = UnlockData(cache, x)
        /\ releases' = IF IsLocked(cache, x) /\ ~IsLocked(cache', x)
                       THEN Cons(x, RemoveFirst(releases, x)) ELSE releases
    BY <1>6 DEF Unlock
  <2>2. \/ /\ cache'.unlockedList = u
           /\ IsLocked(cache', x) <=> IsLocked(cache, x)
        \/ /\ IsLocked(cache, x) /\ ~IsLocked(cache', x) /\ x \notin ToSet(u)
           /\ cache'.unlockedList = Cons(x, u)
    BY <1>1, <2>1, UnlockEffect
  <2>3. CASE /\ cache'.unlockedList = u
             /\ IsLocked(cache', x) <=> IsLocked(cache, x)
    BY <1>1, <2>1, <2>3
  <2>4. CASE /\ IsLocked(cache, x) /\ ~IsLocked(cache', x) /\ x \notin ToSet(u)
             /\ cache'.unlockedList = Cons(x, u)
    <3>1. releases' = Cons(x, RemoveFirst(releases, x))
      BY <2>1, <2>4
    <3> HIDE DEF u
    <3>2. OrderOf(Cons(x, u), Cons(x, RemoveFirst(releases, x)))
      BY <1>1, <2>4, ReleaseKeepsOrder
    <3> QED
      BY <2>4, <3>1, <3>2
  <2> QED
    BY <2>2, <2>3, <2>4
<1>7. ASSUME NEW x \in Handle, Erase(x)
      PROVE  OrderOf(cache'.unlockedList, releases')
  <2>1. releases' = releases /\ cache' = EraseFromCache(cache, x)
    BY <1>7 DEF Erase
  <2>2. \/ cache'.unlockedList = u
        \/ x \in ToSet(u) /\ cache'.unlockedList = RemoveFirst(u, x)
    BY <1>1, <2>1, EraseEffect
  <2> HIDE DEF OrderOf
  <2> QED
    BY <1>1, <1>3, <2>1, <2>2
<1>8. CASE UNCHANGED vars
  BY <1>1, <1>8 DEF vars
<1> QED
  BY <1>5, <1>6, <1>7, <1>8 DEF Next

(* The place of a released handle among the releases. *)
LEMMA AgeIsPlace ==
  ASSUME releases \in Seq(Handle), IsInjective(releases), NEW n \in DOMAIN releases
  PROVE  Age(releases[n]) = n
  BY DEF Age, IsInjective

(* What leaves the cache to make room is the last of the unlocked data, and *)
(* no unlocked handle was released before it.                               *)
LEMMA VictimIsOldest ==
  ASSUME OrderInv, cache.unlockedList # <<>>, NEW w \in ToSet(cache.unlockedList)
  PROVE  Age(w) <= Age(Last(cache.unlockedList))
<1> DEFINE u == cache.unlockedList
<1>1. u \in Seq(Handle) /\ releases \in Seq(Handle) /\ IsInjective(releases)
  BY ListLengths DEF OrderInv, Sound
<1>2. Len(u) \in DOMAIN u /\ Last(u) = u[Len(u)]
  BY <1>1, EmptySeq DEF Last
<1>3. PICK i \in DOMAIN u : u[i] = w
  BY DEF ToSet
<1>4. CASE i = Len(u)
  <2>1. w \in ToSet(releases)
    BY DEF OrderInv
  <2>2. PICK n \in DOMAIN releases : releases[n] = w
    BY <2>1 DEF ToSet
  <2>3. Age(w) = n
    BY <1>1, <2>2, AgeIsPlace
  <2> QED
    BY <1>1, <1>2, <1>3, <1>4, <2>3
<1>5. CASE i # Len(u)
  <2>1. i < Len(u)
    BY <1>1, <1>3, <1>5
  <2>2. PICK a, b \in DOMAIN releases : a < b /\ w = releases[a] /\ Last(u) = releases[b]
    BY <1>2, <1>3, <2>1 DEF OrderInv, KeepsOrder
  <2>3. Age(w) = a /\ Age(Last(u)) = b
    BY <1>1, <2>2, AgeIsPlace
  <2> QED
    BY <1>1, <2>2, <2>3
<1> QED
  BY <1>4, <1>5

(* A handle leaves the cache unlocked, and, when it makes room for another, *)
(* after all the other unlocked data were released more recently.           *)
THEOREM EvictionIsLeastRecentlyReleased == Spec => EvictsLeastRecentlyReleased
<1>1. Init => OrderInv
  <2> SUFFICES ASSUME Init PROVE OrderInv
    OBVIOUS
  <2>1. /\ cache.unlockedList = <<>> /\ releases = <<>> /\ Sound(cache)
    BY EmptyIsSound DEF Init, EmptyCache
  <2> QED
    BY <2>1 DEF OrderInv, IsInjective, ToSet, KeepsOrder
<1>2. Spec => []Sound(cache)
  BY CacheIsSound
<1>3. OrderInv /\ [Next]_vars /\ Sound(cache)' => OrderInv'
  BY NextKeepsOrder
<1>4. OrderInv /\ [Next]_vars =>
        [\A v \in cache.cacheHashMap \ cache'.cacheHashMap :
           /\ ~IsLocked(cache, v)
           /\ cache'.cacheHashMap \ cache.cacheHashMap # {} =>
                \A u \in cache.cacheHashMap : ~IsLocked(cache, u) => Age(u) <= Age(v)]_vars
  <2> SUFFICES ASSUME OrderInv, Next,
                      NEW v \in cache.cacheHashMap \ cache'.cacheHashMap
               PROVE  /\ ~IsLocked(cache, v)
                      /\ cache'.cacheHashMap \ cache.cacheHashMap # {} =>
                           \A u \in cache.cacheHashMap :
                             ~IsLocked(cache, u) => Age(u) <= Age(v)
    BY DEF vars
  <2>1. /\ Sound(cache) /\ cache \in Cache
        /\ ToSet(cache.lockedList) \cap ToSet(cache.unlockedList) = {}
        /\ cache.cacheHashMap = ToSet(cache.lockedList) \cup ToSet(cache.unlockedList)
    BY DEF OrderInv, Sound, CacheOK, ListsAgree, IndexExact
  <2>2. \A w \in cache.cacheHashMap : ~IsLocked(cache, w) <=> w \in ToSet(cache.unlockedList)
    BY <2>1, LockedIsMember
  <2>3. ASSUME NEW x \in Handle, AppendTo(x)
        PROVE  /\ ~IsLocked(cache, v)
               /\ \A w \in cache.cacheHashMap : ~IsLocked(cache, w) => Age(w) <= Age(v)
    <3>1. cache.unlockedList # <<>> /\ v = Last(cache.unlockedList)
      BY <2>1, <2>3, AppendEffect DEF AppendTo
    <3>2. v \in ToSet(cache.unlockedList)
      BY <2>1, <3>1, FrontDistinct, ListLengths DEF Sound, CacheOK, ListsAgree
    <3> QED
      BY <2>2, <3>1, <3>2, VictimIsOldest
  <2>4. ASSUME NEW x \in Handle, Unlock(x) PROVE FALSE
    BY <2>1, <2>4, UnlockEffect DEF Unlock
  <2>5. ASSUME NEW x \in Handle, Erase(x)
        PROVE  ~IsLocked(cache, v) /\ cache'.cacheHashMap \subseteq cache.cacheHashMap
    BY <2>1, <2>5, EraseEffect DEF Erase
  <2> QED
    BY <2>3, <2>4, <2>5 DEF Next
<1> QED
  BY <1>1, <1>2, <1>3, <1>4, PTL DEF Spec, EvictsLeastRecentlyReleased
-----------------------------------------------------------------------------
(* What the methods do to the flags. *)
LEMMA FlagEffect ==
  ASSUME NEW c, NEW x \in Handle, Sound(c)
  PROVE  LET f == c.dataLockFlag
         IN  /\ AppendToCache(c, x).dataLockFlag \in {f, [f EXCEPT ![x] = 1],
                                                     [f EXCEPT ![x] = @ + 1]}
             /\ \/ UnlockData(c, x).dataLockFlag = f
                \/ /\ f[x] > 0
                   /\ UnlockData(c, x).dataLockFlag = [f EXCEPT ![x] = @ - 1]
             /\ EraseFromCache(c, x).dataLockFlag = f
<1> DEFINE f == c.dataLockFlag
<1>1. c \in Cache /\ FlagsExact(c)
  BY DEF Sound, CacheOK
<1>2. ASSUME NEW b \in Cache
      PROVE  /\ MakeRoom(b).dataLockFlag = b.dataLockFlag
             /\ Reclaim(b, x).dataLockFlag = b.dataLockFlag
             /\ Release(b, x).dataLockFlag = b.dataLockFlag
             /\ LockAgain(b, x).dataLockFlag = [b.dataLockFlag EXCEPT ![x] = @ + 1]
             /\ LowerFlag(b, x).dataLockFlag = [b.dataLockFlag EXCEPT ![x] = @ - 1]
  BY DEF MakeRoom, Evict, Reclaim, Release, LockAgain, LowerFlag, Cache
<1>3. PushLocked(MakeRoom(c), x).dataLockFlag \in {f, [f EXCEPT ![x] = 1]}
  BY <1>1 DEF PushLocked, MakeRoom, Evict, Cache
<1>4. PushLocked(Reclaim(c, x), x).dataLockFlag \in {f, [f EXCEPT ![x] = 1]}
  BY <1>1 DEF PushLocked, Reclaim, Cache
<1>5. AppendToCache(c, x) \in {c, PushLocked(MakeRoom(c), x), PushLocked(Reclaim(c, x), x),
                               LockAgain(c, x)}
  BY DEF AppendToCache
<1>6. \/ UnlockData(c, x) \in {c, Release(c, x)}
      \/ /\ CACHELOCK /\ IsLocked(c, x)
         /\ UnlockData(c, x) \in {LowerFlag(c, x), Release(LowerFlag(c, x), x)}
  BY CacheAssumption DEF UnlockData
<1>7. Release(LowerFlag(c, x), x).dataLockFlag = [f EXCEPT ![x] = @ - 1]
  BY <1>1 DEF Release, LowerFlag, Cache
<1>8. CACHELOCK /\ IsLocked(c, x) => f[x] > 0
  BY <1>1 DEF FlagsExact
<1>9. EraseFromCache(c, x).dataLockFlag = f
  BY <1>1 DEF EraseFromCache, Cache
<1>10. AppendToCache(c, x).dataLockFlag \in {f, [f EXCEPT ![x] = 1], [f EXCEPT ![x] = @ + 1]}
  BY <1>1, <1>2, <1>3, <1>4, <1>5
<1>11. \/ UnlockData(c, x).dataLockFlag = f
       \/ f[x] > 0 /\ UnlockData(c, x).dataLockFlag = [f EXCEPT ![x] = @ - 1]
  BY <1>1, <1>2, <1>6, <1>7, <1>8
<1> QED
  BY <1>9, <1>10, <1>11

(* A cache keeps its types, and its flags neither go negative nor pass the  *)
(* bound the guard of AppendTo puts on them.                                *)
THEOREM CacheTypeOK == Spec => []TypeOK
<1>1. Init => OrderInv /\ TypeOK
  <2> SUFFICES ASSUME Init PROVE OrderInv /\ TypeOK
    OBVIOUS
  <2>1. /\ cache = EmptyCache /\ releases = <<>> /\ Sound(EmptyCache)
    BY EmptyIsSound DEF Init
  <2>2. OrderInv
    BY <2>1 DEF OrderInv, EmptyCache, IsInjective, ToSet, KeepsOrder
  <2>3. TypeOK
    BY <2>1, MaxFlagAssumption DEF TypeOK, Sound, EmptyCache
  <2> QED
    BY <2>2, <2>3
<1>2. OrderInv /\ [Next]_vars /\ Sound(cache)' => OrderInv'
  BY NextKeepsOrder
<1>3. TypeOK /\ OrderInv /\ OrderInv' /\ [Next]_vars => TypeOK'
  <2> SUFFICES ASSUME TypeOK, OrderInv, OrderInv', [Next]_vars PROVE TypeOK'
    OBVIOUS
  <2>1. cache' \in Cache /\ releases' \in Seq(Handle)
    BY DEF OrderInv, Sound
  <2> DEFINE f == cache.dataLockFlag
  <2>2. /\ Sound(cache) /\ f \in [Handle -> Int]
        /\ \A y \in Handle : f[y] \in 0 .. MaxFlag
    BY ListLengths DEF OrderInv, Sound, TypeOK
  <2>3. ASSUME NEW x \in Handle, AppendTo(x)
        PROVE  \A y \in Handle : cache'.dataLockFlag[y] \in 0 .. MaxFlag
    <3>1. f[x] < MaxFlag /\ cache'.dataLockFlag \in {f, [f EXCEPT ![x] = 1],
                                                       [f EXCEPT ![x] = @ + 1]}
      BY <2>2, <2>3, FlagEffect DEF AppendTo
    <3> HIDE DEF f
    <3>2. f[x] \in 0 .. MaxFlag /\ 1 \in 0 .. MaxFlag /\ f[x] + 1 \in 0 .. MaxFlag
      BY <2>2, <3>1, MaxFlagAssumption
    <3>3. \A y \in Handle :
            /\ [f EXCEPT ![x] = 1][y] = IF y = x THEN 1 ELSE f[y]
            /\ [f EXCEPT ![x] = @ + 1][y] = IF y = x THEN f[x] + 1 ELSE f[y]
      BY <2>2
    <3> QED
      BY <2>2, <3>1, <3>2, <3>3
  <2>4. ASSUME NEW x \in Handle, Unlock(x)
        PROVE  \A y \in Handle : cache'.dataLockFlag[y] \in 0 .. MaxFlag
    <3>1. \/ cache'.dataLockFlag = f
          \/ f[x] > 0 /\ cache'.dataLockFlag = [f EXCEPT ![x] = @ - 1]
      BY <2>2, <2>4, FlagEffect DEF Unlock
    <3> HIDE DEF f
    <3>2. f[x] > 0 => f[x] - 1 \in 0 .. MaxFlag
      BY <2>2, MaxFlagAssumption
    <3>3. \A y \in Handle : [f EXCEPT ![x] = @ - 1][y] = IF y = x THEN f[x] - 1 ELSE f[y]
      BY <2>2
    <3> QED
      BY <2>2, <3>1, <3>2, <3>3
  <2>5. ASSUME NEW x \in Handle, Erase(x)
        PROVE  \A y \in Handle : cache'.dataLockFlag[y] \in 0 .. MaxFlag
    BY <2>2, <2>5, FlagEffect DEF Erase
  <2>6. CASE UNCHANGED vars
    BY <2>6 DEF vars, TypeOK
  <2> QED
    BY <2>1, <2>3, <2>4, <2>5, <2>6 DEF Next, TypeOK
<1> QED
  BY <1>1, <1>2, <1>3, CacheIsSound, PTL DEF Spec
=============================================================================

--------------------------- MODULE CacheLRULemmas ---------------------------
(***************************************************************************)
(* What the operators of CacheLRU do to a cache, for every set of handles, *)
(* every size and both values of SOMP_CACHELOCK. The lists of a cache are  *)
(* sequences without repetition; the first lemmas say what removing and    *)
(* adding an element does to their length, their elements and their order, *)
(* and the others use nothing else of them.                                *)
(***************************************************************************)
EXTENDS CacheLRU, SequenceTheorems, TLAPS

(* A list of distinct elements of S that are those of E, n of them. *)
Distinct(s, S, E, n) == /\ s \in Seq(S) /\ IsInjective(s)
                        /\ ToSet(s) = E /\ Len(s) = n

LEMMA ContainsIsMember ==
  ASSUME NEW S, NEW s \in Seq(S), NEW x
  PROVE  Contains(s, x) <=> x \in ToSet(s)
  BY DEF Contains, ToSet

LEMMA ConsDistinct ==
  ASSUME NEW S, NEW s \in Seq(S), IsInjective(s), NEW x \in S, x \notin ToSet(s)
  PROVE  Distinct(Cons(x, s), S, ToSet(s) \cup {x}, Len(s) + 1)
<1> DEFINE t == Cons(x, s)
<1>1. /\ t \in Seq(S) /\ Len(t) = Len(s) + 1
      /\ \A i \in 1 .. Len(t) : t[i] = IF i = 1 THEN x ELSE s[i - 1]
  BY DEF Cons
<1>2. IsInjective(t)
  BY <1>1 DEF IsInjective, ToSet
<1>3. ToSet(t) = ToSet(s) \cup {x}
  <2>1. ToSet(t) \subseteq ToSet(s) \cup {x}
    BY <1>1 DEF ToSet
  <2>2. x \in ToSet(t)
    BY <1>1 DEF ToSet
  <2>3. ASSUME NEW i \in DOMAIN s PROVE s[i] \in ToSet(t)
    <3>1. i + 1 \in DOMAIN t /\ t[i + 1] = s[i]
      BY <1>1
    <3> QED
      BY <3>1 DEF ToSet
  <2> QED
    BY <2>1, <2>2, <2>3 DEF ToSet
<1> QED
  BY <1>1, <1>2, <1>3 DEF Distinct

LEMMA FrontDistinct ==
  ASSUME NEW S, NEW s \in Seq(S), IsInjective(s), s # <<>>
  PROVE  /\ Last(s) \in ToSet(s)
         /\ Distinct(Front(s), S, ToSet(s) \ {Last(s)}, Len(s) - 1)
<1> DEFINE t == Front(s)
<1>1. Len(s) > 0 /\ t \in Seq(S) /\ Len(t) = Len(s) - 1
      /\ \A i \in 1 .. Len(t) : t[i] = s[i]
  <2>1. Len(s) \in Nat \ {0} /\ \A i \in 1 .. (Len(s) - 1) : s[i] \in S
    BY EmptySeq
  <2> DEFINE n == Len(s) - 1
  <2>2. n \in Nat /\ \A i \in 1 .. n : s[i] \in S
    BY <2>1
  <2>3. /\ SubSeq(s, 1, n) \in Seq(S) /\ Len(SubSeq(s, 1, n)) = n
        /\ \A i \in 1 .. n : SubSeq(s, 1, n)[i] = s[i]
    <3> HIDE DEF n
    <3> QED
      BY <2>2, SubSeqProperties
  <2> QED
    BY <2>1, <2>3 DEF Front
<1>2. Last(s) \in ToSet(s)
  BY <1>1 DEF ToSet, Last
<1>3. IsInjective(t)
  BY <1>1 DEF IsInjective
<1>4. ToSet(t) \subseteq ToSet(s) \ {Last(s)}
  BY <1>1 DEF ToSet, Last, IsInjective
<1>5. ASSUME NEW i \in DOMAIN s, s[i] # Last(s) PROVE s[i] \in ToSet(t)
  <2>1. i \in DOMAIN t /\ t[i] = s[i]
    BY <1>1, <1>5 DEF Last
  <2> QED
    BY <2>1 DEF ToSet
<1>6. ToSet(s) \ {Last(s)} \subseteq ToSet(t)
  BY <1>5 DEF ToSet
<1> QED
  BY <1>1, <1>2, <1>3, <1>4, <1>6 DEF Distinct

(* Removing x closes the gap it leaves. *)
LEMMA RemoveIsShift ==
  ASSUME NEW S, NEW s \in Seq(S), IsInjective(s), NEW x \in ToSet(s)
  PROVE  \E k \in 1 .. Len(s) :
           /\ s[k] = x /\ Len(RemoveFirst(s, x)) = Len(s) - 1
           /\ RemoveFirst(s, x) \in Seq(S)
           /\ \A i \in 1 .. Len(RemoveFirst(s, x)) :
                RemoveFirst(s, x)[i] = IF i < k THEN s[i] ELSE s[i + 1]
<1> DEFINE t == RemoveFirst(s, x)
<1>1. PICK k \in 1 .. Len(s) : s[k] = x
  BY DEF ToSet
<1>2. {i \in 1 .. Len(s) : s[i] = x} = {k}
  BY <1>1 DEF IsInjective
<1>3. t = RemoveAt(s, k)
  BY <1>1, <1>2 DEF RemoveFirst, SelectInSeq, Min
<1>4. /\ t \in Seq(S) /\ Len(t) = Len(s) - 1
      /\ \A i \in 1 .. Len(t) : t[i] = IF i < k THEN s[i] ELSE s[i + 1]
  <2> DEFINE left == SubSeq(s, 1, k - 1)
             right == SubSeq(s, k + 1, Len(s))
  <2>1. Len(s) \in Nat /\ \A i \in 1 .. Len(s) : s[i] \in S
    OBVIOUS
  <2>2. left \in Seq(S) /\ Len(left) = k - 1 /\ \A i \in 1 .. (k - 1) : left[i] = s[i]
    BY <2>1, SubSeqProperties
  <2>3. /\ right \in Seq(S) /\ Len(right) = Len(s) - k
        /\ \A i \in 1 .. (Len(s) - k) : right[i] = s[k + i]
    BY <2>1, SubSeqProperties
  <2>4. t = left \o right
    BY <1>3 DEF RemoveAt
  <2>5. /\ left \o right \in Seq(S)
        /\ Len(left \o right) = Len(left) + Len(right)
        /\ \A i \in 1 .. (Len(left) + Len(right)) :
             (left \o right)[i] = IF i <= Len(left) THEN left[i] ELSE right[i - Len(left)]
    BY <2>2, <2>3, ConcatProperties
  <2> HIDE DEF t, left, right
  <2>6. t \in Seq(S) /\ Len(t) = Len(s) - 1
    BY <2>1, <2>2, <2>3, <2>4, <2>5
  <2>7. ASSUME NEW i \in 1 .. Len(t)
        PROVE  t[i] = IF i < k THEN s[i] ELSE s[i + 1]
    <3>1. CASE i < k
      BY <2>2, <2>3, <2>4, <2>5, <2>6, <3>1
    <3>2. CASE i >= k
      <4>1. i - Len(left) \in 1 .. (Len(s) - k) /\ ~(i <= Len(left))
        BY <2>1, <2>2, <2>6, <3>2
      <4>2. right[i - Len(left)] = s[i + 1]
        BY <2>2, <2>3, <4>1
      <4> QED
        BY <2>2, <2>3, <2>4, <2>5, <2>6, <3>2, <4>1, <4>2
    <3> QED
      BY <3>1, <3>2
  <2> QED
    BY <2>6, <2>7
<1> QED
  BY <1>1, <1>4

LEMMA RemoveDistinct ==
  ASSUME NEW S, NEW s \in Seq(S), IsInjective(s), NEW x \in ToSet(s)
  PROVE  Distinct(RemoveFirst(s, x), S, ToSet(s) \ {x}, Len(s) - 1)
<1> DEFINE t == RemoveFirst(s, x)
<1>1. PICK k \in 1 .. Len(s) :
        /\ s[k] = x /\ Len(t) = Len(s) - 1 /\ t \in Seq(S)
        /\ \A i \in 1 .. Len(t) : t[i] = IF i < k THEN s[i] ELSE s[i + 1]
  BY RemoveIsShift
<1> HIDE DEF t
<1>2. IsInjective(t)
  <2> SUFFICES ASSUME NEW a \in 1 .. Len(t), NEW b \in 1 .. Len(t), t[a] = t[b]
               PROVE  a = b
    BY <1>1 DEF IsInjective
  <2> DEFINE up(n) == IF n < k THEN n ELSE n + 1
  <2>1. up(a) \in DOMAIN s /\ up(b) \in DOMAIN s /\ t[a] = s[up(a)] /\ t[b] = s[up(b)]
    BY <1>1
  <2>2. up(a) = up(b)
    <3> HIDE DEF up
    <3> QED
      BY <2>1 DEF IsInjective
  <2> QED
    BY <2>2
<1>3. ToSet(t) \subseteq ToSet(s) \ {x}
  <2> SUFFICES ASSUME NEW a \in 1 .. Len(t) PROVE t[a] \in ToSet(s) \ {x}
    BY <1>1 DEF ToSet
  <2> DEFINE up == IF a < k THEN a ELSE a + 1
  <2>1. PICK b \in DOMAIN s : b # k /\ t[a] = s[b]
    <3>1. up \in DOMAIN s /\ up # k /\ t[a] = s[up]
      BY <1>1
    <3> HIDE DEF up
    <3> QED
      BY <3>1
  <2>2. s[b] # s[k]
    BY <2>1 DEF IsInjective
  <2> QED
    BY <1>1, <2>1, <2>2 DEF ToSet
<1>4. ASSUME NEW i \in DOMAIN s, i # k PROVE s[i] \in ToSet(t)
  <2>1. CASE i < k
    <3>1. i \in DOMAIN t /\ t[i] = s[i]
      BY <1>1, <2>1
    <3> QED
      BY <3>1 DEF ToSet
  <2>2. CASE i > k
    <3>1. i - 1 \in DOMAIN t /\ t[i - 1] = s[i]
      BY <1>1, <2>2
    <3> QED
      BY <3>1 DEF ToSet
  <2> QED
    BY <1>4, <2>1, <2>2
<1>5. ToSet(s) \ {x} \subseteq ToSet(t)
  BY <1>1, <1>4 DEF ToSet
<1> QED
  BY <1>1, <1>2, <1>3, <1>5 DEF Distinct, t

(* t lists elements of s in the order they have in s. *)
KeepsOrder(t, s) ==
  \A i, j \in DOMAIN t : i < j => \E a, b \in DOMAIN s : a < b /\ t[i] = s[a] /\ t[j] = s[b]

LEMMA FrontKeepsOrder ==
  ASSUME NEW S, NEW s \in Seq(S), s # <<>>
  PROVE  KeepsOrder(Front(s), s)
<1>1. Len(s) \in Nat \ {0}
  BY EmptySeq
<1>2. Front(s) = [i \in 1 .. (Len(s) - 1) |-> s[i]]
  BY <1>1 DEF Front
<1> QED
  BY <1>1, <1>2 DEF KeepsOrder

(* Removing x leaves the others in their order, in both directions. *)
LEMMA RemoveKeepsOrder ==
  ASSUME NEW S, NEW s \in Seq(S), IsInjective(s), NEW x \in ToSet(s)
  PROVE  /\ KeepsOrder(RemoveFirst(s, x), s)
         /\ \A a, b \in DOMAIN s : a < b /\ s[a] # x /\ s[b] # x =>
              \E i, j \in DOMAIN RemoveFirst(s, x) :
                i < j /\ RemoveFirst(s, x)[i] = s[a] /\ RemoveFirst(s, x)[j] = s[b]
<1> DEFINE t == RemoveFirst(s, x)
<1>1. PICK k \in 1 .. Len(s) :
        /\ s[k] = x /\ Len(t) = Len(s) - 1 /\ t \in Seq(S)
        /\ \A i \in 1 .. Len(t) : t[i] = IF i < k THEN s[i] ELSE s[i + 1]
  BY RemoveIsShift
<1> HIDE DEF t
<1>2. KeepsOrder(t, s)
  <2> SUFFICES ASSUME NEW i \in 1 .. Len(t), NEW j \in 1 .. Len(t), i < j
               PROVE  \E a, b \in DOMAIN s : a < b /\ t[i] = s[a] /\ t[j] = s[b]
    BY <1>1 DEF KeepsOrder
  <2> DEFINE up(n) == IF n < k THEN n ELSE n + 1
  <2>1. /\ up(i) \in DOMAIN s /\ up(j) \in DOMAIN s /\ up(i) < up(j)
        /\ t[i] = s[up(i)] /\ t[j] = s[up(j)]
    BY <1>1
  <2> QED
    BY <2>1
<1>3. ASSUME NEW a \in DOMAIN s, NEW b \in DOMAIN s, a < b, s[a] # x, s[b] # x
      PROVE  \E i, j \in DOMAIN t : i < j /\ t[i] = s[a] /\ t[j] = s[b]
  <2> DEFINE down(n) == IF n < k THEN n ELSE n - 1
  <2>1. a # k /\ b # k
    BY <1>1, <1>3
  <2>2. /\ down(a) \in DOMAIN t /\ down(b) \in DOMAIN t /\ down(a) < down(b)
        /\ t[down(a)] = s[a] /\ t[down(b)] = s[b]
    BY <1>1, <1>3, <2>1
  <2> QED
    BY <2>2
<1> QED
  BY <1>2, <1>3 DEF t
-----------------------------------------------------------------------------
(* What the methods keep: a typed cache whose parts agree. *)
Sound(c) == c \in Cache /\ CacheOK(c)

(* A cache that may be filled: one whose lists and flags agree, which has  *)
(* room, and does not list x; its index may still know x.                  *)
ReadyFor(c, x) == /\ c \in Cache /\ ListsAgree(c) /\ FlagsExact(c)
                  /\ c.cacheHashMap \cup {x} = ToSet(c.handlesList) \cup {x}
                  /\ Len(c.handlesList) < cacheSize
                  /\ x \notin ToSet(c.handlesList)

LEMMA LockedIsMember ==
  ASSUME NEW c \in Cache, NEW x
  PROVE  IsLocked(c, x) <=> x \in ToSet(c.lockedList)
  BY ContainsIsMember DEF IsLocked, Cache

(* The lists of a sound cache are typed and their lengths are numbers.     *)
LEMMA ListLengths ==
  ASSUME NEW c \in Cache
  PROVE  /\ c.handlesList \in Seq(Handle) /\ Len(c.handlesList) \in Nat
         /\ c.lockedList \in Seq(Handle) /\ Len(c.lockedList) \in Nat
         /\ c.unlockedList \in Seq(Handle) /\ Len(c.unlockedList) \in Nat
         /\ c.cacheHashMap \subseteq Handle
         /\ c.dataLockFlag \in [Handle -> Int]
  BY DEF Cache

(* A victim exists in every cache whose lists agree: if all entries are in *)
(* use and not all are locked, one is unlocked.                            *)
LEMMA AgreementGivesVictim ==
  ASSUME NEW c \in Cache, ListsAgree(c)
  PROVE  VictimExists(c)
<1> SUFFICES ASSUME Len(c.lockedList) < cacheSize, Len(c.handlesList) = cacheSize,
                    c.unlockedList = <<>>
             PROVE  FALSE
  BY DEF VictimExists, HasRoom
<1>1. Len(c.unlockedList) = 0
  OBVIOUS
<1>2. Len(c.handlesList) = Len(c.lockedList) + Len(c.unlockedList)
  BY DEF ListsAgree
<1> HIDE DEF Cache
<1> QED
  BY <1>1, <1>2, ListLengths

LEMMA PushLockedIsSound ==
  ASSUME NEW c, NEW x \in Handle, ReadyFor(c, x)
  PROVE  Sound(PushLocked(c, x))
<1> DEFINE d == PushLocked(c, x)
<1>1. /\ c \in Cache /\ x \notin ToSet(c.handlesList)
      /\ x \notin ToSet(c.lockedList) /\ x \notin ToSet(c.unlockedList)
  BY DEF ReadyFor, ListsAgree
<1>2. /\ IsInjective(c.handlesList) /\ IsInjective(c.lockedList)
      /\ IsInjective(c.unlockedList)
  BY DEF ReadyFor, ListsAgree
<1>3. /\ ToSet(c.lockedList) \cap ToSet(c.unlockedList) = {}
      /\ ToSet(c.handlesList) = ToSet(c.lockedList) \cup ToSet(c.unlockedList)
      /\ Len(c.handlesList) = Len(c.lockedList) + Len(c.unlockedList)
  BY DEF ReadyFor, ListsAgree
<1>4. /\ d.handlesList = Cons(x, c.handlesList) /\ d.lockedList = Cons(x, c.lockedList)
      /\ d.unlockedList = c.unlockedList /\ d.cacheHashMap = c.cacheHashMap \cup {x}
      /\ d.dataLockFlag = IF CACHELOCK THEN [c.dataLockFlag EXCEPT ![x] = 1]
                          ELSE c.dataLockFlag
  BY <1>1 DEF PushLocked, Cache
<1>5. Distinct(d.handlesList, Handle, ToSet(c.handlesList) \cup {x}, Len(c.handlesList) + 1)
  <2>1. c.handlesList \in Seq(Handle)
    BY <1>1, ListLengths
  <2> HIDE DEF d
  <2> QED
    BY <1>1, <1>2, <1>4, <2>1, ConsDistinct
<1>6. Distinct(d.lockedList, Handle, ToSet(c.lockedList) \cup {x}, Len(c.lockedList) + 1)
  <2>1. c.lockedList \in Seq(Handle)
    BY <1>1, ListLengths
  <2> HIDE DEF d
  <2> QED
    BY <1>1, <1>2, <1>4, <2>1, ConsDistinct
<1>7. d \in Cache
  <2>1. Cons(x, c.handlesList) \in Seq(Handle) /\ Cons(x, c.lockedList) \in Seq(Handle)
    BY <1>4, <1>5, <1>6 DEF Distinct
  <2>2. c.cacheHashMap \cup {x} \subseteq Handle
    BY <1>1, ListLengths
  <2>3. (IF CACHELOCK THEN [c.dataLockFlag EXCEPT ![x] = 1] ELSE c.dataLockFlag)
          \in [Handle -> Int]
    BY <1>1, ListLengths
  <2> QED
    BY <1>1, <2>1, <2>2, <2>3 DEF PushLocked, Cache
<1> HIDE DEF d
<1>8. ListsAgree(d)
  <2>1. Len(d.handlesList) = Len(d.lockedList) + Len(d.unlockedList)
    <3>1. /\ Len(d.handlesList) = Len(c.handlesList) + 1
          /\ Len(d.lockedList) = Len(c.lockedList) + 1
          /\ Len(d.unlockedList) = Len(c.unlockedList)
      BY <1>4, <1>5, <1>6 DEF Distinct
    <3>2. Len(c.lockedList) \in Nat /\ Len(c.unlockedList) \in Nat
      BY <1>1, ListLengths
    <3>3. Len(c.handlesList) = Len(c.lockedList) + Len(c.unlockedList)
      BY <1>3
    <3>4. \A m, n \in Nat : (m + n) + 1 = (m + 1) + n
      OBVIOUS
    <3> QED
      BY <3>1, <3>2, <3>3, <3>4, Zenon
  <2>2. /\ ToSet(d.lockedList) = ToSet(c.lockedList) \cup {x}
        /\ ToSet(d.handlesList) = ToSet(c.handlesList) \cup {x}
        /\ IsInjective(d.handlesList) /\ IsInjective(d.lockedList)
    BY <1>5, <1>6 DEF Distinct
  <2> QED
    BY <1>1, <1>2, <1>3, <1>4, <2>1, <2>2 DEF ListsAgree
<1>9. IndexExact(d)
  BY <1>4, <1>5 DEF Distinct, ReadyFor, IndexExact
<1>10. WithinCapacity(d)
  <2>1. Len(c.handlesList) \in Nat /\ Len(c.handlesList) < cacheSize
    BY <1>1, ListLengths DEF ReadyFor
  <2> QED
    BY <1>5, <2>1, CacheAssumption DEF Distinct, WithinCapacity
<1>11. FlagsExact(d)
  <2> SUFFICES ASSUME CACHELOCK, NEW y \in Handle
               PROVE  IF y \in ToSet(d.lockedList) THEN d.dataLockFlag[y] > 0
                      ELSE d.dataLockFlag[y] = 0
    BY <1>7, LockedIsMember DEF FlagsExact
  <2>1. IF y \in ToSet(c.lockedList) THEN c.dataLockFlag[y] > 0
        ELSE c.dataLockFlag[y] = 0
    BY <1>1, LockedIsMember DEF ReadyFor, FlagsExact
  <2> QED
    BY <1>1, <1>4, <1>6, <2>1, ListLengths DEF Distinct
<1>12. VictimExists(d)
  BY <1>7, <1>8, AgreementGivesVictim
<1> QED
  BY <1>7, <1>8, <1>9, <1>10, <1>11, <1>12 DEF Sound, CacheOK, d

(* Eviction, on a full cache that has room for a lock. *)
LEMMA MakeRoomIsReady ==
  ASSUME NEW c, NEW x \in Handle, Sound(c), HasRoom(c), ~InCache(c, x)
  PROVE  ReadyFor(MakeRoom(c), x)
<1>1. c \in Cache /\ ListsAgree(c) /\ IndexExact(c) /\ FlagsExact(c) /\ VictimExists(c)
  BY DEF Sound, CacheOK
<1>2. Len(c.handlesList) <= cacheSize /\ Len(c.handlesList) \in Nat
  BY <1>1, ListLengths DEF Sound, CacheOK, WithinCapacity
<1>3. x \notin ToSet(c.handlesList) /\ c.cacheHashMap = ToSet(c.handlesList)
  BY <1>1 DEF IndexExact, InCache
<1>4. CASE Len(c.handlesList) # cacheSize
  BY <1>1, <1>2, <1>3, <1>4, CacheAssumption DEF MakeRoom, ReadyFor
<1>5. CASE Len(c.handlesList) = cacheSize
  <2> DEFINE last == Last(c.unlockedList)
             d == Evict(c)
  <2>1. c.unlockedList # <<>>
    BY <1>1, <1>5 DEF VictimExists
  <2>2. /\ IsInjective(c.handlesList) /\ IsInjective(c.lockedList)
        /\ IsInjective(c.unlockedList)
        /\ ToSet(c.lockedList) \cap ToSet(c.unlockedList) = {}
        /\ ToSet(c.handlesList) = ToSet(c.lockedList) \cup ToSet(c.unlockedList)
        /\ Len(c.handlesList) = Len(c.lockedList) + Len(c.unlockedList)
    BY <1>1 DEF ListsAgree
  <2>3. /\ last \in ToSet(c.unlockedList)
        /\ Distinct(Front(c.unlockedList), Handle, ToSet(c.unlockedList) \ {last},
                    Len(c.unlockedList) - 1)
    <3>1. c.unlockedList \in Seq(Handle) /\ IsInjective(c.unlockedList)
      BY <1>1, <2>2, ListLengths
    <3> QED
      BY <2>1, <3>1, FrontDistinct
  <2>4. Distinct(RemoveFirst(c.handlesList, last), Handle, ToSet(c.handlesList) \ {last},
                 Len(c.handlesList) - 1)
    <3>1. c.handlesList \in Seq(Handle) /\ IsInjective(c.handlesList)
          /\ last \in ToSet(c.handlesList)
      BY <1>1, <2>2, <2>3, ListLengths
    <3> HIDE DEF last
    <3> QED
      BY <3>1, RemoveDistinct
  <2>5. /\ d.handlesList = RemoveFirst(c.handlesList, last)
        /\ d.unlockedList = Front(c.unlockedList) /\ d.lockedList = c.lockedList
        /\ d.cacheHashMap = c.cacheHashMap \ {last}
        /\ d.dataLockFlag = c.dataLockFlag
    BY <1>1 DEF Evict, Cache
  <2>6. d \in Cache
    <3>1. /\ RemoveFirst(c.handlesList, last) \in Seq(Handle)
          /\ Front(c.unlockedList) \in Seq(Handle)
          /\ c.cacheHashMap \ {last} \subseteq Handle
      BY <1>1, <2>3, <2>4, ListLengths DEF Distinct
    <3> QED
      BY <1>1, <3>1 DEF Evict, Cache
  <2> HIDE DEF last, d
  <2>7. ListsAgree(d)
    <3>1. Len(d.handlesList) = Len(d.lockedList) + Len(d.unlockedList)
      <4>1. /\ Len(d.handlesList) = Len(c.handlesList) - 1
            /\ Len(d.unlockedList) = Len(c.unlockedList) - 1
            /\ Len(d.lockedList) = Len(c.lockedList)
        BY <2>3, <2>4, <2>5 DEF Distinct
      <4>2. Len(c.lockedList) \in Nat /\ Len(c.unlockedList) \in Nat
        BY <1>1, ListLengths
      <4> QED
        BY <2>2, <4>1, <4>2
    <3>2. /\ ToSet(d.handlesList) = ToSet(c.handlesList) \ {last}
          /\ ToSet(d.unlockedList) = ToSet(c.unlockedList) \ {last}
          /\ IsInjective(d.handlesList) /\ IsInjective(d.unlockedList)
      BY <2>3, <2>4, <2>5 DEF Distinct
    <3> QED
      BY <2>2, <2>3, <2>5, <3>1, <3>2 DEF ListsAgree
  <2>8. FlagsExact(d)
    BY <1>1, <2>5, <2>6, LockedIsMember DEF FlagsExact
  <2>9. Len(d.handlesList) < cacheSize
    BY <1>2, <1>5, <2>4, <2>5, CacheAssumption DEF Distinct
  <2>10. /\ x \notin ToSet(d.handlesList)
         /\ d.cacheHashMap \cup {x} = ToSet(d.handlesList) \cup {x}
    BY <1>3, <2>4, <2>5 DEF Distinct
  <2> QED
    BY <1>5, <2>6, <2>7, <2>8, <2>9, <2>10 DEF MakeRoom, ReadyFor, d
<1> QED
  BY <1>4, <1>5

(* A cached datum nobody uses leaves both lists before it is locked. *)
LEMMA ReclaimIsReady ==
  ASSUME NEW c, NEW x \in Handle, Sound(c), HasRoom(c), InCache(c, x), ~IsLocked(c, x)
  PROVE  ReadyFor(Reclaim(c, x), x)
<1> DEFINE d == Reclaim(c, x)
<1>1. /\ c \in Cache /\ FlagsExact(c) /\ c.cacheHashMap = ToSet(c.handlesList)
      /\ Len(c.handlesList) <= cacheSize
  BY DEF Sound, CacheOK, IndexExact, WithinCapacity
<1>2. /\ IsInjective(c.handlesList) /\ IsInjective(c.lockedList)
      /\ IsInjective(c.unlockedList)
      /\ ToSet(c.lockedList) \cap ToSet(c.unlockedList) = {}
      /\ ToSet(c.handlesList) = ToSet(c.lockedList) \cup ToSet(c.unlockedList)
      /\ Len(c.handlesList) = Len(c.lockedList) + Len(c.unlockedList)
  BY DEF Sound, CacheOK, ListsAgree
<1>3. x \in ToSet(c.handlesList) /\ x \in ToSet(c.unlockedList)
  BY <1>1, <1>2, LockedIsMember DEF InCache
<1>4. Distinct(RemoveFirst(c.handlesList, x), Handle, ToSet(c.handlesList) \ {x},
               Len(c.handlesList) - 1)
  <2>1. c.handlesList \in Seq(Handle) /\ IsInjective(c.handlesList)
    BY <1>1, <1>2, ListLengths
  <2> QED
    BY <1>3, <2>1, RemoveDistinct
<1>5. Distinct(RemoveFirst(c.unlockedList, x), Handle, ToSet(c.unlockedList) \ {x},
               Len(c.unlockedList) - 1)
  <2>1. c.unlockedList \in Seq(Handle) /\ IsInjective(c.unlockedList)
    BY <1>1, <1>2, ListLengths
  <2> QED
    BY <1>3, <2>1, RemoveDistinct
<1>6. /\ d.handlesList = RemoveFirst(c.handlesList, x) /\ d.lockedList = c.lockedList
      /\ d.unlockedList = RemoveFirst(c.unlockedList, x)
      /\ d.cacheHashMap = c.cacheHashMap /\ d.dataLockFlag = c.dataLockFlag
  BY <1>1 DEF Reclaim, Cache
<1>7. d \in Cache
  BY <1>1, <1>4, <1>5 DEF Distinct, Reclaim, Cache
<1> HIDE DEF d
<1>8. ListsAgree(d)
  <2>1. Len(d.handlesList) = Len(d.lockedList) + Len(d.unlockedList)
    <3>1. /\ Len(d.handlesList) = Len(c.handlesList) - 1
          /\ Len(d.unlockedList) = Len(c.unlockedList) - 1
          /\ Len(d.lockedList) = Len(c.lockedList)
      BY <1>4, <1>5, <1>6 DEF Distinct
    <3>2. Len(c.lockedList) \in Nat /\ Len(c.unlockedList) \in Nat
      BY <1>1, ListLengths
    <3>3. Len(c.handlesList) = Len(c.lockedList) + Len(c.unlockedList)
      BY <1>2
    <3> QED
      BY <3>1, <3>2, <3>3
  <2>2. /\ ToSet(d.handlesList) = ToSet(c.handlesList) \ {x}
        /\ ToSet(d.unlockedList) = ToSet(c.unlockedList) \ {x}
        /\ IsInjective(d.handlesList) /\ IsInjective(d.unlockedList)
    BY <1>4, <1>5, <1>6 DEF Distinct
  <2> QED
    BY <1>2, <1>3, <1>6, <2>1, <2>2 DEF ListsAgree
<1>9. FlagsExact(d)
  BY <1>1, <1>6, <1>7, LockedIsMember DEF FlagsExact
<1>10. /\ Len(d.handlesList) < cacheSize
       /\ x \notin ToSet(d.handlesList)
       /\ d.cacheHashMap \cup {x} = ToSet(d.handlesList) \cup {x}
  <2>1. Len(c.handlesList) \in Nat
    BY <1>1, ListLengths
  <2> QED
    BY <1>1, <1>3, <1>4, <1>6, <2>1, CacheAssumption DEF Distinct
<1> QED
  BY <1>7, <1>8, <1>9, <1>10 DEF ReadyFor, d

(* Another user only raises the flag and moves the handle to the front. *)
LEMMA LockAgainIsSound ==
  ASSUME NEW c, NEW x \in Handle, Sound(c), IsLocked(c, x), CACHELOCK
  PROVE  Sound(LockAgain(c, x))
<1> DEFINE rest == RemoveFirst(c.handlesList, x)
           d == LockAgain(c, x)
<1>1. /\ c \in Cache /\ FlagsExact(c) /\ c.cacheHashMap = ToSet(c.handlesList)
      /\ Len(c.handlesList) <= cacheSize
  BY DEF Sound, CacheOK, IndexExact, WithinCapacity
<1>2. /\ IsInjective(c.handlesList) /\ IsInjective(c.lockedList)
      /\ IsInjective(c.unlockedList)
      /\ ToSet(c.lockedList) \cap ToSet(c.unlockedList) = {}
      /\ ToSet(c.handlesList) = ToSet(c.lockedList) \cup ToSet(c.unlockedList)
      /\ Len(c.handlesList) = Len(c.lockedList) + Len(c.unlockedList)
  BY DEF Sound, CacheOK, ListsAgree
<1>3. x \in ToSet(c.lockedList) /\ x \in ToSet(c.handlesList)
  BY <1>1, <1>2, LockedIsMember
<1>4. c.handlesList \in Seq(Handle) /\ Len(c.handlesList) \in Nat
  BY <1>1, ListLengths
<1>5. Distinct(rest, Handle, ToSet(c.handlesList) \ {x}, Len(c.handlesList) - 1)
  BY <1>2, <1>3, <1>4, RemoveDistinct
<1>6. Distinct(Cons(x, rest), Handle, ToSet(rest) \cup {x}, Len(rest) + 1)
  <2>1. rest \in Seq(Handle) /\ IsInjective(rest) /\ x \notin ToSet(rest)
    BY <1>5 DEF Distinct
  <2> HIDE DEF rest
  <2> QED
    BY <2>1, ConsDistinct
<1>7. Distinct(Cons(x, rest), Handle, ToSet(c.handlesList), Len(c.handlesList))
  <2>1. ToSet(rest) \cup {x} = ToSet(c.handlesList)
    BY <1>3, <1>5 DEF Distinct
  <2>2. Len(rest) + 1 = Len(c.handlesList)
    BY <1>4, <1>5 DEF Distinct
  <2> QED
    BY <1>6, <2>1, <2>2
<1>8. /\ d.handlesList = Cons(x, rest) /\ d.lockedList = c.lockedList
      /\ d.unlockedList = c.unlockedList /\ d.cacheHashMap = c.cacheHashMap
      /\ d.dataLockFlag = [c.dataLockFlag EXCEPT ![x] = @ + 1]
  BY <1>1 DEF LockAgain, Cache
<1>9. d \in Cache
  <2>1. Cons(x, rest) \in Seq(Handle)
    BY <1>7 DEF Distinct
  <2>2. [c.dataLockFlag EXCEPT ![x] = @ + 1] \in [Handle -> Int]
    BY <1>1, ListLengths
  <2> QED
    BY <1>1, <2>1, <2>2 DEF LockAgain, Cache
<1> HIDE DEF d, rest
<1>10. ListsAgree(d)
  BY <1>2, <1>7, <1>8 DEF Distinct, ListsAgree
<1>11. IndexExact(d) /\ WithinCapacity(d)
  BY <1>1, <1>7, <1>8 DEF Distinct, IndexExact, WithinCapacity
<1>12. FlagsExact(d)
  <2> SUFFICES ASSUME NEW y \in Handle
               PROVE  IF y \in ToSet(d.lockedList) THEN d.dataLockFlag[y] > 0
                      ELSE d.dataLockFlag[y] = 0
    BY <1>9, LockedIsMember DEF FlagsExact
  <2>1. IF y \in ToSet(c.lockedList) THEN c.dataLockFlag[y] > 0
        ELSE c.dataLockFlag[y] = 0
    BY <1>1, LockedIsMember DEF FlagsExact
  <2> QED
    BY <1>1, <1>3, <1>8, <2>1, ListLengths
<1> QED
  BY <1>9, <1>10, <1>11, <1>12, AgreementGivesVictim DEF Sound, CacheOK, d

(* appendToCache() keeps a cache sound, whatever its contents. *)
LEMMA AppendKeepsSound ==
  ASSUME NEW c, NEW x \in Handle, Sound(c)
  PROVE  Sound(AppendToCache(c, x))
<1>1. CASE ~HasRoom(c)
  BY <1>1 DEF AppendToCache
<1>2. CASE HasRoom(c) /\ ~InCache(c, x)
  <2>1. AppendToCache(c, x) = PushLocked(MakeRoom(c), x)
    BY <1>2 DEF AppendToCache
  <2> QED
    BY <1>2, <2>1, MakeRoomIsReady, PushLockedIsSound
<1>3. CASE HasRoom(c) /\ InCache(c, x) /\ ~IsLocked(c, x)
  <2>1. AppendToCache(c, x) = PushLocked(Reclaim(c, x), x)
    BY <1>3 DEF AppendToCache
  <2> QED
    BY <1>3, <2>1, ReclaimIsReady, PushLockedIsSound
<1>4. CASE HasRoom(c) /\ InCache(c, x) /\ IsLocked(c, x)
  <2>1. AppendToCache(c, x) = IF CACHELOCK THEN LockAgain(c, x) ELSE c
    BY <1>4 DEF AppendToCache
  <2> QED
    BY <1>4, <2>1, LockAgainIsSound
<1> QED
  BY <1>1, <1>2, <1>3, <1>4

(* The flags are exact, but for x, whose last user is leaving. *)
FlagDown(c, x) ==
  CACHELOCK => /\ c.dataLockFlag[x] = 0
               /\ \A y \in Handle \ {x} :
                    IF IsLocked(c, y) THEN c.dataLockFlag[y] > 0
                    ELSE c.dataLockFlag[y] = 0

LEMMA ReleaseIsSound ==
  ASSUME NEW c \in Cache, NEW x \in Handle, ListsAgree(c), IndexExact(c),
         WithinCapacity(c), IsLocked(c, x), FlagDown(c, x)
  PROVE  Sound(Release(c, x))
<1> DEFINE d == Release(c, x)
<1>1. /\ IsInjective(c.handlesList) /\ IsInjective(c.lockedList)
      /\ IsInjective(c.unlockedList)
      /\ ToSet(c.lockedList) \cap ToSet(c.unlockedList) = {}
      /\ ToSet(c.handlesList) = ToSet(c.lockedList) \cup ToSet(c.unlockedList)
      /\ Len(c.handlesList) = Len(c.lockedList) + Len(c.unlockedList)
  BY DEF ListsAgree
<1>2. x \in ToSet(c.lockedList) /\ x \notin ToSet(c.unlockedList)
  BY <1>1, LockedIsMember
<1>3. Distinct(RemoveFirst(c.lockedList, x), Handle, ToSet(c.lockedList) \ {x},
               Len(c.lockedList) - 1)
  <2>1. c.lockedList \in Seq(Handle)
    BY ListLengths
  <2> QED
    BY <1>1, <1>2, <2>1, RemoveDistinct
<1>4. Distinct(Cons(x, c.unlockedList), Handle, ToSet(c.unlockedList) \cup {x},
               Len(c.unlockedList) + 1)
  <2>1. c.unlockedList \in Seq(Handle)
    BY ListLengths
  <2> QED
    BY <1>1, <1>2, <2>1, ConsDistinct
<1>5. /\ d.lockedList = RemoveFirst(c.lockedList, x)
      /\ d.unlockedList = Cons(x, c.unlockedList) /\ d.handlesList = c.handlesList
      /\ d.cacheHashMap = c.cacheHashMap /\ d.dataLockFlag = c.dataLockFlag
  BY DEF Release, Cache
<1>6. d \in Cache
  BY <1>3, <1>4 DEF Distinct, Release, Cache
<1> HIDE DEF d
<1>7. ListsAgree(d)
  <2>1. Len(d.handlesList) = Len(d.lockedList) + Len(d.unlockedList)
    <3>1. /\ Len(d.handlesList) = Len(c.handlesList)
          /\ Len(d.lockedList) = Len(c.lockedList) - 1
          /\ Len(d.unlockedList) = Len(c.unlockedList) + 1
      BY <1>3, <1>4, <1>5 DEF Distinct
    <3>2. Len(c.lockedList) \in Nat /\ Len(c.unlockedList) \in Nat
      BY ListLengths
    <3>3. \A m, n \in Nat : m + n = (m - 1) + (n + 1)
      OBVIOUS
    <3>4. Len(c.handlesList) = Len(c.lockedList) + Len(c.unlockedList)
      BY <1>1
    <3> QED
      BY <3>1, <3>2, <3>3, <3>4, Zenon
  <2>2. /\ ToSet(d.lockedList) = ToSet(c.lockedList) \ {x}
        /\ ToSet(d.unlockedList) = ToSet(c.unlockedList) \cup {x}
        /\ IsInjective(d.lockedList) /\ IsInjective(d.unlockedList)
    BY <1>3, <1>4, <1>5 DEF Distinct
  <2> QED
    BY <1>1, <1>2, <1>5, <2>1, <2>2 DEF ListsAgree
<1>8. IndexExact(d) /\ WithinCapacity(d)
  BY <1>5 DEF IndexExact, WithinCapacity
<1>9. FlagsExact(d)
  <2> SUFFICES ASSUME CACHELOCK, NEW y \in Handle
               PROVE  IF y \in ToSet(d.lockedList) THEN d.dataLockFlag[y] > 0
                      ELSE d.dataLockFlag[y] = 0
    BY <1>6, LockedIsMember DEF FlagsExact
  <2>1. y = x \/ (y \in ToSet(d.lockedList) <=> IsLocked(c, y))
    BY <1>3, <1>5, LockedIsMember DEF Distinct
  <2>2. x \notin ToSet(d.lockedList)
    BY <1>3, <1>5 DEF Distinct
  <2> QED
    BY <1>5, <2>1, <2>2 DEF FlagDown
<1> QED
  BY <1>6, <1>7, <1>8, <1>9, AgreementGivesVictim DEF Sound, CacheOK, d

(* unlockData() keeps a cache sound, also when x is not locked. *)
LEMMA UnlockKeepsSound ==
  ASSUME NEW c, NEW x \in Handle, Sound(c)
  PROVE  Sound(UnlockData(c, x))
<1> DEFINE low == LowerFlag(c, x)
<1>1. /\ c \in Cache /\ ListsAgree(c) /\ IndexExact(c) /\ WithinCapacity(c)
      /\ FlagsExact(c)
  BY DEF Sound, CacheOK
<1>2. CASE ~IsLocked(c, x)
  BY <1>2 DEF UnlockData
<1>3. CASE IsLocked(c, x) /\ ~CACHELOCK
  <2>1. UnlockData(c, x) = Release(c, x)
    BY <1>3 DEF UnlockData
  <2> QED
    BY <1>1, <1>3, <2>1, ReleaseIsSound DEF FlagDown
<1>4. CASE IsLocked(c, x) /\ CACHELOCK
  <2>1. UnlockData(c, x) = IF low.dataLockFlag[x] = 0 THEN Release(low, x) ELSE low
    BY <1>4 DEF UnlockData
  <2>2. /\ low \in Cache /\ low.handlesList = c.handlesList
        /\ low.lockedList = c.lockedList /\ low.unlockedList = c.unlockedList
        /\ low.cacheHashMap = c.cacheHashMap
        /\ low.dataLockFlag = [c.dataLockFlag EXCEPT ![x] = @ - 1]
    <3>1. low = [c EXCEPT !.dataLockFlag = [c.dataLockFlag EXCEPT ![x] = @ - 1]]
      BY <1>1 DEF LowerFlag, Cache
    <3>2. [c.dataLockFlag EXCEPT ![x] = @ - 1] \in [Handle -> Int]
      BY <1>1, ListLengths
    <3> HIDE DEF low
    <3> QED
      BY <1>1, <3>1, <3>2 DEF Cache
  <2> HIDE DEF low
  <2>3. ListsAgree(low) /\ IndexExact(low) /\ WithinCapacity(low) /\ IsLocked(low, x)
    BY <1>1, <1>4, <2>2 DEF ListsAgree, IndexExact, WithinCapacity, IsLocked
  <2>4. /\ low.dataLockFlag[x] >= 0 /\ low.dataLockFlag[x] \in Int
        /\ \A y \in Handle \ {x} : IF IsLocked(low, y) THEN low.dataLockFlag[y] > 0
                                     ELSE low.dataLockFlag[y] = 0
    BY <1>1, <1>4, <2>2, ListLengths DEF FlagsExact, IsLocked
  <2>5. CASE low.dataLockFlag[x] = 0
    BY <2>1, <2>2, <2>3, <2>4, <2>5, ReleaseIsSound DEF FlagDown
  <2>6. CASE low.dataLockFlag[x] # 0
    <3>1. FlagsExact(low)
      BY <2>3, <2>4, <2>6 DEF FlagsExact
    <3> QED
      BY <2>1, <2>2, <2>3, <2>6, <3>1, AgreementGivesVictim DEF Sound, CacheOK
  <2> QED
    BY <2>5, <2>6
<1> QED
  BY <1>2, <1>3, <1>4

(* eraseFromCache() keeps a cache sound: it refuses locked data. *)
LEMMA EraseKeepsSound ==
  ASSUME NEW c, NEW x \in Handle, Sound(c)
  PROVE  Sound(EraseFromCache(c, x))
<1>1. CASE ~EraseSucceeds(c, x)
  BY <1>1 DEF EraseFromCache
<1>2. CASE EraseSucceeds(c, x)
  <2> DEFINE d == EraseFromCache(c, x)
  <2>1. /\ c \in Cache /\ FlagsExact(c) /\ c.cacheHashMap = ToSet(c.handlesList)
        /\ Len(c.handlesList) <= cacheSize
    BY DEF Sound, CacheOK, IndexExact, WithinCapacity
  <2>2. /\ IsInjective(c.handlesList) /\ IsInjective(c.lockedList)
        /\ IsInjective(c.unlockedList)
        /\ ToSet(c.lockedList) \cap ToSet(c.unlockedList) = {}
        /\ ToSet(c.handlesList) = ToSet(c.lockedList) \cup ToSet(c.unlockedList)
        /\ Len(c.handlesList) = Len(c.lockedList) + Len(c.unlockedList)
    BY DEF Sound, CacheOK, ListsAgree
  <2>3. /\ x \in ToSet(c.handlesList) /\ x \in ToSet(c.unlockedList)
        /\ x \notin ToSet(c.lockedList)
    BY <1>2, <2>1, <2>2, LockedIsMember DEF EraseSucceeds, InCache
  <2>4. Distinct(RemoveFirst(c.handlesList, x), Handle, ToSet(c.handlesList) \ {x},
                 Len(c.handlesList) - 1)
    <3>1. c.handlesList \in Seq(Handle)
      BY <2>1, ListLengths
    <3> QED
      BY <2>2, <2>3, <3>1, RemoveDistinct
  <2>5. Distinct(RemoveFirst(c.unlockedList, x), Handle, ToSet(c.unlockedList) \ {x},
                 Len(c.unlockedList) - 1)
    <3>1. c.unlockedList \in Seq(Handle)
      BY <2>1, ListLengths
    <3> QED
      BY <2>2, <2>3, <3>1, RemoveDistinct
  <2>6. /\ d.handlesList = RemoveFirst(c.handlesList, x) /\ d.lockedList = c.lockedList
        /\ d.unlockedList = RemoveFirst(c.unlockedList, x)
        /\ d.cacheHashMap = c.cacheHashMap \ {x} /\ d.dataLockFlag = c.dataLockFlag
    BY <1>2, <2>1 DEF EraseFromCache, Cache
  <2>7. d \in Cache
    <3>1. c.cacheHashMap \ {x} \subseteq Handle
      BY <2>1, ListLengths
    <3> QED
      BY <1>2, <2>1, <2>4, <2>5, <3>1 DEF Distinct, EraseFromCache, Cache
  <2> HIDE DEF d
  <2>8. ListsAgree(d)
    <3>1. Len(d.handlesList) = Len(d.lockedList) + Len(d.unlockedList)
      <4>1. /\ Len(d.handlesList) = Len(c.handlesList) - 1
            /\ Len(d.unlockedList) = Len(c.unlockedList) - 1
            /\ Len(d.lockedList) = Len(c.lockedList)
        BY <2>4, <2>5, <2>6 DEF Distinct
      <4>2. Len(c.lockedList) \in Nat /\ Len(c.unlockedList) \in Nat
        BY <2>1, ListLengths
      <4>3. Len(c.handlesList) = Len(c.lockedList) + Len(c.unlockedList)
        BY <2>2
      <4> QED
        BY <4>1, <4>2, <4>3
    <3>2. /\ ToSet(d.handlesList) = ToSet(c.handlesList) \ {x}
          /\ ToSet(d.unlockedList) = ToSet(c.unlockedList) \ {x}
          /\ IsInjective(d.handlesList) /\ IsInjective(d.unlockedList)
      BY <2>4, <2>5, <2>6 DEF Distinct
    <3> QED
      BY <2>2, <2>3, <2>6, <3>1, <3>2 DEF ListsAgree
  <2>9. IndexExact(d)
    BY <2>1, <2>4, <2>6 DEF Distinct, IndexExact
  <2>10. WithinCapacity(d)
    <3>1. Len(c.handlesList) \in Nat
      BY <2>1, ListLengths
    <3> QED
      BY <2>1, <2>4, <2>6, <3>1, CacheAssumption DEF Distinct, WithinCapacity
  <2>11. FlagsExact(d)
    BY <2>1, <2>6, <2>7, LockedIsMember DEF FlagsExact
  <2> QED
    BY <2>7, <2>8, <2>9, <2>10, <2>11, AgreementGivesVictim DEF Sound, CacheOK, d
<1> QED
  BY <1>1, <1>2

LEMMA EmptyIsSound == Sound(EmptyCache)
<1>1. EmptyCache \in Cache
  BY DEF EmptyCache, Cache
<1>2. ListsAgree(EmptyCache) /\ IndexExact(EmptyCache)
  BY DEF EmptyCache, ListsAgree, IndexExact, IsInjective, ToSet
<1>3. WithinCapacity(EmptyCache) /\ FlagsExact(EmptyCache)
  BY CacheAssumption DEF EmptyCache, WithinCapacity, FlagsExact, IsLocked, Contains
<1> QED
  BY <1>1, <1>2, <1>3, AgreementGivesVictim DEF Sound, CacheOK
=============================================================================

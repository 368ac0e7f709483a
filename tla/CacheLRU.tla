------------------------------ MODULE CacheLRU ------------------------------
(***************************************************************************)
(* Class CacheLRU of cache.hpp: an L3 cache that holds whole handles       *)
(* (tiles), protects those in use with locks, and makes room by dropping   *)
(* the unlocked handle released least recently. The operators here map a   *)
(* cache to the cache each method leaves; see CacheLRUSpec for one cache   *)
(* in any use, and CommCache for the caches of a machine.                  *)
(***************************************************************************)
EXTENDS Integers, SequencesExt

CONSTANTS Handle,       \* the names of the data
          cacheSize,    \* handles per cache (architectureCacheSize())
          CACHELOCK     \* SOMP_CACHELOCK == 1: nested locks are counted

ASSUME CacheAssumption == cacheSize \in Nat \ {0} /\ CACHELOCK \in BOOLEAN

Cache == [handlesList  : Seq(Handle),      \* contents, most recently used first
          lockedList   : Seq(Handle),
          unlockedList : Seq(Handle),      \* most recently released first
          cacheHashMap : SUBSET Handle,    \* keys of the index of handlesList
          dataLockFlag : [Handle -> Int]]

EmptyCache == [handlesList |-> <<>>, lockedList |-> <<>>, unlockedList |-> <<>>,
               cacheHashMap |-> {}, dataLockFlag |-> [h \in Handle |-> 0]]

-----------------------------------------------------------------------------
InCache(c, x)  == x \in c.cacheHashMap
IsLocked(c, x) == Contains(c.lockedList, x)
HasRoom(c)     == Len(c.lockedList) < cacheSize

(* Mutants of Evict, Reclaim and Release: the index keeps the victim, the  *)
(* contents keep the old entry, a release goes to the wrong end.           *)
EvictButIndex(c) ==
  [c EXCEPT !.unlockedList = Front(@),
            !.handlesList = RemoveFirst(@, Last(c.unlockedList))]
ReclaimTwice(c, x) == [c EXCEPT !.unlockedList = RemoveFirst(@, x)]
ReleaseAsOldest(c, x) ==
  [c EXCEPT !.lockedList = RemoveFirst(@, x), !.unlockedList = Append(@, x)]

(* The victim is the last of the unlocked data; unlockedList must not be    *)
(* empty here (back() would be undefined).                                  *)
Evict(c) ==
  LET last == Last(c.unlockedList)
  IN  [c EXCEPT !.unlockedList = Front(@),
                !.handlesList = RemoveFirst(@, last),
                !.cacheHashMap = @ \ {last}]

(* A cached, unlocked handle leaves both lists before it is pushed again. *)
Reclaim(c, x) == [c EXCEPT !.unlockedList = RemoveFirst(@, x),
                           !.handlesList = RemoveFirst(@, x)]

PushLocked(c, x) ==
  [c EXCEPT !.lockedList = Cons(x, @),
            !.handlesList = Cons(x, @),
            !.cacheHashMap = @ \cup {x},
            !.dataLockFlag = IF CACHELOCK THEN [@ EXCEPT ![x] = 1] ELSE @]

LockAgainUncounted(c, x) ==             \* mutant: the flag is set, not raised
  [c EXCEPT !.dataLockFlag[x] = 1,
            !.handlesList = Cons(x, RemoveFirst(@, x))]

(* Another user of a locked handle. *)
LockAgain(c, x) ==
  [c EXCEPT !.dataLockFlag[x] = @ + 1,
            !.handlesList = Cons(x, RemoveFirst(@, x))]

MakeRoom(c) == IF Len(c.handlesList) = cacheSize THEN Evict(c) ELSE c

(* appendToCache: the cache it leaves, and the value it returns. *)
AppendToCache(c, x) ==
  CASE ~HasRoom(c) -> c
    [] HasRoom(c) /\ ~InCache(c, x) -> PushLocked(MakeRoom(c), x)
    [] HasRoom(c) /\ InCache(c, x) /\ ~IsLocked(c, x) -> PushLocked(Reclaim(c, x), x)
    [] HasRoom(c) /\ InCache(c, x) /\ IsLocked(c, x) ->
         IF CACHELOCK THEN LockAgain(c, x) ELSE c

AppendSucceeds(c, x) ==
  HasRoom(c) /\ (CACHELOCK \/ ~InCache(c, x) \/ ~IsLocked(c, x))

Release(c, x) == [c EXCEPT !.lockedList = RemoveFirst(@, x),
                           !.unlockedList = Cons(x, @)]

LowerFlag(c, x) == [c EXCEPT !.dataLockFlag[x] = @ - 1]

UnlockUnchecked(c, x) ==                \* mutant: the handle may be unlocked
  LET low == LowerFlag(c, x)
  IN  IF low.dataLockFlag[x] = 0 THEN Release(low, x) ELSE low

(* unlockData: with CACHELOCK, only the last user releases the handle. *)
UnlockData(c, x) ==
  LET low == LowerFlag(c, x)
  IN  CASE ~IsLocked(c, x)              -> c
        [] IsLocked(c, x) /\ ~CACHELOCK -> Release(c, x)
        [] IsLocked(c, x) /\ CACHELOCK  ->
             IF low.dataLockFlag[x] = 0 THEN Release(low, x) ELSE low

ErasesLocked(c, x) == InCache(c, x) /\ IsLocked(c, x)    \* mutant: swapped

(* eraseFromCache: the value it returns, and the cache it leaves. *)
EraseSucceeds(c, x) == InCache(c, x) /\ ~IsLocked(c, x)

EraseFromCache(c, x) ==
  IF EraseSucceeds(c, x)
  THEN [c EXCEPT !.unlockedList = RemoveFirst(@, x),
                 !.handlesList = RemoveFirst(@, x),
                 !.cacheHashMap = @ \ {x}]
  ELSE c
-----------------------------------------------------------------------------
(* The contents are the locked and the unlocked data, once each. *)
ListsAgree(c) ==
  /\ IsInjective(c.handlesList)
  /\ IsInjective(c.lockedList)
  /\ IsInjective(c.unlockedList)
  /\ ToSet(c.lockedList) \cap ToSet(c.unlockedList) = {}
  /\ ToSet(c.handlesList) = ToSet(c.lockedList) \cup ToSet(c.unlockedList)
  /\ Len(c.handlesList) = Len(c.lockedList) + Len(c.unlockedList)

IndexExact(c) == c.cacheHashMap = ToSet(c.handlesList)

WithinCapacity(c) == Len(c.handlesList) <= cacheSize

(* The flag of a handle counts its users: it is positive while the handle  *)
(* is locked and zero otherwise.                                           *)
FlagsExact(c) ==
  CACHELOCK => \A x \in Handle : IF IsLocked(c, x) THEN c.dataLockFlag[x] > 0
                                 ELSE c.dataLockFlag[x] = 0

(* back() at cache.hpp:76 is never called on an empty list. *)
VictimExists(c) ==
  HasRoom(c) /\ Len(c.handlesList) = cacheSize => c.unlockedList # <<>>

CacheOK(c) == /\ ListsAgree(c)
              /\ IndexExact(c)
              /\ WithinCapacity(c)
              /\ FlagsExact(c)
              /\ VictimExists(c)
=============================================================================

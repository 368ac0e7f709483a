---------------------------- MODULE CacheLRUSpec ----------------------------
(***************************************************************************)
(* One CacheLRU object under any sequence of calls of its methods. Tasks   *)
(* unlock data whether or not their append succeeded, so no order of calls *)
(* is excluded.                                                            *)
(***************************************************************************)
EXTENDS CacheLRU

CONSTANT MaxFlag         \* bound: calls of appendToCache on locked data

ASSUME MaxFlagAssumption == MaxFlag \in Nat

VARIABLES cache,
          releases       \* history: every handle ever released, latest first

vars == <<cache, releases>>

Init == cache = EmptyCache /\ releases = <<>>

AppendTo(x) == /\ cache.dataLockFlag[x] < MaxFlag
               /\ cache' = AppendToCache(cache, x)
               /\ UNCHANGED releases

Unlock(x) == /\ cache' = UnlockData(cache, x)
             /\ releases' = IF IsLocked(cache, x) /\ ~IsLocked(cache', x)
                            THEN Cons(x, RemoveFirst(releases, x)) ELSE releases

Erase(x) == /\ cache' = EraseFromCache(cache, x)
            /\ UNCHANGED releases

Next == \E x \in Handle : AppendTo(x) \/ Unlock(x) \/ Erase(x)

Spec == Init /\ [][Next]_vars
-----------------------------------------------------------------------------
TypeOK == /\ cache \in Cache
          /\ \A x \in Handle : cache.dataLockFlag[x] \in 0 .. MaxFlag
          /\ releases \in Seq(Handle)

(* The three lists, the index and the flags of a cache stay consistent     *)
(* whatever its users call (cache.hpp:65-189).                             *)
Consistent == CacheOK(cache)

(* The time of the latest release of a handle, as a position in releases:  *)
(* larger is longer ago.                                                   *)
Age(x) == CHOOSE n \in DOMAIN releases : releases[n] = x

(* What a handle that leaves the cache was: never locked; and when it made *)
(* room for another one, the one released longest ago of the data nobody   *)
(* uses (cache.hpp:73-81).                                                 *)
EvictsLeastRecentlyReleased ==
  [][\A v \in cache.cacheHashMap \ cache'.cacheHashMap :
       /\ ~IsLocked(cache, v)
       /\ cache'.cacheHashMap \ cache.cacheHashMap # {} =>
            \A u \in cache.cacheHashMap : ~IsLocked(cache, u) => Age(u) <= Age(v)]_vars

=============================================================================

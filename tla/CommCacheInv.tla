---------------------------- MODULE CommCacheInv ----------------------------
(***************************************************************************)
(* The inductive invariant behind the theorems of CommCacheProof.          *)
(***************************************************************************)
EXTENDS CommCache

(* A task has taken the handle and has yet to unlock it. *)
ToUnlock(k)  == {task[k][m].handle : m \in (unlocked[k] + 1) .. Len(task[k])}
Claims(k, h) == h \in Taken(k) \/ (pc[k] = "unlock" /\ h \in ToUnlock(k))
Claimants(n, h) == {k \in Core : CacheNum[k] = n /\ Claims(k, h)}

(* What is to be placed has a RAM node, and the tasks use such data only. *)
Located ==
  /\ \A k \in Core : \A h \in toPlace[k] : handlesLocationMap[h] # NoNode
  /\ \A k \in Core : scratchCpuHandle[k] => handlesLocationMap[ScratchOf(k)] # NoNode
  /\ \A k \in Core : \A h \in Data : h \in Uses(task[k]) => handlesLocationMap[h] # NoNode

(* The phases and the loop variables of a task. *)
PhasesAgree ==
  \A k \in Core :
    /\ IF pc[k] = "unlock" THEN unlocked[k] < Len(task[k]) ELSE unlocked[k] = 0
    /\ pc[k] \in {"place", "placed"} => \A m \in DOMAIN task[k] : task[k][m].mode # "A"
    /\ pc[k] = "place" => toPlace[k] \subseteq {LocalName(k, h) : h \in Uses(task[k])}

NewIsUncached ==
  \A h \in Data : handlesLocationMap[h] = NoNode => \A n \in Node : ~InCache(cache[n], h)

(* The locks of a cache are those of its tasks: some may have been refused, *)
(* or released too early, but none is left without a task.                  *)
LocksAreClaimed ==
  \A n \in Node : \A h \in Data :
    OfNodeZero(h) /\ IsLocked(cache[n], h) =>
      /\ Claimants(n, h) # {}
      /\ CACHELOCK => cache[n].dataLockFlag[h] <= Cardinality(Claimants(n, h))

NoConflict == Ordered => \A k, l \in Core : k # l => ~Conflict(task[k], task[l])

(* Caches and types first, then who may lock, then what this excludes. *)
CacheInv == TypeOK /\ CachesConsistent /\ Located /\ PhasesAgree
LockInv  == NewIsUncached /\ LocksAreClaimed
CommIInv == CacheInv /\ LockInv /\ NoConflict /\ (Ordered => WrittenHasOneCopy)

(***************************************************************************)
(* The flags as exact counts, as long as no lock has been refused, for     *)
(* tasks that have one access per handle.                                  *)
(***************************************************************************)
OncePerHandle(t) == \A m, n \in DOMAIN t : t[m].handle = t[n].handle => m = n

IsAllocation(t) == t # <<>> /\ t[1].mode = "A"

IsShape(t) ==
  /\ OncePerHandle(t)
  /\ IsAllocation(t) => \E h \in Data : t = <<[handle |-> h, mode |-> "A"]>>

TaskShapes ==
  \A k \in Core : IsShape(task[k]) /\ (pc[k] # "place" => toPlace[k] = {})

(* What a task holds is what it has taken and not unlocked: an allocation  *)
(* takes nothing.                                                          *)
HeldIsClaimed ==
  \A k \in Core : \A h \in Data : h \in held[k] <=> Claims(k, h) /\ ~IsAllocation(task[k])

FlagInv ==
  TaskShapes /\ (~refused => HeldIsClaimed /\ (CACHELOCK => FlagsCountHolders))

(***************************************************************************)
(* The sources. As long as no lock has been refused, every task that holds *)
(* a handle has a lock of its own on it, beside those that an allocation   *)
(* on another node or a scratch leaves behind. The statuses pushed so far  *)
(* are those of the first handles of the map.                              *)
(***************************************************************************)
Holders(n, h) == {k \in Core : CacheNum[k] = n /\ h \in held[k]}

Locks(c, h) ==
  IF ~IsLocked(c, h) THEN 0 ELSE IF CACHELOCK THEN c.dataLockFlag[h] ELSE 1

HoldersHaveLocks ==
  ~refused => \A n \in Node : \A h \in Handle :
                Cardinality(Holders(n, h)) <= Locks(cache[n], h)

SourceIsRight(k, h, source) ==
  /\ source.level = "RAM" => source = RAM(h)
  /\ source.level = "L3" => source.node # CacheNum[k]
  /\ source.level = "NULL" => refused \/ h \in held[k]

StatusOf(k) ==
  IF pc[k] \in {"place", "placed"}
  THEN /\ Len(cacheStatus[k]) = Cardinality(Taken(k))
       /\ \A h \in Taken(k) : \A g \in toPlace[k] : h < g
       /\ \A h \in Taken(k) :
            SourceIsRight(k, h, cacheStatus[k][PositionOf(k, h)].source)
  ELSE cacheStatus[k] = <<>>

StatusInv == \A k \in Core : StatusOf(k)
=============================================================================

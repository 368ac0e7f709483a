----------------------------- MODULE CommCache -----------------------------
(***************************************************************************)
(* The L3 caches of the machine under the tasks that run on its cores:     *)
(* commModelCacheFunction() (models/comm_cache.hpp), and the part of       *)
(* worker() (worker.hpp) and of scheduler() (scheduler.hpp) that decides   *)
(* which task that is.                                                     *)
(*                                                                         *)
(* A task takes its data one after the other, then its transfers start,    *)
(* and after its computation it unlocks them. SimGrid runs one actor at a  *)
(* time and switches only at its own calls: the tasks of other cores run   *)
(* between these phases, and not inside the first and the last (Quiet).    *)
(* How long the transfers take is in TaskModel.                            *)
(***************************************************************************)
EXTENDS CacheLRU

CONSTANTS nCaches,      \* caches (NUMA nodes) of the platform
          nCores,       \* workers
          CacheNum,     \* CacheNum[k]: the cache core k is on (cacheNum())
          Data,         \* the handles of the trace, numbered in string order
          Kernels,      \* the tasks: sequences of accesses
          AllocNodes,   \* per handle: the nodes its allocation task may run on
          Ordered,      \* the trace orders conflicting tasks by dependencies
          Queues,       \* submission queues the cache-aware scheduler may see
          MaxLocks      \* bound: flags of scratch handles, never unlocked

Node == 0 .. (nCaches - 1)
Core == 1 .. nCores

(***************************************************************************)
(* Kernels with a scratch buffer get the handle "myhandle" (worker.hpp),   *)
(* renamed to "myhandle-<cpu>" when the caches are looked at. These sort   *)
(* after the addresses that name data. Mode "A" stands for the one access  *)
(* of a memory allocation task, which the code knows by its name.          *)
(***************************************************************************)
MYHANDLE == 0
ScratchOf(k) == 100 + k

Mode   == {"R", "W", "RW", "S", "A"}
Access == [handle : Data, mode : {"R", "W", "RW", "A"}]
               \cup [handle : {MYHANDLE}, mode : {"S"}]

ASSUME CommAssumption ==
  /\ nCaches \in Nat \ {0} /\ nCores \in Nat
  /\ CacheNum \in [Core -> Node]
  /\ Data \subseteq 1 .. 99
  /\ Handle = Data \cup {ScratchOf(k) : k \in Core}
  /\ Kernels \subseteq Seq({a \in Access : a.mode # "A"})
  /\ AllocNodes \in [Data -> SUBSET Node]
  /\ Queues \subseteq Seq(Seq(Access)) \ {<<>>}   \* tested before the scan
  /\ Ordered \in BOOLEAN /\ MaxLocks \in Nat

NoNode == -1        \* a handle without an entry in handlesLocationMap
Idle == <<>>        \* the task of a core that has none

VARIABLES cache,              \* per node
          handlesLocationMap, \* per handle: the node that allocated it
          scratchCpuHandle,   \* per core: has its scratch handle a name yet?
          task,               \* per core: the accesses of the task it runs
          pc,                 \* per core: the phase of that task
          toPlace,            \* per core: handles its task has yet to take
          unlocked,           \* per core: accesses its task has unlocked
          cacheStatus,        \* per core: where each of its data comes from
          held,               \* history, per core: data its task has locked
          refused             \* history: has a cache ever refused a lock?

vars == <<cache, handlesLocationMap, scratchCpuHandle, task, pc, toPlace, unlocked,
          cacheStatus, held, refused>>

Phase == {"idle", "place", "placed", "fetch", "unlock"}

Init == /\ cache = [n \in Node |-> EmptyCache]
        /\ handlesLocationMap = [h \in Handle |-> NoNode]
        /\ scratchCpuHandle = [k \in Core |-> FALSE]
        /\ task = [k \in Core |-> Idle]
        /\ pc = [k \in Core |-> "idle"]
        /\ toPlace = [k \in Core |-> {}]
        /\ unlocked = [k \in Core |-> 0]
        /\ cacheStatus = [k \in Core |-> <<>>]
        /\ held = [k \in Core |-> {}]
        /\ refused = FALSE

(* No other actor is inside a loop that SimGrid cannot interrupt. *)
Quiet == \A k \in Core : pc[k] \notin {"place", "unlock"}
-----------------------------------------------------------------------------
Writes(mode) == mode \in {"W", "RW"}

Uses(t)    == {t[n].handle : n \in DOMAIN t}
Changed(t) == {t[n].handle : n \in {j \in DOMAIN t : t[j].mode \in {"W", "RW", "A"}}}

(* Two tasks the trace would order: one changes what the other uses. *)
Conflict(s, t) == \/ Changed(s) \cap Uses(t) # {}
                  \/ Changed(t) \cap Uses(s) # {}

MayStart(t) == Ordered => \A k \in Core : ~Conflict(t, task[k])

(* handleModeMap: std::map keeps the first mode given for a handle, and the *)
(* scratch goes by the name it has on this core.                            *)
SuffixedName(k, h) == ScratchOf(k)      \* mutant: all handles are renamed

LocalName(k, h) == IF h = MYHANDLE THEN ScratchOf(k) ELSE h

HandleModeMap(k, t) ==
  LET first(h) == CHOOSE n \in DOMAIN t :
                    t[n].handle = h /\ \A j \in 1 .. (n - 1) : t[j].handle # h
  IN  [x \in {LocalName(k, h) : h \in Uses(t)} |->
         IF x = ScratchOf(k) THEN "S" ELSE t[first(x)].mode]

-----------------------------------------------------------------------------
Copies(node, h) == {n \in Node \ {node} : InCache(cache[n], h)}

(* Mutant of Place: a writer erases other copies only when it has none. *)
PlaceErasingOnMiss(node, h, mode) ==
  [n \in Node |-> IF n = node THEN AppendToCache(cache[n], h)
                  ELSE IF Writes(mode) /\ ~InCache(cache[node], h)
                       THEN EraseFromCache(cache[n], h) ELSE cache[n]]

(* Mutant: a reader erases other copies as well. *)
PlaceErasingAlways(node, h, mode) ==
  [n \in Node |-> IF n = node THEN AppendToCache(cache[n], h)
                  ELSE EraseFromCache(cache[n], h)]

(* Whether the handle is a local hit, a distant hit or a miss, it is        *)
(* appended to the local cache; a writer then erases it from all others.    *)
Place(node, h, mode) ==
  [n \in Node |-> IF n = node THEN AppendToCache(cache[n], h)
                  ELSE IF Writes(mode) THEN EraseFromCache(cache[n], h) ELSE cache[n]]

(* The counter that is incremented, and where the datum comes from: the    *)
(* local cache, the cache of another node, or the RAM that allocated it.   *)
Local  == [level |-> "NULL", node |-> NoNode]
L3(n)  == [level |-> "L3", node |-> n]
RAM(h) == [level |-> "RAM", node |-> handlesLocationMap[h]]
Source == {Local} \cup [level : {"L3", "RAM"}, node : Node]
Status == [hit : {"localCacheHit", "distantCacheHit", "cacheMiss"}, source : Source]

(* Mutant of Fetch: nothing is pushed when the local lock is refused. *)
FetchUnlessRefused(node, h, mode) ==
  IF InCache(cache[node], h)
  THEN IF AppendSucceeds(cache[node], h)
       THEN {<<[hit |-> "localCacheHit", source |-> Local]>>} ELSE {<<>>}
  ELSE {<<[hit |-> "cacheMiss", source |-> RAM(h)]>>}

(* The first other cache in index order that has the handle. *)
FoundIn(node, h) == {n \in Copies(node, h) : \A j \in Copies(node, h) : n <= j}

(* What is pushed on cacheStatus for a handle. *)
Fetch(node, h, mode) ==
  IF InCache(cache[node], h)
  THEN {<<[hit |-> "localCacheHit",
           source |-> IF AppendSucceeds(cache[node], h) THEN Local ELSE RAM(h)]>>}
  ELSE IF Copies(node, h) = {} THEN {<<[hit |-> "cacheMiss", source |-> RAM(h)]>>}
  ELSE {<<[hit |-> "distantCacheHit",
           source |-> IF Writes(mode) /\ ~EraseSucceeds(cache[n], h) THEN RAM(h) ELSE L3(n)]>> :
          n \in FoundIn(node, h)}
-----------------------------------------------------------------------------
(* A memory allocation task: the handle, which a trace allocates once, gets *)
(* its RAM node; it is appended to cache 0 and unlocked in the local cache. *)
Allocate(k, h) ==
  LET t == <<[handle |-> h, mode |-> "A"]>> IN
  /\ Quiet /\ pc[k] = "idle"
  /\ CacheNum[k] \in AllocNodes[h]
  /\ handlesLocationMap[h] = NoNode
  /\ handlesLocationMap' = [handlesLocationMap EXCEPT ![h] = CacheNum[k]]
  /\ LET appended == [cache EXCEPT ![0] = AppendToCache(@, h)]
     IN  cache' = [appended EXCEPT ![CacheNum[k]] = UnlockData(@, h)]
  /\ task' = [task EXCEPT ![k] = t]
  /\ pc' = [pc EXCEPT ![k] = "fetch"]
  /\ UNCHANGED <<scratchCpuHandle, toPlace, unlocked, cacheStatus, held, refused>>

(* Any other task: handleModeMap is built, and the scratch renamed. Only   *)
(* tasks whose handles have all been allocated are looked at: what happens *)
(* to a task with another handle is in TaskModel.                          *)
StartTask(k, t) ==
  /\ Quiet /\ pc[k] = "idle"
  /\ \A h \in Uses(t) \ {MYHANDLE} : handlesLocationMap[h] # NoNode
  /\ MayStart(t)
  /\ MYHANDLE \in Uses(t) => cache[CacheNum[k]].dataLockFlag[ScratchOf(k)] < MaxLocks
  /\ task' = [task EXCEPT ![k] = t]
  /\ toPlace' = [toPlace EXCEPT ![k] = DOMAIN HandleModeMap(k, t)]
  /\ pc' = [pc EXCEPT ![k] = IF t = <<>> THEN "placed" ELSE "place"]
  /\ IF MYHANDLE \in Uses(t) /\ ~scratchCpuHandle[k]
     THEN /\ scratchCpuHandle' = [scratchCpuHandle EXCEPT ![k] = TRUE]
          /\ handlesLocationMap' =
               [handlesLocationMap EXCEPT ![ScratchOf(k)] = CacheNum[k]]
     ELSE UNCHANGED <<scratchCpuHandle, handlesLocationMap>>
  /\ UNCHANGED <<cache, unlocked, cacheStatus, held, refused>>

(* The next handle in the order of the map. *)
PlaceNext(k) ==
  LET node == CacheNum[k] IN
  /\ pc[k] = "place"
  /\ \E h \in toPlace[k] :
       LET mode == HandleModeMap(k, task[k])[h] IN
       /\ \A g \in toPlace[k] : h <= g
       /\ cache' = Place(node, h, mode)
       /\ \E s \in Fetch(node, h, mode) :
            cacheStatus' = [cacheStatus EXCEPT ![k] = @ \o s]
       /\ held' = IF AppendSucceeds(cache[node], h)
                  THEN [held EXCEPT ![k] = @ \cup {h}] ELSE held
       /\ refused' = (refused \/ ~AppendSucceeds(cache[node], h))
       /\ toPlace' = [toPlace EXCEPT ![k] = @ \ {h}]
       /\ pc' = [pc EXCEPT ![k] = IF toPlace[k] = {h} THEN "placed" ELSE "place"]
  /\ UNCHANGED <<handlesLocationMap, scratchCpuHandle, task, unlocked>>

(* The reads are submitted: cacheStatus is used, for the R and RW handles,  *)
(* and not needed any more.                                                 *)
StartReads(k) ==
  /\ Quiet /\ pc[k] = "placed"
  /\ pc' = [pc EXCEPT ![k] = "fetch"]
  /\ cacheStatus' = [cacheStatus EXCEPT ![k] = <<>>]
  /\ UNCHANGED <<cache, handlesLocationMap, scratchCpuHandle, task, toPlace, unlocked,
                 held, refused>>

Leave(k) == /\ pc' = [pc EXCEPT ![k] = "idle"]
            /\ task' = [task EXCEPT ![k] = Idle]
            /\ unlocked' = [unlocked EXCEPT ![k] = 0]
            /\ held' = [held EXCEPT ![k] = {}]

(* The transfers and the computation are over. *)
FinishTask(k) ==
  /\ Quiet /\ pc[k] = "fetch"
  /\ IF task[k] = <<>>
     THEN Leave(k)
     ELSE /\ pc' = [pc EXCEPT ![k] = "unlock"]
          /\ UNCHANGED <<task, unlocked, held>>
  /\ UNCHANGED <<cache, handlesLocationMap, scratchCpuHandle, toPlace, cacheStatus,
                 refused>>

LastUnlockedEarly(k) ==                 \* mutant: the last one is left out
  unlocked[k] + 1 >= Len(task[k]) - 1
LastUnlocked(k) == unlocked[k] + 1 = Len(task[k])

(* The handle of an access is unlocked, under the name it has in the task. *)
UnlockNext(k) ==
  LET h == task[k][unlocked[k] + 1].handle IN
  /\ pc[k] = "unlock"
  /\ cache' = [cache EXCEPT ![CacheNum[k]] = UnlockData(@, h)]
  /\ IF LastUnlocked(k)
     THEN Leave(k)
     ELSE /\ unlocked' = [unlocked EXCEPT ![k] = @ + 1]
          /\ held' = [held EXCEPT ![k] = @ \ {h}]
          /\ UNCHANGED <<pc, task>>
  /\ UNCHANGED <<handlesLocationMap, scratchCpuHandle, toPlace, cacheStatus, refused>>

Next == \E k \in Core : \/ \E h \in Data : Allocate(k, h)
                        \/ \E t \in Kernels : StartTask(k, t)
                        \/ PlaceNext(k)
                        \/ StartReads(k)
                        \/ FinishTask(k)
                        \/ UnlockNext(k)

Spec == Init /\ [][Next]_vars
-----------------------------------------------------------------------------
(* SOMP_SCHEDCACHE: the task of queue q that a worker of node n is sent.   *)
(* Workers have not added "myhandle" yet.                                  *)
GivenHandles(t) == {j \in DOMAIN t : t[j].mode # "S"}
Avail(t, n)     == Cardinality({j \in GivenHandles(t) : InCache(cache[n], t[j].handle)})
AllAvail(t, n)  == Avail(t, n) = Cardinality(GivenHandles(t))

BestOfLastEqual(q, n) ==                \* mutant: >= for >
  LET scan[m \in 0 .. Len(q)] ==
        IF m = 0 THEN [best |-> 0, bestavail |-> -1]
        ELSE IF Avail(q[m], n) >= scan[m - 1].bestavail
             THEN [best |-> m, bestavail |-> Avail(q[m], n)] ELSE scan[m - 1]
  IN  scan[Len(q)].best

Best(q, n) ==
  LET scan[m \in 0 .. Len(q)] ==
        IF m = 0 THEN [best |-> 0, bestavail |-> -1, found |-> FALSE]
        ELSE LET s == scan[m - 1] IN
             IF s.found THEN s
             ELSE IF AllAvail(q[m], n) THEN [s EXCEPT !.best = m, !.found = TRUE]
             ELSE IF Avail(q[m], n) > s.bestavail
                  THEN [s EXCEPT !.best = m, !.bestavail = Avail(q[m], n)] ELSE s
  IN  scan[Len(q)].best
-----------------------------------------------------------------------------
TypeOK == /\ cache \in [Node -> Cache]
          /\ handlesLocationMap \in [Handle -> Node \cup {NoNode}]
          /\ scratchCpuHandle \in [Core -> BOOLEAN]
          /\ task \in [Core -> Seq(Access)]
          /\ pc \in [Core -> Phase]
          /\ toPlace \in [Core -> SUBSET Handle]
          /\ unlocked \in [Core -> Nat]
          /\ cacheStatus \in [Core -> Seq(Status)]
          /\ held \in [Core -> SUBSET Handle]
          /\ refused \in BOOLEAN

(* The lists, index and flags of every cache stay consistent, however the  *)
(* tasks of several cores and nodes interleave on it.                      *)
CachesConsistent == \A n \in Node : CacheOK(cache[n])

(* The handles a running task has taken, and those of them it writes. *)
Taken(k)   == IF pc[k] \in {"place", "placed", "fetch"} /\ task[k] # <<>>
                 /\ task[k][1].mode # "A"
              THEN DOMAIN HandleModeMap(k, task[k]) \ toPlace[k] ELSE {}
Written(k) == {h \in Taken(k) : Writes(HandleModeMap(k, task[k])[h])}

NoOtherCopy(k, h) == \A n \in Node \ {CacheNum[k]} : ~InCache(cache[n], h)

(* While a task that writes a handle runs, no other cache holds a copy of  *)
(* it (comm_cache.hpp:164-174): the next reader elsewhere must fetch it.   *)
WriterIsAlone == \A k \in Core : \A h \in Written(k) : NoOtherCopy(k, h)

(* The same for the data that were allocated on node 0, whose cache the     *)
(* allocation locks and unlocks (comm_cache.hpp:25-27), even when locks of  *)
(* them have been refused and others' allocations left cache 0 locked.      *)
OfNodeZero(h) == h \in Data /\ handlesLocationMap[h] = 0

WrittenHasOneCopy ==
  \A k \in Core : \A h \in Written(k) : OfNodeZero(h) => NoOtherCopy(k, h)

(* A handle belongs to a task running on a core of the node.                *)
LockedInUse(n, h) ==
  \E k \in Core : CacheNum[k] = n /\ h \in {LocalName(k, x) : x \in Uses(task[k])}

(* Tasks that the trace does not order use the same data at once. Even then *)
(* a writer leaves a copy in another cache only where a running task uses   *)
(* it, so that its lock refuses the erase (comm_cache.hpp:101-175).         *)
WriterLeavesOnlyUsedCopies ==
  [][\A k \in Core : \A h \in Written(k)' \ Written(k) : OfNodeZero(h) =>
       \A n \in Node \ {CacheNum[k]} : InCache(cache'[n], h) => LockedInUse(n, h)']_vars

(* What a running task has locked stays locked in its cache, hence cannot  *)
(* be evicted, until the task unlocks it (cache.hpp:130-153).              *)
HeldStaysLocked ==
  \A k \in Core : \A h \in held[k] : IsLocked(cache[CacheNum[k]], h)

(* The flags are reference counts: as long as no lock has been refused, the *)
(* dataLockFlag of a handle is the number of running tasks of the node that *)
(* have locked it (cache.hpp:94,119,139).                                   *)
FlagsCountHolders ==
  ~refused => \A n \in Node : \A h \in Data : OfNodeZero(h) =>
     cache[n].dataLockFlag[h] = Cardinality({k \in Core : CacheNum[k] = n /\ h \in held[k]})

(* Only data in use are locked (comm_cache.hpp:258-262).                    *)
OnlyUsedIsLocked ==
  \A n \in Node : \A h \in ToSet(cache[n].lockedList) : LockedInUse(n, h)

LockedDataIsInUse ==
  \A n \in Node : \A h \in ToSet(cache[n].lockedList) : OfNodeZero(h) => LockedInUse(n, h)

(* The entry of cacheStatus that memOpCommR is given for a handle is the    *)
(* one pushed for it (comm_cache.hpp:203-212 counts along the map): RAM is  *)
(* the handle's own, and what is taken to be in the local cache is still    *)
(* there when the reads start - unless a task whose lock was refused has    *)
(* released it meanwhile.                                                   *)
PositionOf(k, h) == Cardinality({g \in DOMAIN HandleModeMap(k, task[k]) : g <= h})

SourcesAreRight ==
  \A k \in Core : pc[k] = "placed" =>
    /\ Len(cacheStatus[k]) = Cardinality(Taken(k))
    /\ \A h \in Taken(k) :
         LET from == cacheStatus[k][PositionOf(k, h)].source IN
         /\ from.level = "RAM" => from = RAM(h)
         /\ from.level = "L3" => from.node # CacheNum[k]
         /\ from.level = "NULL" => refused \/ InCache(cache[CacheNum[k]], h)

(* The cache a datum is to be read from may lose it before the read starts, *)
(* since the writes are awaited in between (comm_cache.hpp:139-151, 199):   *)
(* only by making room for another datum, never because a task erased it.   *)
ReadFrom(k, n) ==
  {h \in Taken(k) : /\ pc[k] \in {"place", "placed"}
                    /\ ~Writes(HandleModeMap(k, task[k])[h])
                    /\ cacheStatus[k][PositionOf(k, h)].source = L3(n)}

SourceLostOnlyByEviction ==
  [][\A k \in Core : \A n \in Node : \A h \in ReadFrom(k, n)' :
       InCache(cache[n], h) /\ ~InCache(cache'[n], h) =>
         cache'[n].cacheHashMap \ cache[n].cacheHashMap # {}]_vars

(* The cache-aware scheduler serves the first task of the queue whose data  *)
(* are all in the worker's cache, or else the first of those with the most  *)
(* data there (scheduler.hpp:66-90).                                        *)
ServesMostCached ==
  \A q \in Queues : \A n \in {CacheNum[k] : k \in {j \in Core : Quiet /\ pc[j] = "idle"}} :
    LET b == Best(q, n)
        first(S) == b \in S /\ \A m \in S : b <= m
        complete == {m \in DOMAIN q : AllAvail(q[m], n)}
        fullest  == {m \in DOMAIN q : \A j \in DOMAIN q : Avail(q[j], n) <= Avail(q[m], n)}
    IN  IF complete # {} THEN first(complete) ELSE first(fullest)
=============================================================================

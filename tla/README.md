# A TLA+ model of sOMP

sOMP replays the trace of a task-based OpenMP run on a simulated NUMA machine
(SimGrid/S4U). A *scheduler* actor hands the tasks of the trace to one *worker*
actor per simulated core; a worker lets simulated time pass according to a
performance model (kernel times, communications, an L3 cache per NUMA node),
then activates the successors of its task. Everything below refers to `src/src`
(the C++ program, about 1900 lines of live code); `src/src/headers/deprecated`
is not compiled in.

## 1. Inventory

| component (source) | state | operations | hard behaviours | what makes it correct |
|---|---|---|---|---|
| scheduler: `master()` (main.cpp), `scheduler()` (scheduler.hpp) | `submissionQueue`, `taskCounter`, `workerState`, the mutex, two condition variables | queue the first tasks, scan the workers and dispatch, sleep, kill the workers | unlocked read of the queue (37), a wait without predicate (117), put on a mailbox with the mutex held (100) | no lost wake-up, no idle core beside queued work, every task sent once, end tasks last |
| workers: `worker()` (worker.hpp) | mailbox, `taskReadySignal` of the successors, `workerState` | receive, run a model, activate successors one lock at a time, signal ready | interleaving of several workers' activations, notifications to nobody | a task is queued exactly when its last dependency is done |
| task graph: `taskPopulating()`, `successorsMap` (common.hpp, main.cpp) | `aTask`, `successorsMap`, `tasksMap` | build from the parsed arrays | cycles, unknown and repeated JobIds, the first record's list is overwritten | the signals count exactly the entries of the multimap |
| LRU cache: `CacheLRU` (cache.hpp) | `handlesList`, `lockedList`, `unlockedList`, `cacheHashMap`, `dataLockFlag` | append, unlock, erase, query | full cache, all data locked, nested locks | lists and index agree, only unlocked data are evicted, a victim always exists |
| cache model: `commModelCacheFunction` (comm_cache.hpp) | the caches of all nodes, `handlesLocationMap`, `scratchCpuHandle`, `cacheStatus` | place the data of a task one by one, decide where each comes from, unlock | tasks of several cores share a cache; a lock is taken in one cache and released in another, or refused; a source may be gone when it is read | a written handle is in no other cache, nothing stays locked without a task, each datum is fetched from where it was found |
| transfers: `memOpCommR/W` (memopcomm.hpp), the waits of comm_cache.hpp | the pending execs of a task, the clock readings | start, await at the place the options name | five waits that move with `SERIALRW` and `OVERLAPR` | data are unlocked only when all transfers are over, and the task takes the time it should |
| communication model: `commModelFunction` (comm.hpp) | pending transfers | one or two transfers per access, then sleep | a handle without location | a task goes astray exactly if a handle of it was not allocated before, or is the scratch |
| kernel times: `sleeper` (sleep.hpp), `leastTime` (time.hpp), `kernelAverageParser` | tables of times | choose a sleeping time, subtract the overlap | missing lines, division by CPS, decimal comma | no task is slower than its trace; the line read is that of the workers on the socket |
| trace parser: `recFileParser` (rec_parser.hpp) | parsed arrays, per-field counters | one step per line | keys it does not know, repeated keys, missing final blank line, consecutive blank lines | record i of every array is record i of the file |
| platform parser: `xmlParser` (xml_parser.hpp) | `machines`, `cacheList`, `ramList`, `nCaches`, `realCacheSize` | parse | nesting depth, properties by position, hosts by first letter | the memory hosts of a worker are those of its zone |
| affinity: `cpuAffinity` (affinity.hpp), `cacheNum` | `usedMachines`, `workerState` | create workers, map a core to its cache | sizes that do not divide, cores left over | nMachines distinct workers where no core is left over, spread evenly |
| options: `main()` (main.cpp), `architectureCacheSize` (common.hpp) | the global options | read the environment, parse and validate the command line | unset variables, repeated options, -1 as an unsigned number, overflow of a tile | the workers run on every valid input, and on no other |

### How the components interact

`main()` parses the options, the platform (`xmlParser`), the trace
(`recFileParser`), and builds the task graph (`taskPopulating`); then it starts
the SimGrid engine with one scheduler actor. `master()` creates the workers
(`cpuAffinity`), fills `successorsMap` and `submissionQueue`, and calls
`scheduler()`. From there on two kinds of actors share global state:

- the scheduler sends a task through the *mailbox* of a worker (a rendezvous:
  `put` returns when `get` has it) while it holds the *mutex*;
- a worker that has finished a task lowers `taskReadySignal` of its successors,
  pushes those that reach 0 on `submissionQueue` and notifies `condVarTaskReady`,
  one mutex section per successor; then it sets its `workerState` and notifies
  `condVarWorkerReady`, in one more section;
- between receiving a task and activating its successors, a worker runs a
  performance model. `commcache` is the one with state: it places the handles of
  the task in the `CacheLRU` of the node, starts and awaits SimGrid transfers,
  sleeps for the kernel's time, and unlocks the handles. The caches are shared by
  all workers and are not protected by the mutex.

SimGrid runs one actor at a time and switches only inside its own calls, so the
unit of atomicity is the code of an actor between two such calls. What is hard
is therefore not data races but *stale knowledge across a blocking call*: a
queue size read before a lock, a wait without predicate, a lock on a cache entry
taken before a transfer and given back after it while other tasks have come and
gone.

## 2. Modules

| module | code | state | what it is for |
|---|---|---|---|
| `TaskGraph` | `taskPopulating()`, `successorsMap` | none (operators on a trace) | the dependencies a trace gives, edge by edge |
| `TaskExecution` | - (abstract) | `trace`, `status` of each task | what the scheduler promises: each task once, after its predecessors, at most `nMachines` at a time |
| `Scheduler` | `master()`, `scheduler()`, `worker()` | the globals they share, one program counter per actor | the protocol; implements `TaskExecution` |
| `SchedulerInv`, `SchedulerProof` | - | - | inductive invariants and their proofs: first the protocol of the mutex and the condition variables, then what becomes of the tasks |
| `CacheLRU` | class `CacheLRU` | none (a cache is a record; each method an operator) | shared by the next two |
| `CacheLRUSpec` | one `CacheLRU` object | `cache`, and the history `releases` | any sequence of calls of its methods |
| `CacheLRULemmas`, `CacheLRUProof` | - | - | what each method preserves; the theorems about one cache |
| `CommCache` | `commModelCacheFunction()` before and after the transfers, the allocation branch, the choice of `SOMP_SCHEDCACHE` in `scheduler()` | the caches of all nodes, `handlesLocationMap`, `scratchCpuHandle`, `cacheStatus`, the task and phase of every core | the tasks of all cores on the caches of all nodes |
| `CommCacheInv`, `CommCacheProof`, `CommFlagsProof` | - | - | inductive invariants and their proofs |
| `KernelTimes` | `mainKernels`, the tables, `leastTime()`, the choice in `sleeper()` | none (operators) | how long a kernel computes |
| `TaskModel` | `worker()` between receiving a task and activating its successors: the four models, `memOpCommR/W`, `sleeper()` | the transfers of one task, the clock and its readings | all options, tables and completion orders |
| `TaskModelProof` | - | - | inductive invariants of `TaskModel`, of its transfers and of its clock, and their proofs |
| `RecParser` | `recFileParser()` | the parsed arrays and their counters | any file of lines |
| `RecParserProof` | - | - | inductive invariant of `RecParser` and its proof |
| `XmlParser` | `xmlParser()` | none (operators on a file) | what a platform file gives |
| `Affinity` | `cpuAffinity()`, `cacheNum()` | the loop variables, `usedMachines`, `workerState` | which cores get a worker; its actions are steps of `Startup` |
| `Startup` | `main()`, the beginning of `master()`, of `scheduler()` and of `worker()` | options, platform, caches' size, receiver maps, the workers that run | from a command line to workers waiting for a task; composes `XmlParser`, `Affinity` and `KernelTimes` |
| `StartupProof` | - | - | inductive invariant of `Startup` and `Affinity`, and its proof |

The `MC*` modules only define the constants of the runs.

**Scheduler.** Variables keep the names of the code. Locations of the scheduler
(`schedPc`) and of each worker (`pc`) stand for the code between two SimGrid
calls: `"inner"` is the unlocked test of `submissionQueue.size()`
(scheduler.hpp:37), `"scan"` the loop over `workerState` under the mutex, `"put"`
the blocking `put` with the mutex held, `"wait"` the unconditional
`condVarWorkerReady->wait`, `"check"` the loop around `condVarTaskReady->wait`. A
condition variable is the location of its only waiter; a notification moves the
scheduler from `waitX` to a location where it contends for the mutex again, and
does nothing if it is elsewhere. Workers are numbered in the order of the
`workerState` map; `usedMachines` is the order in which they were created, which
differs ("CPU-10" sorts before "CPU-2") and which the kill loop follows. With
`SCHEDCACHE` the task taken is any of the queue: the choice depends on the
content of a cache, and the properties here must hold for every choice.

**CacheLRU.** `handlesList`, `lockedList` and `unlockedList` are sequences, front
first; `cacheHashMap` is the set of its keys. `AppendToCache`, `UnlockData` and
`EraseFromCache` map a cache to the cache the method leaves, with the result
value as a predicate (`AppendSucceeds`, `EraseSucceeds`).

**CommCache.** The phase `pc` of a core is where its worker is in the function.
`StartTask` builds `handleModeMap` (97), `PlaceNext` is one turn of the loop over
it (101-175), `StartReads` is the point where `cacheStatus` is used (203-212),
`UnlockNext` one turn of the loop of lines 259-262. SimGrid cannot switch inside
the two loops, but it can between them, when the writes are awaited: `Quiet` says
that no core is inside a loop, and every action but a loop's next turn needs it.
`Place` maps the caches to those a turn leaves; `Fetch` gives the counter it
increments and the source it pushes. The search of other caches is the first one
in index order (`FoundIn`). `Allocate` is the memory allocation branch: its append
to `cache[0]` and unlock in `cache[localNode]` come before the transfer. `Best` is
the scan of the submission queue with `SOMP_SCHEDCACHE` (scheduler.hpp:56-97); the
protocol around it is `Scheduler`, which lets any task be chosen. Handles are
numbered in string order because `handleModeMap` is a `std::map`; the scratch
handles sort last. `Ordered` says whether the trace orders conflicting tasks; the
16384 Cholesky trace under `examples/` has no dependencies at all. Tasks are taken
to have a name, as all recorded tasks do, and to use handles that a task has allocated
before: `StartTask` has that as a guard, since the lookup of another handle follows an
end iterator, and what happens then is `TaskModel`'s subject. `held` and `refused` are history
variables the properties need.

**TaskModel.** One task. An action is the code between two blocking calls; a wait
has the guard that all transfers of its vector have completed, under the option
that makes the code wait there. Time passes (`Tick`) and transfers complete
(`Complete`) only while the worker is blocked or asleep, since nothing else takes
simulated time. `clock` counts tenths of a millisecond, so that a ratio with one
decimal is exact; `Atof` reads the digits before a decimal comma only. Where the
code dereferences `end()` or divides by zero the task is `"undefined"`. What
`cacheStatus` is, is decided in `CommCache`; here any value for any access is an input.
A task has one access per handle, as `handleModeMap` does (`Different`). `located` is the
set of handles with an entry in `handlesLocationMap`: those that earlier tasks have
allocated (any set, an input), and what the task enters itself, which is the handle of
an allocation (worker.hpp:87) or the scratch of a core (comm_cache.hpp:94). The lookups are
those the code makes (`LookedUp` before the writes, and every read before the reads):
a handle without an entry makes the task `"undefined"`, and so does an allocation
without a handle, whose `handle.at(0)` throws an exception nobody catches. The property
`AstrayIffLacking` says exactly which tasks these are, from their inputs alone.

**RecParser.** One action per kind of line; `"overruns"` and `"hangs"` are the
outcomes where the code writes past an array (a record the first pass did not
count) or spins in `while (handleCounter != counter)`. A line whose key the code
compares with nothing (`OtherKey`), such as the `MData` of the example traces, is passed over.

**Startup.** Each of the checks of `main()` is a conjunct of the action for its
part of the program: `ReadEnvironment` (114-128), `ParsePlatform`, `ParseOptions`
(the last value of an option counts, and -1 threads are a huge number),
`CheckOptions`, `ReadTables`, `CreateCaches`. Then `CreateWorker` is one turn of the
loops of `cpuAffinity()` (the `goto` is the `LastCore` test), and every worker that
exists may run up to its first `get()` in between (`StartWorker`), since creating
an actor is a SimGrid call. `"throws"` and `"aborts"` are ends the program chose;
`"undefined"` is one it did not. A platform file is the tree of its zones, with the
properties by position and the hosts by first letter, as the parser takes them.
An option's value is an int, as `atoi()` gives, or one of the words `main()` compares
with, or `"other"`.

## 3. Runs

| run | instance | states | what it shows |
|---|---|---|---|
| `scheduler_protocol` | every acyclic graph of 4 records, 3 workers created in reverse order, any queue position served | 232 749 | no lost wake-up on either condition variable, no core idle beside queued work, the counter never forgets a task, the end message comes last, refinement of `TaskExecution`, the invariant of the proof |
| `scheduler_termination` | 3 records with any lists of at most two JobIds (cycles, repetitions, an unknown JobId), 2 workers, fair | 39 641 | the simulation ends if the dependencies can be satisfied, and only then |
| `cache_counted` | 4 handles, a cache of 3, flags up to 2 | 42 349 | lists, index and flags agree; a victim exists; the evicted handle is the one released longest ago |
| `placement` | Cholesky kernels of up to three accesses, 3 cores on 2 caches of 2 entries, 3 data of which one may be allocated on any node | 327 691 | locks are refused and data evicted; a datum that is written has one copy; flags count the tasks that hold a datum until a lock is refused; each datum is fetched from where it was found, and a source is lost only by eviction; the cache-aware scheduler serves the task with most data |
| `unordered_tasks` | tasks of a reader, a writer and a `dtrsm` with no order between them, 3 cores on 2 caches of 2 entries, data of node 0 | 906 708 | locks are refused and data evicted; nothing stays locked without a running user; a writer leaves a copy in another cache only where a running task uses it |
| `task_models` | up to two accesses of any mode, allocated before or not, all options, five ratios, traces of three tasks, tables of up to four lines, fair | 228 874 | data are unlocked only when all transfers are over; a task takes the time its transfers and kernel account for; it ends, and goes astray exactly if it lacks a handle, an allocation or a line |
| `trace_files` | every file of up to 6 lines over one scalar key, two list keys and one unknown | 91 537 | entry r of every array is record r's field; the parser goes astray only on an unclosed last record or a repeated list |
| `startup` | platforms of up to 9 cores and 4 caches in up to 3 zones, every number of threads; files, command lines and environments that lack something, fair | 59 061 | as many workers as threads run on every valid input, and none on any other; they are distinct, spread evenly, and next to their memory hosts |
| `refused_lock` | two accesses per task, caches of 2 | violation | see below |
| `alloc_elsewhere` | allocations on node 1 as well | violation | see below |
| `scratch_leak` | QR kernels | violation | see below |
| `overlap_ratio` | the options of `sOMP_env_variables.sh` | violation | see below |

**The four disagreements.**

1. `refused_lock`: `appendToCache()` refuses any lock once all entries are locked
   (cache.hpp:68), the callers ignore it, and the refused task later unlocks the
   handle. The flag of another task that does hold it goes down, and the datum is
   released under that task, although cache.hpp:140 says "Only release if all
   flags down".
2. `alloc_elsewhere`: an allocation locks its handle in `cache[0]` and unlocks it in
   `cache[localNode]` (comm_cache.hpp:25-27). On another node the handle stays
   locked in cache 0, where later writers cannot remove it
   (`// If handle found, remove handle from other caches`, comm_cache.hpp:164).
3. `scratch_leak`: the scratch handle is appended as `myhandle-<cpu>` and unlocked
   as `myhandle` (comm_cache.hpp:88-95, 259-262): each core that runs a QR kernel
   costs its cache one entry for good, against "Unlock data in cache" (258).

4. `overlap_ratio`: the script exports `SOMP_OVERLAPRATIO=0,6` beside
   `SOMP_OVERLAP=1` (sOMP_env_variables.sh:3,9). `atof()` (main.cpp:116) reads in the C
   locale, which the program never leaves, so the ratio is 0 and nothing is
   overlapped.

Two more faults of the start are inputs of `startup`, which no `GoodInput` is and which
its properties name:

- A platform with fewer memory hosts than caches. `worker()` takes one of each per
  cache without a test (worker.hpp:36-37), and the first worker indexes past their end
  (`AstrayOnlyOnBadInput`). `amd_epyc_7452.xml`, which the example command uses
  (README.md:34), is such a platform: it declares 16 caches and no memory hosts.
- Cores left over. `spread` deals out machines / nCaches cores of every cache
  (affinity.hpp:17) and no others, so three threads on three cores and two caches are
  two workers, although `-t` is the "Number of threads/cores" (help.hpp:23) and
  main.cpp:232 accepted it; the kill loop (scheduler.hpp:130-132) then reads
  `usedMachines` past its end. `EveryWorkerOnce` counts the workers there are,
  `RunsGoodInput` demands as many as threads everywhere else (`CoresLeftOver`).

Besides these, `help.hpp:18,25-27` names an option `gemm` and an order of the
arguments that `main()` does not have (main.cpp:209-222); its text is not modelled.

The properties `WrittenHasOneCopy`, `LockedDataIsInUse` and `FlagsCountHolders`
speak of data allocated on node 0, and the last one of the time before a lock is
refused: elsewhere the first two disagreements break them. `placement` has both
kinds of data at once, and refused locks. Without an order
between the tasks `FlagsCountHolders` and `SourcesAreRight` do not hold: the unlock
that ends an allocation (comm_cache.hpp:258-262), the second of its datum, lowers the
lock of a task that already uses it. They need the order, and their theorems assume it.

**Bounds, and why they are enough.** Three workers are the fewest with one
before, one at and one behind the scan's iterator; four records give chains,
forks, joins and a diamond, and two predecessors of one task finishing at the
same time on two workers beside a third. A cache of three with four handles has
evictions with locked, unlocked and reclaimed entries at once; `MaxFlag = 2` has a
lock on a lock, and the theorems below lift all three bounds. In `placement`, two cores
that share a cache and one that has its own are the smallest machine with nested
locks, a distant hit and copies in another cache, and a cache smaller than a
`dgemm`'s three data is the smallest one that refuses locks. `MaxLocks` bounds only
the flags of scratch handles, which are never lowered; `placement` has none.
`MaxTime` bounds the clock while a task waits for transfers: it arrives at 1 ms and may
wait up to 3 ms (`MaxTime` = 4), against kernels of up to 3 ms, so either may be the longer. The options `SERIALRW` and `OVERLAPR` have
the values 0, 1 and one other: the code tells no more apart. In `startup`, `MaxSize`
and `MaxCaches` are the cores and caches of a zone; an int has `IntWidth` = 8 bits,
so that tiles of 4 to 40 elements reach the sign bit, a wrap to a positive number
and a wrap to 0, and an unsigned long has `LongWidth` = 12. The theorems of
`StartupProof` lift all four. Six lines hold
three records, or two with a missing field and a repeated one.

**Deadlock** is checked except where the program stops by design: a trace that cannot be
satisfied puts the scheduler to sleep for ever (`scheduler_termination`), a parsed file
(`trace_files`), a task that ended (`task_models`, `overlap_ratio`), a program that
refused its input or whose workers wait for tasks that are not part of the model
(`startup`).

**Fairness.** `Scheduler!FairSpec` is weak fairness of each actor's next step:
the engine resumes every actor whose call can return and only stops when none
can, and every simulated activity has a finite duration. `TaskModel!FairSpec` is
weak fairness of the task and of the completion of transfers, for the same
reason; `Startup!FairSpec` only says that the program goes on. Nothing else is
assumed; in particular no order among actors contending for the mutex (SimGrid's
is FIFO, which is stronger).

## 4. Proofs

Assumptions are the named `ASSUME`s on the constants, nothing else. All theorems
hold for any number of tasks, workers, handles and cache entries.

**`SchedulerProof`**

- `SchedulerTypeOK` — the type invariant. It needs one fact besides: the
  scheduler scans for a worker only with a task in the queue (`QueueInv`), since it
  pops without looking.
- `ProtocolInvariant` — `ProtocolIInv` is inductive: who holds the mutex is
  determined by the locations (`MutexInv`), so no worker changes `workerState` or
  the queue during a scan; a worker marked ready has nothing left to do and one
  marked busy still has its final notification ahead (`ReadyInv`); the scan has
  established what it needs before the scheduler sleeps (`ScanInv`); the kill loop
  joins the workers one by one (`KillInv`).
- `WorkerWakeupIsNeverLost` — the wait without a predicate (scheduler.hpp:117)
  is always followed by a notification. It follows from `ScanInv`: the scheduler
  reaches the wait only past a worker marked busy, and by `ReadyInv` this one will
  notify; the mutex is held from the scan to the wait, so it cannot have notified
  already.
- `SchedulerIsWorkConserving` — it does not sleep beside a ready worker and a
  queued task, unless a worker is about to wake it.

Then what becomes of the tasks, for every trace: acyclic or not, with unknown or
repeated JobIds

- `SchedulerInvariant` — `SchedulerIInv`. A task is in one place: it waits, is in
  the queue once, is being put, or is with one worker (`PlaceInv`). A worker has
  visited the entries of its task's range of `successorsMap` that its loop is past;
  `Pending(t)` are the entries of `t` that nobody has visited. The signal of a task
  is their number if JobIds are unique, and at most that number otherwise, since an
  entry may then be visited twice (`SignalInv`). The counter is the length of the
  queue plus the tasks that wait, those the first loop has not seen and the one
  being put (`CountInv`). Tasks that wait for each other are never submitted
  (`BlockedInv`).
- `CounterForgetsNoTask` and `EndTasksComeLast` — for every trace. When the counter
  is 0 every task has been sent; a worker receives its end only after its last
  activation.
- `TaskWakeupIsNeverLost` — if the trace is `Completable`. If no worker were busy while
  the scheduler sleeps with tasks left, all signals left would count entries of tasks
  that are left themselves: these tasks would wait for each other. Without the
  hypothesis the scheduler may sleep for ever, as `scheduler_termination` shows.
- `OnlyCompletableTracesEnd` — with unique JobIds, by `BlockedInv`: in the kill loop
  no task waits, so no set of tasks waits for itself.
- `SchedulerRefinesTaskExecution` — with unique JobIds, every step of the protocol is
  a step of `TaskExecution` or leaves its variables alone. A task is sent from the
  queue, where its signal is 0 and `SignalInv` says that all its predecessors are done;
  the bound on running tasks is the number of workers that hold one. With repeated
  JobIds a task may indeed start early.

**`CacheLRUProof`** (over `CacheLRULemmas`)

- `CacheStaysConsistent` — `Consistent` is inductive together with the type of
  the cache (`Sound`). The lemmas first say what `Cons`, `Front` and `RemoveFirst` do to
  length, elements and order of a list without repetition (`Distinct`); then one
  lemma per method shows that it keeps a cache sound. That `back()` at
  cache.hpp:76 has an element follows from the lengths alone
  (`AgreementGivesVictim`): full, not all locked, and contents = locked + unlocked.
- `EvictionIsLeastRecentlyReleased` — by the invariant `OrderInv`: the unlocked
  data are listed in the order of their latest releases. A release puts a handle
  in front of both lists, and removing one keeps the order of the others.
- `CacheTypeOK` — types and range of the flags.

**`CommCacheProof`** (over `CacheLRULemmas`), for every machine, set of data, set of
kernels, queue and cache size

- `CommCacheTypeOK` — each action applies methods of
  `CacheLRU` to some caches, and the lemmas say that a method keeps a cache sound.
  Typing `cacheStatus` needs that a handle about to be placed has a RAM node
  (`Located`), and typing the unlock loop that its counter is below the length of
  the task (`PhasesAgree`). Together these are `CacheInv`.
- `LocksAreOfRunningTasks` — `LockedDataIsInUse`. A claimant of a datum is a task
  that has taken it and has yet to unlock it. `LocksAreClaimed` says that a locked
  datum of node 0 has a claimant on that node, and that its flag is at most the
  number of claimants: a refused lock makes a claimant without a flag, an unlock
  removes both, so the bound survives what breaks the equality. Since the flag
  is at most the number of claimants, the unlock of the last claimant finds a flag
  of at most 1 and releases the datum. `NewIsUncached` gives the start: a datum
  is locked nowhere before its allocation.
- `WritersHaveTheOnlyCopy` — `Ordered => WrittenHasOneCopy`. When a writer places its
  datum, the copy in another cache is not locked: a lock would have a claimant by
  `LocksAreClaimed`, hence a running task that conflicts with the writer
  (`NoConflict`). So the erase succeeds everywhere; and while the writer runs no
  other task places the datum.
- `WritersEraseUnusedCopies` — `WriterLeavesOnlyUsedCopies`, with or without an order.
  Only a turn of the placement loop adds to what a task has written
  (`OthersWriteNoMore`); `eraseFromCache` fails only on a locked datum
  (`EraseEffect`), which by `LocksAreClaimed` a running task of that node uses.

`CommIInv` is the conjunction of all these and is inductive.

**`CommFlagsProof`** (over `CommCacheProof`), with ordered conflicts

- `FlagsAreReferenceCounts` — `FlagsCountHolders`, with `SOMP_CACHELOCK` and tasks that
  access each handle once: an equality where `LocksAreClaimed` has a bound. As long as
  no lock has been refused, what a task holds is what it has taken and not unlocked
  (`HeldIsClaimed`), except for an allocation, which holds nothing. A granted lock
  raises one flag and one `held`; an unlock lowers both, since the flag is positive
  when the datum is held. The unlock that ends an allocation lowers nothing: by
  `NoConflict` no other task uses the datum, so it is not locked. The hypothesis on
  handles is needed: a second entry of a handle would be unlocked twice (`TaskShapes`).
- `SourcesStayRight` — `SourcesAreRight`, with either value of `SOMP_CACHELOCK`, for all
  data and the scratch handles. `HoldersHaveLocks` is a bound the other way: a cache has
  at least as many locks of a handle as tasks that hold it; a lock left behind by an
  allocation on another node or by a scratch does no harm to it. Hence what a task took
  to be in the local cache is locked there, so it is neither evicted nor erased before
  the reads start. Without counted locks a lock on a locked datum is itself refused, so
  the bound of one lock is enough. `StatusInv` says that the statuses pushed so far are
  those of the first handles of the map, which is what counting along it in the read
  loop relies on.
- `SourcesAreLostByEviction` — the action property. A datum about to be read from
  another cache leaves it only when that cache takes in another datum: a writer that
  erases it would conflict with its reader (`NoConflict`), and `unlockData` removes nothing.
- `MostCachedIsServed` — `ServesMostCached`, for queues of any length. The scan is a
  recursive function, so that it is defined at all is a lemma (`IterationExists`), and
  what has been found after m tasks is `Scanned`. There is no induction to cite: a least
  position where either fails, which well-foundedness of the naturals gives, is shown to
  have a predecessor that fails as well. It holds in every state, and the queue must not
  be empty, which scheduler.hpp tests first (`CommAssumption`).

**`TaskModelProof`**, for any task, tables, options and completion order

- `WritesPrecedeReads` and `DataAreUnlockedWhenQuiet` — `TaskIInv` says for every
  place in the code which transfers have been started, and that a vector that has
  been awaited stays completed until its next transfer is started. Which wait
  a place lies behind depends on `SERIALRW` and `OVERLAPR` (`Awaited`); at the unlock
  each vector has been awaited for every pair of values in {0, 1}, and for others the
  property promises nothing.
- `TaskTakesItsTime` — `ElapsedTime`, over `ClockIInv`. Before the sleep, time passes only
  in a wait for a pending transfer, so the clock is the time of the last completion
  unless one is pending (`PendingInv`); `start` and `end` lie between the arrival and
  that time, and enclose all of it when everything is overlapped (`StartInv`, `EndInv`).
  The lemma `ShortenedTime` says what `sleeper()` makes of the difference, and
  `KernelTimesAreKnown` that it starts from one natural number.
- `TracedTimeIsABound` — `NeverSlowerThanTraced`: a task of the `task` model never
  waits, and the least time of a kernel's name is at most that of each of its tasks
  (`TimesOfATrace`, by well-foundedness of the naturals).
- `AstrayForLackOnly` — `AstrayIffLacking`, both ways. `LocationInv` says what the task
  has entered in `handlesLocationMap` at each place of the code, `AstrayInv` which
  lookups it has survived there: at the sleep every handle of the message has been
  looked up, by its status, by a write or by a read (`EveryAccessIsLookedUp`), so a
  task that gets there lacked none, and only the line of its table can be missing.
- `TaskTypeOK` — the type invariant; that the one leg of an allocation has a handle
  comes from the test of `Get`.

**`RecParserProof`**, for every set of keys and every file

- `ParserTypeOK`, `VectorsStayAligned`, `ParserReadsTheRecords`,
  `ParserFailsOnlyOnBadFiles` — from `ParserIInv`. The record counter is the number of
  blank lines read (`CounterInv`); a list's counter is ahead of it exactly when the list
  of the current record has been read, and no record repeated one (`AheadInv`), since
  the parser spins on the second; the arrays have what the lines read so far say of
  their fields (`ArraysInv`, where `IsField` is the last of those lines); the two ways
  to fail are those of a last record that is not closed and of a repeated list
  (`OutcomeInv`).

**`StartupProof`**, for every environment, platform file and command line, on any
number of cores, caches and threads, and for any width of the integers

`StartupIInv` says what each stage of `main()` has established once `pc` is past it
(`StageInv`), what the map of each worker that runs holds (`RunningInv`), and what the
loops of `cpuAffinity()` have created so far (`LoopInv`).

- `StartupIsTyped` — the type invariant; in particular the indices of the loops never
  leave `machines` and the caches.
- `EachWorkerIsCreatedOnce` — in the nested loop of `spread`, worker n was created in
  turn (r, c) with n = nCaches * r + c + 1, and stands at r + corePerCache * c
  (`SpreadInv`). Both are numbers written with two digits, and the digits are unique
  (`DigitsAreUnique`), so distinct turns give distinct cores.
- `SpreadBalances` — in turn (i, j) the caches before j have i + 1 workers and the
  others i (`BalanceInv`): a turn adds one to cache j, which by `QuotientOfDigits` is the
  one `cacheNum()` counts the new core to.
- `TargetCountsActiveCores` — the active cores of a cache are an interval
  (`FirstCoresOfACache`); whether it is cut off by the number of workers is what the
  first test of `sleeper()` decides.
- `WorkersRunOnGoodInput` — from `StageInv`. That a thread count read as -1 is refused
  needs that hosts are fewer than half the values of a long (`UnsignedOfInt`); that the
  tile fits, that `commSize` is its size unless it overflows (`WrapOfSmall`).
- `AstrayHasItsCauses` — by induction over the actions; a size that wraps to 0 is a
  multiple of 2^IntWidth (`WrapToZero`).
- `GoodInputIsNeverRefused` — the converse of the two: a valid input does not throw,
  abort or go astray. It is the safety half of `RunsGoodInput`.
- `TransfersStayInTheZone` — `HostsOf` joins the hosts of the zones, so in equal zones
  each zone's hosts stand at a multiple of their number (`FlattenOfEqual`,
  `ZonesOfHosts`). The core of worker w, its cache and its two memory hosts have
  therefore the same leading digit (`CoreHasZoneAndCache`).

`FlattenSeq` is a recursive function: that it is defined, and what it returns, is shown
like `Best` by the least position where it would fail (`FlattenIsDefined`,
`FlattenSteps`). Of a power of two only that it is positive, grows with the width and
doubles is used; these are proved from the number of subsets of an interval
(`PowerOfTwo`, `PowersGrow`, `PowersDouble`). `StartupAssumption` says of the inputs
that arguments are ints or words, that an int is no wider than a long, and that SimGrid
has loaded the file first (main.cpp:134): its host names are distinct, and the hosts
fewer than 2^(LongWidth - 1).

**Only model-checked.** Liveness (`CompletableFinishes`, `TaskEnds`,
`RunsGoodInput`): the prover has no ENABLED and no rule for it here. Every other
property of a passing run is stated by a theorem. The four disagreements are
counterexamples, which TLC finds.

## 5. Not modelled, and why

- How long a transfer takes: volumes, bandwidths and sharing are SimGrid's, and
  `send_to()`, `send_from_to()` and `sleep_for()` (common.hpp) only wrap them. Any
  transfer takes any finite time.
- The three hit counters and what else is only printed (`help.hpp`, the displays of
  `cache.hpp`). Which counter a handle increments is part of `Fetch`.
- The payload counter of `comm.hpp`, which repeats the vector it is compared with.
- A recorded task with a negative StartTime: its worker takes it for the end task
  (worker.hpp:50) and leaves. The traces have times since the start of the run.
- Allocations that other workers make while a task waits: they only add entries to
  `handlesLocationMap`, so `TaskModel` takes those made before the task starts.
- Malformed numbers in a trace, on which `stoi()` and `stod()` throw.
- The text of the files: header lines, white space, the XML library. The inputs are
  a file's lines, a table's lines, the tree of a platform.
- What SimGrid does; it appears as rendezvous, mutex, condition variable and
  activity.
- The platform generators, which print platform files, and `deprecated/`, which no
  compiled file includes.

## 6. Plan

Done, in this order: the scheduler and its workers, the cache, the placement of
data with its sources and the cache-aware choice, the four models of a task, the
trace parser, the start of the program with its platform and its affinity; then
the proofs of every safety property of the scheduler, of the caches, of a task, of
the parser and of the start, with the refinement of `TaskExecution`.

What is left is liveness, which the provers here cannot state. New questions about
modules that have a run already extend that run.

------------------------------ MODULE Affinity ------------------------------
(***************************************************************************)
(* cpuAffinity() of affinity.hpp, which creates the workers, and what the  *)
(* rest of the program derives from where they are: cacheNum() of          *)
(* cache.hpp, and the line of the kernel time table sleeper() reads        *)
(* (models/sleep.hpp). Startup gives it its inputs.                        *)
(***************************************************************************)
EXTENDS KernelTimes, SequencesExt

VARIABLES machines, nCaches,            \* of the platform; "CPU-n" is n
          nMachines, affinity,          \* of the command line
          i, j, counter,                \* the loop variables
          loop,                         \* "no", "in" or "done"
          usedMachines,
          workerState                   \* the workers whose entry is inserted

loopVars == <<i, j, counter, loop, usedMachines, workerState>>

AffinityInit == /\ i = 0 /\ j = 0 /\ counter = 0
                /\ loop = "no"
                /\ usedMachines = <<>> /\ workerState = {}

corePerCache == Len(machines) \div nCaches

(* The worker of machines[n]. *)
AddWorker(n) == /\ usedMachines' = Append(usedMachines, machines[n + 1])
                /\ workerState' = workerState \cup {machines[n + 1]}

OneTooMany(n) == n = nMachines          \* mutant: off by one
LastCore(n)   == n = nMachines - 1

(* Mutant of Place: one cache after the other. *)
FillCache(n, c) == c + nCaches * n

(* The n-th core of cache c. *)
Place(n, c) == n + corePerCache * c

(* spread: the n-th core of every cache, then the next one of every cache. *)
CreateSpread ==
  /\ loop = "in" /\ affinity = "spread"
  /\ i < corePerCache
  /\ AddWorker(Place(i, j))
  /\ IF LastCore(counter)
     THEN loop' = "done" /\ UNCHANGED <<i, j, counter>>
     ELSE /\ counter' = counter + 1
          /\ IF j + 1 < nCaches THEN j' = j + 1 /\ UNCHANGED i
                                ELSE j' = 0 /\ i' = i + 1
          /\ UNCHANGED loop

(* close: the first cores of the machine. *)
CreateClose ==
  /\ loop = "in" /\ affinity = "close"
  /\ i < nMachines
  /\ AddWorker(i)
  /\ i' = i + 1
  /\ UNCHANGED <<j, counter, loop>>

LoopEnds ==
  /\ loop = "in"
  /\ \/ affinity = "spread" /\ i = corePerCache
     \/ affinity = "close" /\ i = nMachines
  /\ loop' = "done"
  /\ UNCHANGED <<i, j, counter, usedMachines, workerState>>
-----------------------------------------------------------------------------
RoundRobin(cpu) == cpu % nCaches        \* mutant: as if cores were dealt out

(* cacheNum(): cores beyond a multiple of nCaches are counted to cache 0.  *)
CacheNum(cpu) == IF cpu < corePerCache * nCaches THEN cpu \div corePerCache ELSE 0

UsedOn(c) == {n \in DOMAIN usedMachines : CacheNum(usedMachines[n]) = c}
Whole     == Len(machines) % nCaches = 0        \* the caches divide the cores
Numbered  == \A n \in DOMAIN machines : machines[n] = n - 1
-----------------------------------------------------------------------------
(* scheduler() finds a worker for every entry of usedMachines and ends      *)
(* nMachines of them (scheduler.hpp:130-143): the workers are distinct,     *)
(* each has its entry in workerState, and there are nMachines of them -     *)
(* unless they are spread over caches that do not divide the cores, when    *)
(* those left over are never used (affinity.hpp:17).                        *)
EveryWorkerOnce ==
  /\ IsInjective(usedMachines)
  /\ workerState = ToSet(usedMachines)
  /\ loop = "done" =>
       Len(usedMachines) = IF affinity = "spread" /\ ~Whole
                           THEN Min({nMachines, corePerCache * nCaches})
                           ELSE nMachines

(* 'spread' gives every cache the same number of workers, up to one, by    *)
(* the numbering of cores the cache models use (cache.hpp:21-34), at any   *)
(* number of threads, if the file lists the cores in order.                *)
SpreadIsBalanced ==
  loop # "no" /\ affinity = "spread" /\ Numbered =>
    \A c, d \in 0 .. (nCaches - 1) :
       Cardinality(UsedOn(c)) - Cardinality(UsedOn(d)) \in -1 .. 1

(* With 'close' and CPS = corePerCache, every worker reads the kernel time  *)
(* measured for the number of workers on its socket (sleep.hpp:28-36).      *)
TargetIsActiveCores ==
  loop = "done" /\ affinity = "close" /\ Whole /\ Numbered =>
    \A n \in DOMAIN usedMachines :
       Target(usedMachines[n], nMachines, corePerCache)
         = Cardinality(UsedOn(CacheNum(usedMachines[n])))
=============================================================================

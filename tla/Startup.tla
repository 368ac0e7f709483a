------------------------------- MODULE Startup -------------------------------
(***************************************************************************)
(* From the command line to the workers: main() (main.cpp), the beginning  *)
(* of master() and of scheduler() (scheduler.hpp), and that of every       *)
(* worker() (worker.hpp). The platform file is read by XmlParser and the   *)
(* workers are created by Affinity; the trace file is RecParser's.         *)
(***************************************************************************)
EXTENDS Affinity, XmlParser

CONSTANTS Inputs,               \* environments, files and command lines
          IntWidth, LongWidth   \* bits of an int and of a long unsigned int

Required == {"SOMP_OVERLAP", "SOMP_OVERLAPR", "SOMP_OVERLAPRATIO", "SOMP_SERIALRW",
             "SOMP_SCHEDCACHE", "SOMP_CACHELOCK", "SOMP_TRACETIME", "SOMP_SCRATCHW"}
ForTables == {"SOMP_ARCH", "SOMP_CPS"}

Models     == {"nomodel", "comm", "commcache", "task"}
Affinities == {"spread", "close"}
Words      == Models \cup Affinities \cup {"", "other"}

(* An argument has an option and its value: an int (atoi) or a word.       *)
ArgumentType == [opt : {"m", "b", "t", "o", "a", "h", "?"},
                 num : -(2 ^ (IntWidth - 1)) .. (2 ^ (IntWidth - 1) - 1), word : Words]

(* SimGrid has loaded the file before it is parsed (main.cpp:134): two hosts *)
(* do not have the same name, and they fit in memory.                       *)
Loaded(doc) ==
  \A kind \in {"CPU", "IMC", "RAM"} : /\ IsInjective(HostsOf(doc, kind))
                                     /\ Len(HostsOf(doc, kind)) < 2 ^ (LongWidth - 1)

InputType(x) ==
  /\ x.unset \subseteq Required \cup ForTables
  /\ x.TRACETIME \in Int /\ x.ARCH \in STRING
  /\ x.doc \in Seq(Seq(NumaType)) /\ (~Refused(x.doc) => Loaded(x.doc))
  /\ x.args \in Seq(ArgumentType)
  /\ x.tables \in BOOLEAN       \* are the tables where the program looks?

ASSUME StartupAssumption == /\ \A x \in Inputs : InputType(x)
                            /\ {IntWidth, LongWidth} \subseteq Nat \ {0}
                            /\ IntWidth <= LongWidth

VARIABLES input,                        \* fixed
          pc, cacheList, ramList, realCacheSize, mSize, bSize, modelOption,
          cacheSz,                      \* tiles per cache
          cacheReceiverMap, ramReceiverMap,
          running                       \* the workers waiting for a task

platform == <<machines, cacheList, ramList, nCaches, realCacheSize>>
options  == <<mSize, bSize, nMachines, modelOption, affinity>>
maps     == <<cacheReceiverMap, ramReceiverMap, running>>
vars     == <<input, pc, platform, options, cacheSz, loopVars, maps>>

NoMap == [n \in {} |-> 0]

Init == /\ input \in Inputs
        /\ pc = "environment"
        /\ machines = <<>> /\ cacheList = <<>> /\ ramList = <<>>
        /\ nCaches = 0 /\ realCacheSize = 0
        /\ mSize = 0 /\ bSize = 0 /\ nMachines = 0
        /\ modelOption = "" /\ affinity = ""
        /\ cacheSz = 0
        /\ AffinityInit
        /\ cacheReceiverMap = NoMap /\ ramReceiverMap = NoMap /\ running = {}
-----------------------------------------------------------------------------
(* Null pointers for atoi(), atof() or ARCH. *)
ReadEnvironment ==
  /\ pc = "environment"
  /\ pc' = IF input.unset \cap (Required \cup IF input.TRACETIME = 0 THEN ForTables ELSE {}) # {}
           THEN "undefined" ELSE "platform"
  /\ UNCHANGED <<input, platform, options, cacheSz, loopVars, maps>>

(* xmlParser(), then corePerCache is computed: a division by nCaches. *)
ParsePlatform ==
  LET doc == input.doc IN
  /\ pc = "platform"
  /\ IF Refused(doc)
     THEN pc' = "throws" /\ UNCHANGED platform
     ELSE /\ machines' = HostsOf(doc, "CPU")
          /\ cacheList' = HostsOf(doc, "IMC")
          /\ ramList' = HostsOf(doc, "RAM")
          /\ nCaches' = NCache(doc)
          /\ realCacheSize' = CacheSize(doc)
          /\ pc' = IF NCache(doc) = 0 THEN "undefined" ELSE "options"
  /\ UNCHANGED <<input, options, cacheSz, loopVars, maps>>

(* The last value given for an option. *)
Given(o)      == {n \in DOMAIN input.args : input.args[n].opt = o}
Number(o)     == IF Given(o) = {} THEN 0  ELSE input.args[Max(Given(o))].num
Word(o)       == IF Given(o) = {} THEN "" ELSE input.args[Max(Given(o))].word
Unsigned(n)   == n % (2 ^ LongWidth)

ParseOptions ==
  /\ pc = "options"
  /\ IF Given("h") \cup Given("?") # {}
     THEN pc' = "throws" /\ UNCHANGED options
     ELSE /\ mSize' = Number("m") /\ bSize' = Number("b")
          /\ nMachines' = Unsigned(Number("t"))
          /\ modelOption' = Word("o") /\ affinity' = Word("a")
          /\ pc' = "check"
  /\ UNCHANGED <<input, platform, cacheSz, loopVars, maps>>

AtLeast(n) == n >= Len(machines)        \* mutants: >= for >, and a block
NoBlockChecked ==                       \* size that is not looked at
  mSize = 0 \/ nMachines = 0 \/ modelOption = "" \/ affinity = ""

TooMany(n)    == n > Len(machines)
SomethingMissing ==
  mSize = 0 \/ bSize = 0 \/ nMachines = 0 \/ modelOption = "" \/ affinity = ""

CheckOptions ==
  /\ pc = "check"
  /\ pc' = IF \/ SomethingMissing \/ modelOption \notin Models
              \/ affinity \notin Affinities \/ TooMany(nMachines)
           THEN "throws" ELSE "tables"
  /\ UNCHANGED <<input, platform, options, cacheSz, loopVars, maps>>

(* kernelAverageParser() asserts that it can open its files. *)
ReadTables ==
  /\ pc = "tables"
  /\ pc' = IF mainKernels(input.TRACETIME, input.ARCH) # {} /\ ~input.tables
           THEN "aborts" ELSE "caches"
  /\ UNCHANGED <<input, platform, options, cacheSz, loopVars, maps>>

(* commSize: the bytes of a tile. Overflow is undefined; the build wraps.  *)
Wrap(n)  == ((n + 2 ^ (IntWidth - 1)) % 2 ^ IntWidth) - 2 ^ (IntWidth - 1)
commSize == Wrap(bSize * bSize * 8)

RoundedUp == IF commSize > 0            \* mutant: not down
             THEN (realCacheSize + commSize - 1) \div commSize ELSE 0

architectureCacheSize ==
  IF commSize > 0 THEN realCacheSize \div commSize ELSE -(realCacheSize \div (-commSize))

CreateCaches ==
  /\ pc = "caches"
  /\ IF commSize = 0 THEN pc' = "undefined" /\ UNCHANGED <<cacheSz, loop>>
     ELSE IF architectureCacheSize = 0 THEN pc' = "throws" /\ UNCHANGED <<cacheSz, loop>>
     ELSE pc' = "workers" /\ cacheSz' = architectureCacheSize /\ loop' = "in"
  /\ UNCHANGED <<input, platform, options, i, j, counter, usedMachines, workerState, maps>>

CreateWorker == /\ pc = "workers"
                /\ CreateSpread \/ CreateClose \/ LoopEnds
                /\ UNCHANGED <<input, pc, platform, options, cacheSz, maps>>

(* insert() keeps the entries of the workers that were first. *)
Inserted(map, list) ==
  [n \in DOMAIN map \cup 0 .. (nCaches - 1) |->
     IF n \in DOMAIN map THEN map[n] ELSE list[n + 1]]

(* A worker runs as soon as SimGrid has created it, up to its first get(). *)
StartWorker(w) ==
  /\ pc = "workers"
  /\ w \in workerState \ running
  /\ IF nCaches > Min({Len(cacheList), Len(ramList)})
     THEN pc' = "undefined" /\ UNCHANGED maps
     ELSE /\ cacheReceiverMap' = Inserted(cacheReceiverMap, cacheList)
          /\ ramReceiverMap' = Inserted(ramReceiverMap, ramList)
          /\ running' = running \cup {w}
          /\ UNCHANGED pc
  /\ UNCHANGED <<input, platform, options, cacheSz, loopVars>>

Next == \/ ReadEnvironment \/ ParsePlatform \/ ParseOptions \/ CheckOptions
        \/ ReadTables \/ CreateCaches \/ CreateWorker
        \/ \E w \in workerState : StartWorker(w)

Spec == Init /\ [][Next]_vars

(* The program and the engine go on as long as they can. *)
FairSpec == Spec /\ WF_vars(Next)
-----------------------------------------------------------------------------
TypeOK == /\ pc \in {"environment", "platform", "options", "check", "tables", "caches",
                     "workers", "throws", "aborts", "undefined"}
          /\ \A list \in {machines, cacheList, ramList} : list \in Seq(Nat)
          /\ nCaches \in Nat /\ realCacheSize \in Nat /\ nMachines \in Nat
          /\ mSize \in Int /\ bSize \in Int /\ cacheSz \in Int
          /\ modelOption \in Words /\ affinity \in Words
          /\ i \in 0 .. Len(machines) /\ j \in 0 .. nCaches
          /\ counter \in 0 .. nMachines /\ (nMachines > 0 => counter < nMachines)
          /\ loop \in {"no", "in", "done"}
          /\ usedMachines \in Seq(ToSet(machines))
          /\ workerState \subseteq ToSet(machines) /\ running \subseteq workerState
          /\ \A map \in {cacheReceiverMap, ramReceiverMap} :
               map \in [DOMAIN map -> Nat] /\ DOMAIN map \subseteq 0 .. (nCaches - 1)
-----------------------------------------------------------------------------
(* What a valid start takes, said of the inputs. *)
GoodEnvironment == /\ Required \cap input.unset = {}
                   /\ input.TRACETIME = 0 => ForTables \cap input.unset = {}

GoodPlatform ==
  LET doc == input.doc
      count(kind) == Len(HostsOf(doc, kind))
  IN  /\ ~Refused(doc) /\ NCache(doc) > 0
      /\ NCache(doc) <= count("IMC") /\ NCache(doc) <= count("RAM")

GoodArguments ==
  /\ Given("h") = {} /\ Given("?") = {}
  /\ Number("m") # 0 /\ Number("b") # 0
  /\ Number("t") \in 1 .. Len(HostsOf(input.doc, "CPU"))
  /\ Word("o") \in Models /\ Word("a") \in Affinities

GoodTables == mainKernels(input.TRACETIME, input.ARCH) = {} \/ input.tables

Tile     == 8 * Number("b") * Number("b")
Overflow == Tile >= 2 ^ (IntWidth - 1)

(* The caches do not divide the cores, and 'spread' uses no core left over: *)
(* there are fewer workers than threads, and the kill loop (scheduler.hpp:  *)
(* 130-143), which reads an entry of usedMachines per thread, reads past it.*)
CoresLeftOver ==
  LET cores == Len(HostsOf(input.doc, "CPU"))
      n     == NCache(input.doc)
  IN  Word("a") = "spread" /\ Number("t") > n * (cores \div n)

GoodInput == /\ GoodEnvironment /\ GoodPlatform /\ GoodArguments /\ GoodTables
             /\ ~CoresLeftOver
             /\ Tile <= CacheSize(input.doc) /\ ~Overflow

(* No worker runs on an input that the program should have refused          *)
(* (main.cpp:184-235, xml_parser.hpp:47-80, common.hpp:87-95): only an      *)
(* overflow of the tile size gets through.                                  *)
RunsOnlyGoodInput ==
  running # {} => /\ GoodEnvironment /\ GoodPlatform /\ GoodArguments /\ GoodTables
                  /\ Tile <= CacheSize(input.doc) \/ Overflow

(* The program goes astray only without one of its variables (main.cpp:     *)
(* 114-124), on a platform without caches (143) or with fewer memory hosts  *)
(* than caches (worker.hpp:36-37), and when the size of a tile wraps to 0.  *)
AstrayOnlyOnBadInput ==
  pc = "undefined" => \/ ~GoodEnvironment \/ ~GoodPlatform
                      \/ Overflow /\ Tile % 2 ^ IntWidth = 0

(* In a machine of equal zones, with as many memory controllers and RAMs as *)
(* caches, the transfers of a worker end on the hosts of its own zone       *)
(* (worker.hpp:36-37, cache.hpp:21-34): the program finds them by counting  *)
(* hosts of different kinds through the file.                               *)
ZoneOf(kind, number) ==
  CHOOSE z \in DOMAIN Numas(input.doc) : number \in ToSet(OfZone(Numas(input.doc)[z], kind))

EqualZones ==
  LET zones == Numas(input.doc)
      count(z, kind) == Len(OfZone(zones[z], kind))
      perZone == count(1, "IMC")
  IN  /\ \A z \in DOMAIN zones : \A kind \in {"CPU", "IMC", "RAM"} :
           count(z, kind) = count(1, kind)
      /\ perZone = count(1, "RAM") /\ nCaches = perZone * Len(zones)
      /\ count(1, "CPU") % perZone = 0

ReceiversAreLocal ==
  running # {} /\ Numbered /\ EqualZones =>
    \A w \in running :
      /\ ZoneOf("IMC", cacheReceiverMap[CacheNum(w)]) = ZoneOf("CPU", w)
      /\ ZoneOf("RAM", ramReceiverMap[CacheNum(w)]) = ZoneOf("CPU", w)

(* With a valid input as many workers as there are threads get to their     *)
(* first task.                                                              *)
AllWorkersRun ==
  loop = "done" /\ running = workerState /\ Cardinality(running) = nMachines
RunsGoodInput == GoodInput => <>[]AllWorkersRun
=============================================================================

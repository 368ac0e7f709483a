---------------------------- MODULE StartupProof ----------------------------
(***************************************************************************)
(* Theorems about Startup and Affinity, for any inputs and any widths.     *)
(***************************************************************************)
EXTENDS Startup, SequenceTheorems, FiniteSetTheorems, WellFoundedInduction, TLAPS
-----------------------------------------------------------------------------
(***************************************************************************)
(* The inductive invariant. What the stages before pc have established ... *)
(***************************************************************************)
Later(stage) ==
  CASE stage = "platform" -> {"platform", "options", "check", "tables", "caches", "workers"}
    [] stage = "options"  -> {"options", "check", "tables", "caches", "workers"}
    [] stage = "check"    -> {"check", "tables", "caches", "workers"}
    [] stage = "tables"   -> {"tables", "caches", "workers"}
    [] stage = "caches"   -> {"caches", "workers"}

PlatformIsRead ==
  /\ ~Refused(input.doc)
  /\ machines = HostsOf(input.doc, "CPU")
  /\ cacheList = HostsOf(input.doc, "IMC") /\ ramList = HostsOf(input.doc, "RAM")
  /\ nCaches = NCache(input.doc) /\ nCaches # 0
  /\ realCacheSize = CacheSize(input.doc)

OptionsAreRead ==
  /\ Given("h") = {} /\ Given("?") = {}
  /\ mSize = Number("m") /\ bSize = Number("b") /\ nMachines = Unsigned(Number("t"))
  /\ modelOption = Word("o") /\ affinity = Word("a")

OptionsAreChecked ==
  /\ ~SomethingMissing /\ ~TooMany(nMachines)
  /\ modelOption \in Models /\ affinity \in Affinities

StageInv ==
  /\ pc \in Later("platform") => GoodEnvironment
  /\ pc \in Later("options")  => PlatformIsRead
  /\ pc \in Later("check")    => OptionsAreRead
  /\ pc \in Later("tables")   => OptionsAreChecked
  /\ pc \in Later("caches")   => GoodTables
  /\ pc = "workers" => loop # "no" /\ commSize # 0 /\ architectureCacheSize # 0

(* ... and the workers' maps, which the first worker fills.                *)
RunningInv ==
  /\ running = {} => cacheReceiverMap = NoMap /\ ramReceiverMap = NoMap
  /\ running # {} => /\ pc = "workers"
                     /\ nCaches <= Len(cacheList) /\ nCaches <= Len(ramList)
                     /\ cacheReceiverMap = [c \in 0 .. (nCaches - 1) |-> cacheList[c + 1]]
                     /\ ramReceiverMap = [c \in 0 .. (nCaches - 1) |-> ramList[c + 1]]

(* The loops that create the workers, and what they have done so far. *)
BeforeLoop == /\ pc # "workers" /\ i = 0 /\ j = 0 /\ counter = 0
              /\ usedMachines = <<>> /\ workerState = {} /\ running = {}

Ready == /\ machines \in Seq(Nat) /\ IsInjective(machines)
         /\ nCaches \in Nat \ {0} /\ nMachines \in 1 .. Len(machines)
         /\ affinity \in Affinities

SpreadInv ==
  /\ i \in 0 .. corePerCache /\ j \in 0 .. (nCaches - 1)
  /\ counter = nCaches * i + j /\ counter < nMachines
  /\ i = corePerCache => j = 0
  /\ Len(usedMachines) =
       IF loop = "in" THEN counter ELSE Min({nMachines, corePerCache * nCaches})
  /\ \A n \in DOMAIN usedMachines :
       \E r \in 0 .. (corePerCache - 1), c \in 0 .. (nCaches - 1) :
          n = nCaches * r + c + 1 /\ usedMachines[n] = machines[Place(r, c) + 1]

CloseInv ==
  /\ i \in 0 .. nMachines /\ j = 0 /\ counter = 0
  /\ Len(usedMachines) = i /\ \A n \in DOMAIN usedMachines : usedMachines[n] = machines[n]
  /\ loop = "done" => i = nMachines

BalanceInv ==
  affinity = "spread" /\ Numbered =>
    /\ \A c \in 0 .. (nCaches - 1) : IsFiniteSet(UsedOn(c))
    /\ loop = "in" => \A c \in 0 .. (nCaches - 1) :
                        Cardinality(UsedOn(c)) = IF c < j THEN i + 1 ELSE i
    /\ \E a \in 0 .. corePerCache :
         \A c \in 0 .. (nCaches - 1) : Cardinality(UsedOn(c)) \in {a, a + 1}

LoopInv ==
  /\ loop = "no" => BeforeLoop
  /\ loop # "no" => /\ Ready /\ pc \in {"workers", "undefined"}
                    /\ affinity = "spread" => SpreadInv
                    /\ affinity = "close" => CloseInv
                    /\ BalanceInv
  /\ usedMachines \in Seq(ToSet(machines)) /\ workerState = ToSet(usedMachines)

StartupIInv == input \in Inputs /\ TypeOK /\ StageInv /\ RunningInv /\ LoopInv
-----------------------------------------------------------------------------
(***************************************************************************)
(* Facts about numbers and positions.                                      *)
(***************************************************************************)
LEMMA LeastPosition ==
  ASSUME NEW T, T \subseteq Nat, T # {}
  PROVE  \E m \in T : \A n \in T : m <= n
<1> DEFINE R == {ss \in Nat \X Nat : ss[1] < ss[2]}
<1>1. IsWellFoundedOn(R, Nat)
  BY NatLessThanWellFounded DEF OpToRel
<1> HIDE DEF R
<1>2. PICK m \in T : \A n \in T : <<n, m>> \notin R
  BY <1>1, WFMin
<1>3. ASSUME NEW n \in T PROVE m <= n
  <2>1. n \in Nat /\ m \in Nat /\ ~(n < m)
    BY <1>2 DEF R
  <2> QED
    BY <2>1
<1> QED
  BY <1>3

LEMMA LastPosition ==
  ASSUME NEW n \in Nat, NEW T, T \subseteq 1 .. n, T # {}
  PROVE  Max(T) \in T
<1> DEFINE U == {n - t : t \in T}
<1>1. U \subseteq Nat /\ U # {}
  <2>1. \A t \in T : n - t \in Nat
    OBVIOUS
  <2> QED
    BY <2>1
<1>2. PICK u \in U : \A v \in U : u <= v
  <2> HIDE DEF U
  <2> QED
    BY <1>1, LeastPosition
<1>3. PICK m \in T : u = n - m
  OBVIOUS
<1>4. ASSUME NEW t \in T PROVE m >= t
  <2>1. n - m <= n - t
    BY <1>2, <1>3
  <2> QED
    BY <2>1
<1> QED
  BY <1>4 DEF Max

LEMMA LesserOfTwo ==
  ASSUME NEW a \in Int, NEW b \in Int
  PROVE  Min({a, b}) = IF a <= b THEN a ELSE b
BY DEF Min

(* The powers of two, as the numbers of subsets. *)
LEMMA PowerOfTwo ==
  ASSUME NEW n \in Nat
  PROVE  2 ^ n \in Nat \ {0} /\ IsFiniteSet(SUBSET (1 .. n)) /\ Cardinality(SUBSET (1 .. n)) = 2 ^ n
<1>1. IsFiniteSet(1 .. n) /\ Cardinality(1 .. n) = n
  BY FS_Interval
<1>2. IsFiniteSet(SUBSET (1 .. n)) /\ Cardinality(SUBSET (1 .. n)) = 2 ^ n
  BY <1>1, FS_SUBSET
<1>3. Cardinality(SUBSET (1 .. n)) \in Nat /\ Cardinality(SUBSET (1 .. n)) # 0
  <2> DEFINE S == SUBSET (1 .. n)
  <2>1. S # {}
    OBVIOUS
  <2> HIDE DEF S
  <2>2. Cardinality(S) \in Nat /\ Cardinality(S) # 0
    BY <1>2, <2>1, FS_CardinalityType, FS_EmptySet DEF S
  <2> QED
    BY <2>2 DEF S
<1> QED
  BY <1>2, <1>3

LEMMA PowersGrow ==
  ASSUME NEW m \in Nat, NEW n \in Nat, m <= n
  PROVE  2 ^ m <= 2 ^ n
<1>1. SUBSET (1 .. m) \subseteq SUBSET (1 .. n)
  OBVIOUS
<1> DEFINE S == SUBSET (1 .. m)
           T == SUBSET (1 .. n)
<1>2. IsFiniteSet(T) /\ Cardinality(S) = 2 ^ m /\ Cardinality(T) = 2 ^ n
  BY PowerOfTwo
<1> HIDE DEF S, T
<1>3. S \in SUBSET T
  BY <1>1 DEF S, T
<1>4. Cardinality(S) <= Cardinality(T)
  BY <1>2, <1>3, FS_Subset
<1> QED
  BY <1>2, <1>4

LEMMA PowersDouble ==
  ASSUME NEW n \in Nat \ {0}
  PROVE  2 ^ n = 2 * 2 ^ (n - 1)
<1>1. n - 1 \in Nat /\ n \in Nat
  OBVIOUS
<1> DEFINE S == SUBSET (1 .. n)
           H == SUBSET (1 .. (n - 1))
           T == H \X {0, 1}
           f == [s \in S |-> <<s \ {n}, IF n \in s THEN 1 ELSE 0>>]
<1>2. /\ IsFiniteSet(SUBSET (1 .. n)) /\ Cardinality(SUBSET (1 .. n)) = 2 ^ n
      /\ IsFiniteSet(H) /\ Cardinality(H) = 2 ^ (n - 1) /\ 2 ^ (n - 1) \in Nat
  BY <1>1, PowerOfTwo
<1>3. IsFiniteSet({0, 1}) /\ Cardinality({0, 1}) = 2
  <2>1. {0, 1} = {0} \cup {1} /\ 1 \notin {0}
    OBVIOUS
  <2>2. IsFiniteSet({0}) /\ Cardinality({0}) = 1
    BY FS_Singleton
  <2> QED
    BY <2>1, <2>2, FS_AddElement
<1>4. IsFiniteSet(T) /\ Cardinality(T) = 2 ^ (n - 1) * 2
  <2> HIDE DEF H
  <2>1. IsFiniteSet(T) /\ Cardinality(T) = Cardinality(H) * Cardinality({0, 1})
    BY <1>2, <1>3, FS_Product
  <2> HIDE DEF T
  <2> QED
    BY <1>2, <1>3, <2>1
<1>5. f \in Bijection(S, T)
  <2>1. f \in [S -> T]
    <3>1. ASSUME NEW s \in S PROVE <<s \ {n}, IF n \in s THEN 1 ELSE 0>> \in T
      <4>1. s \ {n} \in H
        BY <1>1
      <4>2. (IF n \in s THEN 1 ELSE 0) \in {0, 1}
        OBVIOUS
      <4> HIDE DEF H
      <4> QED
        BY <4>1, <4>2
    <3> HIDE DEF T, S
    <3> QED
      BY <3>1
  <2>2. \A s, t \in S : f[s] = f[t] => s = t
    <3> SUFFICES ASSUME NEW s \in S, NEW t \in S, f[s] = f[t] PROVE s = t
      OBVIOUS
    <3>1. s \ {n} = t \ {n} /\ (n \in s <=> n \in t)
      OBVIOUS
    <3> QED
      BY <3>1
  <2>3. \A p \in T : \E s \in S : f[s] = p
    <3> TAKE p \in T
    <3>1. PICK u \in H, b \in {0, 1} : p = <<u, b>>
      <4> HIDE DEF H
      <4> QED
        OBVIOUS
    <3>2. n \notin u /\ u \in S /\ u \cup {n} \in S
      BY <1>1
    <3>3. CASE b = 0
      <4>1. f[u] = p
        BY <3>1, <3>2, <3>3
      <4> QED
        BY <3>2, <4>1
    <3>4. CASE b = 1
      <4>1. (u \cup {n}) \ {n} = u
        BY <3>2
      <4>2. f[u \cup {n}] = p
        BY <3>1, <3>2, <3>4, <4>1
      <4> QED
        BY <3>2, <4>2
    <3> QED
      BY <3>3, <3>4
  <2> HIDE DEF f, S, T
  <2> QED
    BY <2>1, <2>2, <2>3 DEF Bijection, Injection, Surjection, IsInjective
<1> HIDE DEF f, S, T
<1>6. Cardinality(T) = Cardinality(S)
  <2>1. IsFiniteSet(S)
    BY <1>2 DEF S
  <2> QED
    BY <1>5, <2>1, FS_Bijection DEF ExistsBijection
<1> QED
  BY <1>2, <1>4, <1>6 DEF S

(* Division, from the digits that make up a number. *)
LEMMA NextMultiple ==
  ASSUME NEW k \in Nat, NEW a \in Int, NEW b \in Int, a < b
  PROVE  k * a + k <= k * b
<1>1. b - a - 1 \in Nat
  OBVIOUS
<1>2. k * (b - a - 1) \in Nat
  BY <1>1
<1>3. k * (b - a - 1) = k * b - k * a - k
  OBVIOUS
<1> QED
  BY <1>2, <1>3

LEMMA DigitsAreUnique ==
  ASSUME NEW k \in Nat \ {0}, NEW a \in Int, NEW b \in Int,
         NEW r \in 0 .. (k - 1), NEW s \in 0 .. (k - 1), r + k * a = s + k * b
  PROVE  a = b /\ r = s
<1>1. ~(a < b)
  <2> SUFFICES ASSUME a < b PROVE FALSE
    OBVIOUS
  <2>1. k * a + k <= k * b
    BY NextMultiple
  <2>2. k * a \in Int /\ k * b \in Int
    OBVIOUS
  <2> QED
    BY <2>1, <2>2
<1>2. ~(b < a)
  <2> SUFFICES ASSUME b < a PROVE FALSE
    OBVIOUS
  <2>1. k * b + k <= k * a
    BY NextMultiple
  <2>2. k * a \in Int /\ k * b \in Int
    OBVIOUS
  <2> QED
    BY <2>1, <2>2
<1>3. a = b
  BY <1>1, <1>2
<1> QED
  BY <1>3

LEMMA DivMod ==
  ASSUME NEW n \in Int, NEW k \in Nat \ {0}
  PROVE  /\ n \div k \in Int /\ n % k \in 0 .. (k - 1)
         /\ n = (n % k) + k * (n \div k)
OBVIOUS

LEMMA QuotientOfDigits ==
  ASSUME NEW k \in Nat \ {0}, NEW a \in Int, NEW r \in 0 .. (k - 1)
  PROVE  (r + k * a) \div k = a /\ (r + k * a) % k = r
<1> DEFINE n == r + k * a
<1>1. n \in Int
  OBVIOUS
<1>2. n \div k \in Int /\ n % k \in 0 .. (k - 1) /\ n = (n % k) + k * (n \div k)
  BY <1>1, DivMod
<1>3. r + k * a = (n % k) + k * (n \div k)
  BY <1>2
<1> HIDE DEF n
<1> QED
  BY <1>2, <1>3, DigitsAreUnique DEF n
-----------------------------------------------------------------------------
(***************************************************************************)
(* What FlattenSeq returns. It is a recursive function: that there is such *)
(* a function, and what it gives, are shown by the least position where    *)
(* they would fail.                                                        *)
(***************************************************************************)
FlattenTurn(q, f, m) == IF m = 1 THEN q[m] ELSE f[m - 1] \o q[m]

LEMMA FlattenIsDefined ==
  ASSUME NEW S, NEW q \in Seq(Seq(S)), NEW N \in Nat
  PROVE  N <= Len(q) => \E f : f = [m \in 1 .. N |-> FlattenTurn(q, f, m)]
<1> DEFINE Is(f, k) == f = [m \in 1 .. k |-> FlattenTurn(q, f, m)]
           T == {k \in 0 .. Len(q) : ~\E f : Is(f, k)}
<1>1. T = {}
  <2> SUFFICES ASSUME T # {} PROVE FALSE
    OBVIOUS
  <2>1. PICK k \in T : \A n \in T : k <= n
    <3> HIDE DEF T
    <3>1. T \subseteq Nat
      BY DEF T
    <3> QED
      BY <3>1, LeastPosition
  <2>2. k \in 0 .. Len(q) /\ ~\E f : Is(f, k)
    OBVIOUS
  <2>3. k # 0
    <3>1. Is(<<>>, 0)
      OBVIOUS
    <3> HIDE DEF Is
    <3> QED
      BY <2>2, <3>1
  <2>4. PICK f : Is(f, k - 1)
    <3>1. k - 1 \in 0 .. Len(q) /\ ~(k <= k - 1)
      BY <2>2, <2>3
    <3>2. k - 1 \notin T
      BY <2>1, <3>1
    <3> HIDE DEF Is
    <3> QED
      BY <3>1, <3>2
  <2> DEFINE g == [m \in 1 .. k |-> IF m = k THEN FlattenTurn(q, f, k) ELSE f[m]]
  <2>5. ASSUME NEW m \in 1 .. k PROVE g[m] = FlattenTurn(q, g, m)
    <3>1. m - 1 \in 1 .. (k - 1) => g[m - 1] = f[m - 1]
      BY <2>2, <2>5
    <3>2. m = 1 \/ m - 1 \in 1 .. (k - 1)
      BY <2>2, <2>5
    <3>3. FlattenTurn(q, g, m) = FlattenTurn(q, f, m)
      <4> HIDE DEF g
      <4> QED
        BY <3>1, <3>2 DEF FlattenTurn
    <3>4. CASE m = k
      <4>1. g[k] = FlattenTurn(q, f, k)
        BY <2>2, <2>3
      <4> HIDE DEF g
      <4> QED
        BY <3>3, <3>4, <4>1
    <3>5. CASE m # k
      <4>1. m \in 1 .. (k - 1) /\ g[m] = f[m]
        BY <2>2, <2>5, <3>5
      <4>2. f[m] = FlattenTurn(q, f, m)
        BY <2>4, <4>1
      <4> HIDE DEF g
      <4> QED
        BY <3>3, <4>1, <4>2
    <3> QED
      BY <3>4, <3>5
  <2>6. Is(g, k)
    BY <2>5
  <2> HIDE DEF Is
  <2> QED
    BY <2>2, <2>6
<1>2. ASSUME N <= Len(q) PROVE \E f : Is(f, N)
  <2>1. N \in 0 .. Len(q)
    BY <1>2
  <2> HIDE DEF Is
  <2> QED
    BY <1>1, <2>1
<1> QED
  BY <1>2

LEMMA FlattenSteps ==
  ASSUME NEW S, NEW q \in Seq(Seq(S)), q # <<>>
  PROVE  \E f \in [1 .. Len(q) -> Seq(S)] :
           /\ FlattenSeq(q) = f[Len(q)]
           /\ f[1] = q[1] /\ \A m \in 2 .. Len(q) : f[m] = f[m - 1] \o q[m]
<1> DEFINE F(f) == f = [m \in 1 .. Len(q) |-> IF m = 1 THEN q[m] ELSE f[m - 1] \o q[m]]
<1>1. Len(q) \in Nat /\ Len(q) # 0 /\ \A m \in 1 .. Len(q) : q[m] \in Seq(S)
  OBVIOUS
<1>2. \E f : F(f)
  <2>1. Len(q) <= Len(q)
    BY <1>1
  <2>2. \E f : f = [m \in 1 .. Len(q) |-> FlattenTurn(q, f, m)]
    BY <1>1, <2>1, FlattenIsDefined
  <2> QED
    BY <2>2 DEF FlattenTurn
<1>3. PICK f : F(f) /\ FlattenSeq(q) = f[Len(q)]
  BY <1>1, <1>2 DEF FlattenSeq
<1>4. /\ f[1] = q[1] /\ DOMAIN f = 1 .. Len(q)
      /\ \A m \in 2 .. Len(q) : f[m] = f[m - 1] \o q[m]
  <2>1. 1 \in 1 .. Len(q) /\ \A m \in 2 .. Len(q) : m \in 1 .. Len(q) /\ m # 1
    BY <1>1
  <2>2. \A m \in 1 .. Len(q) : f[m] = IF m = 1 THEN q[m] ELSE f[m - 1] \o q[m]
    BY <1>3
  <2> HIDE DEF F
  <2>3. DOMAIN f = 1 .. Len(q)
    BY <1>3 DEF F
  <2> QED
    BY <2>1, <2>2, <2>3, Zenon
<1> DEFINE T == {m \in 1 .. Len(q) : f[m] \notin Seq(S)}
<1>5. T = {}
  <2> SUFFICES ASSUME T # {} PROVE FALSE
    OBVIOUS
  <2>1. PICK m \in T : \A n \in T : m <= n
    <3> HIDE DEF T
    <3>1. T \subseteq Nat
      BY DEF T
    <3> QED
      BY <3>1, LeastPosition
  <2>2. m # 1
    BY <1>1, <1>4
  <2>3. m \in 2 .. Len(q) /\ m - 1 \in 1 .. Len(q) /\ ~(m <= m - 1)
    BY <2>2
  <2>4. f[m - 1] \in Seq(S)
    BY <2>1, <2>3
  <2>5. f[m] = f[m - 1] \o q[m] /\ q[m] \in Seq(S)
    BY <1>1, <1>4, <2>3
  <2>6. f[m] \in Seq(S)
    BY <2>4, <2>5, ConcatProperties
  <2> QED
    BY <2>6
<1>6. f = [m \in 1 .. Len(q) |-> f[m]]
  BY <1>3
<1>7. f \in [1 .. Len(q) -> Seq(S)]
  BY <1>5, <1>6
<1> QED
  BY <1>3, <1>4, <1>7

LEMMA FlattenType ==
  ASSUME NEW S, NEW q \in Seq(Seq(S))
  PROVE  FlattenSeq(q) \in Seq(S)
<1>1. CASE q = <<>>
  BY <1>1 DEF FlattenSeq
<1>2. CASE q # <<>>
  <2>1. Len(q) \in 1 .. Len(q)
    BY <1>2
  <2>2. PICK f \in [1 .. Len(q) -> Seq(S)] : FlattenSeq(q) = f[Len(q)]
    BY <1>2, FlattenSteps
  <2> QED
    BY <2>1, <2>2
<1> QED
  BY <1>1, <1>2

(* Pieces of equal length stand at multiples of that length. *)
LEMMA FlattenOfEqual ==
  ASSUME NEW S, NEW q \in Seq(Seq(S)), NEW c \in Nat,
         \A m \in DOMAIN q : Len(q[m]) = c
  PROVE  /\ Len(FlattenSeq(q)) = c * Len(q)
         /\ \A m \in DOMAIN q : \A n \in 1 .. c : FlattenSeq(q)[c * (m - 1) + n] = q[m][n]
<1>1. CASE q = <<>>
  BY <1>1 DEF FlattenSeq
<1>2. CASE q # <<>>
  <2>1. /\ Len(q) \in Nat /\ Len(q) # 0 /\ DOMAIN q = 1 .. Len(q)
        /\ \A m \in 1 .. Len(q) : q[m] \in Seq(S)
    BY <1>2
  <2>2. PICK f \in [1 .. Len(q) -> Seq(S)] :
          /\ FlattenSeq(q) = f[Len(q)]
          /\ f[1] = q[1] /\ \A m \in 2 .. Len(q) : f[m] = f[m - 1] \o q[m]
    BY <1>2, FlattenSteps
  <2> DEFINE Good(m) == /\ Len(f[m]) = c * m
                        /\ \A k \in 1 .. m : \A n \in 1 .. c : f[m][c * (k - 1) + n] = q[k][n]
             T == {m \in 1 .. Len(q) : ~Good(m)}
  <2>3. T = {}
    <3> SUFFICES ASSUME T # {} PROVE FALSE
      OBVIOUS
    <3>1. PICK m \in T : \A n \in T : m <= n
      <4> HIDE DEF T
      <4>1. T \subseteq Nat
        BY DEF T
      <4> QED
        BY <4>1, LeastPosition
    <3>2. m # 1
      <4>1. Good(1)
        <5>1. Len(f[1]) = c * 1
          <6>1. 1 \in 1 .. Len(q) /\ c * 1 = c
            BY <2>1
          <6> QED
            BY <2>1, <2>2, <6>1
        <5>2. ASSUME NEW k \in 1 .. 1, NEW n \in 1 .. c PROVE f[1][c * (k - 1) + n] = q[k][n]
          <6>1. k = 1 /\ c * (k - 1) + n = n
            BY <5>2
          <6> QED
            BY <2>2, <6>1
        <5> QED
          BY <5>1, <5>2
      <4> HIDE DEF Good
      <4> QED
        BY <4>1
    <3>3. m \in 2 .. Len(q) /\ m - 1 \in 1 .. Len(q) /\ ~(m <= m - 1)
      BY <2>1, <3>2
    <3>4. Good(m - 1)
      <4>1. m - 1 \notin T
        BY <3>1, <3>3
      <4> HIDE DEF Good
      <4> QED
        BY <3>3, <4>1
    <3> DEFINE a == c * (m - 1)
    <3>5. /\ f[m] = f[m - 1] \o q[m] /\ f[m - 1] \in Seq(S) /\ q[m] \in Seq(S)
          /\ Len(f[m - 1]) = a /\ Len(q[m]) = c /\ a \in Nat
      <4>1. Len(f[m - 1]) = a
        BY <3>4
      <4>2. a \in Nat
        <5>1. m - 1 \in Nat
          BY <3>3
        <5> QED
          BY <5>1
      <4> HIDE DEF a, Good
      <4>3. f[m] = f[m - 1] \o q[m] /\ f[m - 1] \in Seq(S) /\ q[m] \in Seq(S) /\ Len(q[m]) = c
        BY <2>1, <2>2, <3>3
      <4> QED
        BY <4>1, <4>2, <4>3
    <3>6. /\ Len(f[m]) = a + c
          /\ \A n \in 1 .. (a + c) : f[m][n] = IF n <= a THEN f[m - 1][n] ELSE q[m][n - a]
      <4> HIDE DEF a
      <4> QED
        <5>1. /\ Len(f[m - 1] \o q[m]) = Len(f[m - 1]) + Len(q[m])
              /\ \A n \in 1 .. (Len(f[m - 1]) + Len(q[m])) :
                   (f[m - 1] \o q[m])[n] = IF n <= Len(f[m - 1]) THEN f[m - 1][n]
                                           ELSE q[m][n - Len(f[m - 1])]
          <6>1. f[m - 1] \in Seq(S) /\ q[m] \in Seq(S)
            BY <3>5
          <6> DEFINE s == f[m - 1]
                     t == q[m]
          <6>2. /\ Len(s \o t) = Len(s) + Len(t)
                /\ \A n \in 1 .. (Len(s) + Len(t)) :
                     (s \o t)[n] = IF n <= Len(s) THEN s[n] ELSE t[n - Len(s)]
            <7> HIDE DEF s, t
            <7>1. s \in Seq(S) /\ t \in Seq(S)
              BY <6>1 DEF s, t
            <7> QED
              BY <7>1, ConcatProperties, Zenon
          <6> QED
            BY <6>2 DEF s, t
        <5> QED
          BY <3>5, <5>1, Zenon
    <3>7. Len(f[m]) = c * m
      <4>1. a + c = c * m
        BY <3>3
      <4> QED
        BY <3>6, <4>1
    <3>8. ASSUME NEW k \in 1 .. m, NEW n \in 1 .. c
          PROVE  f[m][c * (k - 1) + n] = q[k][n]
      <4>1. CASE k = m
        <5> HIDE DEF a
        <5>1. a + n \in 1 .. (a + c) /\ ~(a + n <= a) /\ (a + n) - a = n
          BY <3>5
        <5>2. f[m][a + n] = q[m][n]
          BY <3>6, <5>1
        <5> QED
          BY <4>1, <5>2 DEF a
      <4>2. CASE k # m
        <5> DEFINE b == c * (k - 1)
        <5>1. k \in 1 .. (m - 1) /\ k - 1 < m - 1 /\ k - 1 \in Nat
          BY <3>3, <4>2
        <5>2. b + c <= a /\ b \in Nat
          BY <5>1, NextMultiple
        <5>3. f[m - 1][b + n] = q[k][n]
          BY <3>4, <5>1
        <5> HIDE DEF a, b
        <5>4. b + n \in 1 .. (a + c) /\ b + n <= a
          BY <3>5, <5>2
        <5>5. f[m][b + n] = q[k][n]
          BY <3>6, <5>3, <5>4
        <5> QED
          BY <5>5 DEF b
      <4> QED
        BY <4>1, <4>2
    <3>9. Good(m)
      BY <3>7, <3>8
    <3> HIDE DEF Good
    <3> QED
      BY <3>9
  <2>4. Good(Len(q))
    <3>1. Len(q) \in 1 .. Len(q) /\ Len(q) \notin T
      <4> HIDE DEF T
      <4> QED
        BY <2>1, <2>3
    <3> HIDE DEF Good
    <3> QED
      BY <3>1
  <2> QED
    BY <2>1, <2>2, <2>4
<1> QED
  BY <1>1, <1>2

(* Numbers of the hosts of a kind, of a zone and of the file. *)
LEMMA ZoneType ==
  ASSUME NEW zone \in NumaType, NEW kind
  PROVE  OfZone(zone, kind) \in Seq(Nat)
<1> DEFINE q == [n \in DOMAIN zone.hosts |->
                   IF zone.hosts[n].kind = kind THEN <<zone.hosts[n].number>> ELSE <<>>]
<1>1. zone.hosts \in Seq(HostType)
  BY DEF NumaType
<1>2. ASSUME NEW n \in DOMAIN zone.hosts
      PROVE  (IF zone.hosts[n].kind = kind THEN <<zone.hosts[n].number>> ELSE <<>>) \in Seq(Nat)
  <2>1. zone.hosts[n] \in HostType
    BY <1>1, <1>2
  <2>2. zone.hosts[n].number \in Nat
    BY <2>1 DEF HostType
  <2> QED
    BY <2>2
<1>3. q \in Seq(Seq(Nat))
  <2>1. DOMAIN zone.hosts = 1 .. Len(zone.hosts) /\ Len(zone.hosts) \in Nat
    BY <1>1
  <2> QED
    BY <1>2, <2>1
<1> HIDE DEF q
<1>4. FlattenSeq(q) \in Seq(Nat)
  BY <1>3, FlattenType
<1> QED
  BY <1>4 DEF q, OfZone

LEMMA NumasOfAFile ==
  ASSUME NEW doc \in Seq(Seq(NumaType)), ~Refused(doc), NEW kind
  PROVE  LET zones == Numas(doc)
             pieces == [z \in DOMAIN zones |-> OfZone(zones[z], kind)]
         IN  /\ zones \in Seq(NumaType) /\ zones # <<>>
             /\ pieces \in Seq(Seq(Nat)) /\ Len(pieces) = Len(zones)
<1> DEFINE zones == Numas(doc)
           pieces == [z \in DOMAIN zones |-> OfZone(zones[z], kind)]
<1>1. zones \in Seq(NumaType) /\ zones # <<>>
  BY DEF Refused, Numas
<1> HIDE DEF zones
<1>2. DOMAIN zones = 1 .. Len(zones) /\ Len(zones) \in Nat
  BY <1>1
<1>3. \A z \in DOMAIN zones : OfZone(zones[z], kind) \in Seq(Nat)
  <2> TAKE z \in DOMAIN zones
  <2>1. zones[z] \in NumaType
    BY <1>1
  <2> QED
    BY <2>1, ZoneType
<1>4. pieces \in Seq(Seq(Nat)) /\ Len(pieces) = Len(zones)
  BY <1>2, <1>3
<1> QED
  BY <1>1, <1>4 DEF zones

LEMMA HostsType ==
  ASSUME NEW doc \in Seq(Seq(NumaType)), ~Refused(doc), NEW kind
  PROVE  HostsOf(doc, kind) \in Seq(Nat)
<1> DEFINE pieces == [z \in DOMAIN Numas(doc) |-> OfZone(Numas(doc)[z], kind)]
<1>1. pieces \in Seq(Seq(Nat))
  BY NumasOfAFile
<1> HIDE DEF pieces
<1>2. FlattenSeq(pieces) \in Seq(Nat)
  BY <1>1, FlattenType
<1> QED
  BY <1>2 DEF pieces, HostsOf
-----------------------------------------------------------------------------
(***************************************************************************)
(* What the inputs say.                                                    *)
(***************************************************************************)
LEMMA InputIsTyped ==
  ASSUME input \in Inputs
  PROVE  InputType(input)
BY StartupAssumption

LEMMA WidthsAreTyped ==
  /\ IntWidth \in Nat \ {0} /\ LongWidth \in Nat \ {0} /\ IntWidth <= LongWidth
  /\ 2 ^ (IntWidth - 1) \in Nat \ {0} /\ 2 ^ IntWidth = 2 * 2 ^ (IntWidth - 1)
  /\ 2 ^ (LongWidth - 1) \in Nat \ {0} /\ 2 ^ LongWidth = 2 * 2 ^ (LongWidth - 1)
  /\ 2 ^ (IntWidth - 1) <= 2 ^ (LongWidth - 1)
<1>1. IntWidth \in Nat \ {0} /\ LongWidth \in Nat \ {0} /\ IntWidth <= LongWidth
  BY StartupAssumption
<1>2. IntWidth - 1 \in Nat /\ LongWidth - 1 \in Nat /\ IntWidth - 1 <= LongWidth - 1
  BY <1>1
<1>3. 2 ^ (IntWidth - 1) \in Nat \ {0} /\ 2 ^ (LongWidth - 1) \in Nat \ {0}
  BY <1>2, PowerOfTwo
<1>4. 2 ^ IntWidth = 2 * 2 ^ (IntWidth - 1) /\ 2 ^ LongWidth = 2 * 2 ^ (LongWidth - 1)
  BY <1>1, PowersDouble
<1>5. 2 ^ (IntWidth - 1) <= 2 ^ (LongWidth - 1)
  BY <1>2, PowersGrow
<1> QED
  BY <1>1, <1>3, <1>4, <1>5

IntRange == -(2 ^ (IntWidth - 1)) .. (2 ^ (IntWidth - 1) - 1)

LEMMA ArgumentsAreTyped ==
  ASSUME input \in Inputs, NEW o
  PROVE  Number(o) \in IntRange /\ Word(o) \in Words
<1>1. input.args \in Seq(ArgumentType)
  BY InputIsTyped DEF InputType
<1>2. 0 \in IntRange
  BY WidthsAreTyped DEF IntRange
<1>3. CASE Given(o) = {}
  <2>1. Number(o) \in IntRange
    BY <1>2, <1>3 DEF Number
  <2>2. Word(o) \in Words
    BY <1>3 DEF Word, Words
  <2> QED
    BY <2>1, <2>2
<1>4. CASE Given(o) # {}
  <2>1. Given(o) \subseteq 1 .. Len(input.args) /\ Len(input.args) \in Nat
    BY <1>1 DEF Given
  <2>2. Max(Given(o)) \in Given(o)
    BY <1>4, <2>1, LastPosition
  <2>3. Max(Given(o)) \in DOMAIN input.args
    BY <2>2 DEF Given
  <2>4. input.args[Max(Given(o))] \in ArgumentType
    BY <1>1, <2>3
  <2>5. input.args[Max(Given(o))].num \in IntRange /\ input.args[Max(Given(o))].word \in Words
    BY <2>4 DEF ArgumentType, IntRange
  <2> QED
    BY <1>4, <2>5 DEF Number, Word
<1> QED
  BY <1>3, <1>4

(* What a long holds of an int: a negative one is beyond any number of hosts. *)
LEMMA UnsignedOfInt ==
  ASSUME NEW n \in IntRange
  PROVE  /\ Unsigned(n) \in Nat /\ (n >= 0 => Unsigned(n) = n)
         /\ Unsigned(n) < 2 ^ (LongWidth - 1) => Unsigned(n) = n
<1> DEFINE h == 2 ^ (IntWidth - 1)
           l == 2 ^ (LongWidth - 1)
           L == 2 ^ LongWidth
<1>1. h \in Nat \ {0} /\ l \in Nat \ {0} /\ h <= l /\ L = 2 * l /\ L \in Nat \ {0}
  BY WidthsAreTyped
<1>2. n \in Int /\ -h <= n /\ n < h
  BY <1>1 DEF IntRange
<1>3. Unsigned(n) = n % L
  BY DEF Unsigned
<1> HIDE DEF h, l, L
<1>4. n % L \in 0 .. (L - 1) /\ n \div L \in Int /\ n = (n % L) + L * (n \div L)
  BY <1>1, <1>2, DivMod
<1>5. CASE n >= 0
  <2>1. n \in 0 .. (L - 1) /\ n = n + L * 0
    BY <1>1, <1>2, <1>5
  <2>2. n % L = n
    BY <1>1, <1>4, <2>1, DigitsAreUnique
  <2> QED
    BY <1>2, <1>3, <1>5, <2>2
<1>6. CASE n < 0
  <2>1. n + L \in 0 .. (L - 1) /\ n = (n + L) + L * (-1)
    BY <1>1, <1>2, <1>6
  <2>2. n % L = n + L
    <3> DEFINE m == n + L
               b == -1
               r == n % L
               a == n \div L
    <3>1. r + L * a = m + L * b /\ m \in 0 .. (L - 1) /\ b \in Int
      BY <1>1, <1>2, <1>4, <2>1
    <3>2. r \in 0 .. (L - 1) /\ a \in Int
      BY <1>4
    <3> HIDE DEF m, b, r, a
    <3>3. r = m
      <4>1. L \in Nat \ {0}
        BY <1>1
      <4> QED
        BY <3>1, <3>2, <4>1, DigitsAreUnique, Zenon
    <3> QED
      BY <3>3 DEF m, r
  <2>3. ~(n + L < l) /\ n + L \in Nat
    BY <1>1, <1>2, <2>1
  <2> QED
    BY <1>2, <1>3, <1>6, <2>2, <2>3 DEF l
<1> QED
  BY <1>2, <1>5, <1>6

(* What is taken from a file that is not refused. *)
LEMMA PlatformIsTyped ==
  ASSUME input \in Inputs, ~Refused(input.doc)
  PROVE  /\ \A kind \in {"CPU", "IMC", "RAM"} :
              /\ HostsOf(input.doc, kind) \in Seq(Nat)
              /\ IsInjective(HostsOf(input.doc, kind))
              /\ Len(HostsOf(input.doc, kind)) < 2 ^ (LongWidth - 1)
         /\ NCache(input.doc) \in Nat /\ CacheSize(input.doc) \in Nat
<1>1. input.doc \in Seq(Seq(NumaType)) /\ Loaded(input.doc)
  BY InputIsTyped DEF InputType
<1>2. \A kind : HostsOf(input.doc, kind) \in Seq(Nat)
  BY <1>1, HostsType
<1>3. NCache(input.doc) \in Nat /\ CacheSize(input.doc) \in Nat
  <2>1. CASE Skipped(input.doc)
    BY <2>1 DEF NCache, CacheSize
  <2>2. CASE ~Skipped(input.doc)
    <3> DEFINE zone == Numas(input.doc)[1]
    <3>1. Numas(input.doc) \in Seq(NumaType) /\ Numas(input.doc) # <<>>
      BY <1>1 DEF Refused, Numas
    <3>2. zone \in NumaType
      BY <3>1
    <3>3. zone.props \in Seq(Nat) /\ ~(Len(zone.props) < 4)
      BY <2>2, <3>1, <3>2 DEF NumaType, Refused
    <3> HIDE DEF zone
    <3>4. zone.props[1] \in Nat /\ zone.props[2] \in Nat
      BY <3>3
    <3> QED
      BY <2>2, <3>4 DEF NCache, CacheSize, zone
  <2> QED
    BY <2>1, <2>2
<1> QED
  BY <1>1, <1>2, <1>3 DEF Loaded
-----------------------------------------------------------------------------
(***************************************************************************)
(* Every step before the workers are created.                              *)
(***************************************************************************)
LEMMA StartupIInvInit == Init => StartupIInv
<1> SUFFICES ASSUME Init PROVE StartupIInv
  OBVIOUS
<1>1. <<>> \in Seq(Nat) /\ <<>> \in Seq(ToSet(machines)) /\ ToSet(<<>>) = {}
  BY DEF ToSet
<1>2. TypeOK
  <2>1. \A map \in {cacheReceiverMap, ramReceiverMap} :
           map \in [DOMAIN map -> Nat] /\ DOMAIN map \subseteq 0 .. (nCaches - 1)
    BY DEF Init, NoMap
  <2>2. i \in 0 .. Len(machines) /\ j \in 0 .. nCaches /\ counter \in 0 .. nMachines
    <3>1. Len(machines) = 0 /\ nCaches = 0 /\ nMachines = 0
      BY DEF Init
    <3>2. i = 0 /\ j = 0 /\ counter = 0
      BY DEF Init, AffinityInit
    <3> QED
      BY <3>1, <3>2
  <2>3. /\ \A list \in {machines, cacheList, ramList} : list \in Seq(Nat)
        /\ usedMachines \in Seq(ToSet(machines))
        /\ workerState \subseteq ToSet(machines) /\ running \subseteq workerState
    BY <1>1 DEF Init, AffinityInit
  <2>4. /\ nCaches \in Nat /\ realCacheSize \in Nat /\ nMachines \in Nat
        /\ mSize \in Int /\ bSize \in Int /\ cacheSz \in Int
    <3>1. /\ nCaches = 0 /\ realCacheSize = 0 /\ nMachines = 0
          /\ mSize = 0 /\ bSize = 0 /\ cacheSz = 0
      BY DEF Init
    <3> QED
      BY <3>1
  <2>6. /\ modelOption \in Words /\ affinity \in Words
        /\ loop \in {"no", "in", "done"}
    BY DEF Init, AffinityInit, Words
  <2>5. nMachines > 0 => counter < nMachines
    BY DEF Init, AffinityInit
  <2> QED
    BY <2>1, <2>2, <2>3, <2>4, <2>5, <2>6 DEF Init, TypeOK
<1>3. StageInv /\ RunningInv
  BY DEF Init, StageInv, RunningInv, Later
<1>4. LoopInv
  BY <1>1 DEF Init, AffinityInit, LoopInv, BeforeLoop
<1> QED
  BY <1>2, <1>3, <1>4 DEF Init, StartupIInv

(* Before the loops nothing depends on what is read. *)
LEMMA NothingBeforeLoop ==
  ASSUME StartupIInv, pc # "workers", UNCHANGED <<input, loopVars, maps>>,
         pc' \in {"environment", "platform", "options", "check", "tables", "caches",
                  "throws", "aborts", "undefined"},
         loop = "no"
  PROVE  /\ input' \in Inputs /\ RunningInv' /\ LoopInv'
         /\ loop' = "no" /\ i' = 0 /\ j' = 0 /\ counter' = 0 /\ usedMachines' = <<>>
         /\ workerState' = {} /\ running' = {}
         /\ cacheReceiverMap' = NoMap /\ ramReceiverMap' = NoMap
<1>1. BeforeLoop /\ cacheReceiverMap = NoMap /\ ramReceiverMap = NoMap /\ input \in Inputs
  BY DEF StartupIInv, LoopInv, RunningInv, BeforeLoop
<1>2. /\ i' = 0 /\ j' = 0 /\ counter' = 0 /\ loop' = "no"
      /\ usedMachines' = <<>> /\ workerState' = {} /\ running' = {} /\ input' = input
      /\ cacheReceiverMap' = NoMap /\ ramReceiverMap' = NoMap
  BY <1>1 DEF BeforeLoop, loopVars, maps
<1>3. RunningInv'
  BY <1>2 DEF RunningInv, NoMap
<1>4. <<>> \in Seq(ToSet(machines)') /\ ToSet(<<>>) = {}
  BY DEF ToSet
<1>5. LoopInv'
  BY <1>2, <1>4 DEF LoopInv, BeforeLoop
<1> QED
  BY <1>1, <1>2, <1>3, <1>5

LEMMA LoopIsLast ==
  ASSUME StartupIInv, pc \notin {"workers", "undefined"}
  PROVE  loop = "no"
BY DEF StartupIInv, LoopInv

LEMMA RestIsTyped ==
  ASSUME i' = 0, j' = 0, counter' = 0, loop' = "no", usedMachines' = <<>>, workerState' = {},
         running' = {}, cacheReceiverMap' = NoMap, ramReceiverMap' = NoMap,
         pc' \in {"environment", "platform", "options", "check", "tables", "caches",
                  "throws", "aborts", "undefined"},
         machines' \in Seq(Nat), cacheList' \in Seq(Nat), ramList' \in Seq(Nat),
         nCaches' \in Nat, realCacheSize' \in Nat, nMachines' \in Nat,
         mSize' \in Int, bSize' \in Int, cacheSz' \in Int,
         modelOption' \in Words, affinity' \in Words
  PROVE  TypeOK'
<1>1. \A map \in {cacheReceiverMap', ramReceiverMap'} :
         map \in [DOMAIN map -> Nat] /\ DOMAIN map \subseteq 0 .. (nCaches' - 1)
  BY DEF NoMap
<1>2. i' \in 0 .. Len(machines') /\ j' \in 0 .. nCaches' /\ counter' \in 0 .. nMachines'
  OBVIOUS
<1>3. nMachines' > 0 => counter' < nMachines'
  OBVIOUS
<1>4. <<>> \in Seq(ToSet(machines)')
  OBVIOUS
<1> QED
  BY <1>1, <1>2, <1>3, <1>4 DEF TypeOK

LEMMA StagesStay ==
  ASSUME UNCHANGED input
  PROVE  /\ GoodEnvironment => GoodEnvironment'
         /\ GoodTables => GoodTables'
         /\ UNCHANGED platform => (PlatformIsRead => PlatformIsRead')
         /\ UNCHANGED options => (OptionsAreRead => OptionsAreRead')
         /\ UNCHANGED <<platform, options>> => (OptionsAreChecked => OptionsAreChecked')
<1>1. GoodEnvironment => GoodEnvironment'
  BY DEF GoodEnvironment
<1>2. GoodTables => GoodTables'
  BY DEF GoodTables
<1>3. ASSUME UNCHANGED platform, PlatformIsRead PROVE PlatformIsRead'
  BY <1>3 DEF PlatformIsRead, platform
<1>4. ASSUME UNCHANGED options, OptionsAreRead PROVE OptionsAreRead'
  BY <1>4 DEF OptionsAreRead, options, Given, Number, Word
<1>5. ASSUME UNCHANGED <<platform, options>>, OptionsAreChecked PROVE OptionsAreChecked'
  BY <1>5 DEF OptionsAreChecked, platform, options, SomethingMissing, TooMany
<1> QED
  BY <1>1, <1>2, <1>3, <1>4, <1>5

LEMMA ReadEnvironmentStep ==
  ASSUME StartupIInv, ReadEnvironment
  PROVE  StartupIInv'
<1>1. pc = "environment" /\ pc' \in {"undefined", "platform"}
      /\ UNCHANGED <<input, platform, options, cacheSz>>
      /\ UNCHANGED <<input, loopVars, maps>>
  BY DEF ReadEnvironment
<1>2. /\ input' \in Inputs /\ RunningInv' /\ LoopInv'
      /\ TypeOK'
  BY <1>1, LoopIsLast, NothingBeforeLoop, RestIsTyped DEF StartupIInv, TypeOK, platform, options
<1>3. pc' = "platform" => GoodEnvironment'
  BY <1>1 DEF ReadEnvironment, GoodEnvironment
<1>4. StageInv'
  BY <1>1, <1>3 DEF StageInv, Later
<1> QED
  BY <1>2, <1>4 DEF StartupIInv

LEMMA ParsePlatformStep ==
  ASSUME StartupIInv, ParsePlatform
  PROVE  StartupIInv'
<1>1. pc = "platform" /\ UNCHANGED <<input, options, cacheSz>>
      /\ UNCHANGED <<input, loopVars, maps>>
      /\ pc' \in {"throws", "undefined", "options"}
  BY DEF ParsePlatform
<1>2. machines' \in Seq(Nat) /\ cacheList' \in Seq(Nat) /\ ramList' \in Seq(Nat)
      /\ nCaches' \in Nat /\ realCacheSize' \in Nat
  <2>1. CASE Refused(input.doc)
    BY <2>1 DEF ParsePlatform, platform, StartupIInv, TypeOK
  <2>2. CASE ~Refused(input.doc)
    BY <2>2, PlatformIsTyped DEF ParsePlatform, StartupIInv
  <2> QED
    BY <2>1, <2>2
<1>3. /\ input' \in Inputs /\ RunningInv' /\ LoopInv'
      /\ TypeOK'
  BY <1>1, <1>2, LoopIsLast, NothingBeforeLoop, RestIsTyped DEF StartupIInv, TypeOK, options
<1>4. GoodEnvironment'
  BY <1>1, StagesStay DEF StartupIInv, StageInv, Later
<1>5. pc' = "options" => PlatformIsRead'
  BY <1>1 DEF ParsePlatform, PlatformIsRead
<1>6. StageInv'
  BY <1>1, <1>4, <1>5 DEF StageInv, Later
<1> QED
  BY <1>3, <1>6 DEF StartupIInv

LEMMA ParseOptionsStep ==
  ASSUME StartupIInv, ParseOptions
  PROVE  StartupIInv'
<1>1. pc = "options" /\ UNCHANGED <<input, platform, cacheSz>>
      /\ UNCHANGED <<input, loopVars, maps>>
      /\ pc' \in {"throws", "check"}
  BY DEF ParseOptions
<1>2. mSize' \in Int /\ bSize' \in Int /\ nMachines' \in Nat
      /\ modelOption' \in Words /\ affinity' \in Words
  <2>1. CASE Given("h") \cup Given("?") # {}
    BY <2>1 DEF ParseOptions, options, StartupIInv, TypeOK
  <2>2. CASE Given("h") \cup Given("?") = {}
    <3>1. \A o : Number(o) \in Int /\ Unsigned(Number(o)) \in Nat /\ Word(o) \in Words
      BY ArgumentsAreTyped, UnsignedOfInt DEF StartupIInv, IntRange
    <3> QED
      BY <2>2, <3>1 DEF ParseOptions
  <2> QED
    BY <2>1, <2>2
<1>3. /\ input' \in Inputs /\ RunningInv' /\ LoopInv'
      /\ TypeOK'
  BY <1>1, <1>2, LoopIsLast, NothingBeforeLoop, RestIsTyped DEF StartupIInv, TypeOK, platform
<1>4. GoodEnvironment' /\ PlatformIsRead'
  BY <1>1, StagesStay DEF StartupIInv, StageInv, Later
<1>5. pc' = "check" => OptionsAreRead'
  <2> SUFFICES ASSUME pc' = "check" PROVE OptionsAreRead'
    OBVIOUS
  <2>1. /\ Given("h") = {} /\ Given("?") = {}
        /\ mSize' = Number("m") /\ bSize' = Number("b") /\ nMachines' = Unsigned(Number("t"))
        /\ modelOption' = Word("o") /\ affinity' = Word("a")
    BY DEF ParseOptions
  <2>2. \A o : Given(o)' = Given(o) /\ Number(o)' = Number(o) /\ Word(o)' = Word(o)
    BY <1>1 DEF Given, Number, Word
  <2> QED
    BY <2>1, <2>2 DEF OptionsAreRead, Unsigned
<1>6. StageInv'
  BY <1>1, <1>4, <1>5 DEF StageInv, Later
<1> QED
  BY <1>3, <1>6 DEF StartupIInv

LEMMA CheckOptionsStep ==
  ASSUME StartupIInv, CheckOptions
  PROVE  StartupIInv'
<1>1. pc = "check" /\ UNCHANGED <<input, platform, options, cacheSz>>
      /\ UNCHANGED <<input, loopVars, maps>> /\ pc' \in {"throws", "tables"}
  BY DEF CheckOptions
<1>2. /\ input' \in Inputs /\ RunningInv' /\ LoopInv'
      /\ TypeOK'
  BY <1>1, LoopIsLast, NothingBeforeLoop, RestIsTyped DEF StartupIInv, TypeOK, platform, options
<1>3. GoodEnvironment' /\ PlatformIsRead' /\ OptionsAreRead'
  BY <1>1, StagesStay DEF StartupIInv, StageInv, Later
<1>4. pc' = "tables" => OptionsAreChecked
  BY <1>1 DEF CheckOptions, OptionsAreChecked
<1>5. pc' = "tables" => OptionsAreChecked'
  BY <1>1, <1>4, StagesStay
<1>6. StageInv'
  BY <1>1, <1>3, <1>5 DEF StageInv, Later
<1> QED
  BY <1>2, <1>6 DEF StartupIInv

LEMMA ReadTablesStep ==
  ASSUME StartupIInv, ReadTables
  PROVE  StartupIInv'
<1>1. pc = "tables" /\ UNCHANGED <<input, platform, options, cacheSz>>
      /\ UNCHANGED <<input, loopVars, maps>> /\ pc' \in {"aborts", "caches"}
  BY DEF ReadTables
<1>2. /\ input' \in Inputs /\ RunningInv' /\ LoopInv'
      /\ TypeOK'
  BY <1>1, LoopIsLast, NothingBeforeLoop, RestIsTyped DEF StartupIInv, TypeOK, platform, options
<1>3. GoodEnvironment' /\ PlatformIsRead' /\ OptionsAreRead' /\ OptionsAreChecked'
  BY <1>1, StagesStay DEF StartupIInv, StageInv, Later
<1>4. pc' = "caches" => GoodTables'
  BY <1>1 DEF ReadTables, GoodTables
<1>5. StageInv'
  BY <1>1, <1>3, <1>4 DEF StageInv, Later
<1> QED
  BY <1>2, <1>5 DEF StartupIInv
LEMMA CreateCachesStep ==
  ASSUME StartupIInv, CreateCaches
  PROVE  StartupIInv'
<1>1. pc = "caches"
      /\ UNCHANGED <<input, platform, options, i, j, counter, usedMachines, workerState, maps>>
      /\ pc' \in {"undefined", "throws", "workers"}
  BY DEF CreateCaches
<1>2. CASE pc' # "workers"
  <2>1. UNCHANGED cacheSz /\ UNCHANGED <<input, loopVars, maps>> /\ pc' \in {"undefined", "throws"}
    BY <1>1, <1>2 DEF CreateCaches, loopVars
  <2>2. input' \in Inputs /\ RunningInv' /\ LoopInv' /\ TypeOK'
    BY <1>1, <2>1, LoopIsLast, NothingBeforeLoop, RestIsTyped
       DEF StartupIInv, TypeOK, platform, options
  <2>3. StageInv'
    BY <2>1 DEF StageInv, Later
  <2> QED
    BY <2>2, <2>3 DEF StartupIInv
<1>3. CASE pc' = "workers"
  <2>1. /\ commSize # 0 /\ architectureCacheSize # 0
        /\ cacheSz' = architectureCacheSize /\ loop' = "in"
    BY <1>3 DEF CreateCaches
  <2>2. loop = "no" /\ BeforeLoop /\ TypeOK /\ input \in Inputs
    BY <1>1, LoopIsLast DEF StartupIInv, LoopInv
  <2>3. /\ i' = 0 /\ j' = 0 /\ counter' = 0 /\ usedMachines' = <<>> /\ workerState' = {}
        /\ running' = {} /\ cacheReceiverMap' = NoMap /\ ramReceiverMap' = NoMap
    BY <1>1, <2>2 DEF BeforeLoop, maps, StartupIInv, RunningInv
  <2>4. /\ machines' = machines /\ nCaches' = nCaches /\ nMachines' = nMachines
        /\ affinity' = affinity /\ input' = input
    BY <1>1 DEF platform, options
  <2>5. /\ GoodEnvironment' /\ PlatformIsRead' /\ OptionsAreRead' /\ OptionsAreChecked'
        /\ GoodTables'
        /\ PlatformIsRead /\ OptionsAreChecked
    BY <1>1, StagesStay DEF StartupIInv, StageInv, Later
  <2>6. Ready
    <3>1. machines \in Seq(Nat) /\ IsInjective(machines)
      BY <2>2, <2>5, PlatformIsTyped DEF PlatformIsRead
    <3>2. /\ nCaches \in Nat \ {0} /\ nMachines \in Nat
          /\ nMachines # 0 /\ ~(nMachines > Len(machines))
      BY <2>2, <2>5 DEF PlatformIsRead, TypeOK, OptionsAreChecked, SomethingMissing, TooMany
    <3>3. Len(machines) \in Nat
      BY <3>1
    <3>4. nMachines \in 1 .. Len(machines)
      BY <3>2, <3>3
    <3> QED
      BY <3>1, <3>2, <3>4, <2>5 DEF Ready, OptionsAreChecked
  <2>7. Ready'
    BY <2>4, <2>6 DEF Ready
  <2>8. corePerCache \in Nat /\ corePerCache' = corePerCache
    BY <2>4, <2>6 DEF corePerCache, Ready
  <2>9. SpreadInv'
    <3>1. i' \in 0 .. corePerCache' /\ j' \in 0 .. (nCaches' - 1)
      BY <2>3, <2>4, <2>6, <2>8 DEF Ready
    <3>2. counter' = nCaches' * i' + j' /\ counter' < nMachines'
      BY <2>3, <2>4, <2>6, <2>8 DEF Ready
    <3>3. Len(usedMachines') = 0 /\ DOMAIN usedMachines' = {}
      BY <2>3
    <3> QED
      BY <2>1, <2>3, <3>1, <3>2, <3>3 DEF SpreadInv
  <2>10. CloseInv'
    <3>1. i' \in 0 .. nMachines'
      BY <2>3, <2>4, <2>6 DEF Ready
    <3> QED
      BY <2>1, <2>3, <3>1 DEF CloseInv
  <2>11. BalanceInv'
    <3>1. \A c : UsedOn(c)' = {}
      BY <2>3 DEF UsedOn
    <3>2. \A c : IsFiniteSet(UsedOn(c)') /\ Cardinality(UsedOn(c)') = 0
      BY <3>1, FS_EmptySet
    <3>3. \A c \in 0 .. (nCaches' - 1) : ~(c < j')
      BY <2>3, <2>4, <2>6 DEF Ready
    <3>4. 0 \in 0 .. corePerCache'
      BY <2>8
    <3>5. (\A c \in 0 .. (nCaches - 1) : IsFiniteSet(UsedOn(c)))'
      BY <3>2
    <3>6. (\A c \in 0 .. (nCaches - 1) : Cardinality(UsedOn(c)) = IF c < j THEN i + 1 ELSE i)'
      BY <3>2, <3>3, <2>3
    <3>7. (\E a \in 0 .. corePerCache :
             \A c \in 0 .. (nCaches - 1) : Cardinality(UsedOn(c)) \in {a, a + 1})'
      BY <3>2, <3>4
    <3> QED
      BY <3>5, <3>6, <3>7 DEF BalanceInv
  <2>12. <<>> \in Seq(ToSet(machines')) /\ ToSet(<<>>) = {}
    BY DEF ToSet
  <2>13. LoopInv'
    BY <1>3, <2>1, <2>3, <2>7, <2>9, <2>10, <2>11, <2>12 DEF LoopInv
  <2>14. RunningInv'
    BY <2>3 DEF RunningInv, NoMap
  <2>15. commSize' = commSize /\ architectureCacheSize' = architectureCacheSize
    BY <1>1 DEF commSize, architectureCacheSize, Wrap, platform, options
  <2>16. StageInv'
    BY <1>3, <2>1, <2>5, <2>15 DEF StageInv, Later
  <2>17. TypeOK'
    <3>1. cacheSz' \in Int
      <4>1. bSize \in Int /\ realCacheSize \in Nat
        BY <2>2 DEF TypeOK
      <4>2. bSize * bSize * 8 \in Int
        BY <4>1
      <4>3. commSize \in Int
        <5> DEFINE n == bSize * bSize * 8
                   h == 2 ^ (IntWidth - 1)
                   H == 2 ^ IntWidth
        <5>1. n \in Int /\ h \in Nat \ {0} /\ H = 2 * h /\ H \in Nat \ {0}
          BY <4>2, WidthsAreTyped
        <5>2. commSize = ((n + h) % H) - h
          BY DEF commSize, Wrap
        <5> HIDE DEF n, h, H
        <5> QED
          BY <5>1, <5>2
      <4> QED
        BY <2>1, <4>1, <4>3 DEF architectureCacheSize
    <3>2. i' \in 0 .. Len(machines') /\ j' \in 0 .. nCaches' /\ counter' \in 0 .. nMachines'
          /\ (nMachines' > 0 => counter' < nMachines')
      BY <2>3, <2>4, <2>6 DEF Ready
    <3>3. /\ machines' \in Seq(Nat) /\ cacheList' \in Seq(Nat) /\ ramList' \in Seq(Nat)
          /\ nCaches' \in Nat /\ realCacheSize' \in Nat /\ nMachines' \in Nat
          /\ mSize' \in Int /\ bSize' \in Int
          /\ modelOption' \in Words /\ affinity' \in Words
      BY <1>1, <2>2 DEF TypeOK, platform, options
    <3>4. \A map \in {cacheReceiverMap', ramReceiverMap'} :
             map \in [DOMAIN map -> Nat] /\ DOMAIN map \subseteq 0 .. (nCaches' - 1)
      BY <2>3 DEF NoMap
    <3>5. running' \subseteq workerState' /\ workerState' \subseteq ToSet(machines')
          /\ loop' \in {"no", "in", "done"} /\ usedMachines' \in Seq(ToSet(machines'))
      BY <2>1, <2>3, <2>12
    <3> QED
      BY <1>3, <3>1, <3>2, <3>3, <3>4, <3>5 DEF TypeOK
  <2> QED
    BY <2>2, <2>4, <2>13, <2>14, <2>16, <2>17 DEF StartupIInv
<1> QED
  BY <1>2, <1>3
-----------------------------------------------------------------------------
(***************************************************************************)
(* The steps that create the workers.                                      *)
(***************************************************************************)
LEMMA CoresOfCaches ==
  ASSUME Ready
  PROVE  /\ corePerCache \in Nat /\ corePerCache * nCaches \in Nat
         /\ corePerCache * nCaches = nCaches * corePerCache
         /\ corePerCache * nCaches <= Len(machines) /\ corePerCache <= Len(machines)
         /\ Len(machines) = corePerCache * nCaches + (Len(machines) % nCaches)
<1> DEFINE L == Len(machines)
           k == corePerCache
           m == L % nCaches
<1>1. L \in Nat /\ nCaches \in Nat \ {0}
  BY DEF Ready
<1>2. k \in Int /\ m \in 0 .. (nCaches - 1) /\ L = m + nCaches * k
  BY <1>1, DivMod DEF corePerCache
<1> HIDE DEF L, k, m
<1>3. k >= 0
  <2>1. SUFFICES ASSUME k < 0 PROVE FALSE
    BY <1>2
  <2>2. nCaches * k + nCaches <= nCaches * 0
    BY <1>1, <1>2, <2>1, NextMultiple
  <2> DEFINE p == nCaches * k
  <2>3. p \in Int /\ p + nCaches <= 0 /\ L = m + p
    BY <1>1, <1>2, <2>2
  <2> HIDE DEF p
  <2> QED
    BY <1>1, <1>2, <2>3
<1>4. k * nCaches = nCaches * k /\ k * nCaches \in Nat
  BY <1>1, <1>2, <1>3
<1>5. k <= k * nCaches
  <2>1. k * (nCaches - 1) \in Nat /\ k * nCaches = k * (nCaches - 1) + k
    BY <1>1, <1>2, <1>3
  <2> DEFINE p == k * (nCaches - 1)
             q == k * nCaches
  <2>2. p \in Nat /\ q = p + k
    BY <2>1
  <2> HIDE DEF p, q
  <2>3. k <= q
    BY <1>2, <2>2
  <2> QED
    BY <2>3 DEF q
<1>6. L = k * nCaches + m
  BY <1>2, <1>4
<1>7. k * nCaches <= L
  <2> DEFINE q == k * nCaches
  <2>1. q \in Nat /\ L = q + m
    BY <1>4, <1>6
  <2> HIDE DEF q
  <2>2. q <= L
    BY <1>2, <2>1
  <2> QED
    BY <2>2 DEF q
<1>8. k \in Nat /\ k <= L
  <2>1. k \in Nat /\ k * nCaches \in Nat
    BY <1>2, <1>3, <1>4
  <2> QED
    BY <1>1, <1>5, <1>7, <2>1
<1> QED
  BY <1>4, <1>6, <1>7, <1>8, Zenon DEF L, k, m

LEMMA PlaceIsACore ==
  ASSUME Ready, NEW r \in 0 .. (corePerCache - 1), NEW c \in 0 .. (nCaches - 1)
  PROVE  /\ Place(r, c) \in 0 .. (corePerCache * nCaches - 1)
         /\ Place(r, c) \in 0 .. (Len(machines) - 1) /\ CacheNum(Place(r, c)) = c
<1> DEFINE k == corePerCache
           p == k * c
           q == k * nCaches
<1>1. /\ k \in Nat \ {0} /\ q \in Nat /\ q <= Len(machines) /\ Len(machines) \in Nat
      /\ nCaches \in Nat \ {0}
  BY CoresOfCaches DEF Ready
<1>2. p + k <= q /\ p \in Nat
  BY <1>1, NextMultiple
<1>3. Place(r, c) = r + p
  BY DEF Place
<1>4. (r + p) \div k = c
  BY <1>1, QuotientOfDigits
<1> HIDE DEF p, q
<1>5. r + p \in 0 .. (q - 1) /\ r + p \in 0 .. (Len(machines) - 1) /\ r + p < q
  BY <1>1, <1>2
<1>6. CacheNum(r + p) = c
  BY <1>4, <1>5 DEF CacheNum, q
<1> QED
  BY <1>3, <1>5, <1>6 DEF q

LEMMA AddWorkerAppends ==
  ASSUME NEW n \in 0 .. (Len(machines) - 1), AddWorker(n), machines \in Seq(Nat),
         UNCHANGED machines,
         usedMachines \in Seq(ToSet(machines)), workerState = ToSet(usedMachines)
  PROVE  /\ usedMachines' \in Seq(ToSet(machines')) /\ workerState' = ToSet(usedMachines')
         /\ workerState \subseteq workerState'
         /\ Len(usedMachines) \in Nat /\ Len(usedMachines') = Len(usedMachines) + 1
         /\ DOMAIN usedMachines = 1 .. Len(usedMachines)
         /\ DOMAIN usedMachines' = 1 .. (Len(usedMachines) + 1)
         /\ \A m \in DOMAIN usedMachines : usedMachines'[m] = usedMachines[m]
         /\ usedMachines'[Len(usedMachines) + 1] = machines[n + 1]
<1>1. n + 1 \in DOMAIN machines
  OBVIOUS
<1>2. machines[n + 1] \in ToSet(machines)
  BY <1>1 DEF ToSet
<1>3. /\ usedMachines' = Append(usedMachines, machines[n + 1])
      /\ workerState' = workerState \cup {machines[n + 1]}
  BY DEF AddWorker
<1>4. /\ usedMachines' \in Seq(ToSet(machines))
      /\ Len(usedMachines) \in Nat /\ Len(usedMachines') = Len(usedMachines) + 1
      /\ DOMAIN usedMachines = 1 .. Len(usedMachines)
      /\ DOMAIN usedMachines' = 1 .. (Len(usedMachines) + 1)
      /\ \A m \in DOMAIN usedMachines : usedMachines'[m] = usedMachines[m]
      /\ usedMachines'[Len(usedMachines) + 1] = machines[n + 1]
  BY <1>2, <1>3
<1>5. ToSet(usedMachines') = ToSet(usedMachines) \cup {machines[n + 1]}
  <2>1. ToSet(usedMachines') \subseteq ToSet(usedMachines) \cup {machines[n + 1]}
    <3> SUFFICES ASSUME NEW m \in DOMAIN usedMachines'
                 PROVE  usedMachines'[m] \in ToSet(usedMachines) \cup {machines[n + 1]}
      BY DEF ToSet
    <3>1. CASE m \in DOMAIN usedMachines
      BY <1>4, <3>1 DEF ToSet
    <3>2. CASE m = Len(usedMachines) + 1
      BY <1>4, <3>2
    <3> QED
      BY <1>4, <3>1, <3>2
  <2>2. ToSet(usedMachines) \cup {machines[n + 1]} \subseteq ToSet(usedMachines')
    <3>1. machines[n + 1] \in ToSet(usedMachines')
      <4>1. Len(usedMachines) + 1 \in DOMAIN usedMachines'
        BY <1>4
      <4> QED
        BY <1>4, <4>1 DEF ToSet
    <3>2. ASSUME NEW m \in DOMAIN usedMachines PROVE usedMachines[m] \in ToSet(usedMachines')
      <4>1. m \in DOMAIN usedMachines' /\ usedMachines'[m] = usedMachines[m]
        BY <1>4
      <4> QED
        BY <4>1 DEF ToSet
    <3> QED
      BY <3>1, <3>2 DEF ToSet
  <2> QED
    BY <2>1, <2>2
<1> QED
  BY <1>3, <1>4, <1>5

(* What a step of the loops must keep. *)
LEMMA WorkersStay ==
  ASSUME StartupIInv, pc = "workers", UNCHANGED <<input, pc, platform, options, cacheSz, maps>>,
         loop' \in {"in", "done"},
         usedMachines' \in Seq(ToSet(machines')), workerState' = ToSet(usedMachines'),
         workerState \subseteq workerState',
         affinity = "spread" => SpreadInv', affinity = "close" => CloseInv', BalanceInv'
  PROVE  StartupIInv'
<1>1. /\ machines' = machines /\ nCaches' = nCaches /\ nMachines' = nMachines
      /\ affinity' = affinity /\ input' = input /\ input \in Inputs /\ TypeOK /\ pc' = "workers"
      /\ cacheList' = cacheList /\ ramList' = ramList /\ realCacheSize' = realCacheSize
      /\ mSize' = mSize /\ bSize' = bSize /\ modelOption' = modelOption /\ cacheSz' = cacheSz
  BY DEF platform, options, StartupIInv
<1>2. /\ running' = running /\ cacheReceiverMap' = cacheReceiverMap
      /\ ramReceiverMap' = ramReceiverMap
  BY DEF maps
<1>3. Ready
  BY DEF StartupIInv, LoopInv, StageInv
<1>4. Ready'
  BY <1>1, <1>3 DEF Ready
<1>5. LoopInv'
  BY <1>1, <1>4 DEF LoopInv
<1>6. RunningInv'
  BY <1>1, <1>2 DEF RunningInv, StartupIInv, NoMap
<1>7. commSize' = commSize /\ architectureCacheSize' = architectureCacheSize
  BY <1>1 DEF commSize, architectureCacheSize, Wrap
<1>8. StageInv'
  BY <1>1, <1>7, StagesStay DEF StartupIInv, StageInv, Later
<1>9. TypeOK'
  <2>1. corePerCache' = corePerCache /\ corePerCache \in Nat /\ corePerCache <= Len(machines)
        /\ Len(machines) \in Nat /\ nMachines \in 1 .. Len(machines) /\ nCaches \in Nat \ {0}
    <3>1. corePerCache' = corePerCache
      BY <1>1 DEF corePerCache
    <3>2. Len(machines) \in Nat /\ nMachines \in 1 .. Len(machines) /\ nCaches \in Nat \ {0}
      BY <1>3 DEF Ready
    <3> QED
      BY <1>3, <3>1, <3>2, CoresOfCaches
  <2>2. i' \in 0 .. Len(machines') /\ j' \in 0 .. nCaches' /\ counter' \in 0 .. nMachines'
        /\ (nMachines' > 0 => counter' < nMachines')
    <3>1. CASE affinity = "spread"
      <4>1. i' \in 0 .. corePerCache /\ j' \in 0 .. (nCaches - 1)
            /\ counter' = nCaches * i' + j' /\ counter' < nMachines
        BY <1>1, <2>1, <3>1 DEF SpreadInv
      <4>2. \A a, b \in Nat : nCaches * a + b \in Nat
        BY <2>1
      <4>3. i' \in Nat /\ j' \in Nat
        BY <2>1, <4>1
      <4>4. counter' \in Nat
        BY <4>1, <4>2, <4>3, Zenon
      <4>5. i' \in 0 .. Len(machines) /\ j' \in 0 .. nCaches
        BY <2>1, <4>1
      <4>6. counter' \in 0 .. nMachines /\ counter' < nMachines
        <5>1. counter' < nMachines
          BY <4>1
        <5> QED
          BY <2>1, <4>4, <5>1
      <4> QED
        BY <1>1, <4>5, <4>6
    <3>2. CASE affinity = "close"
      BY <1>1, <2>1, <3>2 DEF CloseInv
    <3> QED
      BY <1>3, <3>1, <3>2 DEF Ready, Affinities
  <2>3. \A map \in {cacheReceiverMap', ramReceiverMap'} :
           map \in [DOMAIN map -> Nat] /\ DOMAIN map \subseteq 0 .. (nCaches' - 1)
    BY <1>1, <1>2 DEF TypeOK
  <2>4. /\ machines' \in Seq(Nat) /\ cacheList' \in Seq(Nat) /\ ramList' \in Seq(Nat)
        /\ nCaches' \in Nat /\ realCacheSize' \in Nat /\ nMachines' \in Nat
        /\ mSize' \in Int /\ bSize' \in Int /\ cacheSz' \in Int
        /\ modelOption' \in Words /\ affinity' \in Words
    BY <1>1 DEF TypeOK
  <2>5. running' \subseteq workerState' /\ workerState' \subseteq ToSet(machines')
    <3>1. ToSet(usedMachines') \subseteq ToSet(machines')
      BY DEF ToSet
    <3> QED
      BY <1>1, <1>2, <3>1 DEF TypeOK
  <2> QED
    BY <1>1, <2>2, <2>3, <2>4, <2>5 DEF TypeOK
<1> QED
  BY <1>1, <1>5, <1>6, <1>8, <1>9 DEF StartupIInv

LEMMA CreateSpreadStep ==
  ASSUME StartupIInv, pc = "workers", CreateSpread,
         UNCHANGED <<input, pc, platform, options, cacheSz, maps>>
  PROVE  StartupIInv'
<1> DEFINE k == corePerCache
           n == Len(usedMachines) + 1
<1>1. /\ machines' = machines /\ nCaches' = nCaches /\ nMachines' = nMachines
      /\ affinity' = affinity
  BY DEF platform, options
<1>2. /\ Ready /\ SpreadInv /\ BalanceInv /\ loop = "in" /\ affinity = "spread" /\ i < k
      /\ usedMachines \in Seq(ToSet(machines)) /\ workerState = ToSet(usedMachines)
  BY DEF StartupIInv, LoopInv, CreateSpread
<1>3. /\ machines \in Seq(Nat) /\ nCaches \in Nat \ {0} /\ nMachines \in 1 .. Len(machines)
      /\ k \in Nat /\ k * nCaches = nCaches * k /\ k * nCaches \in Nat
  BY <1>2, CoresOfCaches DEF Ready
<1>4. /\ i \in 0 .. (k - 1) /\ j \in 0 .. (nCaches - 1)
      /\ counter = nCaches * i + j /\ counter < nMachines /\ Len(usedMachines) = counter
  BY <1>2, <1>3 DEF SpreadInv
<1>5. Place(i, j) \in 0 .. (Len(machines) - 1) /\ CacheNum(Place(i, j)) = j
  BY <1>2, <1>4, PlaceIsACore
<1>6. AddWorker(Place(i, j))
  BY DEF CreateSpread
<1>7. /\ usedMachines' \in Seq(ToSet(machines')) /\ workerState' = ToSet(usedMachines')
      /\ workerState \subseteq workerState'
      /\ Len(usedMachines) \in Nat /\ Len(usedMachines') = n
      /\ DOMAIN usedMachines = 1 .. Len(usedMachines) /\ DOMAIN usedMachines' = 1 .. n
      /\ \A m \in DOMAIN usedMachines : usedMachines'[m] = usedMachines[m]
      /\ usedMachines'[n] = machines[Place(i, j) + 1]
  BY <1>1, <1>2, <1>3, <1>5, <1>6, AddWorkerAppends
<1>8. corePerCache' = k /\ \A r, c : Place(r, c)' = Place(r, c)
  BY <1>1 DEF corePerCache, Place
<1> DEFINE p == nCaches * i
<1>9. p \in Nat /\ p + nCaches <= k * nCaches /\ nCaches * (i + 1) = p + nCaches
  BY <1>3, <1>4, NextMultiple
<1>10. n = p + j + 1 /\ n \in Nat
  BY <1>4, <1>7
<1> HIDE DEF p, n, k
<1>11. \/ loop' = "done" /\ i' = i /\ j' = j /\ counter' = counter /\ counter = nMachines - 1
       \/ loop' = "in" /\ counter' = counter + 1 /\ counter # nMachines - 1
            /\ j + 1 < nCaches /\ j' = j + 1 /\ i' = i
       \/ loop' = "in" /\ counter' = counter + 1 /\ counter # nMachines - 1
            /\ ~(j + 1 < nCaches) /\ j' = 0 /\ i' = i + 1
  BY <1>2 DEF CreateSpread, LastCore
<1>12. counter = p + j /\ nMachines \in Nat /\ Len(usedMachines') = counter + 1
  BY <1>3, <1>4, <1>7 DEF p, n
<1>13. /\ i' \in 0 .. k /\ j' \in 0 .. (nCaches - 1) /\ (i' = k => j' = 0)
       /\ counter' = nCaches * i' + j' /\ counter' < nMachines
       /\ loop' = "in" => counter' = counter + 1
       /\ loop' # "in" => counter + 1 = nMachines /\ nMachines <= k * nCaches
  <2>1. CASE loop' = "done" /\ i' = i /\ j' = j /\ counter' = counter /\ counter = nMachines - 1
    <3> DEFINE q == k * nCaches
    <3>1. q \in Nat /\ p + nCaches <= q
      BY <1>3, <1>9
    <3> HIDE DEF q
    <3>2. counter + 1 = nMachines /\ nMachines <= q
      BY <1>3, <1>4, <1>9, <1>12, <2>1, <3>1
    <3>3. i' \in 0 .. k /\ (i' = k => j' = 0) /\ j' \in 0 .. (nCaches - 1)
      BY <1>3, <1>4, <2>1
    <3> QED
      BY <1>4, <2>1, <3>2, <3>3 DEF q
  <2>2. CASE /\ loop' = "in" /\ counter' = counter + 1 /\ counter # nMachines - 1
             /\ j + 1 < nCaches /\ j' = j + 1 /\ i' = i
    <3>1. i' \in 0 .. k /\ (i' = k => j' = 0) /\ j' \in 0 .. (nCaches - 1) /\ counter' < nMachines
      BY <1>3, <1>4, <1>9, <1>12, <2>2
    <3>2. counter' = p + j'
      BY <1>4, <1>9, <1>12, <2>2
    <3> QED
      BY <2>2, <3>1, <3>2 DEF p
  <2>3. CASE /\ loop' = "in" /\ counter' = counter + 1 /\ counter # nMachines - 1
             /\ ~(j + 1 < nCaches) /\ j' = 0 /\ i' = i + 1
    <3>1. i' \in 0 .. k /\ (i' = k => j' = 0) /\ j' \in 0 .. (nCaches - 1) /\ counter' < nMachines
      BY <1>3, <1>4, <1>9, <1>12, <2>3
    <3>2. counter' = p + nCaches
      BY <1>3, <1>4, <1>9, <1>12, <2>3
    <3>3. counter' = nCaches * i' + j'
      <4>1. nCaches * i' = counter' /\ counter' \in Nat
        BY <1>3, <1>9, <2>3, <3>2
      <4> DEFINE q == nCaches * i'
      <4>2. q = counter' /\ q \in Nat
        BY <4>1
      <4> HIDE DEF q
      <4>3. counter' = q + j'
        BY <2>3, <4>2
      <4> QED
        BY <4>3 DEF q
    <3> QED
      BY <2>3, <3>1, <3>3
  <2> QED
    BY <1>11, <2>1, <2>2, <2>3
<1>14. ASSUME NEW m \in DOMAIN usedMachines'
       PROVE  \E r \in 0 .. (k - 1), c \in 0 .. (nCaches - 1) :
                 m = nCaches * r + c + 1 /\ usedMachines'[m] = machines[Place(r, c) + 1]
  <2>1. CASE m \in DOMAIN usedMachines
    <3>1. PICK r \in 0 .. (k - 1), c \in 0 .. (nCaches - 1) :
             m = nCaches * r + c + 1 /\ usedMachines[m] = machines[Place(r, c) + 1]
      BY <1>2, <2>1 DEF SpreadInv, k
    <3> QED
      BY <1>7, <2>1, <3>1
  <2>2. CASE m = n
    <3>1. m = nCaches * i + j + 1 /\ usedMachines'[m] = machines[Place(i, j) + 1]
      BY <1>7, <1>10, <2>2 DEF p
    <3> QED
      BY <1>4, <3>1
  <2>3. m \in DOMAIN usedMachines \/ m = n
    BY <1>7, <1>10, <1>14 DEF n
  <2> QED
    BY <2>1, <2>2, <2>3
<1>15. SpreadInv'
  <2> DEFINE q == k * nCaches
  <2>1. Min({nMachines, q}) = IF nMachines <= q THEN nMachines ELSE q
    BY <1>3, LesserOfTwo
  <2>2. Len(usedMachines') = IF loop' = "in" THEN counter' ELSE Min({nMachines, q})
    BY <1>12, <1>13, <2>1
  <2>3. Len(usedMachines') =
          IF loop' = "in" THEN counter' ELSE Min({nMachines', corePerCache' * nCaches'})
    BY <1>1, <1>8, <2>2
  <2>4. \A m \in DOMAIN usedMachines' :
          \E r \in 0 .. (corePerCache' - 1), c \in 0 .. (nCaches' - 1) :
             m = nCaches' * r + c + 1 /\ usedMachines'[m] = machines'[Place(r, c)' + 1]
    BY <1>1, <1>8, <1>14
  <2>5. /\ i' \in 0 .. corePerCache' /\ j' \in 0 .. (nCaches' - 1)
        /\ counter' = nCaches' * i' + j' /\ counter' < nMachines'
        /\ i' = corePerCache' => j' = 0
    BY <1>1, <1>8, <1>13
  <2> QED
    BY <2>3, <2>4, <2>5 DEF SpreadInv
<1>16. BalanceInv'
  <2> SUFFICES ASSUME Numbered' PROVE
         /\ \A c \in 0 .. (nCaches' - 1) : IsFiniteSet(UsedOn(c)')
         /\ loop' = "in" => \A c \in 0 .. (nCaches' - 1) :
                              Cardinality(UsedOn(c)') = IF c < j' THEN i' + 1 ELSE i'
         /\ \E a \in 0 .. corePerCache' :
              \A c \in 0 .. (nCaches' - 1) : Cardinality(UsedOn(c)') \in {a, a + 1}
    BY DEF BalanceInv
  <2>1. Numbered /\ \A cpu : CacheNum(cpu)' = CacheNum(cpu)
    BY <1>1, <1>8 DEF Numbered, CacheNum, k
  <2>2. /\ \A c \in 0 .. (nCaches - 1) : IsFiniteSet(UsedOn(c))
        /\ \A c \in 0 .. (nCaches - 1) : Cardinality(UsedOn(c)) = IF c < j THEN i + 1 ELSE i
    BY <1>2, <2>1 DEF BalanceInv
  <2>3. machines[Place(i, j) + 1] = Place(i, j)
    BY <1>3, <1>5, <2>1 DEF Numbered
  <2>4. CacheNum(usedMachines'[n]) = j
    BY <1>5, <1>7, <2>3
  <2>5. n \notin DOMAIN usedMachines /\ DOMAIN usedMachines' = DOMAIN usedMachines \cup {n}
    BY <1>7 DEF n
  <2> PICK b \in 0 .. (nCaches - 1) : b = j
    BY <1>4
  <2>6. UsedOn(b)' = UsedOn(b) \cup {n} /\ n \notin UsedOn(b)
    <3>1. CacheNum(usedMachines'[n]) = b
      BY <2>4
    <3>2. \A m \in DOMAIN usedMachines : CacheNum(usedMachines'[m]) = CacheNum(usedMachines[m])
      BY <1>7
    <3> QED
      BY <2>1, <2>5, <3>1, <3>2 DEF UsedOn
  <2>7. \A c \in 0 .. (nCaches - 1) : c # b => UsedOn(c)' = UsedOn(c)
    BY <1>7, <2>1, <2>4, <2>5 DEF UsedOn
  <2>8. IsFiniteSet(UsedOn(b)') /\ Cardinality(UsedOn(b)') = i + 1
    <3>1. IsFiniteSet(UsedOn(b)) /\ Cardinality(UsedOn(b)) = i
      BY <1>4, <2>2
    <3>2. IsFiniteSet(UsedOn(b) \cup {n}) /\ Cardinality(UsedOn(b) \cup {n}) = i + 1
      BY <2>6, <3>1, FS_AddElement
    <3> QED
      BY <2>6, <3>2
  <2>9. \A c \in 0 .. (nCaches - 1) :
          /\ IsFiniteSet(UsedOn(c)')
          /\ Cardinality(UsedOn(c)') = IF c < j + 1 THEN i + 1 ELSE i
    <3> SUFFICES ASSUME NEW c \in 0 .. (nCaches - 1)
                 PROVE  /\ IsFiniteSet(UsedOn(c)')
                        /\ Cardinality(UsedOn(c)') = IF c < j + 1 THEN i + 1 ELSE i
      OBVIOUS
    <3>1. CASE c = b
      BY <1>4, <2>8, <3>1
    <3>2. CASE c # b
      BY <1>4, <2>2, <2>7, <3>2
    <3> QED
      BY <3>1, <3>2
  <2>10. loop' = "in" => \A c \in 0 .. (nCaches - 1) :
                            Cardinality(UsedOn(c)') = IF c < j' THEN i' + 1 ELSE i'
    BY <1>3, <1>4, <1>11, <2>9
  <2>11. i \in 0 .. k /\ \A c \in 0 .. (nCaches - 1) : Cardinality(UsedOn(c)') \in {i, i + 1}
    BY <1>3, <1>4, <2>9
  <2>12. i \in 0 .. corePerCache'
    BY <1>8, <2>11
  <2>13. \A c \in 0 .. (nCaches' - 1) : Cardinality(UsedOn(c)') \in {i, i + 1}
    BY <1>1, <2>11
  <2>14. \E a \in 0 .. corePerCache' :
           \A c \in 0 .. (nCaches' - 1) : Cardinality(UsedOn(c)') \in {a, a + 1}
    BY <2>12, <2>13, Zenon
  <2> QED
    BY <1>1, <2>9, <2>10, <2>14
<1> QED
  BY <1>2, <1>7, <1>11, <1>15, <1>16, WorkersStay

LEMMA CreateCloseStep ==
  ASSUME StartupIInv, pc = "workers", CreateClose,
         UNCHANGED <<input, pc, platform, options, cacheSz, maps>>
  PROVE  StartupIInv'
<1>1. /\ machines' = machines /\ nCaches' = nCaches /\ nMachines' = nMachines
      /\ affinity' = affinity
  BY DEF platform, options
<1>2. /\ Ready /\ CloseInv /\ loop = "in" /\ affinity = "close" /\ i < nMachines
      /\ usedMachines \in Seq(ToSet(machines)) /\ workerState = ToSet(usedMachines)
      /\ AddWorker(i) /\ i' = i + 1 /\ j' = j /\ counter' = counter /\ loop' = loop
  BY DEF StartupIInv, LoopInv, CreateClose
<1>3. /\ machines \in Seq(Nat) /\ nMachines \in 1 .. Len(machines) /\ Len(machines) \in Nat
      /\ i \in Nat /\ j = 0 /\ counter = 0 /\ Len(usedMachines) = i
      /\ \A m \in DOMAIN usedMachines : usedMachines[m] = machines[m]
  BY <1>2 DEF Ready, CloseInv
<1>4. i \in 0 .. (Len(machines) - 1)
  BY <1>2, <1>3
<1>5. /\ usedMachines' \in Seq(ToSet(machines')) /\ workerState' = ToSet(usedMachines')
      /\ workerState \subseteq workerState'
      /\ Len(usedMachines') = i + 1
      /\ DOMAIN usedMachines = 1 .. i /\ DOMAIN usedMachines' = 1 .. (i + 1)
      /\ \A m \in DOMAIN usedMachines : usedMachines'[m] = usedMachines[m]
      /\ usedMachines'[i + 1] = machines[i + 1]
  BY <1>1, <1>2, <1>3, <1>4, AddWorkerAppends
<1>6. \A m \in DOMAIN usedMachines' : usedMachines'[m] = machines[m]
  BY <1>3, <1>5
<1>7. i' \in 0 .. nMachines
  BY <1>2, <1>3
<1>8. CloseInv'
  BY <1>1, <1>2, <1>3, <1>5, <1>6, <1>7 DEF CloseInv
<1>9. BalanceInv'
  BY <1>1, <1>2 DEF BalanceInv
<1> QED
  BY <1>2, <1>5, <1>8, <1>9, WorkersStay

LEMMA LoopEndsStep ==
  ASSUME StartupIInv, pc = "workers", LoopEnds,
         UNCHANGED <<input, pc, platform, options, cacheSz, maps>>
  PROVE  StartupIInv'
<1>1. /\ machines' = machines /\ nCaches' = nCaches /\ nMachines' = nMachines
      /\ affinity' = affinity
  BY DEF platform, options
<1>2. /\ Ready /\ BalanceInv /\ loop = "in" /\ loop' = "done"
      /\ affinity = "spread" => SpreadInv /\ i = corePerCache
      /\ affinity = "close" => CloseInv /\ i = nMachines
      /\ usedMachines \in Seq(ToSet(machines)) /\ workerState = ToSet(usedMachines)
      /\ i' = i /\ j' = j /\ counter' = counter /\ usedMachines' = usedMachines
      /\ workerState' = workerState
  BY DEF StartupIInv, LoopInv, LoopEnds
<1>3. corePerCache' = corePerCache /\ \A r, c : Place(r, c)' = Place(r, c)
  BY <1>1 DEF corePerCache, Place
<1>4. affinity = "spread" => SpreadInv'
  <2> SUFFICES ASSUME affinity = "spread" PROVE SpreadInv'
    OBVIOUS
  <2> DEFINE q == corePerCache * nCaches
  <2>1. q \in Nat /\ q = nCaches * corePerCache /\ nMachines \in Nat
    BY <1>2, CoresOfCaches DEF Ready
  <2>2. /\ i = corePerCache /\ j = 0 /\ counter = nCaches * i + j /\ counter < nMachines
        /\ Len(usedMachines) = counter
    BY <1>2 DEF SpreadInv
  <2>3. Min({nMachines, q}) = IF nMachines <= q THEN nMachines ELSE q
    BY <2>1, LesserOfTwo
  <2>4. counter = q + 0
    BY <2>1, <2>2
  <2> HIDE DEF q
  <2>5. Len(usedMachines) = Min({nMachines, q})
    BY <2>1, <2>2, <2>3, <2>4
  <2>6. Len(usedMachines') =
          IF loop' = "in" THEN counter' ELSE Min({nMachines', corePerCache' * nCaches'})
    BY <1>1, <1>2, <1>3, <2>5 DEF q
  <2>7. /\ i' \in 0 .. corePerCache' /\ j' \in 0 .. (nCaches' - 1)
        /\ counter' = nCaches' * i' + j' /\ counter' < nMachines'
        /\ i' = corePerCache' => j' = 0
    BY <1>1, <1>2, <1>3 DEF SpreadInv
  <2>8. \A n \in DOMAIN usedMachines' :
          \E r \in 0 .. (corePerCache' - 1), c \in 0 .. (nCaches' - 1) :
             n = nCaches' * r + c + 1 /\ usedMachines'[n] = machines'[Place(r, c)' + 1]
    BY <1>1, <1>2, <1>3 DEF SpreadInv
  <2> QED
    BY <2>6, <2>7, <2>8 DEF SpreadInv
<1>5. affinity = "close" => CloseInv'
  BY <1>1, <1>2 DEF CloseInv
<1>6. BalanceInv'
  <2>1. Numbered' = Numbered /\ \A c : UsedOn(c)' = UsedOn(c)
    BY <1>1, <1>2, <1>3 DEF Numbered, UsedOn, CacheNum
  <2> QED
    BY <1>1, <1>2, <1>3, <2>1 DEF BalanceInv
<1> QED
  BY <1>1, <1>2, <1>4, <1>5, <1>6, WorkersStay

LEMMA CreateWorkerStep ==
  ASSUME StartupIInv, CreateWorker
  PROVE  StartupIInv'
BY CreateSpreadStep, CreateCloseStep, LoopEndsStep DEF CreateWorker
-----------------------------------------------------------------------------
(***************************************************************************)
(* The steps that start the workers, and the theorem.                      *)
(***************************************************************************)
LEMMA LoopStays ==
  ASSUME LoopInv, loop # "no", UNCHANGED <<platform, options, loopVars>>,
         pc' \in {"workers", "undefined"}
  PROVE  LoopInv'
<1>1. /\ machines' = machines /\ nCaches' = nCaches /\ nMachines' = nMachines
      /\ affinity' = affinity /\ i' = i /\ j' = j /\ counter' = counter /\ loop' = loop
      /\ usedMachines' = usedMachines /\ workerState' = workerState
  BY DEF platform, options, loopVars
<1>2. corePerCache' = corePerCache /\ \A r, c : Place(r, c)' = Place(r, c)
  BY <1>1 DEF corePerCache, Place
<1>3. Ready => Ready'
  BY <1>1 DEF Ready
<1>4. SpreadInv => SpreadInv'
  BY <1>1, <1>2 DEF SpreadInv
<1>5. CloseInv => CloseInv'
  BY <1>1 DEF CloseInv
<1>6. BalanceInv => BalanceInv'
  <2>1. Numbered' = Numbered /\ \A c : UsedOn(c)' = UsedOn(c)
    BY <1>1, <1>2 DEF Numbered, UsedOn, CacheNum
  <2> QED
    BY <1>1, <1>2, <2>1 DEF BalanceInv
<1> QED
  BY <1>1, <1>3, <1>4, <1>5, <1>6 DEF LoopInv

LEMMA InsertedTwice ==
  ASSUME nCaches \in Nat, NEW list, NEW map,
         \/ map = NoMap
         \/ map = [c \in 0 .. (nCaches - 1) |-> list[c + 1]]
  PROVE  Inserted(map, list) = [c \in 0 .. (nCaches - 1) |-> list[c + 1]]
<1>1. CASE map = NoMap
  BY <1>1 DEF Inserted, NoMap
<1>2. CASE map = [c \in 0 .. (nCaches - 1) |-> list[c + 1]]
  BY <1>2 DEF Inserted
<1> QED
  BY <1>1, <1>2

LEMMA StartWorkerStep ==
  ASSUME StartupIInv, NEW w \in workerState, StartWorker(w)
  PROVE  StartupIInv'
<1>1. /\ pc = "workers" /\ pc' \in {"workers", "undefined"}
      /\ UNCHANGED <<input, platform, options, cacheSz, loopVars>>
  BY DEF StartWorker
<1>2. /\ machines' = machines /\ nCaches' = nCaches /\ nMachines' = nMachines
      /\ affinity' = affinity /\ input' = input /\ input \in Inputs /\ TypeOK
      /\ cacheList' = cacheList /\ ramList' = ramList /\ realCacheSize' = realCacheSize
      /\ mSize' = mSize /\ bSize' = bSize /\ modelOption' = modelOption /\ cacheSz' = cacheSz
      /\ i' = i /\ j' = j /\ counter' = counter /\ loop' = loop
      /\ usedMachines' = usedMachines /\ workerState' = workerState
  BY <1>1 DEF platform, options, loopVars, StartupIInv
<1>3. StageInv /\ RunningInv /\ LoopInv /\ loop # "no"
  BY <1>1 DEF StartupIInv, StageInv
<1>4. LoopInv'
  BY <1>1, <1>3, LoopStays
<1>5. commSize' = commSize /\ architectureCacheSize' = architectureCacheSize
  BY <1>2 DEF commSize, architectureCacheSize, Wrap
<1>6. StageInv'
  BY <1>1, <1>2, <1>3, <1>5, StagesStay DEF StageInv, Later
<1>7. nCaches \in Nat \ {0} /\ cacheList \in Seq(Nat) /\ ramList \in Seq(Nat)
  BY <1>2, <1>3 DEF LoopInv, Ready, TypeOK
<1>8. Len(cacheList) \in Nat /\ Len(ramList) \in Nat
  BY <1>7
<1>9. ~(nCaches > Min({Len(cacheList), Len(ramList)})) <=>
        nCaches <= Len(cacheList) /\ nCaches <= Len(ramList)
  BY <1>7, <1>8, LesserOfTwo
<1>10. RunningInv' /\ running' \subseteq workerState' /\
       \A map \in {cacheReceiverMap', ramReceiverMap'} :
          map \in [DOMAIN map -> Nat] /\ DOMAIN map \subseteq 0 .. (nCaches' - 1)
  <2>1. CASE nCaches > Min({Len(cacheList), Len(ramList)})
    <3>1. /\ running' = running /\ cacheReceiverMap' = cacheReceiverMap
          /\ ramReceiverMap' = ramReceiverMap
      BY <2>1 DEF StartWorker, maps
    <3>2. running = {}
      BY <1>3, <1>9, <2>1 DEF RunningInv
    <3>3. RunningInv'
      BY <1>3, <3>1, <3>2 DEF RunningInv, NoMap
    <3> QED
      BY <1>2, <3>1, <3>3 DEF TypeOK
  <2>2. CASE ~(nCaches > Min({Len(cacheList), Len(ramList)}))
    <3>1. /\ cacheReceiverMap' = Inserted(cacheReceiverMap, cacheList)
          /\ ramReceiverMap' = Inserted(ramReceiverMap, ramList)
          /\ running' = running \cup {w} /\ pc' = pc
      BY <2>2 DEF StartWorker
    <3>2. \/ cacheReceiverMap = NoMap
          \/ cacheReceiverMap = [c \in 0 .. (nCaches - 1) |-> cacheList[c + 1]]
      BY <1>3 DEF RunningInv
    <3>3. ramReceiverMap = NoMap \/ ramReceiverMap = [c \in 0 .. (nCaches - 1) |-> ramList[c + 1]]
      BY <1>3 DEF RunningInv
    <3>4. cacheReceiverMap' = [c \in 0 .. (nCaches - 1) |-> cacheList[c + 1]]
      BY <1>7, <3>1, <3>2, InsertedTwice
    <3>5. ramReceiverMap' = [c \in 0 .. (nCaches - 1) |-> ramList[c + 1]]
      BY <1>7, <3>1, <3>3, InsertedTwice
    <3>6. RunningInv'
      BY <1>1, <1>2, <1>9, <2>2, <3>1, <3>4, <3>5 DEF RunningInv
    <3>7. running' \subseteq workerState'
      BY <1>2, <3>1 DEF TypeOK
    <3>8. \A c \in 0 .. (nCaches - 1) : cacheList[c + 1] \in Nat /\ ramList[c + 1] \in Nat
      <4> SUFFICES ASSUME NEW c \in 0 .. (nCaches - 1)
                   PROVE  cacheList[c + 1] \in Nat /\ ramList[c + 1] \in Nat
        OBVIOUS
      <4>1. c + 1 \in 1 .. Len(cacheList) /\ c + 1 \in 1 .. Len(ramList)
        BY <1>7, <1>8, <1>9, <2>2
      <4> QED
        BY <1>7, <4>1
    <3>9. \A map \in {cacheReceiverMap', ramReceiverMap'} :
             map \in [DOMAIN map -> Nat] /\ DOMAIN map \subseteq 0 .. (nCaches' - 1)
      BY <1>2, <3>4, <3>5, <3>8
    <3> QED
      BY <3>6, <3>7, <3>9
  <2> QED
    BY <2>1, <2>2
<1>11. TypeOK'
  BY <1>1, <1>2, <1>10 DEF TypeOK
<1> QED
  BY <1>2, <1>4, <1>6, <1>10, <1>11 DEF StartupIInv

LEMMA StartupIInvNext == StartupIInv /\ [Next]_vars => StartupIInv'
<1> SUFFICES ASSUME StartupIInv, [Next]_vars PROVE StartupIInv'
  OBVIOUS
<1>1. CASE ReadEnvironment
  BY <1>1, ReadEnvironmentStep
<1>2. CASE ParsePlatform
  BY <1>2, ParsePlatformStep
<1>3. CASE ParseOptions
  BY <1>3, ParseOptionsStep
<1>4. CASE CheckOptions
  BY <1>4, CheckOptionsStep
<1>5. CASE ReadTables
  BY <1>5, ReadTablesStep
<1>6. CASE CreateCaches
  BY <1>6, CreateCachesStep
<1>7. CASE CreateWorker
  BY <1>7, CreateWorkerStep
<1>8. CASE \E w \in workerState : StartWorker(w)
  BY <1>8, StartWorkerStep
<1>9. CASE UNCHANGED vars
  <2>1. /\ machines' = machines /\ nCaches' = nCaches /\ nMachines' = nMachines
        /\ affinity' = affinity /\ input' = input /\ input \in Inputs /\ TypeOK
        /\ cacheList' = cacheList /\ ramList' = ramList /\ realCacheSize' = realCacheSize
        /\ mSize' = mSize /\ bSize' = bSize /\ modelOption' = modelOption /\ cacheSz' = cacheSz
        /\ i' = i /\ j' = j /\ counter' = counter /\ loop' = loop
        /\ usedMachines' = usedMachines /\ workerState' = workerState /\ pc' = pc
        /\ running' = running /\ cacheReceiverMap' = cacheReceiverMap
        /\ ramReceiverMap' = ramReceiverMap
    BY <1>9 DEF vars, platform, options, loopVars, maps, StartupIInv
  <2>2. UNCHANGED <<input, platform, options, loopVars>>
    BY <1>9 DEF vars
  <2>3. TypeOK'
    BY <2>1 DEF TypeOK
  <2>4. commSize' = commSize /\ architectureCacheSize' = architectureCacheSize
    BY <2>1 DEF commSize, architectureCacheSize, Wrap
  <2>5. StageInv'
    BY <2>1, <2>2, <2>4, StagesStay DEF StartupIInv, StageInv, Later
  <2>6. RunningInv'
    BY <2>1 DEF StartupIInv, RunningInv, NoMap
  <2>7. LoopInv'
    <3>1. CASE loop = "no"
      BY <2>1, <3>1 DEF StartupIInv, LoopInv, BeforeLoop
    <3>2. CASE loop # "no"
      BY <2>1, <2>2, <3>2, LoopStays DEF StartupIInv, LoopInv
    <3> QED
      BY <3>1, <3>2
  <2> QED
    BY <2>1, <2>3, <2>5, <2>6, <2>7 DEF StartupIInv
<1> QED
  BY <1>1, <1>2, <1>3, <1>4, <1>5, <1>6, <1>7, <1>8, <1>9 DEF Next

(* The invariant holds whatever the inputs: what pc says has been checked   *)
(* has been, and the loops have created what their variables say.          *)
THEOREM StartupInvariant == Spec => []StartupIInv
BY StartupIInvInit, StartupIInvNext, PTL DEF Spec

(* Every variable has its type, in particular no index of the loops over    *)
(* machines and caches leaves them (affinity.hpp:15-46).                    *)
THEOREM StartupIsTyped == Spec => []TypeOK
<1>1. StartupIInv => TypeOK
  BY DEF StartupIInv
<1> QED
  BY <1>1, StartupInvariant, PTL
-----------------------------------------------------------------------------
(***************************************************************************)
(* The workers are where they should be.                                   *)
(***************************************************************************)
LEMMA WorkersAreDistinct ==
  ASSUME StartupIInv
  PROVE  IsInjective(usedMachines)
<1>1. LoopInv /\ TypeOK
  BY DEF StartupIInv
<1>2. CASE loop = "no"
  BY <1>1, <1>2 DEF LoopInv, BeforeLoop, IsInjective
<1>3. CASE loop # "no" /\ affinity = "spread"
  <2> DEFINE k == corePerCache
  <2>1. Ready /\ SpreadInv
    BY <1>1, <1>3 DEF LoopInv
  <2>2. /\ k \in Nat /\ nCaches \in Nat \ {0}
        /\ IsInjective(machines) /\ machines \in Seq(Nat)
    BY <2>1, CoresOfCaches DEF Ready
  <2> HIDE DEF k
  <2> SUFFICES ASSUME NEW m \in DOMAIN usedMachines, NEW n \in DOMAIN usedMachines,
                      usedMachines[m] = usedMachines[n]
               PROVE  m = n
    BY DEF IsInjective
  <2>3. PICK r \in 0 .. (k - 1), c \in 0 .. (nCaches - 1) :
           m = nCaches * r + c + 1 /\ usedMachines[m] = machines[Place(r, c) + 1]
    BY <2>1 DEF SpreadInv, k
  <2>4. PICK s \in 0 .. (k - 1), d \in 0 .. (nCaches - 1) :
           n = nCaches * s + d + 1 /\ usedMachines[n] = machines[Place(s, d) + 1]
    BY <2>1 DEF SpreadInv, k
  <2>5. Place(r, c) \in 0 .. (Len(machines) - 1) /\ Place(s, d) \in 0 .. (Len(machines) - 1)
    BY <2>1, PlaceIsACore DEF k
  <2>6. Place(r, c) + 1 \in DOMAIN machines /\ Place(s, d) + 1 \in DOMAIN machines
    BY <2>2, <2>5
  <2>7. Place(r, c) + 1 = Place(s, d) + 1
    BY <2>2, <2>3, <2>4, <2>6 DEF IsInjective
  <2>8. Place(r, c) = Place(s, d)
    BY <2>5, <2>7
  <2>9. r + k * c = s + k * d
    BY <2>8 DEF Place, k
  <2>10. k \in Nat \ {0}
    BY <2>2, <2>3
  <2>11. c = d /\ r = s
    <3>1. c \in Int /\ d \in Int
      BY <2>2, <2>3, <2>4
    <3> QED
      BY <2>9, <2>10, <3>1, DigitsAreUnique, Zenon
  <2> QED
    BY <2>3, <2>4, <2>11
<1>4. CASE loop # "no" /\ affinity = "close"
  <2>1. Ready /\ CloseInv
    BY <1>1, <1>4 DEF LoopInv
  <2>2. /\ machines \in Seq(Nat) /\ IsInjective(machines) /\ nMachines \in 1 .. Len(machines)
        /\ i \in 0 .. nMachines /\ Len(usedMachines) = i
        /\ \A n \in DOMAIN usedMachines : usedMachines[n] = machines[n]
    BY <2>1 DEF Ready, CloseInv
  <2>3. DOMAIN usedMachines = 1 .. i
    BY <1>1, <2>2 DEF TypeOK
  <2>4. DOMAIN usedMachines \subseteq DOMAIN machines
    BY <2>2, <2>3
  <2> QED
    BY <2>2, <2>4 DEF IsInjective
<1>5. loop = "no" \/ affinity \in {"spread", "close"}
  BY <1>1 DEF LoopInv, Ready, Affinities
<1> QED
  BY <1>2, <1>3, <1>4, <1>5

LEMMA EveryWorkerIsThere ==
  ASSUME StartupIInv, loop = "done"
  PROVE  Len(usedMachines) = IF affinity = "spread" /\ ~Whole
                             THEN Min({nMachines, corePerCache * nCaches})
                             ELSE nMachines
<1>1. LoopInv /\ Ready
  BY DEF StartupIInv, LoopInv
<1>2. CASE affinity = "close"
  BY <1>1, <1>2 DEF LoopInv, CloseInv
<1>3. CASE affinity = "spread"
  <2> DEFINE q == corePerCache * nCaches
  <2>1. Len(usedMachines) = Min({nMachines, q})
    BY <1>1, <1>3 DEF LoopInv, SpreadInv
  <2>2. CASE Whole
    <3>1. /\ q \in Nat /\ Len(machines) = q + (Len(machines) % nCaches)
          /\ nMachines \in 1 .. Len(machines)
      BY <1>1, CoresOfCaches DEF Ready
    <3>2. Len(machines) % nCaches = 0
      BY <2>2 DEF Whole
    <3> HIDE DEF q
    <3>3. nMachines <= q /\ nMachines \in Nat
      BY <3>1, <3>2
    <3>4. Min({nMachines, q}) = nMachines
      BY <3>1, <3>3, LesserOfTwo
    <3> QED
      BY <2>1, <2>2, <3>4
  <2>3. CASE ~Whole
    BY <1>3, <2>1, <2>3
  <2> QED
    BY <2>2, <2>3
<1> QED
  BY <1>1, <1>2, <1>3 DEF Ready, Affinities

(* No worker is created twice, each has its entry in workerState, and the   *)
(* loops create as many as scheduler() waits for (affinity.hpp:15-46,       *)
(* scheduler.hpp:130-143), but for cores left over by 'spread'.             *)
THEOREM EachWorkerIsCreatedOnce == Spec => []EveryWorkerOnce
<1>1. StartupIInv => EveryWorkerOnce
  BY WorkersAreDistinct, EveryWorkerIsThere DEF EveryWorkerOnce, StartupIInv, LoopInv
<1> QED
  BY <1>1, StartupInvariant, PTL

(* 'spread' never gives a cache two workers more than another, at any       *)
(* number of cores, caches and threads (affinity.hpp:15-33).                *)
THEOREM SpreadBalances == Spec => []SpreadIsBalanced
<1>1. ASSUME StartupIInv PROVE SpreadIsBalanced
  <2> SUFFICES ASSUME loop # "no", affinity = "spread", Numbered,
                      NEW c \in 0 .. (nCaches - 1), NEW d \in 0 .. (nCaches - 1)
               PROVE  Cardinality(UsedOn(c)) - Cardinality(UsedOn(d)) \in -1 .. 1
    BY DEF SpreadIsBalanced
  <2>1. BalanceInv /\ Ready
    BY <1>1 DEF StartupIInv, LoopInv
  <2>2. PICK a \in 0 .. corePerCache :
           \A e \in 0 .. (nCaches - 1) : Cardinality(UsedOn(e)) \in {a, a + 1}
    BY <2>1 DEF BalanceInv
  <2>3. Cardinality(UsedOn(c)) \in {a, a + 1} /\ Cardinality(UsedOn(d)) \in {a, a + 1} /\ a \in Int
    BY <2>2
  <2> QED
    BY <2>3
<1> QED
  BY <1>1, StartupInvariant, PTL

(* The cores of a cache among the first ones. *)
LEMMA FirstCoresOfACache ==
  ASSUME NEW k \in Nat \ {0}, NEW N \in Nat, NEW c \in Nat
  PROVE  {n \in 1 .. N : (n - 1) \div k = c} =
           IF N <= k * c + k THEN k * c + 1 .. N ELSE k * c + 1 .. k * c + k
<1> DEFINE p == k * c
<1>1. p \in Nat
  OBVIOUS
<1>2. ASSUME NEW n \in 1 .. N PROVE (n - 1) \div k = c <=> n \in p + 1 .. p + k
  <2>1. (n - 1) \div k \in Int /\ (n - 1) % k \in 0 .. (k - 1)
        /\ n - 1 = ((n - 1) % k) + k * ((n - 1) \div k)
    <3>1. n - 1 \in Int
      OBVIOUS
    <3> QED
      BY <3>1, DivMod
  <2> DEFINE a == (n - 1) \div k
             r == (n - 1) % k
  <2>2. CASE n \in p + 1 .. p + k
    <3>1. n - 1 - p \in 0 .. (k - 1) /\ (n - 1 - p) + p = n - 1
      BY <1>1, <2>2
    <3> DEFINE s == n - 1 - p
    <3>2. r + k * a = s + k * c /\ s \in 0 .. (k - 1) /\ r \in 0 .. (k - 1) /\ a \in Int
      BY <2>1, <3>1
    <3> HIDE DEF s, a, r
    <3>3. a = c
      BY <3>2, DigitsAreUnique
    <3> QED
      BY <2>2, <3>3 DEF a
  <2>3. CASE a = c
    <3>1. n - 1 = r + p
      BY <2>1, <2>3
    <3>2. r \in 0 .. (k - 1)
      BY <2>1
    <3> HIDE DEF p, r
    <3>3. n \in p + 1 .. p + k
      BY <1>1, <3>1, <3>2
    <3> QED
      BY <2>3, <3>3
  <2> QED
    BY <2>2, <2>3
<1> HIDE DEF p
<1>3. p + 1 .. p + k \subseteq Nat \ {0}
  BY <1>1
<1>4. {n \in 1 .. N : (n - 1) \div k = c} = {n \in 1 .. N : n \in p + 1 .. p + k}
  BY <1>2
<1>5. {n \in 1 .. N : n \in p + 1 .. p + k} = IF N <= p + k THEN p + 1 .. N ELSE p + 1 .. p + k
  BY <1>1
<1> QED
  BY <1>4, <1>5 DEF p

(* The number that sleeper() computes is that of the active cores of the    *)
(* worker's cache (sleep.hpp:28-36), for 'close' and whole caches.          *)
THEOREM TargetCountsActiveCores == Spec => []TargetIsActiveCores
<1>1. ASSUME StartupIInv PROVE TargetIsActiveCores
  <2> DEFINE k == corePerCache
             N == nMachines
             q == k * nCaches
  <2> SUFFICES ASSUME loop = "done", affinity = "close", Whole, Numbered,
                      NEW n \in DOMAIN usedMachines
               PROVE  Target(usedMachines[n], N, k)
                        = Cardinality(UsedOn(CacheNum(usedMachines[n])))
    BY DEF TargetIsActiveCores
  <2>1. Ready /\ CloseInv /\ TypeOK
    BY <1>1 DEF StartupIInv, LoopInv
  <2>2. /\ machines \in Seq(Nat) /\ N \in 1 .. Len(machines) /\ Len(machines) \in Nat
        /\ Len(usedMachines) = N
        /\ DOMAIN usedMachines = 1 .. N
        /\ \A m \in DOMAIN usedMachines : usedMachines[m] = machines[m]
    BY <2>1 DEF Ready, CloseInv, TypeOK
  <2>3. \A m \in 1 .. N : usedMachines[m] = m - 1
    <3> SUFFICES ASSUME NEW m \in 1 .. N PROVE usedMachines[m] = m - 1
      OBVIOUS
    <3>1. m \in DOMAIN machines /\ m \in DOMAIN usedMachines
      BY <2>2
    <3> QED
      BY <2>2, <3>1 DEF Numbered
  <2>4. k \in Nat /\ q \in Nat /\ N <= q /\ k # 0
    <3>1. /\ k \in Nat /\ q \in Nat /\ Len(machines) = q + (Len(machines) % nCaches)
          /\ nCaches \in Nat
      BY <2>1, CoresOfCaches DEF Ready
    <3>2. Len(machines) = q
      BY <3>1 DEF Whole
    <3>3. k # 0
      BY <2>2, <3>1, <3>2
    <3> QED
      BY <2>2, <3>1, <3>2, <3>3
  <2> HIDE DEF k, N, q
  <2>5. \A m \in 1 .. N : CacheNum(m - 1) = (m - 1) \div k
    <3> SUFFICES ASSUME NEW m \in 1 .. N PROVE CacheNum(m - 1) = (m - 1) \div k
      OBVIOUS
    <3>1. m - 1 < q
      BY <2>2, <2>4
    <3> QED
      BY <3>1 DEF CacheNum, q, k
  <2> DEFINE c == (n - 1) \div k
  <2>6. n \in 1 .. N /\ usedMachines[n] = n - 1 /\ CacheNum(n - 1) = c
    BY <2>2, <2>3, <2>5
  <2>7. UsedOn(c) = {m \in 1 .. N : (m - 1) \div k = c}
    BY <2>2, <2>3, <2>5 DEF UsedOn
  <2> DEFINE r == (n - 1) % k
             p == k * c
  <2>8. c \in Int /\ r \in 0 .. (k - 1) /\ n - 1 = r + p /\ N \in Nat
    <3>1. n - 1 \in Int /\ k \in Nat \ {0} /\ N \in Nat
      BY <2>2, <2>4, <2>6
    <3> QED
      BY <3>1, DivMod
  <2>9. c \in Nat
    <3>1. SUFFICES ASSUME c < 0 PROVE FALSE
      BY <2>8
    <3>2. p + k <= k * 0
      <4>1. k \in Nat /\ c \in Int /\ 0 \in Int
        BY <2>4, <2>8
      <4> HIDE DEF c, r
      <4> QED
        BY <3>1, <4>1, NextMultiple, Zenon DEF p
    <3>3. p \in Int
      BY <2>4, <2>8
    <3> HIDE DEF p, r, c
    <3> QED
      BY <2>2, <2>4, <2>6, <2>8, <3>2, <3>3
  <2> DEFINE d == N \div k
             s == N % k
             t == k * d
  <2>10. d \in Int /\ s \in 0 .. (k - 1) /\ N = s + t
    BY <2>2, <2>4, DivMod
  <2>11. p \in Nat /\ t \in Int
    BY <2>4, <2>9, <2>10
  <2>12. UsedOn(c) = IF N <= p + k THEN p + 1 .. N ELSE p + 1 .. p + k
    BY <2>4, <2>7, <2>8, <2>9, FirstCoresOfACache
  <2>13. Target(n - 1, N, k) = IF c = d THEN ((N - 1) % k) + 1 ELSE k
    BY DEF Target
  <2>14. CASE c = d
    <3>1. p = t
      BY <2>14
    <3> HIDE DEF p, t, r, s, c, d
    <3>2. N <= p + k /\ N - p = s /\ s - 1 \in 0 .. (k - 1)
      BY <2>4, <2>6, <2>8, <2>10, <2>11, <3>1
    <3>3. ((s - 1) + k * c) % k = s - 1
      BY <2>4, <2>8, <3>2, QuotientOfDigits
    <3>4. N - 1 = (s - 1) + p
      BY <2>8, <2>10, <2>11, <3>1
    <3>5. (N - 1) % k = s - 1
      BY <3>3, <3>4 DEF p
    <3>6. Target(n - 1, N, k) = s
      BY <2>10, <2>13, <2>14, <3>5
    <3>7. UsedOn(c) = p + 1 .. N
      BY <2>12, <3>2
    <3>8. Cardinality(p + 1 .. N) = s
      BY <2>8, <2>10, <2>11, <3>1, <3>2, FS_Interval
    <3> QED
      BY <2>6, <3>6, <3>7, <3>8
  <2>15. CASE c # d
    <3>1. c < d
      <4>1. SUFFICES ASSUME d < c PROVE FALSE
        BY <2>8, <2>10, <2>15
      <4>2. t + k <= p
        BY <2>4, <2>8, <2>10, <4>1, NextMultiple
      <4> HIDE DEF p, t, r, s, c, d
      <4> QED
        BY <2>4, <2>6, <2>8, <2>10, <2>11, <4>2
    <3>2. p + k <= t
      BY <2>4, <2>8, <2>10, <3>1, NextMultiple
    <3> HIDE DEF p, t, r, s, c, d
    <3>3. UsedOn(c) = p + 1 .. p + k
      BY <2>4, <2>8, <2>10, <2>11, <2>12, <3>2
    <3>4. Cardinality(p + 1 .. p + k) = k
      BY <2>4, <2>11, FS_Interval
    <3> QED
      BY <2>6, <2>13, <2>15, <3>3, <3>4
  <2> QED
    BY <2>14, <2>15
<1> QED
  BY <1>1, StartupInvariant, PTL
-----------------------------------------------------------------------------
(***************************************************************************)
(* What an int holds of the bytes of a tile.                               *)
(***************************************************************************)
LEMMA WrapOfSmall ==
  ASSUME NEW n \in 0 .. (2 ^ (IntWidth - 1) - 1)
  PROVE  Wrap(n) = n
<1> DEFINE h == 2 ^ (IntWidth - 1)
           H == 2 ^ IntWidth
<1>1. h \in Nat \ {0} /\ H = 2 * h /\ H \in Nat \ {0}
  BY WidthsAreTyped
<1>2. Wrap(n) = ((n + h) % H) - h /\ n \in 0 .. (h - 1)
  BY DEF Wrap
<1> HIDE DEF h, H
<1>3. n + h \in 0 .. (H - 1) /\ H * 0 = 0 /\ n \in Int
  BY <1>1, <1>2
<1> DEFINE m == n + h
<1>4. m \in 0 .. (H - 1)
  BY <1>3
<1> HIDE DEF m
<1>5. (m + H * 0) % H = m /\ m + H * 0 = m
  <2>1. (m + H * 0) % H = m
    BY <1>1, <1>4, QuotientOfDigits
  <2> QED
    BY <1>1, <1>4, <2>1
<1>6. (n + h) % H = n + h
  BY <1>5 DEF m
<1> QED
  BY <1>1, <1>2, <1>3, <1>6

LEMMA WrapToZero ==
  ASSUME NEW n \in Nat, n # 0, Wrap(n) = 0
  PROVE  n >= 2 ^ (IntWidth - 1) /\ n % 2 ^ IntWidth = 0
<1> DEFINE h == 2 ^ (IntWidth - 1)
           H == 2 ^ IntWidth
<1>1. h \in Nat \ {0} /\ H = 2 * h /\ H \in Nat \ {0}
  BY WidthsAreTyped
<1>2. 0 = ((n + h) % H) - h
  BY DEF Wrap
<1>3. n >= h
  <2>1. SUFFICES ASSUME n < h PROVE FALSE
    BY <1>1
  <2>2. n \in 0 .. (h - 1)
    BY <1>1, <2>1
  <2> QED
    BY <2>2, WrapOfSmall
<1> DEFINE r == (n + h) % H
           a == (n + h) \div H
<1>4. n + h \in Int
  BY <1>1
<1>5. r \in 0 .. (H - 1) /\ a \in Int /\ n + h = r + H * a
  BY <1>1, <1>4, DivMod
<1>6. n = 0 + H * a
  <2> DEFINE p == H * a
  <2>1. p \in Int
    BY <1>1, <1>5
  <2> HIDE DEF h, H, r, a, p
  <2>2. n = 0 + p
    BY <1>1, <1>2, <1>5, <2>1 DEF r, p
  <2> QED
    BY <2>2 DEF p
<1> HIDE DEF h, H, r, a
<1>7. (0 + H * a) % H = 0
  <2>1. 0 \in 0 .. (H - 1)
    BY <1>1
  <2>2. H \in Nat \ {0} /\ a \in Int
    BY <1>1, <1>5
  <2> QED
    BY <2>1, <2>2, QuotientOfDigits, Zenon
<1>8. n % H = 0
  BY <1>6, <1>7
<1> QED
  BY <1>3, <1>8 DEF h, H

LEMMA BytesOfATile ==
  ASSUME input \in Inputs
  PROVE  /\ Number("b") \in Int /\ Tile \in Nat /\ Tile = Number("b") * Number("b") * 8
         /\ Number("b") # 0 => Tile # 0
<1> DEFINE b == Number("b")
           s == b * b
<1>1. b \in Int
  BY ArgumentsAreTyped DEF IntRange
<1>2. Tile = 8 * b * b
  BY DEF Tile
<1> HIDE DEF b
<1>3. s \in Nat /\ (b # 0 => s # 0) /\ 8 * b * b = s * 8
  BY <1>1
<1> HIDE DEF s
<1>4. s * 8 \in Nat /\ (b # 0 => s * 8 # 0)
  BY <1>3
<1>5. Tile = s * 8
  BY <1>2, <1>3
<1>6. Tile = b * b * 8
  BY <1>5 DEF s
<1> QED
  BY <1>1, <1>4, <1>5, <1>6 DEF b

LEMMA ZeroQuotient ==
  ASSUME NEW n \in Nat, NEW k \in Nat \ {0}, n \div k # 0
  PROVE  k <= n
<1>1. SUFFICES ASSUME n < k PROVE FALSE
  OBVIOUS
<1>2. n \in 0 .. (k - 1) /\ n + k * 0 = n
  BY <1>1
<1>3. (n + k * 0) \div k = 0
  BY <1>2, QuotientOfDigits
<1> QED
  BY <1>2, <1>3

(* A worker runs only if the environment, the platform, the options, the    *)
(* tables and the size of a tile were good (main.cpp:184-235,               *)
(* xml_parser.hpp:47-80, common.hpp:87-95), whatever the widths of the      *)
(* integers, but for a tile of more bytes than an int holds.                *)
THEOREM WorkersRunOnGoodInput == Spec => []RunsOnlyGoodInput
<1>1. ASSUME StartupIInv PROVE RunsOnlyGoodInput
  <2> SUFFICES ASSUME running # {}
               PROVE  /\ GoodEnvironment /\ GoodPlatform /\ GoodArguments /\ GoodTables
                      /\ Tile <= CacheSize(input.doc) \/ Overflow
    BY DEF RunsOnlyGoodInput
  <2>1. /\ pc = "workers" /\ nCaches <= Len(cacheList) /\ nCaches <= Len(ramList)
        /\ input \in Inputs /\ TypeOK
    BY <1>1 DEF StartupIInv, RunningInv
  <2>2. /\ GoodEnvironment /\ PlatformIsRead /\ OptionsAreRead /\ OptionsAreChecked
        /\ GoodTables /\ commSize # 0 /\ architectureCacheSize # 0
    BY <1>1, <2>1 DEF StartupIInv, StageInv, Later
  <2>3. GoodPlatform
    <3>1. nCaches > 0
      BY <2>1, <2>2 DEF TypeOK, PlatformIsRead
    <3> QED
      BY <2>1, <2>2, <3>1 DEF GoodPlatform, PlatformIsRead
  <2>4. GoodArguments
    <3>1. /\ machines = HostsOf(input.doc, "CPU") /\ machines \in Seq(Nat)
          /\ Len(machines) < 2 ^ (LongWidth - 1)
      BY <2>1, <2>2, PlatformIsTyped DEF PlatformIsRead
    <3>2. /\ nMachines = Unsigned(Number("t")) /\ nMachines \in Nat
          /\ nMachines # 0 /\ ~(nMachines > Len(machines))
      BY <2>1, <2>2 DEF OptionsAreRead, OptionsAreChecked, SomethingMissing, TooMany, TypeOK
    <3>3. Len(machines) \in Nat /\ 2 ^ (LongWidth - 1) \in Nat
      BY <3>1, WidthsAreTyped
    <3>4. nMachines < 2 ^ (LongWidth - 1)
      <4> DEFINE l == 2 ^ (LongWidth - 1)
      <4>1. l \in Nat /\ Len(machines) < l
        BY <3>1, <3>3
      <4> HIDE DEF l
      <4>2. nMachines < l
        BY <3>2, <3>3, <4>1
      <4> QED
        BY <4>2 DEF l
    <3>5. Number("t") \in IntRange
      BY <2>1, ArgumentsAreTyped
    <3>6. Number("t") = nMachines
      BY <3>2, <3>4, <3>5, UnsignedOfInt
    <3>7. Number("t") \in 1 .. Len(HostsOf(input.doc, "CPU"))
      BY <3>1, <3>2, <3>3, <3>6
    <3> QED
      BY <2>2, <3>7 DEF GoodArguments, OptionsAreRead, OptionsAreChecked, SomethingMissing
  <2>5. Tile <= CacheSize(input.doc) \/ Overflow
    <3> SUFFICES ASSUME ~Overflow PROVE Tile <= CacheSize(input.doc)
      OBVIOUS
    <3>1. Tile \in Nat /\ Tile = bSize * bSize * 8
      BY <2>1, <2>2, BytesOfATile DEF OptionsAreRead
    <3>2. Tile \in 0 .. (2 ^ (IntWidth - 1) - 1)
      <4> DEFINE h == 2 ^ (IntWidth - 1)
      <4>1. h \in Nat /\ ~(Tile >= h)
        BY WidthsAreTyped DEF Overflow
      <4> HIDE DEF h
      <4>2. Tile \in 0 .. (h - 1)
        BY <3>1, <4>1
      <4> QED
        BY <4>2 DEF h
    <3>3. commSize = Tile
      BY <3>1, <3>2, WrapOfSmall DEF commSize
    <3>4. commSize \in Nat \ {0} /\ commSize > 0
      BY <2>2, <3>1, <3>3
    <3>5. realCacheSize \div commSize # 0
      BY <2>2, <3>4 DEF architectureCacheSize
    <3>6. realCacheSize \in Nat /\ realCacheSize = CacheSize(input.doc)
      BY <2>1, <2>2 DEF TypeOK, PlatformIsRead
    <3>7. commSize <= realCacheSize
      BY <3>4, <3>5, <3>6, ZeroQuotient
    <3> QED
      BY <3>3, <3>6, <3>7
  <2> QED
    BY <2>2, <2>3, <2>4, <2>5
<1> QED
  BY <1>1, StartupInvariant, PTL

LEMMA AstrayStep ==
  ASSUME StartupIInv, AstrayOnlyOnBadInput, [Next]_vars
  PROVE  AstrayOnlyOnBadInput'
<1> SUFFICES ASSUME pc' = "undefined"
             PROVE  (\/ ~GoodEnvironment \/ ~GoodPlatform
                     \/ Overflow /\ Tile % 2 ^ IntWidth = 0)'
  BY DEF AstrayOnlyOnBadInput
<1>1. input' = input /\ input \in Inputs
  <2>1. input \in Inputs
    BY DEF StartupIInv
  <2>2. CASE CreateWorker
    BY <2>1, <2>2 DEF CreateWorker
  <2>3. CASE UNCHANGED vars
    BY <2>1, <2>3 DEF vars
  <2>4. CASE /\ ~CreateWorker /\ ~UNCHANGED vars
    BY <2>1, <2>4 DEF Next, ReadEnvironment, ParsePlatform, ParseOptions, CheckOptions, ReadTables,
                      CreateCaches, StartWorker
  <2> QED
    BY <2>2, <2>3, <2>4
<1>2. /\ GoodEnvironment' = GoodEnvironment /\ GoodPlatform' = GoodPlatform
      /\ Overflow' = Overflow /\ Tile' = Tile
  <2>1. Number("b")' = Number("b")
    BY <1>1 DEF Number, Given
  <2> QED
    BY <1>1, <2>1 DEF GoodEnvironment, GoodPlatform, Overflow, Tile
<1> SUFFICES \/ ~GoodEnvironment \/ ~GoodPlatform
             \/ Overflow /\ Tile % 2 ^ IntWidth = 0
  BY <1>2
<1>3. CASE pc = "undefined"
  BY <1>3 DEF AstrayOnlyOnBadInput
<1>4. CASE ReadEnvironment
  BY <1>4 DEF ReadEnvironment, GoodEnvironment
<1>5. CASE ParsePlatform
  <2>1. NCache(input.doc) = 0
    BY <1>5 DEF ParsePlatform
  <2> QED
    BY <2>1 DEF GoodPlatform
<1>6. CASE ParseOptions \/ CheckOptions \/ ReadTables
  BY <1>6 DEF ParseOptions, CheckOptions, ReadTables
<1>7. CASE CreateCaches
  <2>1. pc = "caches" /\ commSize = 0
    BY <1>7 DEF CreateCaches
  <2>2. OptionsAreRead /\ OptionsAreChecked
    BY <2>1 DEF StartupIInv, StageInv, Later
  <2>3. Number("b") # 0 /\ bSize = Number("b")
    BY <2>2 DEF OptionsAreRead, OptionsAreChecked, SomethingMissing
  <2>4. Tile \in Nat /\ Tile # 0 /\ Tile = bSize * bSize * 8
    BY <1>1, <2>3, BytesOfATile
  <2>5. Wrap(Tile) = 0
    BY <2>1, <2>4 DEF commSize
  <2> QED
    BY <2>4, <2>5, WrapToZero DEF Overflow
<1>8. CASE CreateWorker
  <2>1. pc' = pc
    BY <1>8 DEF CreateWorker
  <2> QED
    BY <1>3, <2>1
<1>9. CASE \E w \in workerState : StartWorker(w)
  <2>1. pc = "workers" /\ (pc # "undefined" => nCaches > Min({Len(cacheList), Len(ramList)}))
    BY <1>9 DEF StartWorker
  <2>2. PlatformIsRead /\ cacheList \in Seq(Nat) /\ ramList \in Seq(Nat) /\ nCaches \in Nat
    BY <2>1 DEF StartupIInv, StageInv, Later, TypeOK
  <2>3. ~(nCaches <= Len(cacheList)) \/ ~(nCaches <= Len(ramList))
    <3>1. Len(cacheList) \in Nat /\ Len(ramList) \in Nat
      BY <2>2
    <3> QED
      BY <2>1, <2>2, <3>1, LesserOfTwo
  <2> QED
    BY <2>2, <2>3 DEF GoodPlatform, PlatformIsRead
<1>10. CASE UNCHANGED vars
  <2>1. pc' = pc
    BY <1>10 DEF vars
  <2> QED
    BY <1>3, <2>1
<1> QED
  BY <1>4, <1>5, <1>6, <1>7, <1>8, <1>9, <1>10 DEF Next

(* Undefined behaviour has one of its known causes: a missing variable, a   *)
(* platform without caches or with fewer memory hosts than caches, or a     *)
(* tile of a multiple of 2^IntWidth bytes (main.cpp:114-143,                *)
(* worker.hpp:36-37).                                                       *)
THEOREM AstrayHasItsCauses == Spec => []AstrayOnlyOnBadInput
<1>1. Init => AstrayOnlyOnBadInput
  BY DEF Init, AstrayOnlyOnBadInput
<1>2. StartupIInv /\ AstrayOnlyOnBadInput /\ [Next]_vars => AstrayOnlyOnBadInput'
  BY AstrayStep
<1> QED
  BY <1>1, <1>2, StartupInvariant, PTL DEF Spec

(* The converse of RunsOnlyGoodInput: what is valid is never refused, and   *)
(* never leads to undefined behaviour. RunsGoodInput adds that every worker *)
(* does start.                                                              *)
GoodInputIsAccepted == GoodInput => pc \notin {"throws", "aborts", "undefined"}

LEMMA GoodInputStep ==
  ASSUME StartupIInv, GoodInput, pc \notin {"throws", "aborts", "undefined"}, [Next]_vars
  PROVE  pc' \notin {"throws", "aborts", "undefined"}
<1>1. /\ GoodEnvironment /\ GoodPlatform /\ GoodArguments /\ GoodTables
      /\ Tile <= CacheSize(input.doc) /\ ~Overflow /\ input \in Inputs
  BY DEF GoodInput, StartupIInv
<1>2. CASE ReadEnvironment
  <2>1. input.unset \cap (Required \cup IF input.TRACETIME = 0 THEN ForTables ELSE {}) = {}
    BY <1>1 DEF GoodEnvironment
  <2> QED
    BY <1>2, <2>1 DEF ReadEnvironment
<1>3. CASE ParsePlatform
  <2>1. ~Refused(input.doc) /\ NCache(input.doc) # 0
    BY <1>1 DEF GoodPlatform
  <2> QED
    BY <1>3, <2>1 DEF ParsePlatform
<1>4. CASE ParseOptions
  BY <1>1, <1>4 DEF ParseOptions, GoodArguments
<1>5. CASE CheckOptions
  <2>1. pc = "check" /\ PlatformIsRead /\ OptionsAreRead
    BY <1>5 DEF CheckOptions, StartupIInv, StageInv, Later
  <2>2. Number("t") \in IntRange /\ Number("t") \in 1 .. Len(machines)
    BY <1>1, <2>1, ArgumentsAreTyped DEF GoodArguments, PlatformIsRead
  <2>3. machines \in Seq(Nat)
    BY <1>1, <2>1, PlatformIsTyped DEF PlatformIsRead
  <2>4. nMachines = Number("t") /\ nMachines \in 1 .. Len(machines) /\ Len(machines) \in Nat
    BY <2>1, <2>2, <2>3, UnsignedOfInt DEF OptionsAreRead
  <2>5. nMachines # 0 /\ ~TooMany(nMachines)
    BY <2>4 DEF TooMany
  <2>6. modelOption \in Models /\ affinity \in Affinities /\ mSize # 0 /\ bSize # 0
    BY <1>1, <2>1 DEF OptionsAreRead, GoodArguments
  <2>7. modelOption # "" /\ affinity # ""
    BY <2>6 DEF Models, Affinities
  <2> QED
    BY <1>5, <2>5, <2>6, <2>7 DEF CheckOptions, SomethingMissing
<1>6. CASE ReadTables
  BY <1>1, <1>6 DEF ReadTables, GoodTables
<1>7. CASE CreateCaches
  <2>1. pc = "caches" /\ PlatformIsRead /\ OptionsAreRead /\ TypeOK
    BY <1>7 DEF CreateCaches, StartupIInv, StageInv, Later
  <2>2. Tile \in Nat /\ Tile # 0 /\ Tile = bSize * bSize * 8
    BY <1>1, <2>1, BytesOfATile DEF OptionsAreRead, GoodArguments
  <2>3. commSize = Tile
    <3> DEFINE h == 2 ^ (IntWidth - 1)
    <3>1. h \in Nat /\ ~(Tile >= h)
      BY <1>1, WidthsAreTyped DEF Overflow
    <3> HIDE DEF h
    <3>2. Tile \in 0 .. (h - 1)
      BY <2>2, <3>1
    <3> QED
      BY <2>2, <3>2, WrapOfSmall DEF commSize, h
  <2>4. realCacheSize \in Nat /\ Tile <= realCacheSize
    BY <1>1, <2>1 DEF TypeOK, PlatformIsRead
  <2>5. realCacheSize \div Tile # 0
    <3>1. SUFFICES ASSUME realCacheSize \div Tile = 0 PROVE FALSE
      OBVIOUS
    <3>2. Tile \in Nat \ {0} /\ realCacheSize \in Int
      BY <2>2, <2>4
    <3>3. /\ realCacheSize % Tile \in 0 .. (Tile - 1)
          /\ realCacheSize = (realCacheSize % Tile) + Tile * 0
      BY <3>1, <3>2, DivMod
    <3>4. Tile * 0 = 0
      BY <3>2
    <3> QED
      BY <2>4, <3>2, <3>3, <3>4
  <2>6. commSize # 0 /\ commSize > 0 /\ architectureCacheSize # 0
    BY <2>2, <2>3, <2>5 DEF architectureCacheSize
  <2> QED
    BY <1>7, <2>6 DEF CreateCaches
<1>8. CASE CreateWorker
  <2>1. pc' = pc
    BY <1>8 DEF CreateWorker
  <2> QED
    BY <2>1
<1>9. CASE \E w \in workerState : StartWorker(w)
  <2>1. pc = "workers"
    BY <1>9 DEF StartWorker
  <2>2. PlatformIsRead /\ TypeOK
    BY <2>1 DEF StartupIInv, StageInv, Later
  <2>3. nCaches <= Len(cacheList) /\ nCaches <= Len(ramList)
    BY <1>1, <2>2 DEF GoodPlatform, PlatformIsRead
  <2>4. Len(cacheList) \in Nat /\ Len(ramList) \in Nat /\ nCaches \in Nat
    <3>1. cacheList \in Seq(Nat) /\ ramList \in Seq(Nat) /\ nCaches \in Nat
      BY <2>2 DEF TypeOK
    <3> QED
      BY <3>1
  <2>5. ~(nCaches > Min({Len(cacheList), Len(ramList)}))
    BY <2>3, <2>4, LesserOfTwo
  <2> QED
    BY <1>9, <2>1, <2>5 DEF StartWorker
<1>10. CASE UNCHANGED vars
  <2>1. pc' = pc
    BY <1>10 DEF vars
  <2> QED
    BY <2>1
<1> QED
  BY <1>2, <1>3, <1>4, <1>5, <1>6, <1>7, <1>8, <1>9, <1>10 DEF Next

LEMMA InputStays ==
  ASSUME [Next]_vars
  PROVE  GoodInput' = GoodInput
<1>1. input' = input
  <2>1. CASE CreateWorker
    BY <2>1 DEF CreateWorker
  <2>2. CASE UNCHANGED vars
    BY <2>2 DEF vars
  <2>3. CASE ~CreateWorker /\ ~UNCHANGED vars
    BY <2>3 DEF Next, ReadEnvironment, ParsePlatform, ParseOptions, CheckOptions, ReadTables,
                CreateCaches, StartWorker
  <2> QED
    BY <2>1, <2>2, <2>3
<1>2. \A o : Given(o)' = Given(o) /\ Number(o)' = Number(o) /\ Word(o)' = Word(o)
  BY <1>1 DEF Given, Number, Word
<1>3. Number("b")' = Number("b")
  BY <1>2
<1> QED
  BY <1>1, <1>2, <1>3
     DEF GoodInput, GoodEnvironment, GoodPlatform, GoodArguments, GoodTables, Tile, Overflow,
         CoresLeftOver

(* Not by the checks (main.cpp:184-235, xml_parser.hpp:47-80,               *)
(* common.hpp:87-95), not by the arithmetic on the size of a tile           *)
(* (scheduler.hpp:21-27), not when a worker starts (worker.hpp:36-37).      *)
THEOREM GoodInputIsNeverRefused == Spec => []GoodInputIsAccepted
<1>1. Init => GoodInputIsAccepted
  BY DEF Init, GoodInputIsAccepted
<1>2. StartupIInv /\ GoodInputIsAccepted /\ [Next]_vars => GoodInputIsAccepted'
  BY GoodInputStep, InputStays DEF GoodInputIsAccepted
<1> QED
  BY <1>1, <1>2, StartupInvariant, PTL DEF Spec
-----------------------------------------------------------------------------
(***************************************************************************)
(* The hosts of a zone.                                                    *)
(***************************************************************************)
LEMMA QuotientInRange ==
  ASSUME NEW n \in Nat, NEW k \in Nat \ {0}, NEW b \in Nat, n < k * b
  PROVE  n \div k \in 0 .. (b - 1)
<1> DEFINE a == n \div k
           r == n % k
           p == k * a
           q == k * b
<1>1. a \in Int /\ r \in 0 .. (k - 1) /\ n = r + p
  BY DivMod
<1>2. p \in Int /\ q \in Nat /\ n < q
  BY <1>1
<1>3. a >= 0
  <2>1. SUFFICES ASSUME a < 0 PROVE FALSE
    BY <1>1
  <2>2. p + k <= k * 0 /\ k * 0 = 0
    BY <1>1, <2>1, NextMultiple
  <2> HIDE DEF p, r, a
  <2> QED
    BY <1>1, <1>2, <2>2
<1>4. a < b
  <2>1. SUFFICES ASSUME b <= a PROVE FALSE
    BY <1>1
  <2>2. q <= p
    <3>1. CASE a = b
      BY <1>2, <3>1
    <3>2. CASE b < a
      <4>1. q + k <= p
        BY <1>1, <3>2, NextMultiple
      <4> HIDE DEF p, q, a
      <4> QED
        BY <1>2, <4>1
    <3> QED
      BY <1>1, <2>1, <3>1, <3>2
  <2> HIDE DEF p, q, r, a
  <2> QED
    BY <1>1, <1>2, <2>2
<1> HIDE DEF a
<1>5. a \in 0 .. (b - 1)
  BY <1>1, <1>3, <1>4
<1> QED
  BY <1>5 DEF a

(* The place of a core in a machine of Z zones of m caches of k cores. *)
ZoneAndCache(w, k, m, Z) ==
  \E z \in 0 .. (Z - 1), g \in 0 .. (m - 1), n \in 1 .. (k * m) :
     w = (k * m) * z + n - 1 /\ w \div k = m * z + g

LEMMA CoreHasZoneAndCache ==
  ASSUME NEW k \in Nat \ {0}, NEW m \in Nat \ {0}, NEW Z \in Nat,
         NEW w \in Nat, w < (k * m) * Z
  PROVE  ZoneAndCache(w, k, m, Z)
<1> DEFINE c == k * m
           z == w \div c
           y == w % c
           g == y \div k
           h == y % k
<1>1. c \in Nat \ {0} /\ w < c * Z
  OBVIOUS
<1> HIDE DEF c
<1>2. y \in 0 .. (c - 1) /\ w = y + c * z /\ z \in 0 .. (Z - 1)
  <2>1. y \in 0 .. (c - 1) /\ w = y + c * z
    BY <1>1, DivMod
  <2>2. z \in 0 .. (Z - 1)
    <3> HIDE DEF y
    <3> QED
      BY <1>1, QuotientInRange
  <2> QED
    BY <2>1, <2>2
<1> HIDE DEF y, z
<1>3. y \in Nat /\ y < k * m
  BY <1>1, <1>2 DEF c
<1>4. h \in 0 .. (k - 1) /\ y = h + k * g /\ g \in 0 .. (m - 1)
  <2>1. h \in 0 .. (k - 1) /\ y = h + k * g
    BY <1>3, DivMod
  <2>2. g \in 0 .. (m - 1)
    BY <1>3, QuotientInRange
  <2> QED
    BY <2>1, <2>2
<1> HIDE DEF g, h
<1> DEFINE a == m * z + g
<1>5. a \in Int
  BY <1>2, <1>4
<1>6. c * z = k * (m * z) /\ m * z \in Int
  BY <1>2 DEF c
<1>7. k * a = k * (m * z) + k * g
  <2> DEFINE u == m * z
  <2>1. u \in Int
    BY <1>6
  <2> HIDE DEF u
  <2>2. k * (u + g) = k * u + k * g
    BY <1>4, <2>1
  <2> QED
    BY <2>2 DEF u
<1>8. w = h + k * a
  <2> DEFINE u == k * (m * z)
             v == k * g
             x == c * z
             t == k * a
  <2>1. u \in Int /\ v \in Int /\ x = u /\ t = u + v /\ w = y + x /\ y = h + v
    BY <1>2, <1>4, <1>6, <1>7
  <2> HIDE DEF u, v, x, t, a
  <2>2. w = h + t
    BY <1>4, <2>1
  <2> QED
    BY <2>2 DEF t
<1> HIDE DEF a
<1>9. w \div k = a
  BY <1>4, <1>5, <1>8, QuotientOfDigits
<1>10. w = c * z + (y + 1) - 1 /\ y + 1 \in 1 .. c
  <2> DEFINE x == c * z
  <2>1. x \in Int /\ w = y + x
    BY <1>1, <1>2
  <2> HIDE DEF x
  <2>2. w = x + (y + 1) - 1 /\ y + 1 \in 1 .. c
    BY <1>1, <1>2, <2>1
  <2> QED
    BY <2>2 DEF x
<1> DEFINE n == y + 1
<1>11. w = c * z + n - 1 /\ n \in 1 .. c
  BY <1>10
<1> HIDE DEF n
<1>12. w = (k * m) * z + n - 1 /\ n \in 1 .. (k * m) /\ w \div k = m * z + g
  BY <1>9, <1>11 DEF c, a
<1> QED
  BY <1>2, <1>4, <1>12, Zenon DEF ZoneAndCache

(* In equal zones, a host stands at a multiple of their length. *)
LEMMA ZonesOfHosts ==
  ASSUME input \in Inputs, ~Refused(input.doc), ~Skipped(input.doc),
         NEW kind \in {"CPU", "IMC", "RAM"}, NEW c \in Nat,
         \A z \in DOMAIN Numas(input.doc) : Len(OfZone(Numas(input.doc)[z], kind)) = c
  PROVE  /\ Len(HostsOf(input.doc, kind)) = c * Len(Numas(input.doc))
         /\ \A z \in DOMAIN Numas(input.doc) : \A n \in 1 .. c :
               ZoneOf(kind, HostsOf(input.doc, kind)[c * (z - 1) + n]) = z
<1> DEFINE zones == Numas(input.doc)
           pieces == [z \in DOMAIN zones |-> OfZone(zones[z], kind)]
           hosts == HostsOf(input.doc, kind)
<1>1. input.doc \in Seq(Seq(NumaType)) /\ IsInjective(hosts) /\ hosts \in Seq(Nat)
  BY InputIsTyped, PlatformIsTyped DEF InputType
<1>2. /\ zones \in Seq(NumaType) /\ pieces \in Seq(Seq(Nat)) /\ Len(pieces) = Len(zones)
  BY <1>1, NumasOfAFile
<1>3. hosts = FlattenSeq(pieces)
  BY DEF HostsOf
<1>4. DOMAIN pieces = DOMAIN zones /\ \A z \in DOMAIN zones : pieces[z] = OfZone(zones[z], kind)
  OBVIOUS
<1>5. \A z \in DOMAIN pieces : Len(pieces[z]) = c
  BY <1>4
<1> HIDE DEF pieces, hosts, zones
<1>6. /\ Len(hosts) = c * Len(zones)
      /\ \A z \in DOMAIN zones : \A n \in 1 .. c : hosts[c * (z - 1) + n] = pieces[z][n]
  <2>1. /\ Len(FlattenSeq(pieces)) = c * Len(pieces)
        /\ \A z \in DOMAIN pieces : \A n \in 1 .. c :
              FlattenSeq(pieces)[c * (z - 1) + n] = pieces[z][n]
    BY <1>2, <1>5, FlattenOfEqual
  <2> QED
    BY <1>2, <1>3, <1>4, <2>1
<1>7. DOMAIN zones = 1 .. Len(zones) /\ Len(zones) \in Nat
  BY <1>2
<1>8. ASSUME NEW z \in DOMAIN zones, NEW n \in 1 .. c
      PROVE  c * (z - 1) + n \in DOMAIN hosts
  <2> DEFINE p == c * (z - 1)
             q == c * Len(zones)
  <2>1. p \in Nat /\ q \in Nat
    BY <1>7
  <2>2. p + c <= q
    BY <1>7, NextMultiple
  <2>3. DOMAIN hosts = 1 .. q
    BY <1>1, <1>6
  <2> HIDE DEF p, q
  <2>4. p + n \in 1 .. q
    BY <2>1, <2>2
  <2> QED
    BY <2>3, <2>4 DEF p
<1>9. ASSUME NEW z \in DOMAIN zones, NEW n \in 1 .. c
      PROVE  ZoneOf(kind, hosts[c * (z - 1) + n]) = z
  <2> DEFINE number == hosts[c * (z - 1) + n]
  <2>1. \A y \in DOMAIN zones : DOMAIN pieces[y] = 1 .. c
    BY <1>2, <1>4, <1>5
  <2>2. number \in ToSet(pieces[z])
    BY <1>6, <2>1 DEF ToSet
  <2>3. ASSUME NEW y \in DOMAIN zones, number \in ToSet(pieces[y]) PROVE y = z
    <3>1. PICK m \in 1 .. c : number = pieces[y][m]
      BY <2>1, <2>3 DEF ToSet
    <3>2. hosts[c * (y - 1) + m] = hosts[c * (z - 1) + n]
      BY <1>6, <3>1
    <3>3. c * (y - 1) + m = c * (z - 1) + n
      BY <1>1, <1>8, <3>2 DEF IsInjective
    <3> DEFINE a == y - 1
               b == z - 1
               r == m - 1
               s == n - 1
    <3>4. a \in Int /\ b \in Int /\ r \in 0 .. (c - 1) /\ s \in 0 .. (c - 1) /\ c \in Nat \ {0}
      BY <1>7
    <3>5. r + c * a = s + c * b
      <4> DEFINE p == c * (y - 1)
                 q == c * (z - 1)
      <4>1. p \in Int /\ q \in Int /\ p + m = q + n
        BY <1>7, <3>3
      <4> HIDE DEF p, q
      <4>2. (m - 1) + p = (n - 1) + q
        BY <4>1
      <4> QED
        BY <4>2 DEF p, q
    <3>6. a = b
      <4> HIDE DEF a, b, r, s
      <4> QED
        BY <3>4, <3>5, DigitsAreUnique, Zenon
    <3> QED
      BY <1>7, <3>6
  <2>4. \A y \in DOMAIN zones : pieces[y] = OfZone(Numas(input.doc)[y], kind)
    BY <1>4 DEF zones
  <2>5. \A y \in DOMAIN Numas(input.doc) :
           number \in ToSet(OfZone(Numas(input.doc)[y], kind)) <=> y = z
    BY <2>2, <2>3, <2>4 DEF zones
  <2> HIDE DEF number
  <2>6. z \in DOMAIN Numas(input.doc)
    BY DEF zones
  <2>7. ZoneOf(kind, number) = z
    BY <2>5, <2>6 DEF ZoneOf
  <2> QED
    BY <2>7 DEF number
<1> QED
  BY <1>6, <1>9 DEF zones, hosts

(* What a worker sends to the caches and to the memory of its own goes to   *)
(* hosts of its zone (worker.hpp:36-37, cache.hpp:21-34), in any machine of *)
(* equal zones with whole caches.                                           *)
THEOREM TransfersStayInTheZone == Spec => []ReceiversAreLocal
<1>1. ASSUME StartupIInv PROVE ReceiversAreLocal
  <2> SUFFICES ASSUME running # {}, Numbered, EqualZones, NEW w \in running
               PROVE  /\ ZoneOf("IMC", cacheReceiverMap[CacheNum(w)]) = ZoneOf("CPU", w)
                      /\ ZoneOf("RAM", ramReceiverMap[CacheNum(w)]) = ZoneOf("CPU", w)
    BY DEF ReceiversAreLocal
  <2> DEFINE doc == input.doc
             zones == Numas(doc)
             Z == Len(zones)
             m == Len(OfZone(zones[1], "IMC"))
             c == Len(OfZone(zones[1], "CPU"))
             k == corePerCache
  <2>1. /\ pc = "workers" /\ input \in Inputs /\ TypeOK /\ LoopInv
        /\ cacheReceiverMap = [n \in 0 .. (nCaches - 1) |-> cacheList[n + 1]]
        /\ ramReceiverMap = [n \in 0 .. (nCaches - 1) |-> ramList[n + 1]]
    BY <1>1 DEF StartupIInv, RunningInv
  <2>2. PlatformIsRead /\ Ready
    BY <1>1, <2>1 DEF StartupIInv, StageInv, LoopInv, Later
  <2>3. /\ ~Refused(doc) /\ ~Skipped(doc) /\ nCaches \in Nat \ {0}
        /\ machines = HostsOf(doc, "CPU")
        /\ cacheList = HostsOf(doc, "IMC") /\ ramList = HostsOf(doc, "RAM")
    BY <2>2 DEF PlatformIsRead, NCache, Ready
  <2>4. doc \in Seq(Seq(NumaType))
    BY <2>1, InputIsTyped DEF InputType
  <2>5. zones \in Seq(NumaType) /\ zones # <<>>
    BY <2>3, <2>4, NumasOfAFile
  <2>6. Z \in Nat \ {0} /\ DOMAIN zones = 1 .. Z
    BY <2>5
  <2>7. m \in Nat /\ c \in Nat
    <3>1. zones[1] \in NumaType
      BY <2>5, <2>6
    <3> QED
      BY <3>1, ZoneType
  <2>8. /\ \A z \in DOMAIN zones : Len(OfZone(zones[z], "CPU")) = c
        /\ \A z \in DOMAIN zones : Len(OfZone(zones[z], "IMC")) = m
        /\ \A z \in DOMAIN zones : Len(OfZone(zones[z], "RAM")) = m
        /\ nCaches = m * Z /\ c % m = 0
    BY DEF EqualZones
  <2>9. Len(machines) = c * Z
        /\ \A z \in DOMAIN zones : \A n \in 1 .. c : ZoneOf("CPU", machines[c * (z - 1) + n]) = z
    BY <2>1, <2>3, <2>7, <2>8, ZonesOfHosts
  <2>10. \A z \in DOMAIN zones : \A n \in 1 .. m : ZoneOf("IMC", cacheList[m * (z - 1) + n]) = z
    BY <2>1, <2>3, <2>7, <2>8, ZonesOfHosts
  <2>11. \A z \in DOMAIN zones : \A n \in 1 .. m : ZoneOf("RAM", ramList[m * (z - 1) + n]) = z
    BY <2>1, <2>3, <2>7, <2>8, ZonesOfHosts
  <2>12. w \in Nat /\ w < Len(machines) /\ w + 1 \in DOMAIN machines /\ machines[w + 1] = w
    <3>1. machines \in Seq(Nat) /\ w \in ToSet(machines)
      BY <2>1 DEF TypeOK
    <3>2. PICK n \in DOMAIN machines : machines[n] = w
      BY <3>1 DEF ToSet
    <3>3. n \in 1 .. Len(machines) /\ w = n - 1
      BY <3>1, <3>2 DEF Numbered
    <3> QED
      BY <3>1, <3>2, <3>3
  <2> HIDE DEF zones, Z, m, c, k
  <2>13. m \in Nat \ {0}
    <3>1. m # 0
      BY <2>3, <2>6, <2>7, <2>8
    <3> QED
      BY <2>7, <3>1
  <2> DEFINE e == c \div m
  <2>14. e \in Int /\ c = m * e
    <3> DEFINE p == m * e
    <3>1. e \in Int /\ c = (c % m) + m * e
      BY <2>7, <2>13, DivMod
    <3>2. p \in Int /\ c = 0 + p
      BY <2>8, <2>13, <3>1
    <3> HIDE DEF p, e
    <3>3. c = p
      BY <3>2
    <3> QED
      BY <3>1, <3>3 DEF p
  <2> HIDE DEF e
  <2>15. c # 0
    BY <2>6, <2>7, <2>9, <2>12
  <2>16. e \in Nat \ {0} /\ c = e * m
    <3>1. e # 0
      BY <2>13, <2>14, <2>15
    <3>2. ~(e < 0)
      <4>1. SUFFICES ASSUME e < 0 PROVE FALSE
        OBVIOUS
      <4>2. m * e + m <= m * 0 /\ m * 0 = 0
        BY <2>13, <2>14, <4>1, NextMultiple
      <4>3. c + m <= 0
        BY <2>14, <4>2
      <4> QED
        BY <2>7, <2>13, <4>3
    <3> QED
      BY <2>13, <2>14, <3>1, <3>2
  <2>17. k = e
    <3> DEFINE q == m * Z
    <3>1. q \in Nat \ {0}
      BY <2>6, <2>13
    <3>2. Len(machines) = q * e
      <4>1. Len(machines) = (m * e) * Z
        BY <2>9, <2>14
      <4> QED
        BY <2>6, <2>13, <2>14, <4>1
    <3> HIDE DEF q
    <3>3. (0 + q * e) \div q = e
      <4>1. 0 \in 0 .. (q - 1)
        BY <3>1
      <4> QED
        BY <2>14, <3>1, <4>1, QuotientOfDigits
    <3>4. (q * e) \div q = e
      <4>1. 0 + q * e = q * e
        BY <2>14, <3>1
      <4> QED
        BY <3>3, <4>1
    <3> QED
      BY <2>8, <3>2, <3>4 DEF k, corePerCache, q
  <2>18. w < (k * m) * Z
    BY <2>9, <2>12, <2>16, <2>17
  <2>19. k \in Nat \ {0}
    BY <2>16, <2>17
  <2>20. PICK z \in 0 .. (Z - 1), g \in 0 .. (m - 1), n \in 1 .. (k * m) :
            w = (k * m) * z + n - 1 /\ w \div k = m * z + g
    <3>1. Z \in Nat
      BY <2>6
    <3>2. ZoneAndCache(w, k, m, Z)
      BY <2>12, <2>13, <2>18, <2>19, <3>1, CoreHasZoneAndCache, Zenon
    <3> QED
      BY <3>2 DEF ZoneAndCache
  <2> DEFINE y == z + 1
             a == m * z + g
  <2>21. y \in DOMAIN zones /\ y - 1 = z /\ z \in Nat /\ g \in Nat /\ g + 1 \in 1 .. m
    BY <2>6, <2>13, <2>20
  <2>22. ZoneOf("CPU", w) = y
    <3>1. k * m = c
      BY <2>16, <2>17
    <3> DEFINE p == c * z
    <3>2. n \in 1 .. c /\ w = p + n - 1
      BY <2>20, <3>1
    <3>3. p \in Nat
      BY <2>7, <2>21
    <3> HIDE DEF p
    <3>4. w + 1 = p + n
      BY <2>7, <3>2, <3>3
    <3>5. ZoneOf("CPU", machines[c * z + n]) = y
      BY <2>9, <2>21, <3>2
    <3> QED
      BY <2>12, <3>4, <3>5 DEF p
  <2>23. CacheNum(w) = a
    <3>1. (k * m) * Z = k * nCaches
      BY <2>6, <2>8, <2>13, <2>19
    <3>2. w < corePerCache * nCaches
      BY <2>18, <3>1 DEF k
    <3> QED
      BY <2>20, <3>2 DEF CacheNum, k
  <2>24. a \in 0 .. (nCaches - 1) /\ a + 1 = m * z + (g + 1)
    <3> DEFINE p == m * z
               q == m * Z
    <3>1. p \in Nat /\ q \in Nat
      BY <2>6, <2>13, <2>21
    <3>2. p + m <= q
      BY <2>6, <2>13, <2>20, NextMultiple
    <3> HIDE DEF p, q
    <3>3. p + g \in 0 .. (q - 1) /\ p + g + 1 = p + (g + 1)
      BY <2>13, <2>20, <3>1, <3>2
    <3> QED
      BY <2>8, <3>3 DEF p, q
  <2>25. /\ cacheReceiverMap[a] = cacheList[m * z + (g + 1)]
         /\ ramReceiverMap[a] = ramList[m * z + (g + 1)]
    <3> HIDE DEF a
    <3> QED
      BY <2>1, <2>24
  <2>26. /\ ZoneOf("IMC", cacheList[m * z + (g + 1)]) = y
         /\ ZoneOf("RAM", ramList[m * z + (g + 1)]) = y
    BY <2>10, <2>11, <2>21
  <2> QED
    BY <2>22, <2>23, <2>25, <2>26
<1> QED
  BY <1>1, StartupInvariant, PTL
=============================================================================

--------------------------- MODULE RecParserProof ---------------------------
(***************************************************************************)
(* Proofs about RecParser, for every set of keys and every file: the       *)
(* vectors stay aligned, the arrays have what the records say, and the     *)
(* parser goes astray only on files it cannot take.                        *)
(***************************************************************************)
EXTENDS RecParser, FiniteSetTheorems, SequenceTheorems, TLAPS

(* The lines of field k of record r among the first n lines of f. *)
ReadOf(f, n, r, k) == {m \in LinesOf(f, r, k) : m <= n}

(* v is what lines S of f say of their field. *)
IsField(f, S, v) ==
  \/ S = {} /\ v = Unset
  \/ \E n \in S : (\A m \in S : m <= n) /\ v = f[n].value

(* No record repeats a list in the first n lines of f. *)
NoRepeat(f, n) ==
  \A l, m \in 1 .. n : /\ f[l].key \in ListKey /\ f[l].key = f[m].key
                       /\ RecordOf(f, l) = RecordOf(f, m)
                       => l = m

(* The counters say how far into the file the parser is. *)
CounterInv ==
  /\ parsedTasks = BlankLines(file)
  /\ counter = RecordOf(file, lineNo + 1)

(* A list counter is ahead of the record when the record's list was read,  *)
(* and no list was read twice.                                             *)
AheadInv ==
  outcome \in {"parsing", "done"} =>
    /\ \A k \in ListKey :
         listCounter[k] = counter + 1 <=> ReadOf(file, lineNo, counter, k) # {}
    /\ NoRepeat(file, lineNo)

(* The arrays have what has been read. *)
ArraysInv ==
  outcome \in {"parsing", "done"} =>
    /\ \A k \in Scalar : \A r \in 0 .. (parsedTasks - 1) :
         IsField(file, ReadOf(file, lineNo, r, k), scalars[k][r])
    /\ \A k \in ListKey : \A r \in 0 .. (Len(lists[k]) - 1) :
         IsField(file, ReadOf(file, lineNo, r, k), lists[k][r + 1])

(* How the parser stopped. *)
OutcomeInv ==
  /\ outcome = "done" => lineNo = Len(file)
  /\ outcome = "overruns" => Unclosed(file) # {}
  /\ outcome = "hangs" => Repeats(file)

(* The inductive invariant. *)
ParserIInv == /\ TypeOK /\ CounterInv /\ VectorsAligned
              /\ AheadInv /\ ArraysInv /\ OutcomeInv
-----------------------------------------------------------------------------
(***************************************************************************)
(* Records and lines.                                                      *)
(***************************************************************************)
LEMMA RecordType ==
  ASSUME NEW f \in Seq(Line), NEW n \in Nat
  PROVE  /\ IsFiniteSet({m \in 1 .. (n - 1) : f[m].key = Blank})
         /\ RecordOf(f, n) \in Nat
<1>1. IsFiniteSet(1 .. (n - 1))
  BY FS_Interval
<1>2. IsFiniteSet({m \in 1 .. (n - 1) : f[m].key = Blank})
  BY <1>1, FS_Subset
<1> QED
  BY <1>2, FS_CardinalityType DEF RecordOf

(* A blank line ends its record. *)
LEMMA RecordStep ==
  ASSUME NEW f \in Seq(Line), NEW n \in DOMAIN f
  PROVE  /\ RecordOf(f, n) \in Nat
         /\ RecordOf(f, n + 1) = IF f[n].key = Blank THEN RecordOf(f, n) + 1
                                                     ELSE RecordOf(f, n)
<1> DEFINE B == {m \in 1 .. (n - 1) : f[m].key = Blank}
<1>1. n \in Nat /\ n >= 1
  OBVIOUS
<1>2. IsFiniteSet(B) /\ RecordOf(f, n) = Cardinality(B) /\ RecordOf(f, n) \in Nat
  BY <1>1, RecordType DEF RecordOf
<1>3. RecordOf(f, n + 1) = Cardinality({m \in 1 .. n : f[m].key = Blank})
  <2>1. 1 .. ((n + 1) - 1) = 1 .. n
    BY <1>1
  <2>2. RecordOf(f, n + 1) = Cardinality({m \in 1 .. ((n + 1) - 1) : f[m].key = Blank})
    BY DEF RecordOf
  <2> QED
    BY <2>1, <2>2
<1>4. {m \in 1 .. n : f[m].key = Blank} = IF f[n].key = Blank THEN B \cup {n} ELSE B
  BY <1>1
<1>5. n \notin B
  BY <1>1
<1>6. Cardinality(B \cup {n}) = Cardinality(B) + 1
  BY <1>2, <1>5, FS_AddElement
<1> QED
  BY <1>2, <1>3, <1>4, <1>6

LEMMA RecordMonotone ==
  ASSUME NEW f \in Seq(Line), NEW m \in Nat, NEW n \in Nat, m <= n
  PROVE  RecordOf(f, m) <= RecordOf(f, n)
<1>1. {l \in 1 .. (m - 1) : f[l].key = Blank} \subseteq {l \in 1 .. (n - 1) : f[l].key = Blank}
  OBVIOUS
<1> QED
  BY <1>1, RecordType, FS_Subset DEF RecordOf

LEMMA FirstRecord ==
  ASSUME NEW f
  PROVE  RecordOf(f, 1) = 0
<1>1. {m \in 1 .. (1 - 1) : f[m].key = Blank} = {}
  OBVIOUS
<1> QED
  BY <1>1, FS_EmptySet DEF RecordOf

LEMMA LastRecord ==
  ASSUME NEW f \in Seq(Line)
  PROVE  BlankLines(f) = RecordOf(f, Len(f) + 1) /\ BlankLines(f) \in Nat
<1>1. DOMAIN f = 1 .. (Len(f) + 1 - 1) /\ Len(f) + 1 \in Nat
  OBVIOUS
<1>2. BlankLines(f) = RecordOf(f, Len(f) + 1)
  BY <1>1 DEF BlankLines, RecordOf
<1> QED
  BY <1>1, <1>2, RecordType

(* Padding adds empty entries. *)
LEMMA PaddedIs ==
  ASSUME NEW v \in Seq(Value \cup {Unset}), NEW to \in Nat, Len(v) <= to
  PROVE  /\ Padded(v, Len(v), to) \in Seq(Value \cup {Unset})
         /\ Len(Padded(v, Len(v), to)) = to
         /\ \A n \in 1 .. Len(v) : Padded(v, Len(v), to)[n] = v[n]
         /\ \A n \in (Len(v) + 1) .. to : Padded(v, Len(v), to)[n] = Unset
<1> DEFINE pad == [n \in 1 .. (to - Len(v)) |-> Unset]
<1>1. to - Len(v) \in Nat /\ Len(v) \in Nat
  OBVIOUS
<1>2. pad \in Seq(Value \cup {Unset}) /\ Len(pad) = to - Len(v)
  BY <1>1
<1> HIDE DEF pad
<1>3. /\ v \o pad \in Seq(Value \cup {Unset}) /\ Len(v \o pad) = to
      /\ \A n \in 1 .. Len(v) : (v \o pad)[n] = v[n]
      /\ \A n \in (Len(v) + 1) .. to : (v \o pad)[n] = pad[n - Len(v)]
  BY <1>1, <1>2
<1>4. \A n \in (Len(v) + 1) .. to : pad[n - Len(v)] = Unset
  BY <1>1 DEF pad
<1> QED
  BY <1>3, <1>4 DEF Padded, pad

(* The record of the next line, and of those before it. *)
LEMMA NextRecord ==
  ASSUME TypeOK, CounterInv, NEW l \in Line, NextLine(l)
  PROVE  /\ lineNo + 1 \in DOMAIN file /\ file[lineNo + 1] = l /\ lineNo \in Nat
         /\ RecordOf(file, lineNo + 1) = counter /\ counter \in Nat
         /\ RecordOf(file, lineNo + 2) = IF l.key = Blank THEN counter + 1 ELSE counter
         /\ \A n \in 1 .. (lineNo + 1) : RecordOf(file, n) \in Nat /\ RecordOf(file, n) <= counter
         /\ counter <= parsedTasks /\ parsedTasks \in Nat
         /\ l.key = Blank => counter < parsedTasks
<1>1. /\ lineNo + 1 \in DOMAIN file /\ file[lineNo + 1] = l /\ lineNo \in Nat
      /\ file \in Seq(Line) /\ counter = RecordOf(file, lineNo + 1) /\ lineNo + 2 <= Len(file) + 1
      /\ Len(file) \in Nat
  BY DEF TypeOK, CounterInv, NextLine
<1>2. /\ counter \in Nat
      /\ RecordOf(file, lineNo + 2) = IF l.key = Blank THEN counter + 1 ELSE counter
  <2>1. lineNo + 1 + 1 = lineNo + 2
    BY <1>1
  <2> QED
    BY <1>1, <2>1, RecordStep
<1>3. \A n \in 1 .. (lineNo + 1) : RecordOf(file, n) \in Nat /\ RecordOf(file, n) <= counter
  <2> TAKE n \in 1 .. (lineNo + 1)
  <2>1. n \in Nat /\ lineNo + 1 \in Nat /\ n <= lineNo + 1
    BY <1>1
  <2> QED
    BY <1>1, <2>1, RecordType, RecordMonotone
<1>4. /\ RecordOf(file, lineNo + 2) <= parsedTasks
      /\ parsedTasks \in Nat
  BY <1>1, LastRecord, RecordMonotone DEF CounterInv
<1> QED
  BY <1>1, <1>2, <1>3, <1>4

(* What the next line adds to what has been read of a field. *)
LEMMA ReadMore ==
  ASSUME NEW f \in Seq(Line), NEW n \in Nat, n + 1 \in DOMAIN f, NEW r, NEW k
  PROVE  /\ f[n + 1].key = k /\ RecordOf(f, n + 1) = r
              => /\ ReadOf(f, n + 1, r, k) # {}
                 /\ IsField(f, ReadOf(f, n + 1, r, k), f[n + 1].value)
         /\ ~(f[n + 1].key = k /\ RecordOf(f, n + 1) = r)
              => ReadOf(f, n + 1, r, k) = ReadOf(f, n, r, k)
<1>1. LinesOf(f, r, k) \subseteq Nat
  BY DEF LinesOf
<1>2. ASSUME f[n + 1].key = k, RecordOf(f, n + 1) = r
      PROVE  n + 1 \in ReadOf(f, n + 1, r, k)
  BY <1>2 DEF LinesOf, ReadOf
<1>3. \A m \in ReadOf(f, n + 1, r, k) : m <= n + 1
  BY DEF ReadOf
<1>4. ASSUME ~(f[n + 1].key = k /\ RecordOf(f, n + 1) = r)
      PROVE  ReadOf(f, n + 1, r, k) = ReadOf(f, n, r, k)
  <2>1. n + 1 \notin LinesOf(f, r, k)
    BY <1>4 DEF LinesOf
  <2>2. \A m \in LinesOf(f, r, k) : m <= n + 1 <=> m <= n
    BY <1>1, <2>1
  <2> QED
    BY <2>2 DEF ReadOf
<1> QED
  BY <1>2, <1>3, <1>4 DEF IsField

(* What has been read when there is nothing left. *)
LEMMA AllRead ==
  ASSUME NEW f \in Seq(Line), NEW r, NEW k
  PROVE  /\ ReadOf(f, 0, r, k) = {}
         /\ ReadOf(f, Len(f), r, k) = LinesOf(f, r, k)
BY DEF ReadOf, LinesOf

(* A field has one value. *)
LEMMA FieldIs ==
  ASSUME NEW f \in Seq(Line), NEW r, NEW k, NEW v, IsField(f, LinesOf(f, r, k), v)
  PROVE  v = FieldOf(f, r, k)
<1>1. CASE LinesOf(f, r, k) = {}
  BY <1>1 DEF IsField, FieldOf
<1>2. CASE LinesOf(f, r, k) # {}
  <2>1. PICK n \in LinesOf(f, r, k) : (\A m \in LinesOf(f, r, k) : m <= n) /\ v = f[n].value
    BY <1>2 DEF IsField
  <2>2. \A m \in LinesOf(f, r, k) : m \in Nat
    BY DEF LinesOf
  <2>3. \A l \in LinesOf(f, r, k) : (\A m \in LinesOf(f, r, k) : m <= l) => l = n
    BY <2>1, <2>2
  <2>4. n = CHOOSE l \in LinesOf(f, r, k) : \A m \in LinesOf(f, r, k) : m <= l
    BY <2>1, <2>3
  <2> QED
    BY <1>2, <2>1, <2>4 DEF FieldOf
<1> QED
  BY <1>1, <1>2
-----------------------------------------------------------------------------
(***************************************************************************)
(* The inductive invariant.                                                *)
(***************************************************************************)
LEMMA InitParser == Init => ParserIInv
<1> SUFFICES ASSUME Init PROVE ParserIInv
  OBVIOUS
<1>1. /\ file \in Seq(Line) /\ parsedTasks = BlankLines(file) /\ parsedTasks \in Nat
      /\ lineNo = 0 /\ counter = 0 /\ outcome \in {"throws", "parsing"}
      /\ scalars = [k \in Scalar |-> [r \in 0 .. (parsedTasks - 1) |-> Unset]]
      /\ lists = [k \in ListKey |-> <<>>] /\ listCounter = [k \in ListKey |-> 0]
  BY FileAssumption, LastRecord DEF Init
<1>2. TypeOK
  <2>1. Len(file) \in Nat
    BY <1>1
  <2> QED
    BY <1>1, <2>1 DEF TypeOK
<1>3. CounterInv
  BY <1>1, FirstRecord DEF CounterInv
<1>4. VectorsAligned
  BY <1>1 DEF VectorsAligned
<1>5. \A r, k : ReadOf(file, lineNo, r, k) = {}
  BY <1>1, AllRead
<1>6. AheadInv
  BY <1>1, <1>5 DEF AheadInv, NoRepeat
<1>7. ArraysInv
  BY <1>1, <1>5 DEF ArraysInv, IsField
<1>8. OutcomeInv
  BY <1>1 DEF OutcomeInv
<1> QED
  BY <1>2, <1>3, <1>4, <1>6, <1>7, <1>8 DEF ParserIInv

LEMMA ReadScalarParser ==
  ASSUME ParserIInv, NEW l \in Line, ReadScalar(l)
  PROVE  ParserIInv'
<1>1. /\ lineNo + 1 \in DOMAIN file /\ file[lineNo + 1] = l /\ lineNo \in Nat
      /\ RecordOf(file, lineNo + 1) = counter /\ counter \in Nat
      /\ RecordOf(file, lineNo + 2) = counter
      /\ counter <= parsedTasks /\ parsedTasks \in Nat
      /\ l.key \in Scalar /\ l.key # Blank /\ l.key \notin ListKey
  BY NextRecord, KeyAssumption, FileAssumption DEF ReadScalar, ParserIInv
<1>2. /\ outcome = "parsing" /\ lineNo' = lineNo + 1 /\ file' = file
      /\ UNCHANGED <<parsedTasks, counter, lists, listCounter>>
      /\ \/ /\ counter < parsedTasks /\ outcome' = outcome
            /\ scalars' = [scalars EXCEPT ![l.key][counter] = l.value]
         \/ counter = parsedTasks /\ outcome' = "overruns" /\ scalars' = scalars
  BY <1>1 DEF ReadScalar, NextLine
<1>3. TypeOK'
  <2>1. l.value \in Value
    BY DEF Line
  <2>2. scalars' \in [Scalar -> [0 .. (parsedTasks - 1) -> Value \cup {Unset}]]
    <3>1. scalars \in [Scalar -> [0 .. (parsedTasks - 1) -> Value \cup {Unset}]]
      BY DEF ParserIInv, TypeOK
    <3>2. counter < parsedTasks => counter \in 0 .. (parsedTasks - 1)
      BY <1>1
    <3>3. [scalars[l.key] EXCEPT ![counter] = l.value]
            \in [0 .. (parsedTasks - 1) -> Value \cup {Unset}]
      BY <1>1, <2>1, <3>1
    <3> QED
      BY <1>1, <1>2, <3>1, <3>3
  <2> QED
    BY <1>1, <1>2, <2>2 DEF ParserIInv, TypeOK
<1>4. CounterInv'
  <2>1. lineNo' + 1 = lineNo + 2
    BY <1>1, <1>2
  <2> QED
    BY <1>1, <1>2, <2>1 DEF ParserIInv, CounterInv
<1>5. VectorsAligned'
  BY <1>1, <1>2 DEF ParserIInv, VectorsAligned
<1>6. \A r : \A k : ~(k = l.key /\ r = counter)
        => ReadOf(file, lineNo + 1, r, k) = ReadOf(file, lineNo, r, k)
  BY <1>1, ReadMore DEF ParserIInv, TypeOK
<1>7. AheadInv'
  <2>1. \A k \in ListKey : ReadOf(file, lineNo + 1, counter, k) = ReadOf(file, lineNo, counter, k)
    BY <1>1, <1>6
  <2>2. NoRepeat(file, lineNo) => NoRepeat(file, lineNo + 1)
    BY <1>1 DEF NoRepeat
  <2> QED
    BY <1>2, <2>1, <2>2 DEF ParserIInv, AheadInv
<1>8. ArraysInv'
  <2> SUFFICES ASSUME outcome' = "parsing" PROVE ArraysInv'
    BY <1>2 DEF ArraysInv
  <2>1. \A k \in ListKey : \A r : ReadOf(file, lineNo + 1, r, k) = ReadOf(file, lineNo, r, k)
    BY <1>1, <1>6
  <2>2. IsField(file, ReadOf(file, lineNo + 1, counter, l.key), l.value)
    BY <1>1, ReadMore DEF ParserIInv, TypeOK
  <2>3. ASSUME NEW k \in Scalar, NEW r \in 0 .. (parsedTasks - 1)
        PROVE  IsField(file, ReadOf(file, lineNo + 1, r, k), scalars'[k][r])
    <3>1. CASE k = l.key /\ r = counter
      <4>1. scalars'[k][r] = l.value
        BY <1>1, <1>2, <3>1 DEF ParserIInv, TypeOK
      <4> QED
        BY <2>2, <3>1, <4>1
    <3>2. CASE ~(k = l.key /\ r = counter)
      <4>1. scalars'[k][r] = scalars[k][r]
        <5>1. scalars \in [Scalar -> [0 .. (parsedTasks - 1) -> Value \cup {Unset}]]
          BY DEF ParserIInv, TypeOK
        <5>2. scalars' = [scalars EXCEPT ![l.key] = [@ EXCEPT ![counter] = l.value]]
          BY <1>2
        <5>3. k # l.key => scalars'[k] = scalars[k]
          BY <5>1, <5>2
        <5>4. k = l.key => scalars'[k] = [scalars[k] EXCEPT ![counter] = l.value]
          BY <1>1, <5>1, <5>2
        <5>5. r # counter => [scalars[k] EXCEPT ![counter] = l.value][r] = scalars[k][r]
          BY <5>1
        <5>6. CASE k # l.key
          BY <5>3, <5>6
        <5>7. CASE k = l.key
          BY <3>2, <5>4, <5>5, <5>7
        <5> QED
          BY <5>6, <5>7
      <4>2. ReadOf(file, lineNo + 1, r, k) = ReadOf(file, lineNo, r, k)
        BY <1>6, <3>2
      <4> QED
        BY <1>2, <4>1, <4>2 DEF ParserIInv, ArraysInv
    <3> QED
      BY <3>1, <3>2
  <2> QED
    BY <1>2, <2>1, <2>3 DEF ParserIInv, ArraysInv
<1>9. OutcomeInv'
  <2>1. counter = parsedTasks => lineNo + 1 \in Unclosed(file)
    BY <1>1 DEF ParserIInv, CounterInv, Unclosed
  <2> QED
    BY <1>2, <2>1 DEF ParserIInv, OutcomeInv
<1> QED
  BY <1>3, <1>4, <1>5, <1>7, <1>8, <1>9 DEF ParserIInv

LEMMA ReadListParser ==
  ASSUME ParserIInv, NEW l \in Line, ReadList(l)
  PROVE  ParserIInv'
<1> DEFINE k0 == l.key
<1>1. /\ lineNo + 1 \in DOMAIN file /\ file[lineNo + 1] = l /\ lineNo \in Nat
      /\ RecordOf(file, lineNo + 1) = counter /\ counter \in Nat
      /\ RecordOf(file, lineNo + 2) = counter
      /\ counter <= parsedTasks /\ parsedTasks \in Nat
      /\ k0 \in ListKey /\ k0 # Blank /\ k0 \notin Scalar
  BY NextRecord, KeyAssumption, FileAssumption DEF ReadList, ParserIInv
<1>2. /\ outcome = "parsing" /\ lineNo' = lineNo + 1 /\ file' = file
      /\ UNCHANGED <<parsedTasks, counter, scalars>>
  BY DEF ReadList, NextLine
<1>3. /\ \A k \in ListKey : /\ lists[k] \in Seq(Value \cup {Unset}) /\ Len(lists[k]) = listCounter[k]
                            /\ listCounter[k] \in {counter, counter + 1}
      /\ DOMAIN lists = ListKey /\ DOMAIN listCounter = ListKey
  BY DEF ParserIInv, TypeOK, VectorsAligned
<1>4. CounterInv'
  <2>1. lineNo' + 1 = lineNo + 2
    BY <1>1, <1>2
  <2> QED
    BY <1>1, <1>2, <2>1 DEF ParserIInv, CounterInv
<1>5. \A r : \A k : ~(k = k0 /\ r = counter)
        => ReadOf(file, lineNo + 1, r, k) = ReadOf(file, lineNo, r, k)
  BY <1>1, ReadMore DEF ParserIInv, TypeOK
<1>6. listCounter[k0] = counter + 1 <=> ReadOf(file, lineNo, counter, k0) # {}
  BY <1>1, <1>2 DEF ParserIInv, AheadInv
<1>7. CASE Spins(k0)
  <2>1. outcome' = "hangs" /\ UNCHANGED <<lists, listCounter>>
    BY <1>7 DEF ReadList
  <2>2. ReadOf(file, lineNo, counter, k0) # {}
    BY <1>1, <1>3, <1>6, <1>7 DEF Spins
  <2>3. PICK n \in DOMAIN file : n <= lineNo /\ RecordOf(file, n) = counter /\ file[n].key = k0
    BY <2>2 DEF ReadOf, LinesOf
  <2>4. n # lineNo + 1 /\ file[n].key = file[lineNo + 1].key
    BY <1>1, <2>3 DEF ParserIInv, TypeOK
  <2>5. Repeats(file)
    BY <1>1, <2>3, <2>4 DEF Repeats
  <2>6. TypeOK' /\ VectorsAligned'
    BY <1>1, <1>2, <2>1 DEF ParserIInv, TypeOK, VectorsAligned
  <2>7. AheadInv' /\ ArraysInv' /\ OutcomeInv'
    BY <1>2, <2>1, <2>5 DEF AheadInv, ArraysInv, OutcomeInv
  <2> QED
    BY <1>4, <2>6, <2>7 DEF ParserIInv
<1>8. CASE ~Spins(k0)
  <2> DEFINE new == Append(lists[k0], l.value)
  <2>1. listCounter[k0] = counter /\ Len(lists[k0]) = counter
    BY <1>1, <1>3, <1>8 DEF Spins
  <2>2. Padded(lists[k0], listCounter[k0], counter) = lists[k0]
    <3>1. counter <= counter /\ counter \in Nat
      BY <1>1
    <3> DEFINE p == Padded(lists[k0], listCounter[k0], counter)
               q == lists[k0]
    <3>2. /\ p \in Seq(Value \cup {Unset}) /\ Len(p) = counter
          /\ \A n \in 1 .. counter : p[n] = q[n]
      BY <1>1, <1>3, <2>1, <3>1, PaddedIs
    <3>3. q \in Seq(Value \cup {Unset}) /\ Len(q) = counter
      BY <1>1, <1>3, <2>1
    <3> HIDE DEF p, q
    <3>4. p = q
      BY <3>2, <3>3, SeqEqual
    <3> QED
      BY <3>4 DEF p, q
  <2>3. /\ outcome' = "parsing"
        /\ lists' = [lists EXCEPT ![k0] = new]
        /\ listCounter' = [listCounter EXCEPT ![k0] = counter + 1]
    BY <1>2, <1>8, <2>2 DEF ReadList
  <2>4. /\ l.value \in Value
        /\ new \in Seq(Value \cup {Unset}) /\ Len(new) = counter + 1 /\ new[counter + 1] = l.value
        /\ \A n \in 1 .. counter : new[n] = lists[k0][n]
    <3>1. l.value \in Value
      BY DEF Line
    <3> QED
      BY <1>1, <1>3, <2>1, <3>1
  <2> HIDE DEF new
  <2>5. /\ \A k \in ListKey : /\ lists'[k] = IF k = k0 THEN new ELSE lists[k]
                              /\ listCounter'[k] = IF k = k0 THEN counter + 1 ELSE listCounter[k]
        /\ DOMAIN lists' = ListKey /\ DOMAIN listCounter' = ListKey
    BY <1>3, <2>3
  <2>6. TypeOK'
    <3>1. lists' \in [ListKey -> Seq(Value \cup {Unset})] /\ listCounter' \in [ListKey -> Nat]
      BY <1>1, <1>3, <2>3, <2>4 DEF ParserIInv, TypeOK
    <3> QED
      BY <1>1, <1>2, <2>3, <3>1 DEF ParserIInv, TypeOK
  <2>7. VectorsAligned'
    BY <1>1, <1>2, <1>3, <2>4, <2>5 DEF VectorsAligned
  <2>8. /\ ReadOf(file, lineNo + 1, counter, k0) # {}
        /\ IsField(file, ReadOf(file, lineNo + 1, counter, k0), l.value)
    <3>1. file \in Seq(Line) /\ file[lineNo + 1].key = k0
      BY <1>1 DEF ParserIInv, TypeOK
    <3> QED
      BY <1>1, <3>1, ReadMore
  <2>9. AheadInv'
    <3>1. \A k \in ListKey : listCounter'[k] = counter + 1
                               <=> ReadOf(file, lineNo + 1, counter, k) # {}
      BY <1>2, <1>5, <2>5, <2>8 DEF ParserIInv, AheadInv
    <3>2. ReadOf(file, lineNo, counter, k0) = {}
      BY <1>1, <1>6, <2>1
    <3>3. \A n \in 1 .. lineNo : ~(file[n].key = k0 /\ RecordOf(file, n) = counter)
      BY <1>1, <3>2 DEF ReadOf, LinesOf, ParserIInv, TypeOK
    <3>4. NoRepeat(file, lineNo)
      BY <1>2 DEF ParserIInv, AheadInv
    <3>5. NoRepeat(file, lineNo + 1)
      BY <1>1, <3>3, <3>4 DEF NoRepeat
    <3> QED
      BY <1>2, <3>1, <3>5 DEF AheadInv
  <2>10. ArraysInv'
    <3>1. ASSUME NEW k \in Scalar, NEW r \in 0 .. (parsedTasks - 1)
          PROVE  IsField(file, ReadOf(file, lineNo + 1, r, k), scalars[k][r])
      BY <1>1, <1>2, <1>5 DEF ParserIInv, ArraysInv
    <3>2. ASSUME NEW k \in ListKey, NEW r \in 0 .. (Len(lists'[k]) - 1)
          PROVE  IsField(file, ReadOf(file, lineNo + 1, r, k), lists'[k][r + 1])
      <4>1. CASE k = k0 /\ r = counter
        <5>1. lists'[k][r + 1] = l.value
          BY <2>4, <2>5, <4>1
        <5> QED
          BY <2>8, <4>1, <5>1
      <4>2. CASE ~(k = k0 /\ r = counter)
        <5>1. r \in 0 .. (Len(lists[k]) - 1) /\ lists'[k][r + 1] = lists[k][r + 1]
          BY <1>1, <2>1, <2>4, <2>5, <4>2
        <5> QED
          BY <1>2, <1>5, <4>2, <5>1 DEF ParserIInv, ArraysInv
      <4> QED
        BY <4>1, <4>2
    <3> QED
      BY <1>2, <3>1, <3>2 DEF ArraysInv
  <2>11. OutcomeInv'
    BY <2>3 DEF OutcomeInv
  <2> QED
    BY <1>4, <2>6, <2>7, <2>9, <2>10, <2>11 DEF ParserIInv
<1> QED
  BY <1>7, <1>8

LEMMA ReadBlankParser ==
  ASSUME ParserIInv, NEW l \in Line, ReadBlank(l)
  PROVE  ParserIInv'
<1>1. /\ lineNo + 1 \in DOMAIN file /\ file[lineNo + 1] = l /\ lineNo \in Nat
      /\ RecordOf(file, lineNo + 1) = counter /\ counter \in Nat
      /\ RecordOf(file, lineNo + 2) = counter + 1
      /\ \A n \in 1 .. (lineNo + 1) : RecordOf(file, n) \in Nat /\ RecordOf(file, n) <= counter
      /\ counter < parsedTasks /\ parsedTasks \in Nat
      /\ l.key = Blank /\ Blank \notin Scalar /\ Blank \notin ListKey
  BY NextRecord, FileAssumption DEF ReadBlank, ParserIInv
<1>2. /\ outcome = "parsing" /\ lineNo' = lineNo + 1 /\ counter' = counter + 1
      /\ UNCHANGED <<file, outcome, parsedTasks, scalars>>
      /\ lists' = [k \in ListKey |-> Padded(lists[k], listCounter[k], counter + 1)]
      /\ listCounter' = [k \in ListKey |-> counter + 1]
  BY DEF ReadBlank, NextLine
<1>3. \A k \in ListKey : /\ lists[k] \in Seq(Value \cup {Unset}) /\ Len(lists[k]) = listCounter[k]
                         /\ listCounter[k] \in {counter, counter + 1}
  BY DEF ParserIInv, TypeOK, VectorsAligned
<1>4. ASSUME NEW k \in ListKey
      PROVE  /\ lists'[k] \in Seq(Value \cup {Unset}) /\ Len(lists'[k]) = counter + 1
             /\ \A n \in 1 .. Len(lists[k]) : lists'[k][n] = lists[k][n]
             /\ \A n \in (Len(lists[k]) + 1) .. (counter + 1) : lists'[k][n] = Unset
  <2>1. Len(lists[k]) <= counter + 1 /\ counter + 1 \in Nat
    BY <1>1, <1>3
  <2>2. lists'[k] = Padded(lists[k], Len(lists[k]), counter + 1)
    BY <1>2, <1>3
  <2> QED
    BY <1>3, <2>1, <2>2, PaddedIs
<1>5. TypeOK'
  <2>1. lists' \in [ListKey -> Seq(Value \cup {Unset})] /\ listCounter' \in [ListKey -> Nat]
    BY <1>1, <1>2, <1>4
  <2>2. counter' \in 0 .. parsedTasks'
    BY <1>1, <1>2
  <2> QED
    BY <1>1, <1>2, <2>1, <2>2 DEF ParserIInv, TypeOK
<1>6. CounterInv'
  <2>1. lineNo' + 1 = lineNo + 2
    BY <1>1, <1>2
  <2> QED
    BY <1>1, <1>2, <2>1 DEF ParserIInv, CounterInv
<1>7. VectorsAligned'
  BY <1>1, <1>2, <1>4 DEF VectorsAligned
<1>8. \A k \in Scalar \cup ListKey : \A r :
        ReadOf(file, lineNo + 1, r, k) = ReadOf(file, lineNo, r, k)
  BY <1>1, ReadMore DEF ParserIInv, TypeOK
<1>9. AheadInv'
  <2>1. \A k : ReadOf(file, lineNo + 1, counter + 1, k) = {}
    BY <1>1 DEF ReadOf, LinesOf, ParserIInv, TypeOK
  <2>2. NoRepeat(file, lineNo + 1)
    BY <1>1, <1>2 DEF NoRepeat, ParserIInv, AheadInv
  <2>3. \A k \in ListKey : listCounter'[k] # counter' + 1
    BY <1>1, <1>2
  <2> QED
    BY <1>2, <2>1, <2>2, <2>3 DEF AheadInv
<1>10. ArraysInv'
  <2>1. ASSUME NEW k \in Scalar, NEW r \in 0 .. (parsedTasks - 1)
        PROVE  IsField(file, ReadOf(file, lineNo + 1, r, k), scalars[k][r])
    BY <1>2, <1>8 DEF ParserIInv, ArraysInv
  <2>2. ASSUME NEW k \in ListKey, NEW r \in 0 .. (Len(lists'[k]) - 1)
        PROVE  IsField(file, ReadOf(file, lineNo + 1, r, k), lists'[k][r + 1])
    <3>1. CASE r < Len(lists[k])
      <4>1. r \in 0 .. (Len(lists[k]) - 1) /\ r + 1 \in 1 .. Len(lists[k])
        BY <1>1, <1>3, <3>1
      <4>2. lists'[k][r + 1] = lists[k][r + 1]
        BY <1>4, <4>1
      <4> QED
        BY <1>2, <1>8, <4>1, <4>2 DEF ParserIInv, ArraysInv
    <3>2. CASE r >= Len(lists[k])
      <4>1. r = counter /\ listCounter[k] = counter /\ lists'[k][r + 1] = Unset
        BY <1>1, <1>3, <1>4, <3>2
      <4>2. ReadOf(file, lineNo, r, k) = {}
        BY <1>1, <1>2, <4>1 DEF ParserIInv, AheadInv
      <4> QED
        BY <1>8, <4>1, <4>2 DEF IsField
    <3> QED
      BY <1>3, <3>1, <3>2
  <2> QED
    BY <1>2, <2>1, <2>2 DEF ArraysInv
<1>11. OutcomeInv'
  BY <1>2 DEF OutcomeInv
<1> QED
  BY <1>5, <1>6, <1>7, <1>9, <1>10, <1>11 DEF ParserIInv

LEMMA SkipLineParser ==
  ASSUME ParserIInv, NEW l \in Line, SkipLine(l)
  PROVE  ParserIInv'
<1>1. /\ lineNo + 1 \in DOMAIN file /\ file[lineNo + 1] = l /\ lineNo \in Nat
      /\ RecordOf(file, lineNo + 2) = counter
      /\ l.key # Blank /\ l.key \notin Scalar /\ l.key \notin ListKey
  BY NextRecord, KeyAssumption, FileAssumption DEF SkipLine, ParserIInv
<1>2. /\ outcome = "parsing" /\ lineNo' = lineNo + 1
      /\ UNCHANGED <<file, outcome, parsedTasks, counter, scalars, lists, listCounter>>
  BY DEF SkipLine, NextLine
<1>3. TypeOK'
  BY <1>1, <1>2 DEF ParserIInv, TypeOK
<1>4. CounterInv'
  <2>1. lineNo' + 1 = lineNo + 2
    BY <1>1, <1>2
  <2> QED
    BY <1>1, <1>2, <2>1 DEF ParserIInv, CounterInv
<1>5. VectorsAligned'
  BY <1>1, <1>2 DEF ParserIInv, VectorsAligned
<1>6. \A k \in Scalar \cup ListKey : \A r :
        ReadOf(file, lineNo + 1, r, k) = ReadOf(file, lineNo, r, k)
  BY <1>1, ReadMore DEF ParserIInv, TypeOK
<1>7. AheadInv'
  <2>1. NoRepeat(file, lineNo) => NoRepeat(file, lineNo + 1)
    BY <1>1 DEF NoRepeat
  <2> QED
    BY <1>2, <1>6, <2>1 DEF ParserIInv, AheadInv
<1>8. ArraysInv'
  BY <1>2, <1>6 DEF ParserIInv, ArraysInv
<1>9. OutcomeInv'
  BY <1>2 DEF OutcomeInv
<1> QED
  BY <1>3, <1>4, <1>5, <1>7, <1>8, <1>9 DEF ParserIInv

(***************************************************************************)
(* After every line the arrays have what the lines so far say, and a list  *)
(* counter is ahead of the record exactly when the record has its list.    *)
(***************************************************************************)
THEOREM ParserInvariant == Spec => []ParserIInv
<1>1. ParserIInv /\ EndOfFile => ParserIInv'
  BY DEF ParserIInv, EndOfFile, TypeOK, CounterInv, VectorsAligned, AheadInv, ArraysInv, OutcomeInv
<1>2. ParserIInv /\ UNCHANGED vars => ParserIInv'
  BY DEF vars, ParserIInv, TypeOK, CounterInv, VectorsAligned, AheadInv, ArraysInv, OutcomeInv
<1>3. ParserIInv /\ [Next]_vars => ParserIInv'
  BY <1>1, <1>2, ReadScalarParser, ReadListParser, ReadBlankParser,
     SkipLineParser DEF Next
<1> QED
  BY <1>3, InitParser, PTL DEF Spec

(* The parsed arrays and their counters keep their types, and counter      *)
(* never exceeds the number of records (rec_parser.hpp:88-249).            *)
THEOREM ParserTypeOK == Spec => []TypeOK
<1>1. ParserIInv => TypeOK
  BY DEF ParserIInv
<1> QED
  BY <1>1, ParserInvariant, PTL

(* The vectors of all list fields stay aligned with the record, whatever   *)
(* the file (rec_parser.hpp:124-249).                                      *)
THEOREM VectorsStayAligned == Spec => []VectorsAligned
<1>1. ParserIInv => VectorsAligned
  BY DEF ParserIInv
<1> QED
  BY <1>1, ParserInvariant, PTL

(* A file that is read to its end leaves record r's fields in entry r of   *)
(* every array.                                                            *)
THEOREM ParserReadsTheRecords == Spec => []ParsesTheRecords
<1>1. ParserIInv => ParsesTheRecords
  <2> SUFFICES ASSUME ParserIInv, outcome = "done", NEW r \in 0 .. (parsedTasks - 1)
               PROVE  /\ \A k \in Scalar : scalars[k][r] = FieldOf(file, r, k)
                      /\ \A k \in ListKey : /\ r + 1 <= Len(lists[k])
                                            /\ lists[k][r + 1] = FieldOf(file, r, k)
    BY DEF ParsesTheRecords
  <2>1. /\ lineNo = Len(file) /\ file \in Seq(Line)
        /\ counter = parsedTasks /\ parsedTasks \in Nat
    BY LastRecord DEF ParserIInv, OutcomeInv, CounterInv, TypeOK
  <2>2. \A k : ReadOf(file, lineNo, r, k) = LinesOf(file, r, k)
    BY <2>1, AllRead
  <2>3. ASSUME NEW k \in Scalar PROVE scalars[k][r] = FieldOf(file, r, k)
    <3>1. IsField(file, LinesOf(file, r, k), scalars[k][r])
      BY <2>2 DEF ParserIInv, ArraysInv
    <3> QED
      BY <2>1, <3>1, FieldIs
  <2>4. ASSUME NEW k \in ListKey
        PROVE  r + 1 <= Len(lists[k]) /\ lists[k][r + 1] = FieldOf(file, r, k)
    <3>1. Len(lists[k]) = listCounter[k] /\ listCounter[k] \in {counter, counter + 1}
      BY DEF ParserIInv, VectorsAligned
    <3>2. r \in 0 .. (Len(lists[k]) - 1) /\ r + 1 <= Len(lists[k])
      BY <2>1, <3>1
    <3>3. IsField(file, LinesOf(file, r, k), lists[k][r + 1])
      BY <2>2, <3>2 DEF ParserIInv, ArraysInv
    <3> QED
      BY <2>1, <3>2, <3>3, FieldIs
  <2> QED
    BY <2>3, <2>4
<1> QED
  BY <1>1, ParserInvariant, PTL

(* The parser overruns an array or spins only on a file with an unclosed   *)
(* record or a repeated list, and no file with a repeated list gets        *)
(* through.                                                                *)
THEOREM ParserFailsOnlyOnBadFiles == Spec => []FailsOnlyOnBadFiles
<1>1. ParserIInv => FailsOnlyOnBadFiles
  <2> SUFFICES ASSUME ParserIInv, outcome = "done"
               PROVE  ~Repeats(file)
    BY DEF FailsOnlyOnBadFiles, ParserIInv, OutcomeInv
  <2>1. NoRepeat(file, Len(file)) /\ DOMAIN file = 1 .. Len(file)
    BY DEF ParserIInv, AheadInv, OutcomeInv, TypeOK
  <2> QED
    BY <2>1 DEF NoRepeat, Repeats
<1> QED
  BY <1>1, ParserInvariant, PTL
=============================================================================

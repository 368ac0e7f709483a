----------------------------- MODULE RecParser -----------------------------
(***************************************************************************)
(* recFileParser() of rec_parser.hpp: the trace, a file of records ended   *)
(* by blank lines, read line by line into arrays indexed by the record.    *)
(*                                                                         *)
(* A line is its key and its value; what the value is converted to (stoi,  *)
(* stod, the split at blanks) is abstracted to a value of its own. Scalar  *)
(* fields have arrays of parsedTasks entries, list fields have vectors     *)
(* that grow, each with a counter of its own.                              *)
(***************************************************************************)
EXTENDS Integers, SequencesExt

CONSTANTS Scalar,     \* keys of scalar fields: JobId, Name, StartTime, ...
          ListKey,    \* keys of list fields: Handles, Modes, Sizes, DependsOn
          OtherKey,   \* keys the parser does not know, as MData, MMode
          Value,      \* the values lines carry
          Files       \* the files the parser may be given

ASSUME KeyAssumption == /\ Scalar \cap ListKey = {}
                        /\ OtherKey \cap (Scalar \cup ListKey) = {}

Unset == 0            \* calloc()ed, or an empty vector
Blank == "blank"      \* a line whose key is the empty string

Line == [key : Scalar \cup ListKey \cup OtherKey \cup {Blank}, value : Value]

ASSUME FileAssumption == Files \subseteq Seq(Line) /\ Unset \notin Value
                         /\ Blank \notin Scalar \cup ListKey \cup OtherKey

VARIABLES file,
          lineNo,       \* lines read by the second pass
          outcome,      \* "parsing", "done", "throws", "overruns" or "hangs"
          parsedTasks,  \* blank lines, counted by the first pass
          counter,      \* records closed so far
          scalars,      \* parsedJobId, parsedName, ...
          lists,        \* parsedHandleVector, parsedModeVector, ...
          listCounter   \* handleCounter, modeCounter, ...

vars == <<file, lineNo, outcome, parsedTasks, counter, scalars, lists, listCounter>>

-----------------------------------------------------------------------------
JobLines(f) == Cardinality({n \in DOMAIN f : f[n].key \in Scalar})     \* mutant

BlankLines(f) == Cardinality({n \in DOMAIN f : f[n].key = Blank})

(* The first pass counts the records and the arrays are allocated. *)
Init ==
  /\ file \in Files
  /\ parsedTasks = BlankLines(file)
  /\ outcome = IF parsedTasks = 0 THEN "throws" ELSE "parsing"
  /\ lineNo = 0 /\ counter = 0
  /\ scalars = [k \in Scalar |-> [r \in 0 .. (parsedTasks - 1) |-> Unset]]
  /\ lists = [k \in ListKey |-> <<>>]
  /\ listCounter = [k \in ListKey |-> 0]

(* std::getline() returns the next line. *)
NextLine(l) == /\ outcome = "parsing"
               /\ lineNo < Len(file)
               /\ lineNo' = lineNo + 1
               /\ l = file[lineNo + 1]

(* A scalar beyond the last blank line is written past its array. *)
ReadScalar(l) ==
  /\ NextLine(l)
  /\ l.key \in Scalar
  /\ IF counter < parsedTasks
     THEN scalars' = [scalars EXCEPT ![l.key][counter] = l.value] /\ UNCHANGED outcome
     ELSE outcome' = "overruns" /\ UNCHANGED scalars
  /\ UNCHANGED <<file, parsedTasks, counter, lists, listCounter>>

NotPadded(v, from, to) == v             \* mutant: absent fields are skipped

(* while (handleCounter != counter) push_back(empty), handleCounter++ *)
Padded(v, from, to) == v \o [n \in 1 .. (to - from) |-> Unset]

SpinsAtOnce(k) == listCounter[k] >= counter    \* mutant: an off-by-one

(* The padding loop tests for inequality: it never ends when the counter   *)
(* is ahead of the record.                                                 *)
Spins(k) == listCounter[k] > counter

(* A list field: pad the vector up to this record, then push its list.     *)
ReadList(l) ==
  /\ NextLine(l)
  /\ l.key \in ListKey
  /\ IF ~Spins(l.key)
     THEN /\ lists' = [lists EXCEPT ![l.key] =
                         Append(Padded(@, listCounter[l.key], counter), l.value)]
          /\ listCounter' = [listCounter EXCEPT ![l.key] = counter + 1]
          /\ UNCHANGED outcome
     ELSE outcome' = "hangs" /\ UNCHANGED <<lists, listCounter>>
  /\ UNCHANGED <<file, parsedTasks, counter, scalars>>

(* A blank line closes the record: every vector is padded up to it. *)
ReadBlank(l) ==
  /\ NextLine(l)
  /\ l.key = Blank
  /\ counter' = counter + 1
  /\ lists' = [k \in ListKey |-> Padded(lists[k], listCounter[k], counter')]
  /\ listCounter' = [k \in ListKey |-> counter']
  /\ UNCHANGED <<file, outcome, parsedTasks, scalars>>

(* No comparison matches the key: the line is passed over. *)
SkipLine(l) ==
  /\ NextLine(l)
  /\ l.key \in OtherKey
  /\ UNCHANGED <<file, outcome, parsedTasks, counter, scalars, lists, listCounter>>

EndOfFile == /\ outcome = "parsing"
             /\ lineNo = Len(file)
             /\ outcome' = "done"
             /\ UNCHANGED <<file, lineNo, parsedTasks, counter, scalars, lists, listCounter>>

Next == \/ \E l \in Line : \/ ReadScalar(l) \/ ReadList(l)
                         \/ ReadBlank(l) \/ SkipLine(l)
        \/ EndOfFile

Spec == Init /\ [][Next]_vars
-----------------------------------------------------------------------------
(* What the file says: record r (from 0) is the lines between the r-th and *)
(* the next blank line. A field it repeats has its last value.             *)
RecordOf(f, n) == Cardinality({m \in 1 .. (n - 1) : f[m].key = Blank})

LinesOf(f, r, k) == {n \in DOMAIN f : RecordOf(f, n) = r /\ f[n].key = k}

FieldOf(f, r, k) ==
  IF LinesOf(f, r, k) = {} THEN Unset
  ELSE f[CHOOSE n \in LinesOf(f, r, k) : \A m \in LinesOf(f, r, k) : m <= n].value

(* Fields after the last blank line belong to no record the arrays have.   *)
Unclosed(f) == {n \in DOMAIN f : f[n].key \in Scalar /\ RecordOf(f, n) = BlankLines(f)}

Repeats(f) == \E n, m \in DOMAIN f : /\ n # m /\ f[n].key = f[m].key
                                     /\ f[n].key \in ListKey
                                     /\ RecordOf(f, n) = RecordOf(f, m)
-----------------------------------------------------------------------------
TypeOK == /\ file \in Seq(Line)
          /\ lineNo \in 0 .. Len(file)
          /\ outcome \in {"parsing", "done", "throws", "overruns", "hangs"}
          /\ parsedTasks \in Nat /\ counter \in 0 .. parsedTasks
          /\ scalars \in [Scalar -> [0 .. (parsedTasks - 1) -> Value \cup {Unset}]]
          /\ lists \in [ListKey -> Seq(Value \cup {Unset})]
          /\ listCounter \in [ListKey -> Nat]

(* Each list counter is the length of its vector and never lags behind the *)
(* record, nor runs ahead of it by more than the list just read: the       *)
(* vectors of all fields stay aligned (rec_parser.hpp:124-249).            *)
VectorsAligned ==
  \A k \in ListKey : /\ Len(lists[k]) = listCounter[k]
                     /\ listCounter[k] \in {counter, counter + 1}
                     /\ lineNo > 0 /\ file[lineNo].key = Blank => listCounter[k] = counter

(* When the whole file has been read, entry r of every array is the field   *)
(* of record r, whichever fields the records have and in whatever order.    *)
ParsesTheRecords ==
  outcome = "done" =>
    \A r \in 0 .. (parsedTasks - 1) :
       /\ \A k \in Scalar : scalars[k][r] = FieldOf(file, r, k)
       /\ \A k \in ListKey : r + 1 <= Len(lists[k]) /\ lists[k][r + 1] = FieldOf(file, r, k)

(* The parser reads to the end unless the last record is not closed by a   *)
(* blank line, or a record repeats a list.                                 *)
FailsOnlyOnBadFiles ==
  /\ outcome = "overruns" => Unclosed(file) # {}
  /\ outcome = "hangs" => Repeats(file)
  /\ outcome = "done" => ~Repeats(file)
=============================================================================

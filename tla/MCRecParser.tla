---------------------------- MODULE MCRecParser ----------------------------
(***************************************************************************)
(* Instances of RecParser for TLC: every file of a few lines over a        *)
(* scalar key, two list keys and one the parser does not know, each line   *)
(* with a value of its own.                                                *)
(***************************************************************************)
EXTENDS RecParser

CONSTANT MaxLines     \* bound: lines of a file

Keys == Scalar \cup ListKey \cup OtherKey \cup {Blank}

ShortFiles ==
  UNION {{[n \in 1 .. len |-> [key |-> k[n], value |-> n]] : k \in [1 .. len -> Keys]} :
         len \in 0 .. MaxLines}

Values == 1 .. MaxLines
=============================================================================

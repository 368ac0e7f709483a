\* Every file of up to six lines; the parser stops at the end of the file, or
\* earlier when it throws, overruns an array or loops for ever.
CONSTANTS
  Scalar = {"JobId"}
  ListKey = {"Handles", "DependsOn"}
  OtherKey = {"MData"}
  Value <- Values
  Files <- ShortFiles
  MaxLines = 6
SPECIFICATION Spec
INVARIANTS
  TypeOK
  VectorsAligned
  ParsesTheRecords
  FailsOnlyOnBadFiles
CHECK_DEADLOCK FALSE

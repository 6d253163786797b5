\* Every output of up to two elements of up to two items, quantities of three bits;
\* builds that keep the comparison after an addition.
SPECIFICATION Spec
CONSTANTS
  A = A
  B = B
  Asset = {A, B}
  Half = 4
  Output <- MCOutput
  Wanted <- MCWanted
  Comparison = {"kept"}
INVARIANTS RowsSummarise WrittenIsReadBack
CHECK_DEADLOCK FALSE

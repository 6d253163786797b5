\* Calls for every kind of output with right and wrong keys and redeem scripts,
\* and quantities in doubles of thirteen bits.
SPECIFICATION SendSpec
CONSTANTS
  SendCall <- MCCall
  Precision = 13
  Scale = 19
  AlmostHalf = 253952
  Width = 1000
INVARIANTS SpendableIfOwned PartialSignaturesAreGood AmountsAreRight
CHECK_DEADLOCK FALSE

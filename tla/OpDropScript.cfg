\* Every output and input script of up to five operations: two pieces of data
\* and an OP_RETURN, one and an OP_RETURN with data, two signatures and a redeem
\* script, and the ways in which such scripts can be malformed.
SPECIFICATION Spec
CONSTANTS
  Operation <- MCOperation
  MaxLength = 5
INVARIANTS CleanIsGrammatical ElementsAreRead RedeemScriptIsOpened
CHECK_DEADLOCK FALSE

\* Every object of up to three fields, in every order, for callers that allow
\* everything, nothing, or one kind.
SPECIFICATION Spec
CONSTANTS
  Masks <- MCMasks
  Text = {"", "t"}
  Field <- MCField
  MaxDetails = 2
  MaxPairs = 3
INVARIANTS NotDetailsAndCache
CHECK_DEADLOCK FALSE

\* A session that publishes and then pays, or two that pay, from one address over a network that
\* fails, with one output for items and two for payments.
SPECIFICATION Spec
CONSTANTS
  Session = {"s1", "s2"}
  Plans <- MCPlans
  Output <- MCOutput
  Address = "mine"
  Asset = "gold"
  Stream = "stream9"
INVARIANTS SentIsAcceptable LocksAreReleased
PROPERTIES PaysOnceAndKnows FollowsWholeAnswers SessionsEnd
CHECK_DEADLOCK FALSE

CONSTANTS
  Calls = {c1, c2, c3}
  Stuck = {}
  MaxDecisions = 2
  Capacity = 1
  Hedging = TRUE
SPECIFICATION Spec
INVARIANT ResponseNotLost

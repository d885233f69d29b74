CONSTANTS
  MaxSaid = 3
  MaxMasked = 0
  Served = "served"

SPECIFICATION StreamSpec
CHECK_DEADLOCK FALSE
INVARIANT ArgumentsSentOnce

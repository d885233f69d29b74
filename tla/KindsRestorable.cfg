CONSTANTS
  Letter = {"a", "b"}
  Digest = {"d"}
  Window = 10
  Symbol = {"a", "b", "_", "-"}
  MaxLen = 5

SPECIFICATION KindSpec
CHECK_DEADLOCK FALSE

INVARIANT KindsRestorable

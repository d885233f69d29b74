CONSTANTS
  Letter = {"a", "s"}
  Digest = {"d", "e"}
  Window = 10
  Slug <- MCSlug
  Pieces = 1
  Channel = {"text", "tool"}
  TextChannel = "text"
  Texts <- MCText
  map <- MCMap
  MaxFragment = 6

SPECIFICATION RestoreSpec
CHECK_DEADLOCK FALSE

INVARIANT SplitRestored

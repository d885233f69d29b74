CONSTANTS
  Letter = {"a", "s"}
  Digest = {"d", "e"}
  Window = 10
  Slug <- MCSlug
  Pieces = 3
  Channel = {"text"}
  TextChannel = "text"
  Texts <- MCText
  map <- MCMap
  MaxFragment = 12
  Symbol = {"a", "s", "_", "-"}
  MaxLen = 5
  MaxSaid = 4
  MaxMasked = 2
  Served = "served"
  NoId = NoId
  Clients = {"openai_chat", "anthropic_messages", "openai_responses"}
  Upstreams = {"openai_chat", "anthropic_messages", "openai_responses"}
  MaxTurns = 3
  ReplyFormats = {"openai_chat", "anthropic_messages", "openai_responses"}
  MaxCalls = 2
  TokenCounts = {0, 1, 3}

SPECIFICATION TranslationSpec
CHECK_DEADLOCK FALSE

INVARIANTS
  StreamedAsBuffered
  OnlyLeftoverWithheld
  SlugsStable
  ContentIntact
  ArgumentsIntact
  BufferedAsStreamed
  WellFormed
  MaskedStaysMasked
  PromptReachesTarget
  AnswersFollowCalls
  NoWordLost
  
  UsageConserved

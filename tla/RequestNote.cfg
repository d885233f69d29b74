CONSTANTS
    Clients = {"openai_chat", "anthropic_messages", "openai_responses"}
    Upstreams = {"openai_chat", "anthropic_messages", "openai_responses"}
    MaxTurns = 3
    NoId = NoId
SPECIFICATION RequestSpec
INVARIANTS NoteReachesTarget
CHECK_DEADLOCK FALSE

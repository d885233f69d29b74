CONSTANTS
    ReplyFormats = {"openai_chat", "anthropic_messages", "openai_responses"}
    MaxCalls = 1
    TokenCounts = {1}

SPECIFICATION ReplySpec
CHECK_DEADLOCK FALSE

INVARIANT CutIsTold

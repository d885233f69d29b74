CONSTANTS
    Calls = {"a", "b"}
    AnswerCalls = {"a", "b"}
    StreamCalls = {"b"}
    Candidates = 2
    MaxRetries <- MCMaxRetries
    Unrouted <- MCUnrouted
    Faults = {"timeout", "http_403", "context_window"}
    Horizon = 2
    Message <- MCMessage
    MaxSaid = 4
    Windows <- MCWindows
    SYSTEM_CHARS = 6
    FIRST_USER_CHARS = 7
    window_message_chars = 5
    MAX_REQUEST_CHARS = 21
    TRIM_MARKER = 2
    MinKeep = 2
    Header <- MCHeader
    Label = 1
    Length = 4
    Detector = {1, 2}
    Placed <- MCPlaced
    Allowed <- MCAllowed
    Request = {"r1", "r2", "r3"}
    Session = {"s"}
    None = "none"
    Blank = " "
    HeaderSets <- MCHeaders
    Texts = {"h"}
    Configs <- MCConfigs
    Endpoints = {"w", "d"}
    Worker = "w"
    Default = "d"
    MAX_ASSIGNMENTS = 2
    confirmations = 2
    Providers = {"openai_chat", "openai_responses", "anthropic"}
    CallerHeaders <- MCCallerHeaders
    ExtraHeaders <- MCExtraHeaders
    ExtraFields <- MCExtraFields
    MaxBlocks = 2
    SessionOf <- MCSessionOf
    Tokens <- MCTokens
    MaxCalls <- MCMaxCalls
    JudgeTokens = 17
    MaxResets = 1
    MAX_LATENCY_SAMPLES = 2
    RecentWindow = 2
    STALL_MIN_TURN_DEPTH = 4
    Threshold = 42
    DefaultTier = "efficient"
    HasJudge = TRUE
    Gated = TRUE
    MaxMessages = 6
    Starter = {"autostart", "ui"}
    Engine = {1, 2}
    NoEngine = 99
    MaxSaves = 1
    NetstatFinds = TRUE
    ClientTables <- MCClientTables
    TargetTables <- MCTargetTables
    RouteTables <- MCRouteTables
    Tier <- MCTier
    Untidy = {""}
    LocalRoute = "local"

SPECIFICATION ServicesSpec
CHECK_DEADLOCK FALSE

INVARIANTS
    UpstreamSound
    StageSound
    EscalationSound
    JudgeSound
    StatsSound
    DesktopSound
    MergeSound
    ConfigSound

PROPERTIES
    ClientSound
    AffinitySound

CONSTANTS
    Client = {"plugin", "replay"}
    Maas = {"plugin"}
    Chunk <- MCChunk
    Backends = {"groq", "whisper_cpp"}
    STUCK_THRESHOLD_S = 3
    WATCHDOG_POLL_S = 1
    RESTART_COOLDOWN_S = 1
    KILL_TIMEOUT = 1
    RELOAD = 2
    SOCKET_TIMEOUT = 9
    GROQ_TIMEOUT_S = 3
    GROQ_MAX_RETRY_WAIT_S = 1
    EXTRACT_TIMEOUT = 2
    CLIENT_TIMEOUT = 6
    DAILY = 4
    GROQ_QUOTA_WARN_AT = 2
    GROQ_QUOTA_WARN_STEP = 1
    MaxFaults = 2
SPECIFICATION TranscriptionSpec
CHECK_DEADLOCK FALSE
INVARIANTS
    StuckIsCutShort
    OutOfOrderOnlyAfterTimeout
    SpeechSurvives
    QuotaSaid

CONSTANTS
    Guesser = {g1, g2}
    Token = {t1, t2}
    SESSION_TTL = 4
    SESSION_IDLE = 2
    THROTTLE_MAX = 2
    THROTTLE_WINDOW = 1
    MaxClock = 10
    ShortClock = 6
    LoginClock = 3
    MaxMade = 3
    MaxSignIns = 1
    Reader = {r1, r2}
    TTL = 2
    FETCH_TIMEOUT_SEC = 2
    POLL_SEC = 1
    HEARTBEAT_SEC = 2
    COVERAGE_TIMEOUT_SEC = 1
    STATION_STALE_SEC = 5
    MaxFetches = 3
    MaxEvents = 2
    RECONNECT_BASE_SEC = 1
    RECONNECT_CAP_SEC = 4
    RATE_LIMIT_FLOOR_SEC = 2
    AIS_SILENCE_WARN_SEC = 3
    LOOK_MIN = 2
    UNKNOWN_FRAME_LOG_LIMIT = 2
    MaxFailures = 4
    Conn = {c1, c2}
    Stream <- MCStream
    Page <- MCPage
    DAY = 1
    WEEK = 2
    RETAIN_HOURS = 2
    MAX_PLAUSIBLE_KM = 60
    MaxRead = 3
    MaxHour = 3
    MaxPolls = 2
    Telephony <- MCTelephony
    Resembles <- MCResembles
    Phrases <- MCPhrases
    Glued <- MCGlued
    SpokenChars <- MCSpokenChars
    Tens <- MCTens
    Numeral <- MCNumeral
    BOUNDARY = {"thousand"}
    CallsignWords = 4
    Letter = {"K", "L", "M", "D", "A", "B", "W", "J", "U", "N"}
    Figure = {"0", "1", "2", "3", "4", "8"}
    QNH_PRESSURE <- MCPressure
    Transmission <- MCTransmission
    Traffic <- MCTraffic
    MaxReplaced = 1
    Rec <- MCRec
    File <- MCFile
    Day <- MCDay
    Truth <- MCTruth
    Note <- MCNote
    Stamp = {"s1", "e1", "e2", "s2", "e3"}
    TimeOf <- MCTimeOf
    DayLength = 20
    ScoredChannel = "main"
    MmsiPiece = {"2440", "2441"}
    MmsisOf <- MCMmsisOf
    MaxEdits = 4
    Phonetic <- MCPhonetic
    Digit <- MCDigit
    Literal <- MCLiteral
    Stopline <- MCStopline
    PromptWords <- MCPromptWords
    GenericWords <- MCGenericWords
    PROMPT_ECHO_MIN_WORDS = 6
    Pair <- MCPair
    Respelt <- MCRespelt
    LooksLikeMaas <- MCLooksLikeMaas
    ApproachNoun = {"approach"}
    Mmsi = {1, 2, 3, 4}
    Km <- MCKm
    Report <- MCReport
    Ratio <- MCRatio
    Substantial <- MCSubstantial
    Stopword <- MCStopword
    TypeWord = {"motortanker"}
    AIS_NAME_MIN_SCORE = 76
    AIS_NAME_AMBIGUOUS_GAP = 3
    AIS_HINT_MIN_SCORE = 85
    AIS_HINT_MAX_NGRAM = 2
    HINTS = 1
    AIS_SUGGEST_FLOOR = 55
    MaxReports = 1
    Known <- MCKnown
    Speech <- MCSpeech
    Edited <- MCEdited
    Named <- MCNamed
    Claimed <- MCClaimed
    Placeholder <- MCPlaceholder
    Corpus <- MCCorpus
    CALLSIGN_RUN_MIN_LEN = 4
    PARTIAL_CALLSIGN_MIN_NAME_SCORE = 60
    SUGGEST_N = 1
    SUGGEST_MIN_DOCS = 2
    SUGGEST_DF_MAX = 50
    MaxTurns = 2
    OnsetConfirmFrames = 2
    OnsetWindowFrames = 3
    PreRollFrames = 4
    SilenceFrames <- SmallSilences
    TrailingKeepFrames = 1
    MaxSpeechFrames = 6
    MinSpeechFrames = 3
    MinActivePercent = 50
    MaxFrames = 16
SPECIFICATION PartsSpec
CHECK_DEADLOCK FALSE
INVARIANTS
    GuessesBounded
    FreshOrFlagged
    LampsHonest
    FeedPaced
    SilenceSaid
    FlightWasHeard
    LabelsAgree
    CorrectedInOwnExchange
    SentInOrder
    SpeechKept
PROPERTIES
    RollingExact
    CallsignEvidence
    SharedNameShown

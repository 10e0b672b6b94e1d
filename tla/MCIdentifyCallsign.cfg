SPECIFICATION IdentifySpec
CONSTANTS
    Phonetic <- MCPhonetic
    Digit <- MCDigit
    Literal <- MCLiteral
    Stopline <- MCStopline
    PromptWords <- MCPromptWords
    GenericWords <- MCGenericWords
    PROMPT_ECHO_MIN_WORDS = 6
    Pair <- MCPair
    Respelt <- MCRespelt
    LooksLikeMaas <- MCLooksLikeMaas
    ApproachNoun = {"approach"}
    Mmsi = {1, 2, 3, 4}
    Km <- MCKm
    Report <- MCReport
    Ratio <- MCRatio
    Substantial <- MCSubstantial
    Stopword <- MCStopword
    TypeWord = {"motortanker"}
    AIS_NAME_MIN_SCORE = 76
    AIS_NAME_AMBIGUOUS_GAP = 3
    AIS_HINT_MIN_SCORE = 85
    AIS_HINT_MAX_NGRAM = 2
    HINTS = 1
    AIS_SUGGEST_FLOOR = 55
    MaxReports = 1
    Known <- MCKnown
    Speech <- MCSpeech
    Edited <- MCEdited
    Named <- MCNamed
    Claimed <- MCClaimed
    Placeholder <- MCPlaceholder
    Corpus <- MCCorpus
    CALLSIGN_RUN_MIN_LEN = 4
    PARTIAL_CALLSIGN_MIN_NAME_SCORE = 60
    SUGGEST_N = 1
    SUGGEST_MIN_DOCS = 2
    SUGGEST_DF_MAX = 50
    MaxTurns = 2
CHECK_DEADLOCK FALSE
INVARIANT CallsignShipWins

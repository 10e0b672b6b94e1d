CONSTANTS
    Tx = {"x1", "x2"}
    Aircraft = {"a1", "a2"}
    Callsign = {"a1"}
    Number = {"n1"}
    Utterance <- Utterances
    Target <- Targets
    Poison = {"x1"}
    Undecodable = {}
    InitialSky <- BothElsewhere
    Sky <- SomeSkies
    POLL_SEC = 2
    WINDOW_BEFORE = 1
    WINDOW_AFTER = 2
    RING_LEN = 5
    MAX_GAP = 2
    FETCH_TIMEOUT = 0
    HeardAt = {5}
    RestartAt = {7}
    MaxTime = 10
    MaxFailures = 1
    MaxChanges = 1
    MaxCrashes = 1
    MaxMoves = 1
SPECIFICATION Spec
CHECK_DEADLOCK FALSE
INVARIANTS
    EvidenceIsTheRecord
    StatesAreOfThatMoment
PROPERTIES
    EveryRowIsDecided

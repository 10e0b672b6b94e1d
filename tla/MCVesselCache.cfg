CONSTANTS
    Mmsi <- TwoShips
    Name = {"ALBATROS", "FORTUNA", "%JUNK"}
    Callsign = {"C1", "C2"}
    Artefact = {"%JUNK"}
    Observation <- SmallObservation
    InitialFile <- SmallFiles
    AIS_SOURCE = {"aishub", "aisstream"}
    PENDING_MAX = 1
    MaxReports = 2
    MaxSaves = 1
    MaxCrashes = 1
SPECIFICATION Spec
CHECK_DEADLOCK FALSE
INVARIANTS
    OwnEntry
    FoundUnderOwnName
    BestShown
    NoGhosts
    SurvivesRestart

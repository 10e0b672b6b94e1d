CONSTANTS
    dot = dot
    comma = comma
    Channel <- BothChannels
    CONVERSATION_GAP_S = 1
    CONVERSATION_MAX_CHUNKS = 2
    CONVERSATIONS_KEEP = 2
    MaxHeard = 3
    MaxTime = 4
    MaxCrashes = 1
    MaxExchanges = 2
SPECIFICATION Spec
SYMMETRY ChannelSymmetry
INVARIANTS
    OneHome
    InOneRow
    NoEarlyClose
    ArchiveCovers
    RollingFileCurrent
PROPERTIES
    ImplementsLedger

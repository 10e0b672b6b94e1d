CONSTANTS
    dot = dot
    comma = comma
    Channel <- OneChannel
    CONVERSATION_GAP_S = 1
    CONVERSATION_MAX_CHUNKS = 2
    CONVERSATIONS_KEEP = 2
    MaxHeard = 3
    MaxTime = 4
    MaxCrashes = 0
    MaxExchanges = 2
SPECIFICATION Spec
INVARIANTS
    EveryReplyAccountsForAll

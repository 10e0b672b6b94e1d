CONSTANTS
    OnsetConfirmFrames = 1
    OnsetWindowFrames = 1
    PreRollFrames = 1
    SilenceFrames <- OneSilence
    TrailingKeepFrames = 0
    MaxSpeechFrames = 2
    MinSpeechFrames = 1
    MinActivePercent = 20
    MaxFrames = 6
    QueueCapacity = 2
    SendQueueCapacity = 1
    FixedWindowFrames = 2
    MaxToggles = 2
SPECIFICATION PipeFairSpec
CHECK_DEADLOCK FALSE
INVARIANTS
    InOrder
    LossesCounted
    NoMixedModes
PROPERTIES
    NeverStalls

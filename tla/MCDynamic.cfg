SPECIFICATION FairSpec
CONSTANTS
    Preset = 1
    Recordings = 2
    QueueRoom = 1
    EarlyMax = 2
    Scenarios <- AllScenarios
INVARIANTS
    TypeOK
    InOrder
    MovedOnce
    MicrophoneKept
PROPERTIES
    NoneLeftBehind
    MicrophoneReleased
    HeldDataArrives
CHECK_DEADLOCK FALSE

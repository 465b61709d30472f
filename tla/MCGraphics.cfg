SPECIFICATION FairSpec
CONSTANTS
    Rows = 2
    MotionNum = 1
    MotionDen = 2
    MinInFlight = 2
    MaxInFlight = 3
    MaxBytes = 3
    Scenarios <- AllScenarios
INVARIANTS TypeOK NothingStale RefChainKept Decodable
PROPERTIES Painted
CHECK_DEADLOCK FALSE

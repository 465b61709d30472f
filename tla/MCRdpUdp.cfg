CONSTANTS
    Wire = 16
    FirstData = 12
    FirstChannel = 14
    BufferMultiple = 1
    VectorMax = 2
    RunMax = 63
    Scenarios <- AllScenarios
SPECIFICATION FairSpec
INVARIANTS TypeOK NothingForgotten HolesAdvertised
PROPERTIES IsFifo Settles
CHECK_DEADLOCK FALSE

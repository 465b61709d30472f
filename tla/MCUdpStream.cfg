CONSTANTS
    ReadMark = 1
    RecvWindow = 1
    MaxWrite = 2
    WriteMark = 1
    SendRoom = 2
    Pieces = 2
    MaxSocket = 1
    MaxIn = 2
    MaxOut = 2
SPECIFICATION FairSpec
INVARIANTS NoLostWakeup OrderKept
PROPERTIES CloseSettles WritesGoOut
CHECK_DEADLOCK FALSE

CONSTANTS
    u1 = u1  u2 = u2
    None = None  Logon = Logon  Ambient = Ambient
    Users = {u1, u2}
    MaxLost = 1
    MaxFaults = 1
    LogonMayDie = TRUE
SPECIFICATION Spec
SYMMETRY Symmetry
INVARIANTS OnlyOwnScreens  SentIsLocked
CHECK_DEADLOCK FALSE

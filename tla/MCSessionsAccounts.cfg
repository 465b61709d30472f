SPECIFICATION Spec
CONSTANTS
    l1 = l1
    l2 = l2
    l3 = l3
    alice = alice
    bob = bob
    NoLogin = NoLogin
    Logins <- ThreeLogins
    Users = {alice, bob}
    UserOf <- TwoAccounts
    BackendOf <- ThreeX11
    First = 1
    Last = 1
    MaxFaults = 1
    MaxRestarts = 0
INVARIANTS
    DisplayExclusive
    OwnDesktopOnly ClaimsTrackWork
SYMMETRY Symmetry
CHECK_DEADLOCK FALSE

SPECIFICATION Spec
CONSTANTS
    l1 = l1
    l2 = l2
    l3 = l3
    alice = alice
    bob = bob
    NoLogin = NoLogin
    Logins <- TwoLogins
    Users = {alice}
    UserOf <- OneAccount
    BackendOf <- TwoX11
    First = 1
    Last = 2
    MaxFaults = 0
    MaxRestarts = 0
INVARIANTS
    OneDesktopPerAccount
CHECK_DEADLOCK FALSE

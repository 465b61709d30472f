SPECIFICATION FairSpec
CONSTANTS
    l1 = l1
    l2 = l2
    l3 = l3
    alice = alice
    bob = bob
    NoLogin = NoLogin
    Logins <- TwoLogins
    Users = {alice}
    UserOf <- OneAccount
    BackendOf <- MixedKinds
    First = 1
    Last = 1
    MaxFaults = 1
    MaxRestarts = 1
INVARIANTS RestartLocks OneStartPerAccount
PROPERTIES
    LoginSettles
CHECK_DEADLOCK FALSE

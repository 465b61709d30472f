SPECIFICATION FairSpec
CONSTANTS
    Configs <- MCConfigs
    MinDim = 2
    MaxDim = 8
    Resizes <- MCResizes
    MaxSends = 2
INVARIANTS
    Agreement
    OnlyTheRightOnes
    ClientHeard
    TunnelAgreed
PROPERTY
    Settles
CHECK_DEADLOCK FALSE

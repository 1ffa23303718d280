SPECIFICATION FairSpec
CONSTANTS
    Receivers = {r1, r2}
    MaxSends = 3
    MaxWakers = 5
INVARIANTS
    TypeOK
    NoWakerLeaks
    NoWakeupLost
    ChangeIsReal
PROPERTIES
    CellSpec
CHECK_DEADLOCK FALSE

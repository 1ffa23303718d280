SPECIFICATION FairSpec
CONSTANTS
    MaxMissed = 5
    MaxAttempts = 3
INVARIANTS
    TypeOK
    TasksOwned
    MissedAgrees
PROPERTIES
    NotAnnouncedTwice
    ExhaustedIsFinal
    TroubleEnds
CHECK_DEADLOCK FALSE

SPECIFICATION FairSpec
CONSTANTS
    MaxMissed = 5
    MaxAttempts = 3
PROPERTIES
    SilenceNoticed
CHECK_DEADLOCK FALSE

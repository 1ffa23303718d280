SPECIFICATION Spec
CONSTANTS
    MaxMissed = 5
    MaxAttempts = 3
INVARIANTS
    StateIsThere
CHECK_DEADLOCK FALSE

SPECIFICATION Spec
CONSTANTS
    Replicas = {0, 1, 2}
    BaseLength = 1
    Grouping = {FALSE}
    MaxInsert = 1
    MaxEdits = 3
    MaxUndos = 0
    MaxPushes = 0
    MaxBatch = 1
    MaxWaits = 0
INVARIANTS
    Convergence
    SameOrder
    NothingReadyDeferred
    AnchorsNeverCross
CHECK_DEADLOCK FALSE

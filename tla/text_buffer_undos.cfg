SPECIFICATION Spec
CONSTANTS
    Replicas = {0, 1}
    BaseLength = 1
    Grouping = {FALSE, TRUE}
    MaxInsert = 1
    MaxEdits = 2
    MaxUndos = 3
    MaxPushes = 1
    MaxBatch = 1
    MaxWaits = 0
INVARIANTS
    TypeOK
    VersionIsExact
    ErasedIsExact
    VisibleIsExact
    OldTextIsExact
    PatchIsExact
CHECK_DEADLOCK FALSE

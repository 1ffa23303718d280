SPECIFICATION FairSpec
CONSTANTS
    Replicas = {0, 1, 2}
    BaseLength = 0
    Grouping = {FALSE}
    MaxInsert = 1
    MaxEdits = 2
    MaxUndos = 1
    MaxPushes = 0
    MaxBatch = 2
    MaxWaits = 1
INVARIANT
    WaitersServed
PROPERTIES
    CausalDelivery
    EventuallyTheSame
CHECK_DEADLOCK FALSE

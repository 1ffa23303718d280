SPECIFICATION FairSpec
CONSTANTS
    Requests = {q1}
    Streams = {s1}
    StreamLength = 1
    MaxMessages = 1
    BufferSize = 1
INVARIANTS
    TypeOK
    OutcomesAreTrue
    NoStreamLeaks
PROPERTIES
    OrderIsKept
    EverythingEnds
CHECK_DEADLOCK FALSE

SPECIFICATION Spec
CONSTANTS
    MaxSends <- NoneEach
    MaxRequests <- NoneEach
    MaxStreams = 1
    StreamLength = 2
    MaxDisconnects = 1
    Threads = {}
    ThreadEnd <- AllOnServer
INVARIANTS
    StreamsComplete
CHECK_DEADLOCK FALSE

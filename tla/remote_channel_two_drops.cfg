SPECIFICATION Spec
CONSTANTS
    MaxSends <- TwoFromServer
    MaxRequests <- NoneEach
    MaxStreams = 0
    StreamLength = 0
    MaxDisconnects = 2
    Threads = {}
    ThreadEnd <- AllOnServer
INVARIANTS
    NoMessageLost
CHECK_DEADLOCK FALSE

SPECIFICATION FairSpec
CONSTANTS
    MaxSends <- OneFromServer
    MaxRequests <- NoneEach
    MaxStreams = 1
    StreamLength = 1
    MaxDisconnects = 1
    Threads = {t1}
    ThreadEnd <- AllOnServer
INVARIANTS
    TypeOK
    ForegroundNotLost
    AckIsEarned
    AnswersMatchRequests
PROPERTIES
    EverythingArrives
CHECK_DEADLOCK FALSE

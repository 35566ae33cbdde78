\* The whole lifecycle on every transport.
SPECIFICATION FairSpec
CONSTANTS
    Transports = {"stream", "ws", "mem"}
    Conns = {1, 2}
    Clients = {"k"}
    Limits = {1, 2}
    MaxHandlers = 1
    QueueCap = 1
    MaxRequests = 2
    NoConn = NoConn
    NoClient = NoClient
CHECK_DEADLOCK FALSE
INVARIANTS
    LimitHolds
    CloseComplete
PROPERTIES
    CloseDrains
    ReadLoopResumes
    ConnReclaimed
    ClosedSessionStops

SPECIFICATION ReconnectSpec
CONSTANTS
    r1 = r1
    Reqs <- MCReqs
    MaxAttempts = 1
    MaxConns = 2
INVARIANTS
    DropDisposed
    SingleFlight
PROPERTY
    FlagReleased
CHECK_DEADLOCK FALSE

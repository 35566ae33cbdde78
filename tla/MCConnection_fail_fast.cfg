SPECIFICATION FairSpec
CONSTANTS
    r1 = r1
    Reqs <- MCReqs
    MaxAttempts = 0
    MaxConns = 2
PROPERTY
    DropFailsFast
CHECK_DEADLOCK FALSE

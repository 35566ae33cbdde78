SPECIFICATION FairSpec
CONSTANTS
    c1 = c1
    c2 = c2
    Calls <- MCCalls
    Burst = 1
    Threshold = 1
    MaxProbes = 2
    MaxAttempts = 2
    MaxConcurrent = 1
    MaxRounds = 2
INVARIANTS
    HalfOpenCovered
    SlotsExact
PROPERTIES
    HalfOpenResolves
    CallReturns
CHECK_DEADLOCK FALSE

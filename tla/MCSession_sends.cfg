SPECIFICATION Spec
CONSTANTS
    c1 = c1
    c2 = c2
    Callers = {c1}
    ChainLen = 3
    ResyncWindow = 2
    MaxConns = 3
INVARIANT SendsResume
CHECK_DEADLOCK FALSE

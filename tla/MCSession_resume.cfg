SPECIFICATION Spec
CONSTANTS
    c1 = c1
    c2 = c2
    Callers = {c1, c2}
    ChainLen = 3
    ResyncWindow = 2
    MaxConns = 4
INVARIANTS
    LinkPresentedOnce
    LastIsNewest
    RefusedIsStale
PROPERTY NewestAttaches
SYMMETRY Symmetry
CHECK_DEADLOCK FALSE

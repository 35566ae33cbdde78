SPECIFICATION FairSpec
CONSTANTS
    Reqs = {1}
    Kinds <- MCKinds
    Window = 1
    MaxValues <- MCMaxValues
INVARIANTS
    InOrder
PROPERTIES
    Freed
    Completes
    CloseReturns
CHECK_DEADLOCK FALSE

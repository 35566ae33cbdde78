SPECIFICATION FairSpec
CONSTANTS
    Reqs = {1}
    Kinds <- MCUnary
    Window = 1
    MaxValues <- MCMaxValues
PROPERTY DropNoticed
CHECK_DEADLOCK FALSE

SPECIFICATION ReplacedSpec
CONSTANTS
    Kinds = {"put"}
    Window <- MCWideWindow
    ChanCap <- MCChanCap
    MaxValues <- MCTwoValues
    MaxNulls <- MCNoNulls
    Ends = {}
    MaxDrops = 1
INVARIANT Lossless
CHECK_DEADLOCK FALSE

SPECIFICATION FairSpec
CONSTANTS
    Kinds = {"call", "get", "put", "chat"}
    Window <- MCWindow
    ChanCap <- MCChanCap
    MaxValues <- MCMaxValues
    MaxNulls <- MCMaxNulls
    Ends = {"ctx", "server", "client"}
    MaxDrops = 0
INVARIANTS
    CreditedValueFits
    NoGap
    CompleteAtClose
    FramesFindRequest
PROPERTIES
    Completes
    GiveUpRetires
    CloseUnblocks
CHECK_DEADLOCK FALSE

SPECIFICATION FairSpec
CONSTANTS
    Kinds = {"get", "put", "chat"}
    Window <- MCWindow
    ChanCap <- MCChanCap
    MaxValues <- MCMaxValues
    MaxNulls <- MCMaxNulls
    Cancels <- MCCancels
INVARIANTS
    TypeOK
    CreditedValueFits
    NoGap
    CompleteAtClose
    NoEarlyFrame
    CreditConserved
PROPERTIES
    Implements
    Completes
    ContextCancelTearsDown
CHECK_DEADLOCK FALSE

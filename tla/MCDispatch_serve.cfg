SPECIFICATION FairSpec
CONSTANTS
    call = call
    put = put
    get = get
    NoReq = NoReq
    Reqs = {call, put, get}
    Kind <- MCKind
    MaxRequests = 2
    MaxStreams = 1
    Scalars = {"BOOL", "STRING"}
    Names = {"a", "b"}
    MaxLen = 2
INVARIANTS
    HandlersBounded
    StreamsCounted
PROPERTY EveryRequestAnswered
CHECK_DEADLOCK FALSE

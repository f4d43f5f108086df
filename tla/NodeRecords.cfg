SPECIFICATION FairSpec
CONSTANTS
    Hosts <- OneHost
    Keep = 1
    Requests <- TwoRequests
    MaxMessages = 2
    MaxFailures = 2
INVARIANT IInv
INVARIANT NothingForgotten
INVARIANT NothingMadeUp
PROPERTY RecordReaches
PROPERTY PageCatchesUp
CHECK_DEADLOCK FALSE

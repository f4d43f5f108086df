SPECIFICATION FairSpec
CONSTANTS
    Streams <- Registrations
    Subjects <- Hosts
    Limited <- Registrations
    KeepMessages = 1
    MaxMessages = 2
    Limit <- Rough
INVARIANT IInv
INVARIANT NothingElseLost
INVARIANT SetUpInOrder
PROPERTY KeepsPromise
PROPERTY EventuallyDelivered
PROPERTY StreamsAppear
CHECK_DEADLOCK FALSE

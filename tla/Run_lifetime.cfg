SPECIFICATION FairSpec
CONSTANTS
    Streams <- OneStream
    Roles <- Both
    SlowSets <- NothingOrAll
    Fails <- Anything
    DefaultShutdownGrace = 2
    MaxSignals = 2
INVARIANT IInv
INVARIANT WaitIsExact
INVARIANT SignalHeeded
PROPERTY KeepsPromise
PROPERTY WaitGroupNotReused
PROPERTY StopsWhenAsked
PROPERTY FailedServerEnds
CHECK_DEADLOCK FALSE

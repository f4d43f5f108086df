SPECIFICATION FairSpec
CONSTANTS
    Nodes <- One
    Leaders <- AnyLeader
    MaxSpecs = 2
    Limit <- Rough
INVARIANT IInv
PROPERTY NeverGoesBack
PROPERTY ManagesFreshSpec
PROPERTY KeepsPromise
PROPERTY Converges
PROPERTY ManagedOffline
CHECK_DEADLOCK FALSE

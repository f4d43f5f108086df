SPECIFICATION Spec
CONSTANTS
    None = None
    Torn = Torn
    NoKey = NoKey
    Roles <- Both
    InitConfigs <- EnrolledConfigs
    CfgFirst = TRUE
    Exclusive = TRUE
    Orphans = FALSE
    Privileged = FALSE
    Limit <- LossyResets
INVARIANT IInv
INVARIANT CredsMatch
INVARIANT EnrolledKey
INVARIANT ResetIsFactory
INVARIANT IdentityPair
PROPERTY KeepsCustody
CHECK_DEADLOCK FALSE

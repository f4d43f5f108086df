SPECIFICATION FairSpec
CONSTANTS
    None = None
    Torn = Torn
    NoKey = NoKey
    Roles <- Both
    InitConfigs <- AllConfigs
    CfgFirst = FALSE
    Exclusive = TRUE
    Orphans = FALSE
    Privileged = TRUE
    Limit <- LossyFaults
INVARIANT IdentityPair
PROPERTY NeverStranded
CHECK_DEADLOCK FALSE

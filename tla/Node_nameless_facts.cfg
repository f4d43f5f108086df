SPECIFICATION Spec
CONSTANTS
    None = None
    Torn = Torn
    NoKey = NoKey
    Roles <- Followers
    InitConfigs <- NoConfigs
    CfgFirst = TRUE
    Exclusive = TRUE
    Orphans = FALSE
    Privileged = TRUE
    Limit <- Quiet
INVARIANT FactsNameNode
CHECK_DEADLOCK FALSE

SPECIFICATION Spec
CONSTANTS
    None = None
    Torn = Torn
    NoKey = NoKey
    Roles <- Followers
    InitConfigs <- NoConfigs
    CfgFirst = TRUE
    Exclusive = TRUE
    Orphans = FALSE
    Privileged = TRUE
    Limit <- OneStuck
INVARIANT ResetIsFactory
CHECK_DEADLOCK FALSE

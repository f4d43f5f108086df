SPECIFICATION FairSpec
CONSTANTS
    None = None
    Torn = Torn
    NoKey = NoKey
    Roles <- Leaders
    InitConfigs <- NoConfigs
    CfgFirst = TRUE
    Exclusive = TRUE
    Orphans = FALSE
    Privileged = TRUE
    Limit <- OneCrash
PROPERTY EventuallyServing
CHECK_DEADLOCK FALSE

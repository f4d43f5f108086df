SPECIFICATION FairSpec
CONSTANTS
    None = None
    Torn = Torn
    NoKey = NoKey
    Roles <- Followers
    InitConfigs <- UnparsableConfigs
    CfgFirst = TRUE
    Exclusive = TRUE
    Orphans = FALSE
    Privileged = TRUE
    Limit <- Quiet
PROPERTY EventuallyServing
CHECK_DEADLOCK FALSE

SPECIFICATION FairSpec
CONSTANTS
    None = None
    Torn = Torn
    NoKey = NoKey
    Roles <- Followers
    InitConfigs <- NoConfigs
    CfgFirst = TRUE
    Exclusive = FALSE
    Orphans = TRUE
    Privileged = FALSE
    Limit <- Hostile
INVARIANT TypeOK
PROPERTY NKeyStable
PROPERTY EventuallyServing

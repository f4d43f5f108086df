SPECIFICATION FairSpec
CONSTANTS
    Streams <- Registrations
    Subjects <- Hosts
    Limited <- Registrations
    KeepMessages = 2
    MaxMessages = 1
    Limit <- Offline
PROPERTY SpoolsBack
CHECK_DEADLOCK FALSE

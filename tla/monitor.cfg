CONSTANTS
    USERNAMESIZE = 3
    PASSWORDSIZE = 3
    InitialUsers <- TwoUsers
    Lines <- Typed
    Flags = {"none", "-BA"}
    Strangers <- OthersDatagrams
    MAX_RETRY = 2
    MaxAsks = 3
SPECIFICATION FairSpec
CHECK_DEADLOCK FALSE
INVARIANTS
    TypeOK
    RetriesAreTimeouts
    OwnAnswer
    CleanSession
    RepeatsHarmless
PROPERTIES
    RegistrySpec
    RequestEnds

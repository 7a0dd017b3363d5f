CONSTANTS
    USERNAMESIZE = 3
    PASSWORDSIZE = 3
    InitialUsers <- TwoUsers
    Lines <- TypedAmiss
    Flags = {"-BA", "-MA", "-WV"}
    Strangers <- OthersDatagrams
    MAX_RETRY = 2
    MaxAsks = 2
SPECIFICATION Spec
CHECK_DEADLOCK FALSE
INVARIANT FlagsAsDocumented

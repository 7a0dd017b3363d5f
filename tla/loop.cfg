CONSTANTS
    MAX_CONNECTIONS = 2
    FD_SETSIZE = 7
    MaxConnects = 3
SPECIFICATION FairSpec
CHECK_DEADLOCK FALSE
INVARIANTS
    TypeOK
    NeverBlocks
    SetsFit
PROPERTIES
    Heard
    Stops

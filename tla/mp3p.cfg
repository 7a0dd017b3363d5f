CONSTANTS
    USERNAMESIZE = 3
    PASSWORDSIZE = 3
    InitialUsers <- OneUser
    Datagrams <- AllDatagrams
SPECIFICATION Spec
CHECK_DEADLOCK FALSE
PROPERTIES
    FaultsInOrder
    OnlyAcceptedCommands

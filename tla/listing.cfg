CONSTANTS
    alice = alice
    bob = bob
    right = right
    wrong = wrong
    m1 = m1
    m2 = m2
    m3 = m3
    NULL = NULL
    MAX_CONNECTIONS = 1
    Users <- OneUser
    Passwords <- OnePassword
    Mail <- ThreeMails
    InitialUsers <- OneUser
    Administered <- OneUser
    InitialMail <- AliceHasAll
    Inputs <- MailInputs
    BUFFERSIZE = 4
    MAX_SINGLE_LINE_RESPONSE = 2
    LINE = 1
    TERMINATOR = 2
    SIZE = 5
    MaxAccepts = 2
SPECIFICATION Spec
CHECK_DEADLOCK FALSE
PROPERTIES
    ListingExact

CONSTANTS
    alice = alice
    bob = bob
    right = right
    wrong = wrong
    m1 = m1
    m2 = m2
    m3 = m3
    NULL = NULL
    MAX_CONNECTIONS = 2
    Users <- OneUser
    Passwords <- OnePassword
    Mail <- TwoMails
    InitialUsers <- OneUser
    Administered = {}
    InitialMail <- AliceHasAll
    Inputs <- CommandInputs
    BUFFERSIZE = 4
    MAX_SINGLE_LINE_RESPONSE = 2
    LINE = 2
    TERMINATOR = 1
    SIZE = 4
    MaxAccepts = 2
SPECIFICATION FairSpec
CHECK_DEADLOCK FALSE
INVARIANTS
    OutputFits
    ReadingMeansIdle
    SessionCoherent
    MarkCount
PROPERTIES
    EveryCommandAnswered
    
    MaildropSpec
    Served

CONSTANTS
    alice = alice
    bob = bob
    right = right
    wrong = wrong
    m1 = m1
    m2 = m2
    m3 = m3
    NULL = NULL
    MAX_CONNECTIONS = 2
    Users <- TwoUsers
    Passwords <- OnePassword
    Mail <- OneMail
    InitialUsers <- TwoUsers
    Administered = {}
    InitialMail <- AliceHasAll
    Inputs <- LoginInputs
    BUFFERSIZE = 4
    MAX_SINGLE_LINE_RESPONSE = 2
    LINE = 1
    TERMINATOR = 2
    SIZE = 5
    MaxAccepts = 3
SPECIFICATION Spec
CHECK_DEADLOCK FALSE
INVARIANTS
    OneSession

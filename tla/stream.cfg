CONSTANTS
    BUFFERSIZE = 5
    Rooms = {2, 3, 5}
    Mails <- AllMails
    MaxOpens = 2
SPECIFICATION FairSpec
CHECK_DEADLOCK FALSE
INVARIANTS
    TypeOK
    PrefixSent
    WholeSent
    NoEarlyEnd
PROPERTIES
    Retrieved

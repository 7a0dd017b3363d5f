CONSTANTS
    MAXCOMMANDSIZE = 2
    MAXARGSIZE = 1
    MAXCOMMANDLENGTH = 8
    KnownLengths = {2}
    Lines <- StrayLines
    Stale <- Rests
    MaxLines = 2
    Beyond = 2
SPECIFICATION Spec
CHECK_DEADLOCK FALSE
INVARIANT InputOnly

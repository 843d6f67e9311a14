SPECIFICATION FairSpec
CONSTANTS
    Senders = {s1, s2}
    Interrupts = TRUE
    MaxParserErrors = 2
    MaxRequests = 2
    MaxNotices = 3
CHECK_DEADLOCK FALSE
INVARIANTS
    OutputConserved
PROPERTY
    NoticesWritten

SPECIFICATION FairSpec
CONSTANTS
    Senders = {s1}
    Interrupts = FALSE
    MaxParserErrors = 2
    MaxRequests = 2
    MaxNotices = 1
CHECK_DEADLOCK FALSE
PROPERTY StopReturns

SPECIFICATION FairSpec
CONSTANTS
    Callers = {c1, c2}
    Slow = TRUE
    Refuses = TRUE
    MaxRequests = 3
    MaxNotices = 1
    MaxConnects = 2
CHECK_DEADLOCK FALSE
INVARIANTS
    LagBounded
PROPERTIES
    CallsReturn
    DisconnectReturns

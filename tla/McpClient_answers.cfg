SPECIFICATION Spec
CONSTANTS
    Callers = {c1}
    Slow = TRUE
    Refuses = FALSE
    MaxRequests = 2
    MaxNotices = 1
    MaxConnects = 1
CHECK_DEADLOCK FALSE
INVARIANTS
    OwnAnswer
    QueueHoldsResponses
    HostSurvives

SPECIFICATION Spec
CONSTANTS
    p1 = p1
    p2 = p2
    r1 = r1
    r2 = r2
    absent = absent
    Absent = absent
    Library <- MCLibrary
    Paths = {p1}
    Contents = {"a1", "a2"}
    Kinds = {"tools"}
    Requests = {r1}
    Retain = 2
    RemovalMayFail = FALSE
    MaxStaging = 2
INVARIANT FailedCandidatesCleaned

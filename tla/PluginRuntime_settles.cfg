SPECIFICATION FairSpec
CONSTANTS
    p1 = p1
    p2 = p2
    r1 = r1
    r2 = r2
    absent = absent
    Absent = absent
    Library <- MCLibrary
    Paths = {p1}
    Contents = {"a1", "a2", "torn"}
    Kinds = {"tools"}
    Requests = {r1}
    Retain = 1
    RemovalMayFail = FALSE
    MaxStaging = 4
PROPERTY ListingsSettle

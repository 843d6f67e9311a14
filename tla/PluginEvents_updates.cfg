SPECIFICATION FairSpec
CONSTANTS
    p1 = p1
    p2 = p2
    absent = absent
    rescan = rescan
    Absent = absent
    Rescan = rescan
    Library <- MCLibrary
    Offers <- MCOffers
    Paths = {p1, p2}
    Nested = {p2}
    Contents = {"a1", "a2", "b1", "torn"}
    Kinds = {"tools"}
    Debounce = 1
    Grace = 2
    Capacity = 1
    ScanMayFail = TRUE
    EditsBeforeWatch = TRUE
    Renames = TRUE
    MaxEdits = 3
    MaxLag = 1
CHECK_DEADLOCK FALSE
INVARIANTS
    UpToDateWhenQuiet
PROPERTIES
    EditsConverge
    StopReturns

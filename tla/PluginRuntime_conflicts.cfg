SPECIFICATION Spec
CONSTANTS
    p1 = p1
    p2 = p2
    r1 = r1
    r2 = r2
    absent = absent
    Absent = absent
    Library <- MCLibrary
    Paths = {p1, p2}
    Contents = {"a1", "twin", "clash"}
    Kinds = {"tools"}
    Requests = {r1}
    Retain = 1
    RemovalMayFail = TRUE
    MaxStaging = 2
INVARIANTS
    TypeOK
    RegistriesCoherent
    ActiveHashesTrue
    OneGenerationOneCatalog
    DownServesNothing
PROPERTY ImplementsHotRegistry

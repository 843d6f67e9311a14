SPECIFICATION Spec
CONSTANTS
    t1 = t1
    t2 = t2
    c1 = c1
    none = none
    Tools = {t1, t2}
    Catalogs <- MCCatalogs
    Callers = {c1}
    TopK = 1
    CacheMax = 2
    NoTool = none
INVARIANTS
    TypeOK

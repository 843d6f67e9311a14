SPECIFICATION Spec
CONSTANTS
    p = p
    a = a
    b = b
    t = t
    Place = p
    Candidates = {a, b}
    Trip = t
    Lists <- MCLists
    Large = {b}
    Configs <- MCConfigs
    MaxAttempts = 2
    Burst = 1
    MaxEntries = 2
    CacheTtl = 1
    Failures = {"throttled", "refused", "failing"}
INVARIANTS
    TypeOK
    MetaTrue

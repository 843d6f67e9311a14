SPECIFICATION Spec
CONSTANTS
    Nobody = nobody
    Clients = {k1, k2}
    Workers = {w1, w2}
    Interrupts = TRUE
    MaxPosts = 1
    MaxSaid = 1
CHECK_DEADLOCK FALSE
INVARIANTS
    TypeOK

SPECIFICATION Spec
CONSTANTS
    m1 = m1
    m2 = m2
    w1 = w1
    w2 = w2
    i1 = i1
    i2 = i2
    i3 = i3
    i4 = i4
    i5 = i5
    nobody = nobody
    Nobody = nobody
    Publishers = {m1, m2}
    Workers = {w1, w2}
    Ids = {i1, i2, i3, i4, i5}
    MaxResults = 2
    MaxTotalBytes = 3
    MaxResultBytes = 2
    DefaultTtl = 1
    MaxTtl = 2
    Posts <- MCPosts
    MaxKnown = 2
INVARIANTS
    TypeOK

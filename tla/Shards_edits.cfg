SPECIFICATION EditsSpec
CONSTANTS
    a = a  b = b  c = c  k = k
    e1 = e1  e2 = e2
    r1 = r1  r2 = r2
    x = x  y = y
    Shards = {a, b, c}
    Editors = {e1, e2}
    Values <- MCValues
    NoShard = NoShard  NoTime = NoTime  NoPolicy = NoPolicy  NoEdit = NoEdit
    MaxTime = 2
    MaxEvents = 3
    MaxChain = 2
    Corpora = {x, y}
    Iris = {a, b, c, k}
    Kernel = {k}
    EdgeFields <- MCEdgeFields
    Readers = {r1, r2}
    NoCall = NoCall
    CacheSize = 1
    Inodes = {1, 2}
    MaxOps = 2
    MaxRestores = 1
PROPERTY EditsAppendOnly
CHECK_DEADLOCK FALSE

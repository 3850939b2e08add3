SPECIFICATION MCSpec
CONSTANTS
    c1 = c1  c2 = c2
    t1 = t1  t2 = t2  t3 = t3
    s1 = s1  s2 = s2
    x = x  y = y
    Contexts = {c1, c2}
    Tasks = {t1, t2, t3}
    Home <- Apart
    Subjects = {s1, s2}
    Values = {x, y}
    Requests <- MCRequests
    Absent = Absent
    None = None
    ReplayBatch = 1
    BulkBatch = 2
    BulkMin = 2
    MaxRows = 3
    Maintenance = TRUE
    w1 = w1  w2 = w2  w3 = w3
    k1 = k1  k2 = k2  k3 = k3  k4 = k4
    u1 = u1  u2 = u2
    a = a  b = b  c = c
    Nothing = Nothing
    Writers = {w1, w2, w3}
    Commits = {k1, k2, k3, k4}
    WriterOf <- OneWriterEach
    Suites = {u1, u2}
    SuiteOf <- Suited
    DefaultSuite = u1
    Guarded = {w1}
    Shards = {a, b, c}
    Batches <- AllBatches
    MaxFailing = 1
    FocusLimit = 2
    MaxCommitted = 3
SYMMETRY Symmetry
INVARIANTS
    NeverPastJournal
    MarkerExact
PROPERTIES
    ImplementsLog
    GuardHolds

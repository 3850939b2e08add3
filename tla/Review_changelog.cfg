SPECIFICATION MCSpec
CONSTANTS
    u1 = u1
    u2 = u2
    p1 = p1
    p2 = p2
    n1 = n1
    t1 = t1
    t2 = t2
    t3 = t3
    a1 = a1
    c1 = c1
    NotYet = NotYet
    UnitIds = {u1, u2}
    Runs <- MCRuns
    Confident = {u1, u2}
    Verdicts = {"rejected"}
    People = {p1, p2}
    ReviewNonces = {n1}
    TaskIds = {t1, t2, t3}
    FolioTasks = {t1, t2}
    Served = {a1}
    Commands = {c1}
    MaxIris = 3
    MaxEdits = 4
INVARIANT ChangelogIsHonest
CHECK_DEADLOCK FALSE

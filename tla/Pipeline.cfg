SPECIFICATION MCSpec
CONSTANTS
    None = None
    NoIri = NoIri
    f1 = f1
    f2 = f2
    r1 = r1
    r2 = r2
    c1 = c1
    c2 = c2
    l1 = l1
    l2 = l2
    l3 = l3
    Files = {f1, f2}
    Runs = {r1, r2}
    Concepts = {c1, c2}
    Labels = {l1, l2, l3}
    Places = {c2}
    LabelOf <- MCLabelOf
    Resolves <- MCResolves
    Blocked <- MCBlocked
    Contents <- AllTexts
    Answers <- MCAnswers
    Modes = {TRUE, FALSE}
    FailPct = 5
    MaxJobs = 2
    MaxAttempts = 2
    m1 = m1  m2 = m2
    p1 = p1  p2 = p2
    NoRun = NoRun
    MeteredRuns = {m1, m2}
    PortCalls = {p1, p2}
    Bounds = {1, 2}
    Caps = {2, 3}
    MaxRequests = 2
    Overlapping = FALSE
SYMMETRY AlikeCalls
INVARIANTS SavedIsSound NothingRedone TagsEarned ChargedAtMost WithinCap
CHECK_DEADLOCK FALSE

SPECIFICATION MCSpec
CONSTANTS
    c1 = c1
    c2 = c2
    Clients <- MCClients
    Proposals <- MCProposals
    Stem <- MCStem
    Collects <- MCCollects
    Lexicons <- MCLexicons
    Judgings <- MCJudgings
    Batches <- MCBatches
    Legacy <- MCLegacy
    SigningSkew = 1
    MaxTime = 2
    MaxRows = 5
    None = None
    RowIds = {1, 2, 3}
    Labels = {"a"}
    r1 = r1
    r2 = r2
    Reviewers = {r1, r2}
    n1 = n1
    Nonces = {n1}
INVARIANTS
    EveryRowDecides
PROPERTY VerdictsSurvive
CONSTRAINT RowBound

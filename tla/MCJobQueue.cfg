SPECIFICATION Spec
CONSTANTS
    w1 = w1
    w2 = w2
    c1 = c1
    c2 = c2
    None = None
    Jobs <- MCJobs
    Tokens <- MCTokens
    Owners <- MCOwners
    Corpora <- MCCorpora
    MaxAttempts = 2
    LeaseSeconds = 0
    RetryBackoff = 2
    BackoffCap = 1
    WorkerTtl = 0
    PausedTtl = 0
SYMMETRY Symmetry
INVARIANTS
    TypeOK
    LeaseIntegrity
    AttemptBudget
    NoStrandedJob
PROPERTIES
    Fenced
    CancelSticks
    ImplementsLedger

SPECIFICATION MCSpec
CONSTANTS
    w1 = w1
    w2 = w2
    c1 = c1
    v1 = v1
    v2 = v2
    None = None
    Jobs <- OneJob
    Tokens <- TwoTokens
    Owners <- Both
    ApiOwners <- Both
    Corpora <- OneCorpus
    MaxAttempts = 2
    LeaseSeconds = 0
    RetryBackoff = 2
    BackoffCap = 1
    WorkerTtl = 0
    PausedTtl = 0
    ViewCorpora = {v1, v2}
    NoFeed = NoFeed
    NoCallOut = NoCallOut
    MaxJobs = 2
    MaxStage = 1
    MaxLosses = 1
INVARIANT FollowsTheCorpusShown
PROPERTIES
    UsesQueue
    CrashedRunEnds
    EndIsShown
CHECK_DEADLOCK FALSE

SPECIFICATION MCSpec
CONSTANTS
    alice = alice  bob = bob
    c1 = c1  c2 = c2
    m1 = m1  m2 = m2
    d1 = d1  d2 = d2
    x = x  y = y
    s1 = s1
    Dids <- MCDids
    Roles = {"corpus_admin"}
    MaxPreviews = 1
    Actions = {"role_assertion", "role_revocation", "retract"}
    Commands = {c1, c2}
    None = None
    Skew = 1
    MaxTime = 1
    MaxRows = 4
    Mints = {m1, m2}
    Extractions <- MCExtractions
    Signers = {d1, d2}
    Unsigned = "unsigned"
    Templates = {"fields", "framework", "bfo"}
    FieldsCall = "fields"
    DetectCall = "framework"
    BfoCall = "bfo"
    NoMint = NoMint
    ExportCorpora = {x, y}
    ExportShards = {s1}
    Dests = {1}
    FormatChoices <- MCFormats
    Queries <- MCQueries
    Event = Event
    NoFile = NoFile
    Torn = Torn
    MaxExportRows = 3
    MaxDumps = 2
SYMMETRY Alike
INVARIANTS
    SignedOnce
    NeverLockedOut
    CommittedByPermitted
    CascadeCurrent
    EventAttestsShard
    PromptsAreWhole
    ManifestIsTrue
    CommittedIsWhole
CHECK_DEADLOCK FALSE

SPECIFICATION MCSpec
CONSTANTS
    q1 = q1  q2 = q2  q3 = q3
    k1 = k1  k2 = k2
    p1 = p1 
    i1 = i1
    Requests <- Three
    Keys <- TwoKeys
    Payloads <- OnePayload
    IdemKeys <- OneIdem
    None = None
    Restarts = TRUE
SYMMETRY Alike
INVARIANTS
    NoStrayKey
CHECK_DEADLOCK FALSE

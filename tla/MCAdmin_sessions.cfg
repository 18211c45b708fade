\* Two requests at a time from two addresses, three logins, two sessions.
SPECIFICATION Spec
CONSTANTS
    One = 2
    Capacity = 2
    Refill = 1
    MaxKeys = 1
    Slots = {q1, q2}
    IPs = {a, b}
    Sids = {s1, s2, s3}
    Rows <- TwoRows
    MaxSessions = 2
    Ttl = 1
    MaxTime = 2
    Null = Null
SYMMETRY AdminSymmetry
INVARIANTS
    TypeOK
    AllowanceKept
    AnsweredIsAudited
PROPERTY
    SessionsLast

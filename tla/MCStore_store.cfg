\* Two processes, or two flows of one, over four half days.
SPECIFICATION Spec
CONSTANTS
    Tables <- EveryTable
    Paged = {"sync_run", "webhook_log", "rejected_item", "audit_log"}
    Insts = {i1, i2}
    Keys = {k1}
    Clients = {c1, c2}
    Slugs = {mine, other}
    Retention = 2
    Limit = 1
    IdCap = 1
    Latest = 2
    Normalise = 2
    DayLength = 2
    Start = 1
    MaxNow = 3
    MaxId <- EveryMaxId
    Null = Null
SYMMETRY Symmetry
INVARIANTS
    TypeOK
    WalkSeesAll
PROPERTY
    ImplementsPort

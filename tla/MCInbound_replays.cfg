\* Replays of a signed call past the end of its signature window, and retries
\* under an idempotency key, while its row is kept and after the purge.
SPECIFICATION Spec
CONSTANTS
    Calls = {c1, c2, c3}
    Keys = {"signed", "named"}
    SignedAt <- SignedAndNamed
    Tolerance = 1
    Lead = 1
    Retention = 2
    MaxTime = 5
    Null = Null
SYMMETRY CallSymmetry
INVARIANTS
    TypeOK
    ExecutesOnce
    ReplayedWasClaimed
    DoneIsRecorded
PROPERTY
    DoneIsFinal

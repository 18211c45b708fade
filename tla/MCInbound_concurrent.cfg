\* Two retries of a failed call at the same time.
SPECIFICATION Spec
CONSTANTS
    Calls = {c1, c2, c3}
    Keys = {"signed"}
    SignedAt <- SignedAndNamed
    Tolerance = 1
    Lead = 1
    Retention = 2
    MaxTime = 5
    Null = Null
SYMMETRY CallSymmetry
INVARIANT
    ConcurrentCallsExclude

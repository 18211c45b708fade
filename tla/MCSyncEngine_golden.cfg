\* One strict per-source step, every kind of failure, two runs.
SPECIFICATION Spec
CONSTANTS
    Steps <- OneStep
    Scope <- PerSource
    Policy <- Strict
    RatioNum = 1
    RatioDen = 2
    Sources = {"a"}
    Items = {i1, i2}
    KeyOf <- AllOfA
    BatchSize = 1
    Backfill = 2
    Overlap = 1
    Skew = 1
    AdvanceOffsets <- AnyAdvance
    MaxBackoff = 2
    RejectedCap = 0
    MaxTime = 3
    MaxRuns = 2
    Null = Null
SYMMETRY ItemSymmetry
INVARIANTS
    TypeOK
    GoldenRule
    WindowNotInverted

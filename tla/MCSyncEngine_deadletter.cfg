\* A global step that tolerates some of the rejections of its pushes, then a misconfigured step;
\* recordRejects calls of one run overlap.
SPECIFICATION FairSpec
CONSTANTS
    Steps <- TwoSteps
    Scope <- GlobalThenNone
    Policy <- Lenient
    RatioNum = 1
    RatioDen = 3
    Sources = {}
    Items = {i1, i2, i3}
    KeyOf <- AllGlobal
    BatchSize = 2
    Backfill = 1
    Overlap = 0
    Skew = 0
    AdvanceOffsets <- UntilOnly
    MaxBackoff = 1
    RejectedCap = 2
    MaxTime = 1
    MaxRuns = 1
    Null = Null
INVARIANTS
    DeadLetterCap
    DeadLettersComplete
    OkRunsWithheldNothing
PROPERTY
    RunSettles

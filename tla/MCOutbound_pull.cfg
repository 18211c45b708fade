\* Pages of three rows, two workers, a token for every other tick.
SPECIFICATION Spec
CONSTANTS
    One = 2
    Capacity = 2
    Refill = 1
    MaxKeys = 1
    Limit = 2
    MaxAttempts = 3
    BaseDelay = 2
    MaxDelay = 4
    RetryAfters = {0, 2, 5}
    Poll = 1
    PageSize = 3
    MaxPages = 2
    Upstreams <- SomeUpstreams
    Null = Null
INVARIANTS
    TypeOK
    ReturnsEverything
    RetryAfterHonoured
PROPERTY
    PullEnds

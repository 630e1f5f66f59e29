SPECIFICATION BucketSpec
CONSTANTS
    w1 = w1
    w2 = w2
    Workers = {w1, w2}
    Capacity = 2
    Refill = 1
    Timeout = 1
    TTL = 2
    MaxTime = 4
INVARIANTS
    BurstIsBounded
PROPERTY AcquireEnds
CHECK_DEADLOCK FALSE

SPECIFICATION SlackFairSpec
CONSTANTS
    c1 = c1
    r1 = r1
    r2 = r2
    Channels = {c1}
    Runs = {r1, r2}
    Limit = 2
    MaxMessages <- Posts
    MaxFaults = 1
INVARIANT NothingSlips
PROPERTY CatchesUp
CHECK_DEADLOCK FALSE

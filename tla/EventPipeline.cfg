SPECIFICATION FairSpec
CONSTANTS
    a1 = a1
    a2 = a2
    s1 = s1
    bad = bad
    junk = junk
    Events <- MCEvents
    Kind <- MCKind
    Malformed = {bad}
    Unreadable = {junk}
    Log <- MCLog
    BatchSize = 2
    MaxFailures = 2
    MaxRestarts = 1
INVARIANTS
    Accounted
    DuplicatesAreBounded
PROPERTIES
    HandlerReturns
    ImplementsDelivery
CHECK_DEADLOCK FALSE

SPECIFICATION BriefSpec
CONSTANTS
    k1 = k1
    k2 = k2
    r1 = r1
    g1 = g1
    g2 = g2
    s1 = s1
    Commands = {k1, k2}
    WebProcesses = {r1}
    Generators = {g1, g2}
    Senders = {s1}
    MaxEdits = 1
    MaxVersions = 2
INVARIANTS
    FlagIsFresh
    DeliveredWasMailed
PROPERTIES
    FlagConverges
    GenerationIsIdempotent
CHECK_DEADLOCK FALSE

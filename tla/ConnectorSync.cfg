SPECIFICATION FairSpec
CONSTANTS
    d1 = d1
    d2 = d2
    Deals <- MCDeals
    Runs = {r1, r2}
    PageSize = 1
    MaxVersion <- MCMaxVersion
INVARIANTS
    TypeOK
    NoSilentLoss
PROPERTIES
    ImplementsLedger
    RegressesOnlyByOverlap
    RunEnds
CHECK_DEADLOCK FALSE

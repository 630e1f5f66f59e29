SPECIFICATION Spec
CONSTANTS
    w1 = w1
    w2 = w2
    Files = {fdoc, fimg}
    Supported = {fdoc}
    Syncs = {s1, s2}
    Workers = {w1, w2}
    MaxChanges = 3
SYMMETRY WorkerSymmetry
INVARIANTS
    TypeOK
    CursorCoversApplied
    QuietIndexIsFresh
PROPERTIES
    NoDarkReindex
CHECK_DEADLOCK FALSE

SPECIFICATION Spec
CONSTANTS
    c1 = c1
    c2 = c2
    c3 = c3
    Clients = {c1, c2, c3}
    MaxIssued = 4
SYMMETRY ClientSymmetry
INVARIANTS
    AccountIsNotLockedOut
    PairIsOfOneAnswer
CHECK_DEADLOCK FALSE

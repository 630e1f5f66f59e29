SPECIFICATION Spec
CONSTANTS
    w1 = w1
    w2 = w2
    a1 = a1
    a2 = a2
    Workers = {w1, w2}
    Admins = {a1, a2}
    Providers <- AllProviders
    MaxAccounts = 2
SYMMETRY Symmetry
INVARIANTS
    OneAccountPerSnapshot
    MetaKeepsUp
    CredentialIsComplete
    UnverifiedKeyIsShown
    OkIsAnswered
CHECK_DEADLOCK FALSE

SPECIFICATION Spec
CONSTANTS
    c1 = c1
    c2 = c2
    t1 = t1
    Providers <- AllProviders
    Tenants = {t1}
    Pks = {1}
    Callers = {c1, c2}
    Limit = 2
    MaxMinute = 1
    MaxCalls = 3
SYMMETRY Symmetry
INVARIANTS
    LimitHoldsWithoutOverlap
    CallsAreAudited
CHECK_DEADLOCK FALSE

SPECIFICATION FairBeatSpec
CONSTANTS
    t1 = t1
    t2 = t2
    w1 = w1
    Tenants = {t1, t2}
    Public = Public
    Workers = {w1}
    Jobs <- TwoJobs
    MaxQueue = 1
    MaxChanges = 3
    MaxFaults = 1
INVARIANT TenantsStayApart
PROPERTY EveryTenantIsServed
CHECK_DEADLOCK FALSE

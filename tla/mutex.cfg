CONSTANTS
    c1 = c1  c2 = c2  c3 = c3  Nobody = Nobody
    Clients <- TwoClients
    Leases = {2}
    MaxTimeout = 1
    AutoRenew = TRUE
    Offset <- FirstBehind
    Skew = 1
    MaxTime = 5
    MaxDraws = 2
SPECIFICATION FairSpec
CHECK_DEADLOCK FALSE
INVARIANTS TypeOK MutualExclusion
PROPERTIES RunningLeaseStands AcquireEnds

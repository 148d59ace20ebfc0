CONSTANTS
    w1 = w1  w2 = w2  p1 = p1  p2 = p2  p3 = p3  k1 = k1  k2 = k2
    Workers <- TwoWorkers
    ProfileIds <- TwoProfiles
    Keys <- TwoKeys
    MaxIds = 3
    MaxPuts = 3
    MaxMerges = 1
    MaxPutFailures = 1
    MaxMergeFailures = 1
    MaxCrashes = 1
    RuleBased = TRUE
SPECIFICATION Spec
SYMMETRY Symmetry
CHECK_DEADLOCK FALSE
INVARIANTS TypeOK PutsAgree NoDanglingId ObjectCountInSync
PROPERTY ObjectsMoveByMergeOnly

CONSTANTS
    w1 = w1  w2 = w2  p1 = p1  p2 = p2  p3 = p3  o1 = o1  o2 = o2
    Workers <- TwoWorkers
    ProfileIds <- TwoProfiles
    Objects <- TwoObjects
    Nobody = Nobody
    Skipped <- NoProfile
    Fallible <- PutsOnly
    MaxNames = 5
    MaxFaults = 1
    MaxTime = 2
    MaxPuts = 2
    MaxMerges = 1
    MaxUnmerges = 1
    MaxErases = 1
    MaxRebuilds = 1
    MaxOps = 4
    Matching = TRUE
    Ordered = TRUE
    Prompt = TRUE
    Apart = TRUE
SPECIFICATION Spec
SYMMETRY Symmetry
CHECK_DEADLOCK FALSE
INVARIANTS TypeOK   

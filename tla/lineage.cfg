CONSTANTS
    p1 = p1  p2 = p2  p3 = p3  p4 = p4  k1 = k1  k2 = k2
    ProfileIds <- FourProfiles
    Facts <- FiveFacts
    MaxIds = 4
    MaxMatches = 1
    MaxMerges = 3
    MaxUnmerges = 2
    MaxDeletes = 1
    MaxOperations = 5
    Tangled = FALSE
    HistoryDepth = 5
SPECIFICATION Spec
SYMMETRY Symmetry
CHECK_DEADLOCK FALSE
INVARIANTS TypeOK TablesAgree
PROPERTIES ForestSpec UnmergeLeavesOthers

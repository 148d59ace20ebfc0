CONSTANTS
    w1 = w1  w2 = w2  p1 = p1  p2 = p2  p3 = p3  k1 = k1  k2 = k2
    Workers <- OneWorker
    ProfileIds <- ThreeProfiles
    Keys <- OneKey
    MaxIds = 3
    MaxPuts = 4
    MaxMerges = 2
    MaxPutFailures = 0
    MaxMergeFailures = 1
    MaxCrashes = 0
    RuleBased = FALSE
SPECIFICATION FairSpec
CHECK_DEADLOCK FALSE
INVARIANTS FoundUnlessDeleted  
           ProfileCountInSync 
PROPERTIES LiveRowsKept   RequestsAreDone

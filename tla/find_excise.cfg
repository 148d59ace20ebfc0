CONSTANTS
    w1 = w1  w2 = w2  c1 = c1  c2 = c2  b = b
    Workers <- TwoWorkers
    ConnectIds <- TwoIds
    Others <- OneOther
    Nobody = Nobody
    Paths = 1
    MaxKeys = 6
    MaxRuns = 2
    MaxFaults = 1
    MaxSearches = 1
    SearchAnytime = FALSE
SPECIFICATION Spec
CHECK_DEADLOCK FALSE

INVARIANT NothingComesBack

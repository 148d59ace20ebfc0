CONSTANTS
    w1 = w1  w2 = w2
    Workers <- OneWorker
    Types <- TwoTypes
    Businesses <- TwoBusinesses
    MayFail <- AllKinds
    MayDie <- BeforeErasing
    MaxCreates = 3
    MaxDeletes = 2
    MaxFaults = 3
    MaxDeaths = 1
SPECIFICATION Spec
CHECK_DEADLOCK FALSE
INVARIANTS TypeOK AllOrNothing

CONSTANTS
    Fields <- F
    NoField = "none"
    TypeOf <- T
    ProfileType = "_profile"
    Values <- V
    Blank = ""
    Norm <- N
    NoWindow = 99
    RuleVersions <- AllVersions
    Objects <- Nameless
    Now = 3
    MaxIds = 4
    MaxTasks = 1
    Lagging = FALSE
SPECIFICATION Spec
CHECK_DEADLOCK FALSE
INVARIANT IndexOffersProfiles

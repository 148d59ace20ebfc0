SPECIFICATION LiveSpec
CONSTANTS
  Draft = Draft
  Active = Active
  Admins = {a1, a2}
  Readers = {r1}
  MaxSize = 2
  MaxSaves = 2
  MaxActivations = 2
  MaxToggles = 2
  MaxFaults = 1
  MayFail <- ButRetiring
  Patient = TRUE
INVARIANTS
  TypeOK
  
PROPERTIES
  
  
  CachesCatchUp
CHECK_DEADLOCK FALSE

SPECIFICATION FairSpec
CONSTANTS
  MaxEvents = 3
  Window = 1
  Capacity = 1
  WireCap = 2
  Profiles <- OrdinaryProfiles
INVARIANTS
  TypeOK
  SeenIsShown
  NoSilentGap
PROPERTIES
  CatchesUp
CHECK_DEADLOCK FALSE

SPECIFICATION Spec
CONSTANTS
  MaxHeight = 3
  Lag = 1
  Transfers <- MCTransfers
  Orphans <- MCOrphans
  ChanCap = 1
  SaveEvery = 2
  ArgHeight = 1
  StaleNodes = TRUE
  BlocksFail = FALSE
  MaxCrashes = 0
  GateCap = 1
  EsMayFail = TRUE
INVARIANTS
  TypeOK
  WholeUnlessCut
  StoredUnlessCut
PROPERTIES
  ImplementsConfirmedFeed
CHECK_DEADLOCK FALSE

SPECIFICATION FairSpec
CONSTANTS
  MaxHeight = 3
  Lag = 1
  Transfers <- MCShort
  Orphans <- MCNone
  ChanCap = 2
  SaveEvery = 2
  ArgHeight = 0
  StaleNodes = FALSE
  BlocksFail = TRUE
  MaxCrashes = 1
  GateCap = 1
  EsMayFail = TRUE
INVARIANTS
  ScanInOrder
  LostBelowRedis
PROPERTIES
  EveryBlockIsTried
  FirstTransfersArrive
CHECK_DEADLOCK FALSE

SPECIFICATION Spec
CONSTANTS
  MaxHeight = 3
  Lag = 1
  Transfers <- MCDecodable
  Orphans <- MCNone
  ChanCap = 1
  SaveEvery = 2
  ArgHeight = 1
  StaleNodes = FALSE
  BlocksFail = FALSE
  MaxCrashes = 0
  GateCap = 1
  EsMayFail = TRUE
INVARIANTS
  EveryTransferPushed
CHECK_DEADLOCK FALSE

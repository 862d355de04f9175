SPECIFICATION Spec
CONSTANTS
  MaxHeight = 4
  PushIndexes <- MCPushIndexes
  ChannelCount = 2
  EventCap = 1
  StartHeight = 0
  StartIndex = 0
  Lag = 1
  StoreMayFail = TRUE
  MaxCrashes = 1
INVARIANTS
  TypeOK
  ScanIsContiguous
  OnlyIrreversible
  SlotsAccounted
  CoveredBelowCursor
  EventsPlaced
PROPERTY ImplementsFeed

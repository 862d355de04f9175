SPECIFICATION Spec
CONSTANTS
  MaxHeight = 3
  PushIndexes <- MCPushIndexes
  ChannelCount = 1
  EventCap = 1
  StartHeight = 0
  StartIndex = 0
  Lag = 1
  StoreMayFail = FALSE
  MaxCrashes = 0
INVARIANT PoolBound

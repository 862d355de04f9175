SPECIFICATION Spec
CONSTANTS
  MaxHeight = 3
  PushIndexes <- MCPushIndexes
  ChannelCount = 2
  EventCap = 1
  StartHeight = 0
  StartIndex = 1
  Lag = 1
  StoreMayFail = FALSE
  MaxCrashes = 2
INVARIANT ReplayOneBlock
PROPERTY SkipsOnlyInFirstBlock

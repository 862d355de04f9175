SPECIFICATION FairSpec
CONSTANTS
  MaxHeight = 3
  PushIndexes <- MCPushIndexes
  ChannelCount = 1
  EventCap = 1
  StartHeight = 0
  StartIndex = 0
  Lag = 1
  StoreMayFail = TRUE
  MaxCrashes = 1
PROPERTY EveryEventArrives

SPECIFICATION MCSpec
CONSTANTS
  MaxHeight = 2
  PushIndexes <- MCPushIndexes
  ChannelCount = 1
  EventCap = 1
  StartHeight = 0
  StartIndex = 0
  Lag = 0
  StoreMayFail = FALSE
  MaxCrashes = 1
  Action <- MCAction
  First <- MCFirst
  Accounts <- MCAccounts
  Names <- MCNames
  MaxChanges = 2
  MayAsk = TRUE
CHECK_DEADLOCK FALSE
INVARIANTS ReportedWasWatched ContractSettled LookupConfirms
PROPERTIES CalmDecision FirstImplementsFeed

SPECIFICATION MCSpec
CONSTANTS
  Self = self
  Existing = {alice, bob}
  Missing = {ghost}
  Names = {BCH, BTC}
  Amounts <- MCAmounts
  Gateway = "gateway"
  Users = {"user"}
  Wrapped <- MCWrapped
  BuiltAmounts = {1, 2}
  MaxTxs = 3
  XinGateway <- MCXinGateway
  XinUsers <- MCXinUsers
  Hashes <- MCHashes
  Prices = {0, 1, 3}
  Wide = 5
  Narrow = 4
  MaxIssued = 6
  Txs <- MCTxs
  ContractLists <- MCContractLists
  Gateways <- MCGateways
  Unread = "unread"
CHECK_DEADLOCK FALSE
INVARIANTS
  SupplyIsSum
  SupplyWithinMaximum
  PegSound
  BuiltIsReported
  TablesAgree
  LookupConfirmsScan
  ScanMissesOnly
PROPERTIES
  OnlyOwnerPays

SPECIFICATION MCSpec
CONSTANTS
  Shells = {s1, s2}
  Boxers = {b1, b2}
  MaxKeys = 3
  KMSBoxers = {"b1", "b2", "b3"}
  KeyPath <- MCKeyPath
  MaxDEKs = 3
  Voters = {"v1", "v2"}
  Stake <- MCStake
  Asked <- MCAsked
  PageSize = 2
  MaxRows = 3
  Cap = 2
  Chains = {main, test}
  Keys = {"k1", "k2"}
  Threshold = 2
  Wallets = {"w1", "w2"}
  KeysOf <- MCKeysOf
  Files = {f1, f2}
  MaxBodies = 2
  Prices = {1, 2}
  Funds = 2
  MaxChanges = 1
CHECK_DEADLOCK FALSE
INVARIANTS WalletSafe EnvelopeSound TallyIsAnswered TransactionsSound SaleSound

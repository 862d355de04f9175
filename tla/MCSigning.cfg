SPECIFICATION MCSpec
CONSTANTS
  Keys = {"k1", "k2", "k3", "k4"}
  Threshold = 2
  Signers = {1, 2, 3}
  HashOf <- MCHashOf
  NextHash <- MCNextHash
  MaxSends = 3
CHECK_DEADLOCK FALSE
INVARIANTS PushedWhole SignedByConfigured
PROPERTIES ExecutedUnlessRemerged CreatedIsExecuted

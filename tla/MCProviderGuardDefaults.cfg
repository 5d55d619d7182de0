SPECIFICATION Spec
CONSTANTS
  FailureThreshold = 3
  RecoveryTimeout = 5
  Capacity = 3
  RefillRate = 1
  TokenCost = 1
  MaxTime = 6
  MaxSkew = 0
INVARIANT OpensAfterThreshold

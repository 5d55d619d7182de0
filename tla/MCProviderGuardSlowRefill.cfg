SPECIFICATION Spec
CONSTANTS
  FailureThreshold = 3
  RecoveryTimeout = 5
  Capacity = 30
  RefillRate = 1
  TokenCost = 10
  MaxTime = 6
  MaxSkew = 0
PROPERTY TestCallDecides

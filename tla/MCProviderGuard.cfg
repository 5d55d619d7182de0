SPECIFICATION Spec
CONSTANTS
  FailureThreshold = 2
  RecoveryTimeout = 2
  Capacity = 4
  RefillRate = 1
  TokenCost = 2
  MaxTime = 6
  MaxSkew = 1
INVARIANTS
  RateRespected
  OpenCircuitShields
  OpensOnlyOnFailures
PROPERTY ClosesUnprovedOnlyWithoutToken

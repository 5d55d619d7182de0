SPECIFICATION Spec
CONSTANTS
  MaxAttempts = 4
  BaseDelay = 2
  MaxDelay = 5
  JitterPercent = 50
  RandomPercents <- MCRandomPercents
  Latencies <- MCLatencies
  Hints <- MCHints
INVARIANTS
  CallJustified
  WaitsRespected

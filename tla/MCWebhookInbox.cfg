SPECIFICATION FairSpec
CONSTANTS
  a1 = a1  c1 = c1  c2 = c2
  o1 = o1  o2 = o2
  bA1 = bA1  bA1Rival = bA1Rival  bC1 = bC1  bC2 = bC2  bNoise = bNoise
  Ids = {a1, c1, c2}
  Orders = {o1, o2}
  Bodies = {bA1, bA1Rival, bC1, bC2, bNoise}
  Parse <- MCParse
  InvalidPayload = InvalidPayload
  Times <- MCTimes
  Clock <- MCClock
  TicksPerSecond = 2
  Window = 1
  Signed <- MCSigned
  DirectIds = {c1}
  NoRecord = NoRecord
  Absent = Absent
  NotAnInt = NotAnInt
INVARIANTS
  EffectsAtMostOnce
  StatusMatchesEffects
  StoredAreAuthentic
  AnswersConsistent
  ArrivalOrderSuffices
PROPERTIES
  ImplementsLedger
  EventuallySettled

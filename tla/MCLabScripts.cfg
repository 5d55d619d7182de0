SPECIFICATION LabSpec
CONSTANTS
  IoOperations = 3
  CpuInputs <- MCCpuInputs
  IoDelay = 3
  CpuCost = 2
  Interval = 2
  Repetitions = 2
  Workers = 1
  Threads = 2
  MaxLag = 1
  Jobs = {j1, j2}
  MaxProcesses = 4
  MaxServers = 2
  MaxDiskErrors = 1
  Consumers = {k1, k2}
  TenantA = tA
  TenantB = tB
  Orphan = tO
  ExternalId = "checkout-42"
  Null = NULL
  MaxRuns = 3
  RowCounts = {8, 18, 24}
  CustomerCounts = {2, 3}
  TenantCounts = {2, 3}
  PendingEvery = {2, 3}
  PageSizes = {2}
  NPlusOneRows = {1, 3}
  IntMax = 2000
  MaxStarts = 2
INVARIANTS
  BlockingIsSeen
  ResultsInInputOrder
  NothingOutlives
  ClosedOnce
  JobsAccountedFor
  NoServerOutlivesItsScript
  VerdictJustified
  DomainHolds
  VersionMatchesSchema
  ProbesNamed
  PlansUnderTheirIndexes
  AccessAgrees
PROPERTIES
  RaceEndsInItsLab

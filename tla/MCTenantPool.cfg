SPECIFICATION FairSpec
CONSTANTS
  Requests = {r1, r2}
  Connections = {c1}
  Tenants = {aurora, boreal}
  Titles = {d1, d2}
  NoTenant = NoTenant
INVARIANTS
  ReadsExplained
PROPERTIES
  ContextDiesWithTransaction
  OnlyOwnersWrite
  EveryRequestEnds

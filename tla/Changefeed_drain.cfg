SPECIFICATION FairSpec
CONSTANTS
  p1 = p1
  p2 = p2
  NoPod = NoPod
  Pods <- MCPods
  Drainers <- MCDrainers
  MaxEpoch = 2
  Tenants = 2
  Sources = 1
  PerBatchLimit = 2
  FetchLimit = 2
  MaxStamp = 2
  MaxFaults = 1
  MaxCrashes = 1
INVARIANTS
  TypeOK
  AuditFollowsCursor
PROPERTIES
  ImplementsTrail
  EventuallyAudited
CHECK_DEADLOCK FALSE

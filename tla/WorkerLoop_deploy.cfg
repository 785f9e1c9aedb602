CONSTANTS
  Pods = {p1, p2}
  NoPod = NoPod
  MaxEpoch = 2
  j1 = j1
  j2 = j2
  j3 = j3
  t1 = t1
  t2 = t2
  c1 = c1
  c2 = c2
  Jobs = {j1}
  InlineJobs = {}
  JobTypes = {t1}
  TypeOf <- OneType
  TenantOf <- OneTenant
  RegMax = 1
  ReapMax = 1
  MaxConcurrent = 1
  TenantMax = 1
  GlobalMax = 0
  MaxCrashes = 0
  MaxStops = 1
SPECIFICATION Spec
SYMMETRY PodSymmetry
CHECK_DEADLOCK FALSE
INVARIANTS AttemptsBounded
PROPERTIES LiveLeaseNotStolen ImplementsLedger

CONSTANTS
  Pods = {p1}
  NoPod = NoPod
  MaxEpoch = 2
  j1 = j1
  j2 = j2
  j3 = j3
  t1 = t1
  t2 = t2
  c1 = c1
  c2 = c2
  Jobs = {j1, j2, j3}
  InlineJobs = {j3}
  JobTypes = {t1, t2}
  TypeOf <- TwoTypes
  TenantOf <- OneTenant
  RegMax = 1
  ReapMax = 1
  MaxConcurrent = 2
  TenantMax = 1
  GlobalMax = 1
  MaxCrashes = 0
  MaxStops = 0
SPECIFICATION Spec
CHECK_DEADLOCK FALSE
INVARIANTS CapsRespected InlineUndisturbed

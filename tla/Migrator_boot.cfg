SPECIFICATION FairSpec
CONSTANTS
  p1 = p1
  p2 = p2
  p3 = p3
  NoPod = NoPod
  Pods <- MCPods
  Manifest <- MCManifest
  MaxAttempts = 2
  MaxFaults = 2
  MaxLapses = 1
  MaxCrashes = 1
INVARIANTS
  TypeOK
  ReadyIsMigrated
PROPERTIES
  AppliedInOrder
  EventuallyReady
CHECK_DEADLOCK FALSE

SPECIFICATION FairSpec
CONSTANTS
  x1 = x1
  q1 = q1
  w1 = w1
  p1 = p1
  p2 = p2
  NoPoller = NoPoller
  NoCommitter = NoCommitter
  Pods = {p1, p2}
  Leader = p1
  NoPod = NoPod
  NPacks = 1
  Reindexers = {}
  PackOf <- OwnPack
  Remote = {x1}
  Plans <- ThePlans
  Pollers = {q1}
  Chunks = {1, 2}
  MaxAttempts = 2
  MaxFaults = 1
  MaxClaims = 1
CHECK_DEADLOCK FALSE
INVARIANTS TypeOK SucceededIsWhole DecidedByOne
PROPERTIES RunsSettle EventuallyDecided

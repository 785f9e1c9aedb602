SPECIFICATION Spec
CONSTANTS
  x1 = x1
  q1 = q1
  w1 = w1
  p1 = p1
  p2 = p2
  NoPoller = NoPoller
  NoCommitter = NoCommitter
  Pods = {p1, p2}
  Leader = p1
  NoPod = NoPod
  NPacks = 1
  Reindexers = {w1}
  PackOf <- FirstPack
  Remote = {x1}
  Plans <- ThePlans
  Pollers = {}
  Chunks = {1}
  MaxAttempts = 2
  MaxFaults = 1
  MaxClaims = 0
CHECK_DEADLOCK FALSE
INVARIANTS OneExtractor

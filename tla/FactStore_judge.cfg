CONSTANTS
  p = p  q = q  u = u  v = v  crm = crm  chat = chat
  Slots = {p, q}
  PoliciesOf <- JudgePolicies
  PathsOf <- DirectOnly
  DirectSlot = TRUE
  MentionSlot = TRUE
  Values = {u, v}
  Near <- Everything
  Alike <- SameOnly
  Origins = {chat}
  RecordOrigins = {}
  Now = 1
  Horizon = 2
  DayLength = 2
  Harness = TRUE
  Spans <- HeldSpans
  Nameable = {}
  Retractable = {}
  MaxFacts = 3
SPECIFICATION Spec
CHECK_DEADLOCK FALSE
SYMMETRY ValueSymmetry
INVARIANT SingleActive
PROPERTY SettleDecides
PROPERTY OrphansSettled

CONSTANTS
  p = p  q = q  u = u  v = v  crm = crm  chat = chat
  Slots = {p}
  PoliciesOf <- StatePolicies
  PathsOf <- BothPaths
  DirectSlot = TRUE
  MentionSlot = TRUE
  Values = {u, v}
  Near <- Everything
  Alike <- SameOnly
  Origins = {crm, chat}
  RecordOrigins = {crm}
  Now = 1
  Horizon = 1
  DayLength = 1
  Harness = FALSE
  Spans <- DatedSpans
  Nameable = {1}
  Retractable = {1, 2}
  MaxFacts = 2
SPECIFICATION Spec
CHECK_DEADLOCK FALSE
SYMMETRY ValueSymmetry
INVARIANT TypeOK
INVARIANT IntervalsOrdered
PROPERTY OnlyReviveReopens
PROPERTY RecordNotDemoted

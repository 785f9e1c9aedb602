CONSTANTS
  r1 = r1  r2 = r2  r4 = r4  same = same  other = other
  Requests = {r1, r2, r4}
  Prints = {same, other}
  PrintOf <- OneStranger
SPECIFICATION Spec
CHECK_DEADLOCK FALSE
SYMMETRY Retries
INVARIANT TypeOK
INVARIANT SingleFlight
INVARIANT AnsweredOnce
INVARIANT ReplayIsFirst
INVARIANT RerunOnlyAfterFailure

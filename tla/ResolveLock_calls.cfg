CONSTANTS
  a = a  b = b  c = c  d = d  e = e  p1 = p1  p2 = p2  k1 = k1  k2 = k2
  Nobody = Nobody
  Callers = {a, b, c, d, e}
  Pods = {p1, p2}
  Keys = {k1, k2}
  PodOf <- Served
  KeyOf <- Wanted
SPECIFICATION FairSpec
INVARIANT OneActive
INVARIANT MutualExclusion
INVARIANT KeysHaveHolders
PROPERTY EveryoneServed

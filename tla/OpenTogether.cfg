SPECIFICATION FairSpec
CONSTANTS
  p = p
  q = q
  r = r
  good = good
  other = other
  u1 = u1
  u2 = u2
  u3 = u3
  v = v
  Process = {p, q, r}
  Key <- MCKey
  Random = {u1, u2, u3}
  Chosen = {v}
  None = None
  MaxFailures = 2
INVARIANT StampsAreTheFiles
PROPERTIES UidIsKept Initialised
CHECK_DEADLOCK FALSE

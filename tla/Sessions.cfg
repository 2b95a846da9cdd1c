SPECIFICATION FairSpec
CONSTANTS
  c1 = c1
  c2 = c2
  k1 = k1
  k2 = k2
  Tab = {c1}
  Call = {k1, k2}
  None = None
  AccessLife = 1
  RefreshLife = 2
  MaxTime = 2
  MaxErrors = 1
INVARIANT RefusedForCause
INVARIANT LogoutHolds
PROPERTY CallsEnd

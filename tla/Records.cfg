SPECIFICATION Spec
CHECK_DEADLOCK FALSE
CONSTANTS
  ann = ann  bob = bob  eve = eve  home = home  x = x  y = y  z = z
  r1 = r1  r2 = r2  r3 = r3
  Request = {r1, r2, r3}
  User = {ann, bob, eve}
  Word = {x, y, z}
  TooLong <- MCTooLong
  Home = {home}
  Seed <- SeedRows
  Call <- Calls
  MaxErrors = 1
INVARIANT OneRowPerKey
INVARIANT AllOrNothing
INVARIANT JobsFollowRows
INVARIANT FailsForCause
INVARIANT FoundByItsLabel
PROPERTY RequestsEnd

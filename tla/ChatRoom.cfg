SPECIFICATION FairSpec
CONSTANTS
  r1 = r1
  r2 = r2
  a = a
  b = b
  q1 = q1
  q2 = q2
  Room = {r1, r2}
  Sender = {a, b}
  Place <- MCPlace
  Load = {q1, q2}
  None = None
  Limit = 2
  MaxMessages = 3
  MaxSelections = 2
  MaxErrors = 1
CHECK_DEADLOCK FALSE
INVARIANT SocketFollowsRoom
INVARIANT DeckShowsItsRoom
INVARIANT NothingElseMissed
INVARIANT ShownOnce
INVARIANT SendersOrder
PROPERTY Reconnects

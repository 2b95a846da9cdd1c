SPECIFICATION Spec
CHECK_DEADLOCK FALSE
CONSTANTS
  n1 = n1  n2 = n2
  r1 = r1
  Char = {"x", ".", "b", "n"}
  Blank = {"b", "n"}
  Separators <- MCSeparators
  Size = 4
  Overlap = 2
  Note = {n1, n2}
  Request = {r1}
  Home = {n1}
  Contents <- MCContents
  Question <- MCQuestion
  MaxMessages = 3
  MaxOutages = 1
INVARIANT PassagesWhole
INVARIANT WordsAreIndexed
INVARIANT SummaryHasTheLatest
PROPERTY Answered

SPECIFICATION Spec
CONSTANTS
  x1 = x1
  t1 = t1
  t2 = t2
  t3 = t3
  w1 = w1
  w2 = w2
  Note = {x1}
  Task = {t1, t2, t3}
  Worker = {w1, w2}
  MaxRetries <- MCMaxRetries
  None = None
  Gone = Gone
  MaxErrors = 0
  MaxHalts = 0
CHECK_DEADLOCK FALSE
INVARIANT FreshOnceIndexed

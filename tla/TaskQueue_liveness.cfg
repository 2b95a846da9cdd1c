SPECIFICATION FairSpec
CONSTANTS
  a = a
  b = b
  ghost = ghost
  Node = {n1, n2}
  Task = {b, ghost}
  Unregistered = {ghost}
  MaxRetries <- MCMaxRetries
  Delays = {0, 1}
  NoJob = NoJob
  MaxHalts = 0
  MaxErrors = 0
  MaxExpiries = 0
CHECK_DEADLOCK FALSE
PROPERTY EveryTaskSettles
PROPERTY Drains

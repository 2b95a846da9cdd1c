SPECIFICATION Spec
CONSTANTS
  a = a
  b = b
  ghost = ghost
  Node = {n1}
  Task = {a, b, ghost}
  Unregistered = {ghost}
  MaxRetries <- MCMaxRetries
  Delays = {0, 2}
  NoJob = NoJob
  MaxHalts = 1
  MaxErrors = 1
  MaxExpiries = 1
CHECK_DEADLOCK FALSE
INVARIANT OutcomeExclusive
PROPERTY ImplementsLifecycle
INVARIANT OneCopy
INVARIANT NoTaskLost
INVARIANT RetryCountIsEarned
INVARIANT AttemptsBounded
PROPERTY BackoffRespected

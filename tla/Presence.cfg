SPECIFICATION Spec
CONSTANTS
  a = a
  b = b
  n1 = n1
  n2 = n2
  a1 = a1
  a2 = a2
  b1 = b1
  User = {a, b}
  Node = {n1, n2}
  Socket = {a1, a2, b1}
  Owner <- MCOwner
  Host <- MCHost
  Roster = {b1}
  MaxPending = 1
  MaxFaults = 1
INVARIANT GoneMeansOffline
INVARIANT RosterForgetsGone
INVARIANT RegisterIsExact
INVARIANT ConnectedMeansOnline

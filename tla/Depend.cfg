SPECIFICATION Spec
CONSTANTS
  N = 3
  Types = {0, 2, 5, 7}
  MaxDeps = 1
  Counts = {0, 1, 2}
  NoCount = FALSE
  History = FALSE
  LateFailure = FALSE
  Deaf = {3}
  MaxAlters = 0
  MaxMoves = 0
  MaxRequeues = 1
CHECK_DEADLOCK FALSE
INVARIANTS
  TypeOK
  NeverEarly
  Matched
PROPERTIES
  AbortedForCause

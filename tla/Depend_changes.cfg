SPECIFICATION Spec
CONSTANTS
  N = 2
  Types = {0, 7}
  MaxDeps = 1
  Counts = {0, 1}
  NoCount = TRUE
  History = TRUE
  LateFailure = TRUE
  Deaf = {2}
  MaxAlters = 1
  MaxMoves = 1
  MaxRequeues = 0
CHECK_DEADLOCK FALSE
INVARIANTS
  HeldIffDepends

  

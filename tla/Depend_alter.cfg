SPECIFICATION Spec
CONSTANTS
  N = 2
  Types = {1}
  MaxDeps = 1
  Counts = {0}
  NoCount = FALSE
  History = FALSE
  LateFailure = FALSE
  Deaf = {}
  MaxAlters = 1
  MaxMoves = 0
  MaxRequeues = 0
CHECK_DEADLOCK FALSE
PROPERTIES
  DeletedWhileWaiting

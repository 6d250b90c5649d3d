SPECIFICATION Spec
CONSTANTS
  Jobs = {j1, j2}
  Queues = {workq, routeq}
  RouteQueues = {routeq}
  NoQueue = NoQueue
  Chkpnt = FALSE
  HookDelete = TRUE
SYMMETRY JobSymmetry
INVARIANT ServerCounts

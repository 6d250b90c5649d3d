SPECIFICATION Spec
CONSTANTS
  Jobs = {j1}
  Queues = {workq, routeq}
  RouteQueues = {routeq}
  NoQueue = NoQueue
  Chkpnt = TRUE
  HookDelete = FALSE
INVARIANTS
  ServerCounts
  QueueCounts
PROPERTIES
  HistoryIsFinal

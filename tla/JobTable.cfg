SPECIFICATION Spec
CONSTANTS
  Jobs = {j1, j2}
  Queues = {workq, routeq}
  RouteQueues = {routeq}
  NoQueue = NoQueue
  Chkpnt = FALSE
  HookDelete = FALSE
SYMMETRY JobSymmetry
INVARIANTS
  TypeOK
  ServerCounts
  QueueCounts
  NoDanglingQueue
  OnlyHistoryUnqueued
  NewJobsApart
  NoHistoryWhenOff
PROPERTIES
  HistoryIsFinal

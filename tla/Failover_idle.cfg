SPECIFICATION Spec
CONSTANTS
  Faults = {}
  MaxFaults = 3
  Tells = {"none", "SecdShutdown", "SecdGoInactive"}
  Types = {"SHUT", "DOWN"}
  MaxPend = 2
CHECK_DEADLOCK FALSE
INVARIANTS
  IdleStaysIdle

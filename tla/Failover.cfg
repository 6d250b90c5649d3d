SPECIFICATION Spec
CONSTANTS
  Faults = {"kill", "crash", "partition", "stall"}
  MaxFaults = 4
  Tells = {"none", "SecdShutdown", "SecdGoInactive"}
  Types = {"SHUT", "DOWN"}
  MaxPend = 2
CHECK_DEADLOCK FALSE
INVARIANTS
  TypeOK
  OwnDbSurvives
PROPERTIES
  HandoverSaved
  Settled
  TakesOver
  StartEnds

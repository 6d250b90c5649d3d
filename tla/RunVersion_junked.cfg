SPECIFICATION Spec
CONSTANTS
  Moms = {m1, m2}
  NoMom = NoMom
  MaxRuns = 2
  MaxFaults = 2
  MaxQueue = 1
PROPERTIES
  JunksOldRuns
CHECK_DEADLOCK FALSE

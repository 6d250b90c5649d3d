SPECIFICATION Spec
CONSTANTS
  Needs = {{}, {"DelFiles"}, {"CopyFiles", "DelFiles"}, {"Rerun", "CopyFiles", "DelFiles"}}
  Statuses = {"OK", "RERUN", "RETRY"}
  Rerunnable = TRUE
  SandboxPrivate = FALSE
  MaxPending = 3
  MaxBreaks = 2
CHECK_DEADLOCK FALSE
INVARIANTS
  TypeOK
  Driven
PROPERTIES
  ImplementsRun

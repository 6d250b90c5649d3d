SPECIFICATION Spec
CONSTANTS
  Needs = {{}, {"Rerun"}, {"CopyFiles"}, {"DelFiles"}, {"Rerun", "CopyFiles"},
           {"Rerun", "DelFiles"}, {"CopyFiles", "DelFiles"}, {"Rerun", "CopyFiles", "DelFiles"}}
  Statuses = {"OK", "RERUN", "RETRY"}
  Rerunnable = FALSE
  SandboxPrivate = TRUE
  MaxPending = 3
  MaxBreaks = 2
CHECK_DEADLOCK FALSE
PROPERTIES
  ImplementsRunSafely

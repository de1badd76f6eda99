SPECIFICATION Spec
CONSTANTS
  NFiles = 3
  NTasks = 1
  NFds = 2
  Objects = {"a"}
  Hazards = {}
INVARIANTS PipeCleared
CHECK_DEADLOCK FALSE

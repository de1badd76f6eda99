SPECIFICATION Spec
CONSTANTS
  NTasks = 3
  NWindows = 1
  MaxPid = 4
  NSlots = 2
  ProtectedPid = 2
  Schedules = {"ONFOCUS"}
  Waited = {1, 2, 3}
  Hazards = {"orphan"}
INVARIANTS TaskIsExecuted
CHECK_DEADLOCK FALSE

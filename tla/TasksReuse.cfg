SPECIFICATION Spec
CONSTANTS
  NTasks = 3
  NWindows = 2
  MaxPid = 4
  NSlots = 2
  ProtectedPid = 2
  Schedules = {}
  Waited = {}
  Hazards = {"userlock"}
INVARIANTS MappedIsRunning SlotsExclusive OwnedWindows
CHECK_DEADLOCK FALSE

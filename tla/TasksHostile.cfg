SPECIFICATION Spec
CONSTANTS
  NTasks = 2
  NWindows = 1
  MaxPid = 3
  NSlots = 1
  ProtectedPid = 2
  Schedules = {"ONFOCUS"}
  Waited = {1, 2, 3}
  Hazards = {"userlock", "toggle", "kill", "fault", "killdead"}
INVARIANTS OneRunning PidsUnique ThreadIdentity
CHECK_DEADLOCK FALSE

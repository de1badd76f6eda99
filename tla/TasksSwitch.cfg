SPECIFICATION FairSpec
CONSTANTS
  NTasks = 3
  NWindows = 2
  MaxPid = 3
  NSlots = 1
  ProtectedPid = 2
  Schedules = {"ONFOCUS"}
  Waited = {2}
  Hazards = {}
PROPERTIES SwitchIsDue Served
CHECK_DEADLOCK FALSE

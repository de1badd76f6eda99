SPECIFICATION MCSpec
CHECK_DEADLOCK FALSE
CONSTANTS
    NFiles = 4
    NTasks = 2
    NFds = 3
    Objects = {"a"}
    Hazards = {"kill", "cut", "exec", "full"}
    SharedFiles = 3
    SharedFds = 2
    SharedHazards = {"share", "exec", "kill"}
INVARIANTS FilesTypeOK TableIsSound
PROPERTIES FollowsDescriptor

SPECIFICATION Spec
CHECK_DEADLOCK FALSE
CONSTANTS
    MaxTask = 2
    MaxPid = 3
    QueueLen = 2
INVARIANTS PauseHits

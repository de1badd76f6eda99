SPECIFICATION Spec
CHECK_DEADLOCK FALSE
CONSTANTS
    Players = {"p1", "p2"}
    Lengths = {1, 4, 5, 7, 10, 13}
    R = 4
    F = 4
    Entry = 3
    Word = 64
    Lag = 2
    TimerSlots = 2
    MaxKeys = 2
    MaxPackets = 2
    Overflow = {2}
    Keys = {"a", "shift", "ctrl", "left"}
    MaxEvents = 4
    MaxWire = 1
    BufLen = 2
    MaxTask = 2
    MaxPid = 3
    QueueLen = 2
    MaxProgs = 2
    MaxStarts = 3
    MaxVp = 3
    Beyond = {"early", "twice"}
    PageSize = 2
    NPages = 3
    MaxLen = 3
    Sizes = {2}
INVARIANTS TypeOK InOrder SourceHeld BytesArrive KeysAgree GetcTyped OfferedIsHeld QueueServes BorrowsAndReturns ListAndFocus NoSilentLoss FileWhole
PROPERTIES StopsAtEnd Ends Drained

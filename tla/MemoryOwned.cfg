SPECIFICATION Spec
CONSTANTS
  NRegions = 14
  Kernel = 2
  Usable = 11
  HeapAt = 9
  HeapPages = 2
  Devices = {13}
  Unit = 2
  Sizes = {2, 3, 6}
  Virtuals = {0}
  Tasks = {"p", "q", "r"}
  MaxHeld = 2
  Hazards = {"kill", "module"}
INVARIANTS TypeOK Exclusive Backed Returned

SPECIFICATION Spec
CONSTANTS
    Handles = {h1, h2}
    Names = {a, b}
    NBlocks = 6
    PerGroup = 6
    FirstData = 0
    MetaEnd = 1
    InodeCount = 5
    BS = 2
    Direct = 3
    MaxSize = 3
    MaxFile = 4
SYMMETRY Symmetry
INVARIANTS TypeOK Owned LinkedWhole DataInOwnBlocks HandleAgrees SizeBacked
CHECK_DEADLOCK FALSE

SPECIFICATION Spec
CONSTANTS
    Handles = {h1, h2}
    Names = {a, b}
    NBlocks = 9
    PerGroup = 9
    FirstData = 1
    MetaEnd = 2
    InodeCount = 5
    BS = 2
    Direct = 3
    MaxSize = 3
    MaxFile = 4
SYMMETRY Symmetry
INVARIANT Owned
CHECK_DEADLOCK FALSE

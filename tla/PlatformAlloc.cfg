SPECIFICATION HeapSpec
CONSTANTS
    Memory = 64
    Word = 2
    MaxAlign = 4
    Sizes <- MCSizes
    Aligns <- MCAligns
    MaxBlocks = 2
INVARIANTS
    BlocksUsable
    DeallocFreesItsOwn
CHECK_DEADLOCK FALSE

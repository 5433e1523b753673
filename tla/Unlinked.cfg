SPECIFICATION Spec
CONSTANTS
    NumInodes = 3
    NumData = 6
    DirectPtrs = 2
    BlockSize = 4
    DataRegionAddr = 4
    Names = {a, b}
    CreatTypes = {0, 1}
    Payload <- NoCells
    Offsets = {0}
    Lengths = {0}
    MaxSize = 4
    NulCells <- NoCells
    HeapCells <- NoCells
    StaleInodes <- NoPointers
    StackNames = {a}
    StackBlocks <- OnesOrZero
    StackInts = {0}
    OutsideBlocks <- OnesOrZero
    Unset = Unset
INVARIANT UnlinkRemovesName

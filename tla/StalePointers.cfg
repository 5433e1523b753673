SPECIFICATION Spec
CONSTANTS
    NumInodes = 3
    NumData = 6
    DirectPtrs = 2
    BlockSize = 4
    DataRegionAddr = 4
    Names = {a}
    CreatTypes = {0, 1}
    Payload <- Text
    Offsets = {0, 4, 6}
    Lengths = {1}
    MaxSize = 9
    NulCells <- NoCells
    HeapCells <- NoCells
    StaleInodes <- ToDataBlock
    StackNames = {a}
    StackBlocks <- OnesOrZero
    StackInts = {0}
    OutsideBlocks <- OnesOrZero
    Unset = Unset
INVARIANT WritesSpareDirectories

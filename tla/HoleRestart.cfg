SPECIFICATION Spec
CONSTANTS
    NumInodes = 3
    NumData = 6
    DirectPtrs = 2
    BlockSize = 3
    DataRegionAddr = 4
    Names = {a}
    CreatTypes = {1}
    Payload <- Text
    Offsets = {0, 3, 5}
    Lengths = {1, 3}
    MaxSize = 9
    NulCells <- NoCells
    HeapCells <- NoCells
    StaleInodes <- NoPointers
    StackNames = {a}
    StackBlocks <- OnesOrZero
    StackInts = {0}
    OutsideBlocks <- OnesOrZero
    Unset = Unset
INVARIANT RestartFindsGeometry

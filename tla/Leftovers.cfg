SPECIFICATION Spec
CONSTANTS
    NumInodes = 3
    NumData = 5
    DirectPtrs = 2
    BlockSize = 2
    DataRegionAddr = 4
    Names = {a}
    CreatTypes = {0, 1}
    Payload <- AllTexts
    Offsets = {0, 1, 2, 3}
    Lengths = {1, 2}
    MaxSize = 2
    NulCells <- NulText
    HeapCells <- Text
    StaleInodes <- AnyPointers
    StackNames = {a}
    StackBlocks <- OnesOrZero
    StackInts = {0}
    OutsideBlocks <- OnesOrZero
    Unset = Unset
 
PROPERTIES OthersUntouched BackedWriteLands
VIEW Image

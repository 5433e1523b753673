SPECIFICATION Spec
CONSTANTS
    NumInodes = 3
    NumData = 7
    DirectPtrs = 2
    BlockSize = 2
    DataRegionAddr = 4
    Names = {a}
    CreatTypes = {0, 1}
    Payload <- Text
    Offsets = {0, 1, 2, 3}
    Lengths = {1, 2}
    MaxSize = 6
    NulCells <- NoCells
    HeapCells <- NoCells
    StaleInodes <- NoPointers
    StackNames = {a}
    StackBlocks <- OnesOrZero
    StackInts = {0}
    OutsideBlocks <- OnesOrZero
    Unset = Unset
INVARIANTS NoSharedBlocks SizeCoversBlocks
PROPERTIES ImplementsTree OthersUntouched
VIEW Image

SPECIFICATION Spec
CONSTANTS
    NumInodes = 5
    NumData = 7
    DirectPtrs = 2
    BlockSize = 4
    DataRegionAddr = 4
    Names = {a, b}
    CreatTypes = {0, 1}
    Payload <- NoCells
    Offsets = {0}
    Lengths = {0}
    MaxSize = 4
    NulCells <- NoCells
    HeapCells <- NoCells
    StaleInodes <- NoPointers
    StackNames = {a, b}
    StackBlocks <- OnesOrZero
    StackInts <- AnyNumber
    OutsideBlocks <- OnesOrZero
    Unset = Unset
SYMMETRY AnyNames
INVARIANTS TypeOK BitmapsDense LiveInodesPassDataCheck NoSharedBlocks DirectoriesLeadToRoot EntriesNameLiveInodes
PROPERTIES ImplementsTree ResolvedNamesStable OthersUntouched
VIEW Image

SPECIFICATION Spec
CONSTANTS
    NumInodes = 3
    NumData = 5
    DirectPtrs = 2
    BlockSize = 3
    DataRegionAddr = 4
    Names = {a}
    CreatTypes = {0, 1}
    Payload <- Text
    Offsets = {0, 2, 3}
    Lengths = {2}
    MaxSize = 3
    NulCells <- NoCells
    HeapCells <- NoCells
    StaleInodes <- NoPointers
    StackNames = {a}
    StackBlocks <- Ones
    StackInts = {0}
    OutsideBlocks <- Ones
    Unset = Unset
    InodesPerBlock = 2
    MaxDirty = 3
    MaxCuts = 2
INVARIANTS UsedBlocksAreMarked EntriesNameReservedInodes BegunDirectoriesLeadToRoot
PROPERTIES AckedSurvives HandlersImplemented
VIEW Image

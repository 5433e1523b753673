SPECIFICATION Spec
CONSTANTS
    NumInodes = 4
    NumData = 2
    BlockWords = 12
    InodeWords = 4
    WordBits = 2
    EntryWords = 2
    StackWord = 7
    Dot = 1
    DotDot = 2
    InodeVals <- TwoInodes
    CellVals <- TwoCells
    UsedSlots = {0, 5}
INVARIANT FileKeepsItsLength
PROPERTIES CallsHaveTheirEffect FreshImageIsEmptyRoot
VIEW Image

CONSTANTS
    Bits <- ScaledBits
    Size <- ScaledSize
    Expressions <- ReadsAndChanges
    Memories <- AllMemories
    CellType <- AllCellTypes
    TempAddress <- Temporary
    NaN <- NotANumber
SPECIFICATION ValuesSpec
INVARIANT LeftSideFirst

SPECIFICATION SuiteSpec
CONSTANTS
    Bits <- ScaledBits
    Size <- ScaledSize
    Expressions <- AllExpressions
    Memories <- AllMemories
    CellType <- AllCellTypes
    TempAddress <- Temporary
    NaN <- NotANumber
INVARIANTS LLVMAgrees BoilerplatesAgree BlueprintsExist OperandsInPlace

SPECIFICATION SuiteSpec
CONSTANTS
    p1 = p1
    p2 = p2
    v1 = v1
    v2 = v2
    ref = ref
    call = call
    Nodes <- MCNodes
    Storage <- MCStorage
    ReturnSizes <- MCReturnSizes
    ParamLists <- MCParamLists
    Bodies <- MCBodies
    NumCategories <- CategoryCount
    Sizes <- AllSizes
    FrameSizes <- AllFrameSizes
    PointerCategories <- SomeCategories
    CategoryOfSize <- CategoryThatFits
    PointerAddresses <- SomeAddresses
    NoSpillLimit <- OneRegister
    VarLayouts <- IntAndClass
    StartOffset = 8
    MaxTemps = 2
    MaxLocals = 2
    fn1 = fn1
    fn2 = fn2
    MaxModules = 2
    MaxHandles = 1
SYMMETRY Symmetry
INVARIANTS PlacesDisjoint FrameCoversPlaces PlacesAligned FastFrameIsSound AnswerIsBetween ReachesTheFunction ModulesStayApart
\* the traversal of the debug interpreter ends, a search stops when it has found the category, the host when the last
\* module is done
CHECK_DEADLOCK FALSE

SPECIFICATION SuiteSpec
CONSTANTS
    BluePrints <- CodeBluePrints
    CdeclInterface <- Wrapper
    Functions = {f}
    Alignments = {}
    MaxInstances = 3
    BaseAddress = 4096
INVARIANTS LayoutIsOptimal CodeFollowsPlaceholders PointersAreEntryPoints
PROPERTIES PlacementEnds

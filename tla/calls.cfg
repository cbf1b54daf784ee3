SPECIFICATION SuiteSpec
CONSTANTS
    Vars = {v1, v2}
    Arities = {0, 1}
    MaxFrames = 8
    MaxScopes = 2
    MaxThrowDepth = 1
    Exn = {e1, e2}
    NoExn = NoExn
    MaxActivations = 5
    MaxObjects = 2
INVARIANTS ContextIsKept AssertionsHold
PROPERTY CxxSpec

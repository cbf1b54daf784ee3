SPECIFICATION DebugSpec
CONSTANTS
    Vars = {v1, v2}
    Arities = {1}
    MaxFrames = 7
    MaxScopes = 2
    MaxThrowDepth = 2
    Exn = {e1, e2}
    NoExn = NoExn
    MaxActivations = 6
    MaxObjects = 2
INVARIANT ScopeFindsItsVariables

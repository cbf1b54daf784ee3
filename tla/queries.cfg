SPECIFICATION Spec
CONSTANTS
    Plans <- MCPlans
    Tables <- MCTables
    InitialSize = 4
    ExpandThreshold = 2
    InitialMatches = 2
    HashMod = 4096
INVARIANTS StagesAreRight TablesAreSound
\* a query ends
CHECK_DEADLOCK FALSE

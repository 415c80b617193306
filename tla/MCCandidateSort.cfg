CONSTANTS
    N = 4
    Priority <- TieredPriority
    Cap <- TieredCap
    Others = 3
SPECIFICATION Spec
INVARIANTS TypeOK SpillOnlyPastFull SaturatedFirstOnlyIfOneTurned SortsAllCandidates
PROPERTY SortEnds

CONSTANTS
    N = 3
    Priority <- PeerPriority
    Cap <- PeerCap
    Others = 2
SPECIFICATION Spec
INVARIANT SaturatedLast

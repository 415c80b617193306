CONSTANTS
    DemotionThreshold = 0
    BaseDelay = 1
    MaxDelay = 2
    WordBits = 4
    TicksPerSecond = 1
    N = 2
    Priority <- PairPriority
    Cap <- PairCap
    Callers = {c1}
    Modes = {"forward"}
    Methods = {m}
    Serves <- PairServes
    Rps <- PairRps
    Upstream <- NullPair
    MaxRetries = 0
    MaxCalls = 1
    MaxTime = 1
SPECIFICATION Spec
INVARIANT OnlyInvalidJsonFailsOver

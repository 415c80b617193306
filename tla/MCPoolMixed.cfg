CONSTANTS
    DemotionThreshold = 0
    BaseDelay = 1
    MaxDelay = 2
    WordBits = 4
    TicksPerSecond = 1
    N = 3
    Priority <- TrioPriority
    Cap <- TrioCap
    Callers = {c1, c2}
    Modes = {"call", "forward"}
    Methods = {m1, m2}
    Serves <- MixedServes
    Rps <- MixedRps
    Upstream <- MixedTrio
    MaxRetries = 2
    MaxCalls = 1
    MaxTime = 1
SPECIFICATION FairSpec
INVARIANTS TiersInOrder ErrorOnlyWhenExhausted
PROPERTIES ImplementsFailoverCall CallAdvances CallsReturn

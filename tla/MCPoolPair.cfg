CONSTANTS
    DemotionThreshold = 0
    BaseDelay = 1
    MaxDelay = 2
    WordBits = 4
    TicksPerSecond = 1
    N = 2
    Priority <- PairPriority
    Cap <- PairCap
    Callers = {c1, c2}
    Modes = {"call"}
    Methods = {m1, m2}
    Serves <- BackedServes
    Rps <- BackedRps
    Upstream <- BackedPair
    MaxRetries = 0
    MaxCalls = 2
    MaxTime = 3
SPECIFICATION Spec
SYMMETRY Symmetric
INVARIANTS TypeOK InFlightExact EveryRequestAccounted AskedOnce ErrorOnlyWhenExhausted CoolingEndpointRests ThrottleKept ReliableEndpointAnswers

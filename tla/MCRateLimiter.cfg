\* max_rps = 0, the one value the code changes: it counts as 1.
CONSTANTS
    Threads = {t1, t2, t3}
    Rps = 0
    TicksPerSecond = 2
    MaxTime = 6
SPECIFICATION Spec
SYMMETRY Symmetric
INVARIANTS TypeOK WindowWithinRate NeverClosedForGood

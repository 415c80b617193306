CONSTANTS
    DemotionThreshold = 2
    BaseDelay = 1
    MaxDelay = 8
    WordBits = 4
    MaxTime = 3
    MaxReports = 4
SPECIFICATION Spec
INVARIANT DemotedAtThreshold

\* Words of 2 bits: the failure counter saturates at 3 and the shift at 2.
CONSTANTS
    DemotionThreshold = 1
    BaseDelay = 1
    MaxDelay = 3
    WordBits = 2
    MaxTime = 5
    MaxReports = 5
SPECIFICATION Spec
INVARIANTS TypeOK CoolingIsEarned FailingEndpointRests
PROPERTY RetryNeverMovesEarlier

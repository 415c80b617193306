CONSTANTS
    Vars = {"KEY", "TOKEN"}
    Values <- KeyValues
    Sources <- AllSources
SPECIFICATION Spec
INVARIANTS TypeOK PoolIsRoutable KeysReachTheWire StartsIfInOrder ListOrderKept
CHECK_DEADLOCK FALSE

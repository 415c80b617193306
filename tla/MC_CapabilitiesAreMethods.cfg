CONSTANTS
    Vars = {"KEY", "TOKEN"}
    Values <- KeyValues
    Sources <- Sample
SPECIFICATION Spec
INVARIANT CapabilitiesAreMethods
CHECK_DEADLOCK FALSE

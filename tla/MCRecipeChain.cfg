CONSTANTS
    Calls = {c1, c2}
    Kinds = {"grind", "tea"}
    MaxTries = 2
    MaxLate = 1
    Overlap = FALSE
    MaxInAir = 2
    MaxFaults = 2
SPECIFICATION Spec
INVARIANTS NoStepSkipped
PROPERTIES KeepsOrder CallsEnd
CHECK_DEADLOCK FALSE

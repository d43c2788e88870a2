CONSTANTS
    Keys = {"weight", "water"}
    Rank <- MCRank
    Values = {0, 1}
    Pushes = {p1, p2}
    Supervisor = sup
    WakeAttempts = 2
    MaxLinks = 2
    MaxPanel = 1
SPECIFICATION Spec
INVARIANTS NoOrphanChange ChangeDelivered
PROPERTIES NeverReverted
CHECK_DEADLOCK FALSE

CONSTANTS
    Keys = {"water"}
    Rank <- MCRank
    Values = {0, 1}
    Pushes = {p1, p2}
    Supervisor = sup
    WakeAttempts = 3
    MaxLinks = 2
    MaxPanel = 1
SPECIFICATION Spec
PROPERTIES ChangePushed TasksEnd
CHECK_DEADLOCK FALSE

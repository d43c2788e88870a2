SPECIFICATION IntentSpec
CONSTANTS
    Calls = {k1}
    Hasty = FALSE
    MaxReports = 2
INVARIANT TypeOK
PROPERTIES PollAgrees PauseKept ArmDroppedOnceLeft

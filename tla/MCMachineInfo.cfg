CONSTANTS
    MaxAttempts = 2
    MaxLinks = 3
    MaxSets = 2
SPECIFICATION Spec
INVARIANTS InfoRetried SettingsRequested BothRead ShownIsHeld
CHECK_DEADLOCK FALSE

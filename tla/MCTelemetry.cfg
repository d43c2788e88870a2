CONSTANTS
    Sizes = {1, 2}
    MaxLost = 1
    MaxDrops = 1
    MaxPresses = 2
SPECIFICATION Spec
INVARIANTS BrewNotSwallowed CalibrationNeverBrew NoStaleRun SweepSilent CalibrationBacked
PROPERTY OnlyByHand

CONSTANTS
    Modes <- AllModes
    MaxFrames = 4
    MaxRuns = 1
    MaxInputs = 1
    CanFail = FALSE
SPECIFICATION Spec
INVARIANTS SessionSurvives
CHECK_DEADLOCK FALSE

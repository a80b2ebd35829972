CONSTANTS
    Modes <- AllModes
    MaxFrames = 4
    MaxRuns = 2
    MaxInputs = 3
    CanFail = TRUE
SPECIFICATION Spec
INVARIANTS OneActionInFlight SettledTopology SettledView PromptIsOffered
PROPERTIES Settles
CHECK_DEADLOCK FALSE

SPECIFICATION FairSpec
CONSTANTS
    MaxRuns = 1
    InputCapacity = 1
    MaxFaults = 0
    DebugStops = FALSE
    TypeAhead = TRUE
    LatchedStop = TRUE
VIEW ProgressView
PROPERTIES CallsReturn

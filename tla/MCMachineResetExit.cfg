SPECIFICATION FairSpec
CONSTANTS
    MaxRuns = 2
    InputCapacity = 1
    MaxFaults = 0
    DebugStops = FALSE
    TypeAhead = FALSE
    LatchedStop = FALSE
VIEW ProgressView
PROPERTIES ExitEnds

SPECIFICATION Spec
CONSTANTS
    MaxRuns = 2
    InputCapacity = 1
    MaxFaults = 0
    DebugStops = FALSE
    TypeAhead = FALSE
    LatchedStop = TRUE
VIEW View
INVARIANTS StopLatchIsOfTheRun

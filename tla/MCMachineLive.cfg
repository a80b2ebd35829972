SPECIFICATION FairSpec
CONSTANTS
    MaxRuns = 2
    InputCapacity = 1
    MaxFaults = 0
    DebugStops = TRUE
    TypeAhead = FALSE
    LatchedStop = TRUE
VIEW ProgressView
PROPERTIES ServableCallsReturn OrderlyExitEnds StandingRequestsComplete

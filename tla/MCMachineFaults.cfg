SPECIFICATION FairSpec
CONSTANTS
    MaxRuns = 2
    InputCapacity = 1
    MaxFaults = 1
    DebugStops = FALSE
    TypeAhead = FALSE
    LatchedStop = FALSE
VIEW ProgressView
INVARIANTS NoLostCommand CallerIsAnswered
PROPERTIES OrderlyExitEnds

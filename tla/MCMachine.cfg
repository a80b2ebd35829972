SPECIFICATION Spec
CONSTANTS
    MaxRuns = 2
    InputCapacity = 2
    MaxFaults = 0
    DebugStops = TRUE
    TypeAhead = TRUE
    LatchedStop = TRUE
VIEW View
INVARIANTS
    TypeOK NoLostCommand CallerIsAnswered RunIsolation InputOnlyWhileRunning
    GuestRunsOnlyWhenAllowed StoppedIsQuiet CaptureIsStable DebugAnswerIsFresh
    MonitorSettles
PROPERTIES CaptureFreezesInput ErrorIsTerminal

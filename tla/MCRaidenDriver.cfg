CONSTANTS
    Capacity = 2
    Batch = 2
    MaxSubmission = 2
    EndpointFrames = 1
    MaxFrames = 6
    MaxEpoch = 1
    MaxDisturbances = 1
    BoardFrames = 2
SPECIFICATION DriverSpec
INVARIANTS WakeIsNotAStop
CHECK_DEADLOCK FALSE

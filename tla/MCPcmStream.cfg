CONSTANTS
    Capacity = 2
    Batch = 2
    MaxSubmission = 2
    EndpointFrames = 1
    MaxFrames = 3
    MaxEpoch = 1
    MaxDisturbances = 1
SPECIFICATION Spec
INVARIANTS TypeOK DeliveredInOrder ReturnMeansDone NoFalseAlarm
PROPERTIES Implements CallsReturn
CHECK_DEADLOCK FALSE

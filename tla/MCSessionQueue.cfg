SPECIFICATION Spec
CONSTANTS
    None = None
    InitialCapacity = 2
    MaxPushes = 5
    MaxFaults = 1
INVARIANTS TypeOK NothingSleeps NoSpuriousEnd
PROPERTIES Implements
CHECK_DEADLOCK FALSE

CONSTANTS
    Capacity = 2
    MaxPackets = 5
    Early = 1
    EarlyReset = TRUE
    Nobody = Nobody
SPECIFICATION Spec
PROPERTIES ConnectionEnds
CHECK_DEADLOCK FALSE

CONSTANTS
    Capacity = 2
    MaxPackets = 5
    Early = 1
    EarlyReset = FALSE
    Nobody = Nobody
SPECIFICATION ServerSpec
INVARIANTS TypeOK ReadsInOrder
PROPERTIES  EverythingEnds

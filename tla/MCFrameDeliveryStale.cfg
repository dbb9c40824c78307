CONSTANTS
    v1 = v1
    NoFrame = NoFrame
    MinCache = 1
    DtsSteps = {1}
    MaxFrames = 5
    Viewers = {v1}
    MaxQueue = 4
SPECIFICATION DeliverySpec
INVARIANT WrittenMediaEnabled

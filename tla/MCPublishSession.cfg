CONSTANTS
    DtsRange <- SmallDts
    MaxFrames = 4
    MaxStep = 3
    MinCache = 1
    AudioCodecs = {aac}
    VideoCodecs = {avc}
    SelfPointing = {avc}
    None = None
    NoFrame = NoFrame
SPECIFICATION SessionSpec
INVARIANTS TypeOK MetadataPublished DistancesKept SegmentsDisjoint
PROPERTY ImplementsCache

SPECIFICATION Spec
CONSTANTS
    MinCache = 2
    DtsSteps = {1, 2}
    MaxFrames = 7
    NoFrame = NoFrame
INVARIANTS
    TypeOK
    CacheStartsWithMetadata
    MetadataInForceKept
    CachedMediaIsSuffix
    TrimmedExactly
    

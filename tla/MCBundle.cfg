CONSTANTS
    MinChunk = 3
    MaxRetries = 2
    MaxFaults = 4
    Bundles <- MCBundles
    Systems <- MCSystems
    Truncations = {0, 2}
    Size <- MCSize
    BufferSize = 2
    AnyLength = 5
SPECIFICATION FairSpec
INVARIANTS BytesAccounted TargetIsPrefix InStep Survives
PROPERTIES KeepsPromise Ends
CHECK_DEADLOCK FALSE

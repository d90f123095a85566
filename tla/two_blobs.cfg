SPECIFICATION Spec
CONSTANTS
    Blobs = {"s", "l"}
    PartCount <- Sizes
    Elsewhere = {"s"}
    QueueSize = 2
    Faults = {"network", "evict", "crash", "panic", "stmt", "io", "expire"}
    MaxMishaps = 1
INVARIANTS
    BlobTypeOK
    StagedIsKept
    FlushIsHeard
PROPERTIES
    FlushMeansTried
    FaultsAloneForget
    ImplementsBlobLife

SPECIFICATION FairSpec
CONSTANTS
    Blobs = {"l"}
    PartCount <- Sizes
    Elsewhere = {}
    QueueSize = 2
    Faults = {"network", "evict", "crash", "panic", "stmt", "io", "expire"}
    MaxMishaps = 3
INVARIANTS
    UploadedIsStored
PROPERTIES
    StagedUploads
    RegisteredArrives
    FlushReturns

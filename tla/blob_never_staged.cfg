SPECIFICATION FairSpec
CONSTANTS
    Blobs = {"s"}
    PartCount <- Sizes
    Elsewhere = {}
    QueueSize = 2
    Faults = {"crash"}
    MaxMishaps = 1
PROPERTIES
    EveryPutUploads

SPECIFICATION FairSpec
CONSTANTS
    LogicalMax = 4
    Ids = {"x", "y"}
    Colls = {"papers"}
    PushBatch = 1
    Devices = {1, 2}
    Wall = {1}
    Faults <- ReaderFaults
    MaxWrites <- OnlyFirst
    MaxRetries = 1
INVARIANTS
    CheckpointIsComplete
    Converged
    LastWriteWins
PROPERTIES
    EventuallyTheSame

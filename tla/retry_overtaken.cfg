SPECIFICATION Spec
CONSTANTS
    LogicalMax = 4
    Ids = {"x", "y"}
    Colls = {"papers"}
    PushBatch = 2
    Devices = {1, 2}
    Wall = {1}
    Faults <- WriterNetwork
    MaxWrites <- OnlyFirst
    MaxRetries = 1
INVARIANTS
    Converged

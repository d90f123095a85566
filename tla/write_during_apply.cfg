SPECIFICATION Spec
CONSTANTS
    LogicalMax = 4
    Ids = {"x"}
    Colls = {"papers"}
    PushBatch = 2
    Devices = {1, 2}
    Wall = {1}
    Faults <- NoFaults
    MaxWrites <- OneEach
    MaxRetries = 1
INVARIANTS
    EveryWriteTracked

SPECIFICATION Spec
CONSTANTS
    LogicalMax = 1
    Ids = {"x"}
    Colls = {"papers", "notes"}
    PushBatch = 2
    Devices = {1, 2}
    Wall = {1}
    Faults <- AllFaults
    MaxWrites <- OneEach
    MaxRetries = 1
INVARIANTS
    TypeOK
    NothingForgotten
    NothingInvented
PROPERTIES
    ImplementsLww

SPECIFICATION FairSpec
CONSTANTS
    LogicalMax = 4
    Ids = {"x"}
    Colls = {"papers"}
    PushBatch = 2
    Devices = {1, 2}
    Wall = {1}
    Faults <- WriterNetwork
    MaxWrites <- OnlyFirst
    MaxRetries = 1
INVARIANTS
    OneVersionPerStamp
PROPERTIES
    EveryEntryLeaves

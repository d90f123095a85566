SPECIFICATION FairSpec
CONSTANTS
    Opens = 2
    QueueSize = 2
    MaxWrites = 3
INVARIANTS
    TriggerTypeOK
    NoWriteUnnoticed
PROPERTIES
    ForcedIsWhole
    ForceReturns
    EveryWriteGetsACycle
    CyclesGoOn
CHECK_DEADLOCK FALSE

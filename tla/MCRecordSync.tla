---------------------------- MODULE MCRecordSync ----------------------------
(***************************************************************************)
(* Small values for the runs of RecordSync.  Devices are 1 and 2; device 1  *)
(* writes and, in most runs, is the one that fails.                         *)
(***************************************************************************)
EXTENDS RecordSync

On(d, faults) == [e \in Devices |-> IF e = d THEN faults ELSE {}]

NoFaults      == [d \in Devices |-> {}]
AllFaults     == On(1, {"crash", "network", "db", "clear"})
JustCrash     == On(1, {"crash"})
WriterNetwork == On(1, {"network"})
ReaderFaults  == On(2, {"crash", "network", "db"})

OneEach    == [d \in Devices |-> 1]
OnlyFirst  == [d \in Devices |-> IF d = 1 THEN 2 ELSE 0]
OneThenTwo == [d \in Devices |-> IF d = 1 THEN 1 ELSE 2]
=============================================================================

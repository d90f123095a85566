----------------------------- MODULE BlobProofs -----------------------------
(***************************************************************************)
(* Safety of BlobSync for any blobs and sizes, any capacity of the channel,  *)
(* and any number of faults.                                                *)
(***************************************************************************)
EXTENDS BlobSync, TLAPS

UploadPCs == {"put", "create", "id", "parts", "part", "expired", "uploaded"}
DownloadPCs == {"fetch", "write", "arrived", "cached"}
RestPCs == {"idle", "dead", "list", "uploads", "downloads"}

\* The two halves of a blob's life: its file is the original, or the store has it
\* (or is said to).  A blob never goes back from the second to the first.
Uploadable(b) == row[b].staged /\ row[b].status \in {"pending", "uploading"}
Arriving(b) == row[b].status \in {"uploaded", "download_pending", "cached"}
Fresh(b) == row[b].status = "pending" /\ ~row[b].staged

Queued(kind, b, i) == i \in 1..Len(queue) /\ queue[i].kind = kind /\ queue[i].blob = b
FlushAt(i) == i \in 1..Len(queue) /\ queue[i].kind = "flush"

\* What a row means for the file and the object.
RowInv(b) ==
    /\ Uploadable(b) => file[b] = "whole"
    /\ row[b].status = "none" => ~row[b].staged
    /\ Arriving(b) /\ row[b].staged => remote[b] = "whole"
    /\ row[b].status \in {"uploaded", "cached"} => remote[b] = "whole"
    /\ remote[b] # "partial"
    /\ session[b].parts \subseteq Parts(b)
    /\ ~row[b].ready => row[b].failed

\* A copy is asked for once and made once.
QueueInv(b) ==
    /\ \A i \in Nat : Queued("stage", b, i) =>
          Fresh(b) /\ ~(w.cur = {b} /\ w.pc \in {"copy", "path"})
    /\ \A i, j \in Nat : Queued("stage", b, i) /\ Queued("stage", b, j) => i = j
    /\ \A i \in Nat : Queued("download", b, i) => Arriving(b)

\* What the worker knows of the blob at hand.
WorkInv(b) ==
    w.cur = {b} =>
        /\ w.pc \in {"copy", "path"} => Fresh(b) /\ w.ret = "idle"
        /\ w.pc = "path" => file[b] = "whole"
        /\ w.pc \in UploadPCs => Uploadable(b) /\ w.ret = "uploads"
        /\ w.pc = "part" => w.sent \subseteq Parts(b)
        /\ w.pc = "uploaded" => remote[b] = "whole"
        /\ w.pc \in DownloadPCs => Arriving(b)
        /\ w.pc = "write" => remote[b] = "whole"
        /\ w.pc \in {"arrived", "cached"} => file[b] = "whole" /\ remote[b] = "whole"

\* What a running cycle has listed.
TodoInv ==
    /\ w.pc \in RestPCs <=> w.cur = {}
    /\ w.cur \cap w.todo = {}
    /\ w.pc \in {"idle", "list"} \/ (w.cur # {} /\ w.ret = "idle") => w.todo = {}
    /\ Uploading => \A b \in w.todo : Uploadable(b)
    /\ Downloading => \A b \in w.todo : Arriving(b)

\* A flush is the last message, and nothing is sent after it until its pass has ended;
\* meanwhile every blob in the cache is to come, has been come to, or is backing off.
FlushInv ==
    /\ \A i \in Nat : FlushAt(i) => i = Len(queue) /\ waiting = "reply" /\ ~InFlush
    /\ InFlush => waiting = "reply" /\ queue = <<>>
    /\ waiting = "reply" => InFlush \/ \E i \in Nat : FlushAt(i)
    /\ InFlush /\ w.cur # {} /\ w.ret = "uploads" => w.cur \subseteq tried
    /\ InFlush /\ w.pc # "list" =>
          \A b \in Blobs : Uploadable(b) =>
              b \in tried \/ row[b].failed \/ (Uploading /\ b \in w.todo)

BlobInv ==
    /\ BlobTypeOK /\ TodoInv /\ FlushInv
    /\ \A b \in Blobs : RowInv(b) /\ QueueInv(b) /\ WorkInv(b)

-----------------------------------------------------------------------------
(***************************************************************************)
(* Types                                                                    *)
(***************************************************************************)

LEMMA StatementTypes ==
    ASSUME row \in [Blobs -> BlobRow], NEW b \in Blobs
    PROVE  /\ Insert(row, b) \in [Blobs -> BlobRow]
           /\ RegisterForDownload(row, b) \in [Blobs -> BlobRow]
           /\ \A s \in Statuses : SetStatus(row, b, s) \in [Blobs -> BlobRow]
           /\ SetLocalPath(row, b) \in [Blobs -> BlobRow]
           /\ SetUploadId(row, b) \in [Blobs -> BlobRow]
           /\ ClearUploadId(row, b) \in [Blobs -> BlobRow]
           /\ MarkBlobRetry(row, b) \in [Blobs -> BlobRow]
<1> USE DEF BlobRow, Statuses
<1>1. Insert(row, b) \in [Blobs -> BlobRow]
  BY DEF Insert, NoBlobRow
<1>2. RegisterForDownload(row, b) \in [Blobs -> BlobRow]
  BY DEF RegisterForDownload
<1>3. \A s \in Statuses : SetStatus(row, b, s) \in [Blobs -> BlobRow]
  BY DEF SetStatus
<1>4. SetLocalPath(row, b) \in [Blobs -> BlobRow]
  BY DEF SetLocalPath
<1>5. SetUploadId(row, b) \in [Blobs -> BlobRow]
  BY DEF SetUploadId
<1>6. ClearUploadId(row, b) \in [Blobs -> BlobRow]
  <2>1. [row[b] EXCEPT !.upload = FALSE, !.status = "pending", !.failed = FALSE, !.ready = TRUE]
          \in BlobRow
    OBVIOUS
  <2> QED
    BY <2>1 DEF ClearUploadId
<1>7. MarkBlobRetry(row, b) \in [Blobs -> BlobRow]
  BY DEF MarkBlobRetry
<1> QED
  BY <1>1, <1>2, <1>3, <1>4, <1>5, <1>6, <1>7

LEMMA MishapType ==
    ASSUME mishaps \in 0..MaxMishaps, NEW kind, Mishap(kind)
    PROVE  mishaps' \in 0..MaxMishaps
  BY BlobSyncAssumption DEF Mishap

LEMMA StatementRuns ==
    ASSUME BlobTypeOK, NEW rows \in [Blobs -> BlobRow], Statement(rows)
    PROVE  row' \in [Blobs -> BlobRow] /\ mishaps' \in 0..MaxMishaps /\ row' \in {row, rows}
<1>1. CASE row' = rows /\ UNCHANGED mishaps
  BY <1>1 DEF BlobTypeOK
<1>2. CASE Mishap("stmt") /\ UNCHANGED row
  BY <1>2, MishapType DEF BlobTypeOK
<1> QED
  BY <1>1, <1>2 DEF Statement

\* The fields of the worker after its three ways to move.
LEMMA GoToFields ==
    ASSUME w \in WorkerState, NEW pc \in PCs, GoTo(pc)
    PROVE  /\ w' \in WorkerState /\ w'.pc = pc /\ w'.cur = w.cur /\ w'.ret = w.ret
           /\ w'.pass = w.pass /\ w'.todo = w.todo /\ w'.sent = w.sent
  BY DEF GoTo, WorkerState

LEMMA TurnBackFields ==
    ASSUME w \in WorkerState, TurnBack
    PROVE  /\ w' \in WorkerState /\ w'.pc = w.ret /\ w'.cur = {} /\ w'.ret = w.ret
           /\ w'.pass = w.pass /\ w'.todo = w.todo /\ w'.sent = w.sent
  BY DEF TurnBack, WorkerState, PCs

LEMMA TurnToFields ==
    ASSUME w \in WorkerState, NEW pc \in PCs, NEW b \in Blobs, TurnTo(b, pc, "idle")
    PROVE  /\ w' \in WorkerState /\ w'.pc = pc /\ w'.cur = {b} /\ w'.ret = "idle"
           /\ w'.pass = w.pass /\ w'.todo = w.todo /\ w'.sent = w.sent
  BY DEF TurnTo, WorkerState

LEMMA PCTypes ==
    ASSUME w \in WorkerState
    PROVE  /\ UploadPCs \subseteq PCs /\ DownloadPCs \subseteq PCs /\ RestPCs \subseteq PCs
           /\ "failed" \in PCs /\ "copy" \in PCs /\ "path" \in PCs
           /\ w.ret \in RestPCs
  BY DEF UploadPCs, DownloadPCs, RestPCs, PCs, WorkerState

LEMMA InitBlobInv == Init => BlobInv
<1> SUFFICES ASSUME Init PROVE BlobInv
  OBVIOUS
<1>1. BlobTypeOK
  BY BlobSyncAssumption
  DEF Init, BlobTypeOK, BlobRow, NoBlobRow, Statuses, Contents, NoSession, Messages, Worker0,
    WorkerState, PCs
<1>2. TodoInv /\ FlushInv
  BY DEF Init, Worker0, TodoInv, FlushInv, RestPCs, Uploading, Downloading, InFlush, FlushAt
<1>3. ASSUME NEW b \in Blobs
      PROVE  RowInv(b) /\ QueueInv(b) /\ WorkInv(b)
  BY DEF Init, Worker0, NoBlobRow, NoSession, RowInv, QueueInv, WorkInv, Uploadable, Arriving,
    Queued
<1> QED
  BY <1>1, <1>2, <1>3 DEF BlobInv

-----------------------------------------------------------------------------
(***************************************************************************)
(* A step of the worker at one blob                                         *)
(***************************************************************************)

\* It changes nothing of the others, ...
OnlyAt(b) ==
    \A c \in Blobs \ {b} :
        row'[c] = row[c] /\ file'[c] = file[c] /\ remote'[c] = remote[c] /\ session'[c] = session[c]

\* ... the worker stays at the blob or turns back, ...
StaysOrReturns(b) ==
    /\ w' \in WorkerState /\ w'.pass = w.pass /\ w'.todo = w.todo /\ w'.ret = w.ret
    /\ \/ w'.cur = {b} /\ w'.pc \notin RestPCs
       \/ w'.cur = {} /\ w'.pc = w.ret
    /\ w'.cur = {b} /\ w'.pc \in {"copy", "path"} => w.pc \in {"copy", "path"}

\* ... and the row moves on, or not at all.
MovesOn(b) ==
    /\ Uploadable(b)' => Uploadable(b)
    /\ Fresh(b) => Fresh(b)'
    /\ Arriving(b) => Arriving(b)'
    /\ row[b].failed => row'[b].failed \/ w.ret = "uploads"

LEMMA StepAt ==
    ASSUME BlobInv, NEW b \in Blobs, w.cur = {b}, OnlyAt(b), StaysOrReturns(b), MovesOn(b),
           UNCHANGED channel
    PROVE  /\ TodoInv' /\ FlushInv' /\ QueueInv(b)'
           /\ \A c \in Blobs \ {b} : RowInv(c)' /\ QueueInv(c)' /\ WorkInv(c)'
<1>1. queue' = queue /\ waiting' = waiting /\ tried' = tried
  BY DEF channel
<1>2. \A c \in Blobs \ {b} :
         /\ Uploadable(c)' = Uploadable(c) /\ Arriving(c)' = Arriving(c) /\ Fresh(c)' = Fresh(c)
         /\ row'[c].failed = row[c].failed
  BY DEF OnlyAt, Uploadable, Arriving, Fresh
<1>3. w \in WorkerState /\ w.ret \in {"idle", "uploads", "downloads"} /\ w.pc \notin RestPCs
  BY DEF BlobInv, BlobTypeOK, WorkerState, TodoInv
<1>4. b \notin w.todo /\ w.todo \subseteq Blobs
  BY <1>3 DEF BlobInv, TodoInv, WorkerState
<1>5. /\ w.ret = "idle" => w.todo = {}
      /\ Uploading <=> w.ret = "uploads"
      /\ Downloading <=> w.ret = "downloads"
  BY <1>3 DEF BlobInv, TodoInv, Uploading, Downloading, RestPCs
<1>6. /\ Uploading' <=> w.ret = "uploads"
      /\ Downloading' <=> w.ret = "downloads"
  BY <1>3 DEF StaysOrReturns, Uploading, Downloading, RestPCs
<1>7. TodoInv'
  BY <1>2, <1>3, <1>4, <1>5, <1>6 DEF BlobInv, TodoInv, StaysOrReturns, RestPCs
<1>8. FlushInv'
  <2>1. /\ InFlush' <=> InFlush
        /\ w.pc # "list" /\ w'.pc # "list"
    BY <1>3, <1>5, <1>6 DEF StaysOrReturns, InFlush, RestPCs
  <2>2. InFlush /\ w.ret = "uploads" => b \in tried
    BY DEF BlobInv, FlushInv
  <2>3. \A i \in Nat : FlushAt(i)' <=> FlushAt(i)
    BY <1>1 DEF FlushAt
  <2>4. InFlush' => waiting' = "reply" /\ queue' = <<>>
    BY <1>1, <2>1 DEF BlobInv, FlushInv
  <2>5. \A i \in Nat : FlushAt(i)' => i = Len(queue') /\ waiting' = "reply" /\ ~InFlush'
    BY <1>1, <2>1, <2>3 DEF BlobInv, FlushInv
  <2>6. waiting' = "reply" => InFlush' \/ \E i \in Nat : FlushAt(i)'
    BY <1>1, <2>1, <2>3 DEF BlobInv, FlushInv
  <2>7. InFlush' /\ w'.cur # {} /\ w'.ret = "uploads" => w'.cur \subseteq tried'
    BY <1>1, <2>1, <2>2 DEF StaysOrReturns
  <2>8. ASSUME InFlush', NEW c \in Blobs, Uploadable(c)'
        PROVE  c \in tried' \/ row'[c].failed \/ (Uploading' /\ c \in w'.todo)
    <3>1. Uploadable(c)
      BY <1>2, <2>8 DEF MovesOn
    <3>2. c \in tried \/ row[c].failed \/ (Uploading /\ c \in w.todo)
      BY <2>1, <2>8, <3>1 DEF BlobInv, FlushInv
    <3> QED
      BY <1>1, <1>2, <1>4, <1>5, <1>6, <2>1, <2>2, <2>8, <3>2 DEF MovesOn, StaysOrReturns
  <2> QED
    BY <2>4, <2>5, <2>6, <2>7, <2>8 DEF FlushInv
<1>9. QueueInv(b)'
  BY <1>1 DEF BlobInv, QueueInv, Queued, MovesOn, StaysOrReturns
<1>10. ASSUME NEW c \in Blobs \ {b}
       PROVE  RowInv(c)' /\ QueueInv(c)' /\ WorkInv(c)'
  <2>1. RowInv(c)'
    BY <1>2 DEF BlobInv, RowInv, OnlyAt
  <2>2. w'.cur # {c}
    BY DEF StaysOrReturns
  <2>3. QueueInv(c)'
    BY <1>1, <1>2, <2>2 DEF BlobInv, QueueInv, Queued
  <2> QED
    BY <2>1, <2>2, <2>3 DEF WorkInv
<1> QED
  BY <1>7, <1>8, <1>9, <1>10

\* Hence what is left to show for such a step: its types, and what becomes of b.
LEMMA StepKeeps ==
    ASSUME BlobInv, NEW b \in Blobs, w.cur = {b}, OnlyAt(b), StaysOrReturns(b), MovesOn(b),
           UNCHANGED channel,
           row' \in [Blobs -> BlobRow], file' \in [Blobs -> Contents],
           remote' \in [Blobs -> Contents],
           session' \in [Blobs -> [open : BOOLEAN, parts : SUBSET Nat]],
           mishaps' \in 0..MaxMishaps, RowInv(b)', WorkInv(b)'
    PROVE  BlobInv'
<1>1. BlobTypeOK'
  BY DEF BlobInv, BlobTypeOK, StaysOrReturns, channel
<1> QED
  BY <1>1, StepAt DEF BlobInv

LEMMA AtTypes ==
    ASSUME BlobInv
    PROVE  /\ w \in WorkerState /\ row \in [Blobs -> BlobRow] /\ file \in [Blobs -> Contents]
           /\ remote \in [Blobs -> Contents]
           /\ session \in [Blobs -> [open : BOOLEAN, parts : SUBSET Nat]]
           /\ mishaps \in 0..MaxMishaps
  BY DEF BlobInv, BlobTypeOK

\* The copy, the answer of get_object and the file it is written to.
LEMMA FileStepKeeps ==
    ASSUME BlobInv, NEW b \in Blobs, CopyEnds(b) \/ GetObject(b) \/ WriteEnds(b)
    PROVE  BlobInv'
<1> USE AtTypes
<1>1. w.cur = {b} /\ UNCHANGED <<row, outside, channel>>
  BY DEF CopyEnds, GetObject, WriteEnds, At
<1>2. RowInv(b) /\ WorkInv(b)
  BY DEF BlobInv
<1>3. PICK pc \in {"path", "write", "arrived", "failed"} :
          /\ GoTo(pc)
          /\ pc = "path" => w.pc = "copy" /\ file' = [file EXCEPT ![b] = "whole"]
          /\ pc = "write" => w.pc = "fetch" /\ file' = [file EXCEPT ![b] = "partial"]
                             /\ remote[b] # "none"
          /\ pc = "arrived" => w.pc = "write" /\ file' = [file EXCEPT ![b] = remote[b]]
          /\ pc = "failed" => file' = file
  BY DEF CopyEnds, GetObject, WriteEnds, At, Fail
<1>4. /\ w' \in WorkerState /\ w'.pc = pc /\ w'.cur = w.cur /\ w'.ret = w.ret
      /\ w'.pass = w.pass /\ w'.todo = w.todo
  BY <1>3, GoToFields, PCTypes DEF UploadPCs, DownloadPCs
<1>5. OnlyAt(b) /\ StaysOrReturns(b) /\ MovesOn(b)
  <2>1. OnlyAt(b)
    BY <1>1, <1>3 DEF OnlyAt, outside
  <2>2. StaysOrReturns(b)
    BY <1>1, <1>3, <1>4 DEF StaysOrReturns, RestPCs
  <2>3. MovesOn(b)
    BY <1>1 DEF MovesOn, Uploadable, Fresh, Arriving
  <2> QED
    BY <2>1, <2>2, <2>3
<1>6. file' \in [Blobs -> Contents] /\ mishaps' \in 0..MaxMishaps
  <2>1. mishaps' \in 0..MaxMishaps
    BY MishapType DEF CopyEnds, GetObject, WriteEnds
  <2> QED
    BY <1>3, <2>1 DEF Contents
<1>7. RowInv(b)' /\ WorkInv(b)'
  <2>1. RowInv(b)'
    BY <1>1, <1>2, <1>3
    DEF RowInv, WorkInv, Uploadable, Fresh, Arriving, outside, DownloadPCs
  <2>2. WorkInv(b)'
    BY <1>1, <1>2, <1>3, <1>4
    DEF RowInv, WorkInv, Fresh, Arriving, outside, DownloadPCs, UploadPCs, Contents
  <2> QED
    BY <2>1, <2>2
<1> QED
  BY <1>1, <1>5, <1>6, <1>7, StepKeeps DEF outside

\* Failures of a request, and list_parts.
LEMMA LocalStepKeeps ==
    ASSUME BlobInv, NEW b \in Blobs, ListParts(b) \/ UploadFails(b) \/ GetFails(b)
    PROVE  BlobInv'
<1> USE AtTypes
<1>1. w.cur = {b} /\ UNCHANGED <<row, file, outside, channel>>
  BY DEF ListParts, UploadFails, GetFails, At
<1>2. RowInv(b) /\ WorkInv(b)
  BY DEF BlobInv
<1>3. /\ w' \in WorkerState /\ w'.cur = w.cur /\ w'.ret = w.ret
      /\ w'.pass = w.pass /\ w'.todo = w.todo
      /\ \/ w'.pc = "failed"
         \/ /\ w.pc = "parts" /\ w'.pc \in {"expired", "part"}
            /\ w'.sent = session[b].parts
  <2>1. CASE ListParts(b)
    BY <2>1 DEF ListParts, At, WorkerState, PCs
  <2>2. CASE UploadFails(b) \/ GetFails(b)
    <3>1. GoTo("failed")
      BY <2>2 DEF UploadFails, GetFails, Fail
    <3> QED
      BY <3>1, GoToFields, PCTypes
  <2> QED
    BY <2>1, <2>2
<1>4. OnlyAt(b) /\ StaysOrReturns(b) /\ MovesOn(b)
  BY <1>1, <1>3
  DEF OnlyAt, outside, StaysOrReturns, RestPCs, MovesOn, Uploadable, Fresh, Arriving
<1>5. mishaps' \in 0..MaxMishaps
  BY MishapType DEF ListParts, UploadFails, GetFails
<1>6. RowInv(b)' /\ WorkInv(b)'
  <2>1. RowInv(b)'
    BY <1>1, <1>2 DEF RowInv, Uploadable, Arriving, outside
  <2>2. WorkInv(b)'
    BY <1>1, <1>2, <1>3 DEF RowInv, WorkInv, Uploadable, outside, DownloadPCs, UploadPCs
  <2> QED
    BY <2>1, <2>2
<1> QED
  BY <1>1, <1>4, <1>5, <1>6, StepKeeps DEF outside

\* Requests that the store has evaluated, answered or not.
LEMMA StoreStepKeeps ==
    ASSUME BlobInv, NEW b \in Blobs,
           \/ PutObject(b) \/ CreateUpload(b) \/ CompleteUpload(b)
           \/ \E p \in Parts(b) : UploadPart(b, p)
    PROVE  BlobInv'
<1> USE AtTypes
<1>1. w.cur = {b} /\ UNCHANGED <<row, file, channel>> /\ w.pc \in UploadPCs
  BY DEF PutObject, CreateUpload, CompleteUpload, UploadPart, At, UploadPCs
<1>2. RowInv(b) /\ WorkInv(b)
  BY DEF BlobInv
<1>3. Uploadable(b) /\ file[b] = "whole" /\ w.ret = "uploads"
  BY <1>1, <1>2 DEF RowInv, WorkInv
<1>4. /\ w' \in WorkerState /\ w'.cur = w.cur /\ w'.ret = w.ret
      /\ w'.pass = w.pass /\ w'.todo = w.todo
      /\ \/ w'.pc = "failed"
         \/ PutObject(b) /\ w'.pc = "uploaded"
         \/ CreateUpload(b) /\ w'.pc = "id"
         \/ CompleteUpload(b) /\ w'.pc = "uploaded"
         \/ \E p \in Parts(b) : UploadPart(b, p) /\ w'.pc = "part" /\ w'.sent = w.sent \cup {p}
  <2>1. CASE GoTo("failed")
    BY <2>1, GoToFields, PCTypes
  <2>2. CASE PutObject(b) /\ GoTo("uploaded")
    BY <2>2, GoToFields, PCTypes DEF UploadPCs
  <2>3. CASE CreateUpload(b) /\ GoTo("id")
    BY <2>3, GoToFields, PCTypes DEF UploadPCs
  <2>4. CASE CompleteUpload(b) /\ GoTo("uploaded")
    BY <2>4, GoToFields, PCTypes DEF UploadPCs
  <2>5. CASE \E p \in Parts(b) : UploadPart(b, p) /\ w' = [w EXCEPT !.sent = @ \cup {p}]
    <3>1. PICK p \in Parts(b) : UploadPart(b, p) /\ w' = [w EXCEPT !.sent = @ \cup {p}]
      BY <2>5
    <3>2. p \in Nat /\ w.pc = "part"
      BY <3>1, BlobSyncAssumption DEF Parts, UploadPart, At
    <3> QED
      BY <3>1, <3>2 DEF WorkerState
  <2> QED
    BY <2>1, <2>2, <2>3, <2>4, <2>5
    DEF PutObject, CreateUpload, CompleteUpload, UploadPart, Answer, GoTo, Fail
<1>5. /\ remote' \in [Blobs -> Contents]
      /\ \A c \in Blobs \ {b} : remote'[c] = remote[c]
      /\ remote'[b] = remote[b] \/ remote'[b] = "whole"
      /\ PutObject(b) \/ CompleteUpload(b) => remote'[b] = "whole"
  <2>1. CASE PutObject(b)
    BY <1>3, <2>1 DEF PutObject, Contents
  <2>2. CASE CompleteUpload(b)
    <3>1. w.sent = Parts(b)
      BY <1>2, <2>2 DEF CompleteUpload, WorkInv, At, TotalParts
    <3> QED
      BY <1>3, <2>2, <3>1 DEF CompleteUpload, Contents
  <2>3. CASE CreateUpload(b) \/ \E p \in Parts(b) : UploadPart(b, p)
    <3>1. remote' = remote
      BY <2>3 DEF CreateUpload, UploadPart
    <3>2. PutObject(b) \/ CompleteUpload(b) => remote'[b] = "whole"
      BY <1>3, <2>1, <2>2
    <3> QED
      BY <3>1, <3>2
  <2> QED
    BY <2>1, <2>2, <2>3
<1>6. /\ session' \in [Blobs -> [open : BOOLEAN, parts : SUBSET Nat]]
      /\ \A c \in Blobs \ {b} : session'[c] = session[c]
      /\ session'[b].parts \subseteq Parts(b)
  <2>1. CASE PutObject(b)
    BY <1>2, <2>1 DEF PutObject, RowInv
  <2>2. CASE CompleteUpload(b)
    BY <2>2 DEF CompleteUpload, NoSession
  <2>3. CASE CreateUpload(b)
    BY <2>3 DEF CreateUpload
  <2>4. CASE \E p \in Parts(b) : UploadPart(b, p)
    <3>1. PICK p \in Parts(b) : session' = [session EXCEPT ![b].parts = @ \cup {p}]
      BY <2>4 DEF UploadPart
    <3>2. p \in Nat
      BY BlobSyncAssumption DEF Parts
    <3> QED
      BY <1>2, <3>1, <3>2 DEF RowInv
  <2> QED
    BY <2>1, <2>2, <2>3, <2>4
<1>7. mishaps' \in 0..MaxMishaps
  BY MishapType DEF PutObject, CreateUpload, CompleteUpload, UploadPart, Answer
<1>8. OnlyAt(b) /\ StaysOrReturns(b) /\ MovesOn(b)
  <2>1. OnlyAt(b)
    BY <1>1, <1>5, <1>6 DEF OnlyAt
  <2>2. StaysOrReturns(b)
    BY <1>1, <1>4 DEF StaysOrReturns, RestPCs
  <2>3. MovesOn(b)
    BY <1>1 DEF MovesOn, Uploadable, Fresh, Arriving
  <2> QED
    BY <2>1, <2>2, <2>3
<1>9. RowInv(b)' /\ WorkInv(b)'
  <2>1. RowInv(b)'
    BY <1>1, <1>2, <1>3, <1>5, <1>6 DEF RowInv, Uploadable, Arriving
  <2>2. w'.pc = "part" => w'.sent \subseteq Parts(b)
    BY <1>1, <1>2, <1>4 DEF WorkInv, UploadPart, At
  <2>3. Uploadable(b)'
    BY <1>1, <1>3 DEF Uploadable
  <2>4. WorkInv(b)'
    BY <1>3, <1>4, <1>5, <2>2, <2>3 DEF WorkInv, UploadPCs, DownloadPCs
  <2> QED
    BY <2>1, <2>4
<1> QED
  BY <1>1, <1>5, <1>6, <1>7, <1>8, <1>9, StepKeeps

\* What the worker writes to the row of the blob at hand, if the statement succeeds.
LEMMA RecordStepKeeps ==
    ASSUME BlobInv, NEW b \in Blobs,
           \/ RecordError(b) \/ UploadIdRecorded(b) \/ ForgetSession(b) \/ Uploaded(b)
           \/ RowUnread(b) \/ DownloadRecorded(b) \/ Cached(b)
    PROVE  BlobInv'
<1> USE AtTypes
<1>1. w.cur = {b} /\ UNCHANGED <<file, outside, channel>>
  BY DEF RecordError, UploadIdRecorded, ForgetSession, Uploaded, RowUnread, DownloadRecorded,
    Cached, At
<1>2. RowInv(b) /\ WorkInv(b)
  BY DEF BlobInv
<1>3. PICK rows \in [Blobs -> BlobRow] :
          /\ Statement(rows)
          /\ \/ RecordError(b) /\ rows = MarkBlobRetry(row, b)
             \/ UploadIdRecorded(b) /\ rows = SetUploadId(row, b)
             \/ ForgetSession(b) /\ rows = ClearUploadId(row, b)
             \/ Uploaded(b) /\ rows = SetStatus(row, b, "uploaded")
             \/ RowUnread(b) /\ rows = row
             \/ DownloadRecorded(b) /\ rows = SetLocalPath(row, b)
             \/ Cached(b) /\ rows = SetStatus(row, b, "cached")
  <2>1. "uploaded" \in Statuses /\ "cached" \in Statuses
    BY DEF Statuses
  <2> QED
    BY <2>1, StatementTypes
    DEF RecordError, UploadIdRecorded, ForgetSession, Uploaded, RowUnread, DownloadRecorded, Cached,
      Statement
<1>4. row' \in [Blobs -> BlobRow] /\ mishaps' \in 0..MaxMishaps /\ row' \in {row, rows}
  BY <1>3, StatementRuns DEF BlobInv
<1>5. /\ w' \in WorkerState /\ w'.ret = w.ret /\ w'.pass = w.pass /\ w'.todo = w.todo
      /\ \/ /\ RecordError(b) \/ Uploaded(b) \/ RowUnread(b) \/ Cached(b)
            /\ w'.cur = {} /\ w'.pc = w.ret
         \/ UploadIdRecorded(b) /\ w'.cur = {b} /\ w'.pc = "parts"
         \/ ForgetSession(b) /\ w'.cur = {b} /\ w'.pc = "failed"
         \/ DownloadRecorded(b) /\ w'.cur = {b} /\ w'.pc = "cached"
  <2>1. CASE (RecordError(b) \/ Uploaded(b) \/ RowUnread(b) \/ Cached(b)) /\ TurnBack
    BY <2>1, TurnBackFields
  <2>2. CASE UploadIdRecorded(b) /\ GoTo("parts")
    BY <1>1, <2>2, GoToFields, PCTypes DEF UploadPCs
  <2>3. CASE ForgetSession(b) /\ GoTo("failed")
    BY <1>1, <2>3, GoToFields, PCTypes
  <2>4. CASE DownloadRecorded(b) /\ GoTo("cached")
    BY <1>1, <2>4, GoToFields, PCTypes DEF DownloadPCs
  <2> QED
    BY <1>3, <2>1, <2>2, <2>3, <2>4
    DEF RecordError, UploadIdRecorded, ForgetSession, Uploaded, RowUnread, DownloadRecorded, Cached,
      Fail
<1>6. CASE row' = row
  <2>1. OnlyAt(b) /\ MovesOn(b)
    BY <1>1, <1>6 DEF OnlyAt, MovesOn, Uploadable, Fresh, Arriving, outside
  <2>2. StaysOrReturns(b)
    BY <1>5 DEF StaysOrReturns, RestPCs
  <2>3. RowInv(b)'
    BY <1>1, <1>2, <1>6 DEF RowInv, Uploadable, Arriving, outside
  <2>4. WorkInv(b)'
    BY <1>1, <1>2, <1>5, <1>6
    DEF WorkInv, Uploadable, Arriving, outside, UploadPCs, DownloadPCs, UploadIdRecorded,
      DownloadRecorded, At
  <2> QED
    BY <1>1, <1>4, <2>1, <2>2, <2>3, <2>4, StepKeeps DEF outside
<1>7. CASE row' = rows /\ row' # row
  <2>1. \A c \in Blobs \ {b} : row'[c] = row[c]
    BY <1>3, <1>7
    DEF MarkBlobRetry, SetUploadId, ClearUploadId, SetStatus, SetLocalPath
  <2>2. OnlyAt(b)
    BY <1>1, <2>1 DEF OnlyAt, outside
  <2>3. StaysOrReturns(b)
    BY <1>5 DEF StaysOrReturns, RestPCs
  <2>4. \/ w.pc = "failed" /\ w'.cur = {}
              /\ row'[b] = [row[b] EXCEPT !.failed = TRUE, !.ready = FALSE]
        \/ w.pc = "id" /\ w'.cur = {b} /\ w'.pc = "parts"
              /\ row'[b] = [row[b] EXCEPT !.upload = TRUE, !.status = "uploading"]
        \/ w.pc = "expired" /\ w'.cur = {b} /\ w'.pc = "failed"
              /\ row'[b] = [row[b] EXCEPT !.upload = FALSE, !.status = "pending",
                                         !.failed = FALSE, !.ready = TRUE]
        \/ w.pc = "uploaded" /\ w'.cur = {} /\ row'[b] = [row[b] EXCEPT !.status = "uploaded"]
        \/ w.pc = "arrived" /\ w'.cur = {b} /\ w'.pc = "cached"
              /\ row'[b] = [row[b] EXCEPT !.staged = TRUE]
        \/ w.pc = "cached" /\ w'.cur = {} /\ row'[b] = [row[b] EXCEPT !.status = "cached"]
    <3>1. \/ w.pc = "failed" /\ row' = MarkBlobRetry(row, b)
          \/ w.pc = "id" /\ row' = SetUploadId(row, b)
          \/ w.pc = "expired" /\ row' = ClearUploadId(row, b)
          \/ w.pc = "uploaded" /\ row' = SetStatus(row, b, "uploaded")
          \/ w.pc = "arrived" /\ row' = SetLocalPath(row, b)
          \/ w.pc = "cached" /\ row' = SetStatus(row, b, "cached")
      BY <1>3, <1>7
      DEF RecordError, UploadIdRecorded, ForgetSession, Uploaded, DownloadRecorded, Cached, At
    <3>2. /\ w.pc \in {"failed", "uploaded", "cached"} => w'.cur = {}
          /\ w.pc = "id" => w'.cur = {b} /\ w'.pc = "parts"
          /\ w.pc = "expired" => w'.cur = {b} /\ w'.pc = "failed"
          /\ w.pc = "arrived" => w'.cur = {b} /\ w'.pc = "cached"
      BY <1>5
      DEF RecordError, UploadIdRecorded, ForgetSession, Uploaded, RowUnread, DownloadRecorded,
        Cached, At
    <3> QED
      BY <3>1, <3>2 DEF MarkBlobRetry, SetUploadId, ClearUploadId, SetStatus, SetLocalPath
  <2>5. row[b] \in BlobRow
    OBVIOUS
  <2>6. MovesOn(b)
    BY <1>1, <1>2, <2>4, <2>5
    DEF MovesOn, WorkInv, Uploadable, Fresh, Arriving, BlobRow, UploadPCs, DownloadPCs
  <2>7. RowInv(b)'
    <3>1. CASE w.pc \in {"failed", "uploaded", "cached"}
      BY <1>1, <1>2, <2>4, <2>5, <3>1
      DEF RowInv, WorkInv, Uploadable, Arriving, BlobRow, UploadPCs, DownloadPCs, outside
    <3>2. CASE w.pc = "id"
      BY <1>1, <1>2, <2>4, <2>5, <3>2
      DEF RowInv, WorkInv, Uploadable, Arriving, BlobRow, UploadPCs, DownloadPCs, outside
    <3>3. CASE w.pc = "expired"
      <4>1. Uploadable(b)
        BY <1>1, <1>2, <3>3 DEF WorkInv, UploadPCs
      <4>2. row'[b] = [row[b] EXCEPT !.upload = FALSE, !.status = "pending",
                                     !.failed = FALSE, !.ready = TRUE]
        BY <2>4, <3>3
      <4> QED
        BY <1>1, <1>2, <2>5, <4>1, <4>2 DEF RowInv, Uploadable, Arriving, BlobRow, outside
    <3>4. CASE w.pc = "arrived"
      BY <1>1, <1>2, <2>4, <2>5, <3>4
      DEF RowInv, WorkInv, Uploadable, Arriving, BlobRow, UploadPCs, DownloadPCs, outside
    <3> QED
      BY <2>4, <3>1, <3>2, <3>3, <3>4
  <2>8. WorkInv(b)'
    <3>1. CASE w.pc \in {"failed", "uploaded", "cached"}
      BY <1>1, <1>2, <1>5, <2>4, <2>5, <3>1
      DEF WorkInv, Uploadable, Arriving, BlobRow, UploadPCs, DownloadPCs, outside
    <3>2. CASE w.pc \in {"id", "expired"}
      BY <1>1, <1>2, <1>5, <2>4, <2>5, <3>2
      DEF WorkInv, Uploadable, Arriving, BlobRow, UploadPCs, DownloadPCs, outside
    <3>3. CASE w.pc = "arrived"
      BY <1>1, <1>2, <1>5, <2>4, <2>5, <3>3
      DEF WorkInv, Uploadable, Arriving, BlobRow, UploadPCs, DownloadPCs, outside
    <3> QED
      BY <2>4, <3>1, <3>2, <3>3
  <2> QED
    BY <1>1, <1>4, <2>2, <2>3, <2>6, <2>7, <2>8, StepKeeps DEF outside
<1> QED
  BY <1>4, <1>6, <1>7

-----------------------------------------------------------------------------
(***************************************************************************)
(* A step of the worker between two blobs                                   *)
(***************************************************************************)

\* Rows, files and the store stay, and the worker has no blob at hand.
LEMMA RestKeeps ==
    ASSUME BlobInv, UNCHANGED <<row, file, outside, queue>>,
           w' \in WorkerState, w'.cur = {}, tried' \subseteq Blobs,
           waiting' \in {"no", "room", "reply"}, mishaps' \in 0..MaxMishaps, TodoInv', FlushInv'
    PROVE  BlobInv'
<1>1. BlobTypeOK'
  BY DEF BlobInv, BlobTypeOK, outside
<1>2. ASSUME NEW b \in Blobs
      PROVE  RowInv(b)' /\ QueueInv(b)' /\ WorkInv(b)'
  <2>1. RowInv(b)'
    BY DEF BlobInv, RowInv, Uploadable, Arriving, outside
  <2>2. QueueInv(b)'
    BY DEF BlobInv, QueueInv, Queued, Fresh, Arriving
  <2> QED
    BY <2>1, <2>2 DEF WorkInv
<1> QED
  BY <1>1, <1>2 DEF BlobInv

LEMMA CycleStepKeeps ==
    ASSUME BlobInv,
           ListUploads \/ ListFails \/ UploadsDone \/ DownloadListFails \/ PassEnds \/ Tick
    PROVE  BlobInv'
<1> USE AtTypes
<1>1. UNCHANGED <<row, file, outside, queue>> /\ w.cur = {}
  BY DEF ListUploads, ListFails, UploadsDone, DownloadListFails, PassEnds, Tick, BlobInv,
    TodoInv, RestPCs, channel
<1>2. /\ tried' \subseteq Blobs /\ waiting' \in {"no", "room", "reply"}
      /\ mishaps' \in 0..MaxMishaps
  BY MishapType
  DEF ListUploads, ListFails, UploadsDone, DownloadListFails, PassEnds, Tick, BlobInv, BlobTypeOK,
    channel
<1>3. CASE ListUploads
  <2>1. /\ w' \in WorkerState /\ w.pc = "list" /\ w'.pc = "uploads" /\ w'.cur = {}
        /\ w'.pass = w.pass
        /\ w'.todo = {b \in ListReady(row, {"pending", "uploading"}) : row[b].staged}
    BY <1>1, <1>3 DEF ListUploads, ListReady, WorkerState, PCs
  <2>2. TodoInv'
    BY <1>1, <2>1 DEF TodoInv, ListReady, Uploadable, Uploading, Downloading, RestPCs
  <2>3. FlushInv'
    <3>1. UNCHANGED channel /\ InFlush' = InFlush /\ Uploading'
      BY <1>1, <1>3, <2>1 DEF ListUploads, InFlush, Uploading, Downloading
    <3>2. \A b \in Blobs : Uploadable(b)' => row'[b].failed \/ b \in w'.todo
      BY <1>1, <2>1 DEF Uploadable, ListReady, BlobInv, RowInv, BlobRow
    <3> QED
      BY <2>1, <3>1, <3>2 DEF BlobInv, FlushInv, FlushAt, channel
  <2> QED
    BY <1>1, <1>2, <2>1, <2>2, <2>3, RestKeeps
<1>4. CASE ListFails
  <2>1. w' \in WorkerState /\ w.pc = "list" /\ w'.pc = "uploads" /\ w'.cur = {}
        /\ w'.pass = w.pass /\ w'.todo = {}
    BY <1>1, <1>4, GoToFields DEF ListFails, PCs, BlobInv, TodoInv
  <2>2. TodoInv'
    BY <1>1, <2>1 DEF TodoInv, Uploading, Downloading, RestPCs
  <2>3. FlushInv'
    <3>1. /\ UNCHANGED <<queue, waiting>> /\ InFlush' = InFlush /\ tried' = Blobs
      BY <1>1, <1>4, <2>1 DEF ListFails, InFlush, Uploading, Downloading
    <3> QED
      BY <2>1, <3>1 DEF BlobInv, FlushInv, FlushAt
  <2> QED
    BY <1>1, <1>2, <2>1, <2>2, <2>3, RestKeeps
<1>5. CASE UploadsDone \/ DownloadListFails
  <2>1. /\ w' \in WorkerState /\ w.pc = "uploads" /\ w.todo = {} /\ w'.cur = {}
        /\ w'.pass = w.pass /\ UNCHANGED channel
        /\ \/ w'.pc = "idle" /\ w.pass = "stage" /\ w'.todo = {}
           \/ w'.pc = "downloads" /\ \A b \in w'.todo : row[b].status = "download_pending"
    <3>1. PICK blobs \in {{}, ListReady(row, {"download_pending"})} :
             \/ w' = [w EXCEPT !.pc = "idle", !.sent = {}, !.resumed = FALSE] /\ w.pass = "stage"
             \/ StartDownloads(blobs)
      BY <1>5 DEF UploadsDone, DownloadListFails
    <3>2. blobs \subseteq Blobs /\ \A b \in blobs : row[b].status = "download_pending"
      BY DEF ListReady
    <3>3. w.pc = "uploads" /\ w.todo = {} /\ UNCHANGED channel
      BY <1>5 DEF UploadsDone, DownloadListFails
    <3>4. CASE w' = [w EXCEPT !.pc = "idle", !.sent = {}, !.resumed = FALSE] /\ w.pass = "stage"
      BY <1>1, <3>3, <3>4 DEF WorkerState, PCs
    <3>5. CASE StartDownloads(blobs)
      <4>1. w' \in WorkerState
        BY <3>2, <3>5 DEF StartDownloads, WorkerState, PCs
      <4>2. w'.pc = "downloads" /\ w'.todo = blobs /\ w'.cur = {} /\ w'.pass = w.pass
        BY <1>1, <3>5 DEF StartDownloads, WorkerState
      <4> QED
        BY <3>2, <3>3, <4>1, <4>2
    <3> QED
      BY <3>1, <3>4, <3>5
  <2>2. TodoInv'
    BY <1>1, <2>1 DEF TodoInv, Arriving, Uploading, Downloading, RestPCs
  <2>3. FlushInv'
    <3>1. InFlush' = InFlush /\ Uploading
      BY <1>1, <2>1 DEF InFlush, Uploading, Downloading
    <3>2. \A b \in Blobs : Uploadable(b)' = Uploadable(b)
      BY <1>1 DEF Uploadable
    <3> QED
      BY <1>1, <2>1, <3>1, <3>2 DEF BlobInv, FlushInv, FlushAt, channel
  <2> QED
    BY <1>1, <1>2, <2>1, <2>2, <2>3, RestKeeps
<1>6. CASE PassEnds
  <2>1. /\ w' \in WorkerState /\ w.pc = "downloads" /\ w'.pc = "idle" /\ w'.cur = {}
        /\ w'.pass = w.pass /\ w'.todo = {}
        /\ waiting' = IF w.pass = "flush" THEN "no" ELSE waiting
        /\ tried' = tried
    BY <1>1, <1>6, GoToFields DEF PassEnds, PCs
  <2>2. TodoInv'
    BY <1>1, <2>1 DEF TodoInv, Uploading, Downloading, RestPCs
  <2>3. FlushInv'
    <3>1. ~InFlush' /\ (InFlush <=> w.pass = "flush")
      BY <1>1, <2>1 DEF InFlush, Uploading, Downloading
    <3> QED
      BY <1>1, <2>1, <3>1 DEF BlobInv, FlushInv, FlushAt
  <2> QED
    BY <1>1, <1>2, <2>1, <2>2, <2>3, RestKeeps
<1>7. CASE Tick
  <2>1. /\ w' \in WorkerState /\ w.pc = "idle" /\ w'.pc = "list" /\ w'.cur = {}
        /\ w'.pass = "tick" /\ w'.todo = w.todo /\ UNCHANGED channel
    BY <1>1, <1>7 DEF Tick, WorkerState, PCs
  <2>2. TodoInv'
    BY <1>1, <2>1 DEF BlobInv, TodoInv, Uploading, Downloading, RestPCs
  <2>3. FlushInv'
    <3>1. ~InFlush' /\ ~InFlush
      BY <1>1, <2>1 DEF InFlush, Uploading, Downloading
    <3> QED
      BY <1>1, <2>1, <3>1 DEF BlobInv, FlushInv, FlushAt, channel
  <2> QED
    BY <1>1, <1>2, <2>1, <2>2, <2>3, RestKeeps
<1> QED
  BY <1>3, <1>4, <1>5, <1>6, <1>7

\* The running cycle comes to the next blob.
LEMMA NextBlobKeeps ==
    ASSUME BlobInv, NEW b \in Blobs, UploadBlob(b) \/ DownloadBlob(b)
    PROVE  BlobInv'
<1> USE AtTypes
<1>1. UNCHANGED <<row, file, outside, queue, waiting, mishaps>> /\ w.cur = {} /\ b \in w.todo
  BY DEF UploadBlob, DownloadBlob, BlobInv, TodoInv, RestPCs, channel
<1>2. /\ w' \in WorkerState /\ w'.cur = {b} /\ w'.pass = w.pass /\ w'.todo = w.todo \ {b}
      /\ \/ /\ w.pc = "uploads" /\ w'.pc \in {"put", "parts", "create"} /\ w'.ret = "uploads"
            /\ tried' = tried \cup {b}
         \/ w.pc = "downloads" /\ w'.pc = "fetch" /\ w'.ret = "downloads" /\ tried' = tried
  <2>1. CASE UploadBlob(b)
    <3>1. row[b].upload \in BOOLEAN
      BY DEF BlobRow
    <3>2. PICK pc \in {"put", "parts", "create"} :
             w' = [w EXCEPT !.todo = @ \ {b}, !.cur = {b}, !.ret = "uploads",
                            !.resumed = row[b].upload, !.pc = pc]
      BY <2>1 DEF UploadBlob
    <3>3. w' \in WorkerState
      BY <3>1, <3>2 DEF WorkerState, PCs
    <3>4. /\ w'.cur = {b} /\ w'.pass = w.pass /\ w'.todo = w.todo \ {b}
          /\ w'.pc = pc /\ w'.ret = "uploads"
      BY <3>2 DEF WorkerState
    <3>5. w.pc = "uploads" /\ tried' = tried \cup {b}
      BY <2>1 DEF UploadBlob
    <3> QED
      BY <3>2, <3>3, <3>4, <3>5
  <2>2. CASE DownloadBlob(b)
    BY <2>2 DEF DownloadBlob, WorkerState, PCs, channel
  <2> QED
    BY <2>1, <2>2
<1>3. /\ w.pc = "uploads" => Uploadable(b)
      /\ w.pc = "downloads" => Arriving(b)
  BY <1>1 DEF BlobInv, TodoInv, Uploading, Downloading
<1>4. BlobTypeOK'
  BY <1>1, <1>2 DEF BlobInv, BlobTypeOK, outside
<1>5. TodoInv'
  BY <1>1, <1>2
  DEF BlobInv, TodoInv, Uploading, Downloading, RestPCs, Uploadable, Arriving
<1>6. FlushInv'
  <2>1. /\ InFlush' = InFlush
        /\ Uploading' = Uploading
    BY <1>1, <1>2 DEF InFlush, Uploading, Downloading
  <2>2. \A c \in Blobs : Uploadable(c)' = Uploadable(c) /\ row'[c] = row[c]
    BY <1>1 DEF Uploadable
  <2> QED
    BY <1>1, <1>2, <2>1, <2>2 DEF BlobInv, FlushInv, FlushAt, Uploading
<1>7. ASSUME NEW c \in Blobs
      PROVE  RowInv(c)' /\ QueueInv(c)' /\ WorkInv(c)'
  <2>1. RowInv(c)'
    BY <1>1 DEF BlobInv, RowInv, Uploadable, Arriving, outside
  <2>2. QueueInv(c)'
    BY <1>1, <1>2 DEF BlobInv, QueueInv, Queued, Fresh, Arriving
  <2>3. WorkInv(c)'
    BY <1>1, <1>2, <1>3 DEF WorkInv, Uploadable, Arriving, UploadPCs, DownloadPCs
  <2> QED
    BY <2>1, <2>2, <2>3
<1> QED
  BY <1>4, <1>5, <1>6, <1>7 DEF BlobInv

-----------------------------------------------------------------------------
(***************************************************************************)
(* The channel                                                              *)
(***************************************************************************)

LEMMA Appending ==
    ASSUME NEW q \in Seq(Messages), NEW msg \in Messages
    PROVE  /\ Append(q, msg) \in Seq(Messages)
           /\ Len(Append(q, msg)) = Len(q) + 1
           /\ \A i \in 1..Len(q) : Append(q, msg)[i] = q[i]
           /\ Append(q, msg)[Len(q) + 1] = msg
  OBVIOUS

LEMMA Receiving ==
    ASSUME NEW q \in Seq(Messages), q # <<>>
    PROVE  /\ Tail(q) \in Seq(Messages)
           /\ Head(q) = q[1]
           /\ Len(q) \in Nat \ {0}
           /\ Len(Tail(q)) = Len(q) - 1
           /\ \A i \in 1..Len(Tail(q)) : Tail(q)[i] = q[i + 1]
  OBVIOUS

LEMMA EmptyQueue ==
    ASSUME NEW q \in Seq(Messages)
    PROVE  Len(q) = 0 <=> q = <<>>
  OBVIOUS

\* A message that is sent is the last one.
LEMMA SendPlaces ==
    ASSUME BlobTypeOK, NEW msg \in Messages, Len(queue) < QueueSize, queue' = Append(queue, msg)
    PROVE  /\ queue' \in Seq(Messages) /\ Len(queue') <= QueueSize
           /\ Len(queue') = Len(queue) + 1 /\ Len(queue) \in Nat
           /\ \A i \in Nat, kind \in {"stage", "download"}, b \in Blobs :
                Queued(kind, b, i)' <=>
                    \/ Queued(kind, b, i)
                    \/ i = Len(queue) + 1 /\ msg.kind = kind /\ msg.blob = b
           /\ \A i \in Nat :
                FlushAt(i)' <=> FlushAt(i) \/ (i = Len(queue) + 1 /\ msg.kind = "flush")
<1>1. queue \in Seq(Messages) /\ Len(queue) \in Nat /\ QueueSize \in Nat
  BY BlobSyncAssumption DEF BlobTypeOK
<1>2. /\ queue' \in Seq(Messages) /\ Len(queue') = Len(queue) + 1
      /\ \A i \in 1..Len(queue) : queue'[i] = queue[i]
      /\ queue'[Len(queue) + 1] = msg
  BY <1>1, Appending
<1>3. \A i \in Nat : i \in 1..Len(queue') <=> i \in 1..Len(queue) \/ i = Len(queue) + 1
  BY <1>1, <1>2
<1>4. Len(queue') <= QueueSize
  BY <1>1, <1>2
<1>5. \A i \in Nat, kind \in {"stage", "download"}, b \in Blobs :
        Queued(kind, b, i)' <=>
            \/ Queued(kind, b, i)
            \/ i = Len(queue) + 1 /\ msg.kind = kind /\ msg.blob = b
  BY <1>1, <1>2, <1>3 DEF Queued
<1>6. \A i \in Nat :
        FlushAt(i)' <=> FlushAt(i) \/ (i = Len(queue) + 1 /\ msg.kind = "flush")
  BY <1>1, <1>2, <1>3 DEF FlushAt
<1> QED
  BY <1>1, <1>2, <1>4, <1>5, <1>6

\* When one is taken, the others move up.
LEMMA TakePlaces ==
    ASSUME BlobTypeOK, NEW kind, Take(kind)
    PROVE  /\ queue' \in Seq(Messages) /\ Len(queue') <= QueueSize
           /\ Len(queue') = Len(queue) - 1 /\ Len(queue) \in Nat \ {0}
           /\ Head(queue) = queue[1] /\ queue[1].kind = kind
           /\ \A i \in Nat, k \in {"stage", "download"}, b \in Blobs :
                Queued(k, b, i)' => i # 0 /\ Queued(k, b, i + 1)
           /\ \A i \in Nat : FlushAt(i)' <=> i # 0 /\ FlushAt(i + 1)
<1>1. queue \in Seq(Messages) /\ queue # <<>> /\ queue' = Tail(queue) /\ Head(queue).kind = kind
  BY DEF BlobTypeOK, Take
<1>2. /\ queue' \in Seq(Messages) /\ Len(queue') = Len(queue) - 1
      /\ Len(queue) \in Nat \ {0} /\ Head(queue) = queue[1]
      /\ \A i \in 1..Len(queue') : queue'[i] = queue[i + 1]
  BY <1>1, Receiving
<1>3. Len(queue) <= QueueSize /\ QueueSize \in Nat
  BY BlobSyncAssumption DEF BlobTypeOK
<1>4. \A i \in Nat : i \in 1..Len(queue') <=> i # 0 /\ i + 1 \in 1..Len(queue)
  BY <1>2
<1>5. \A i \in Nat, k \in {"stage", "download"}, b \in Blobs :
        Queued(k, b, i)' => i # 0 /\ Queued(k, b, i + 1)
  BY <1>2, <1>4 DEF Queued
<1>6. \A i \in Nat : FlushAt(i)' <=> i # 0 /\ FlushAt(i + 1)
  BY <1>2, <1>4 DEF FlushAt
<1>7. Len(queue') <= QueueSize
  BY <1>2, <1>3
<1> QED
  BY <1>1, <1>2, <1>5, <1>6, <1>7

\* The worker takes a message for a blob.
LEMMA TakeBlobKeeps ==
    ASSUME BlobInv, NEW b \in Blobs, TakeStage(b) \/ TakeDownload(b)
    PROVE  BlobInv'
<1> USE AtTypes
<1>1. PICK kind \in {"stage", "download"} :
          /\ Take(kind) /\ Head(queue).blob = b
          /\ kind = "stage" <=> TakeStage(b)
          /\ kind = "download" => TakeDownload(b)
  BY DEF TakeStage, TakeDownload
<1>2. /\ UNCHANGED <<row, outside, waiting, tried>> /\ w.pc = "idle" /\ w.cur = {}
      /\ w.todo = {} /\ mishaps' \in 0..MaxMishaps
  BY <1>1, MishapType DEF Take, TakeStage, TakeDownload, BlobInv, TodoInv, RestPCs
<1>3. /\ w' \in WorkerState /\ w'.cur = {b} /\ w'.ret = "idle" /\ w'.todo = {}
      /\ \/ kind = "stage" /\ w'.pc \in {"copy", "failed"}
         \/ kind = "download" /\ w'.pc = "fetch"
  <2>1. PICK pc \in {"copy", "failed", "fetch"} :
           /\ TurnTo(b, pc, "idle")
           /\ \/ kind = "stage" /\ pc # "fetch"
              \/ kind = "download" /\ pc = "fetch"
    BY <1>1 DEF TakeStage, TakeDownload
  <2> QED
    BY <1>2, <2>1, TurnToFields, PCTypes DEF DownloadPCs
<1>4. /\ file' \in [Blobs -> Contents]
      /\ \A c \in Blobs \ {b} : file'[c] = file[c]
      /\ kind = "download" => file' = file
  BY <1>1 DEF TakeStage, TakeDownload, Contents
<1>5. /\ queue' \in Seq(Messages) /\ Len(queue') <= QueueSize
      /\ Len(queue') = Len(queue) - 1 /\ Len(queue) \in Nat \ {0}
      /\ queue[1].kind = kind /\ queue[1].blob = b
      /\ \A i \in Nat, k \in {"stage", "download"}, c \in Blobs :
           Queued(k, c, i)' => i # 0 /\ Queued(k, c, i + 1)
      /\ \A i \in Nat : FlushAt(i)' <=> i # 0 /\ FlushAt(i + 1)
  BY <1>1, TakePlaces DEF BlobInv
<1>6. Queued(kind, b, 1)
  BY <1>5 DEF Queued
<1>7. /\ kind = "stage" => Fresh(b) /\ \A i \in Nat : ~Queued("stage", b, i)'
      /\ kind = "download" => Arriving(b)
  <2>1. QueueInv(b)
    BY DEF BlobInv
  <2>2. ASSUME kind = "stage", NEW i \in Nat, Queued("stage", b, i)'
        PROVE  FALSE
    <3>1. i # 0 /\ i + 1 \in Nat /\ Queued("stage", b, i + 1)
      BY <1>5, <2>2
    <3>2. i + 1 = 1
      BY <1>6, <2>1, <2>2, <3>1 DEF QueueInv
    <3> QED
      BY <3>1, <3>2
  <2> QED
    BY <1>6, <2>1, <2>2 DEF QueueInv
<1>8. BlobTypeOK'
  BY <1>2, <1>3, <1>4, <1>5 DEF BlobInv, BlobTypeOK, outside
<1>9. TodoInv'
  BY <1>3 DEF TodoInv, RestPCs
<1>10. FlushInv'
  <2>1. ~InFlush /\ ~InFlush'
    BY <1>2, <1>3 DEF InFlush, Uploading, Downloading
  <2>2. ASSUME NEW i \in Nat, FlushAt(i)'
        PROVE  i = Len(queue') /\ waiting' = "reply"
    <3>1. i + 1 \in Nat /\ FlushAt(i + 1)
      BY <1>5, <2>2
    <3>2. i + 1 = Len(queue) /\ waiting = "reply"
      BY <3>1 DEF BlobInv, FlushInv
    <3> QED
      BY <1>2, <1>5, <3>2
  <2>3. ASSUME waiting = "reply"
        PROVE  \E i \in Nat : FlushAt(i)'
    <3>1. PICK i \in Nat : FlushAt(i)
      BY <2>1, <2>3 DEF BlobInv, FlushInv
    <3>2. i # 1 /\ i # 0
      BY <1>5, <3>1 DEF FlushAt
    <3>3. i - 1 \in Nat /\ i - 1 # 0 /\ FlushAt((i - 1) + 1)
      BY <3>1, <3>2
    <3> QED
      BY <1>5, <3>3
  <2> QED
    BY <1>2, <2>1, <2>2, <2>3 DEF FlushInv
<1>11. ASSUME NEW c \in Blobs
       PROVE  RowInv(c)' /\ QueueInv(c)' /\ WorkInv(c)'
  <2>1. RowInv(c) /\ QueueInv(c)
    BY DEF BlobInv
  <2>2. Uploadable(c)' = Uploadable(c) /\ Arriving(c)' = Arriving(c) /\ Fresh(c)' = Fresh(c)
    BY <1>2 DEF Uploadable, Arriving, Fresh
  <2>3. RowInv(c)'
    <3>1. Uploadable(c) => file'[c] = "whole"
      BY <1>3, <1>4, <1>7, <2>1 DEF RowInv, Fresh, Uploadable
    <3> QED
      BY <1>2, <2>1, <2>2, <3>1 DEF RowInv, outside
  <2>4. QueueInv(c)'
    <3>1. ASSUME NEW i \in Nat, Queued("stage", c, i)'
          PROVE  Fresh(c)' /\ ~(w'.cur = {c} /\ w'.pc \in {"copy", "path"})
      <4>1. i + 1 \in Nat /\ Queued("stage", c, i + 1)
        BY <1>5, <3>1
      <4>2. Fresh(c)
        BY <2>1, <4>1 DEF QueueInv
      <4> QED
        BY <1>3, <1>7, <2>2, <3>1, <4>2
    <3>2. ASSUME NEW i \in Nat, NEW j \in Nat, Queued("stage", c, i)', Queued("stage", c, j)'
          PROVE  i = j
      <4>1. i + 1 \in Nat /\ j + 1 \in Nat /\ Queued("stage", c, i + 1) /\ Queued("stage", c, j + 1)
        BY <1>5, <3>2
      <4>2. i + 1 = j + 1
        BY <2>1, <4>1 DEF QueueInv
      <4> QED
        BY <4>2
    <3>3. ASSUME NEW i \in Nat, Queued("download", c, i)'
          PROVE  Arriving(c)'
      <4>1. i + 1 \in Nat /\ Queued("download", c, i + 1)
        BY <1>5, <3>3
      <4> QED
        BY <2>1, <2>2, <4>1 DEF QueueInv
    <3> QED
      BY <3>1, <3>2, <3>3 DEF QueueInv
  <2>5. WorkInv(c)'
    BY <1>3, <1>7, <2>2 DEF WorkInv, UploadPCs, DownloadPCs
  <2> QED
    BY <2>3, <2>4, <2>5
<1> QED
  BY <1>8, <1>9, <1>10, <1>11 DEF BlobInv

\* The worker takes a flush: it was the last message.
LEMMA TakeFlushKeeps ==
    ASSUME BlobInv, TakeFlush
    PROVE  BlobInv'
<1> USE AtTypes
<1>1. /\ Take("flush") /\ UNCHANGED <<row, file, outside, waiting, tried, mishaps>>
      /\ w.pc = "idle" /\ w.cur = {} /\ w.todo = {}
  BY DEF Take, TakeFlush, BlobInv, TodoInv, RestPCs
<1>2. /\ w' \in WorkerState /\ w'.cur = {} /\ w'.pc = "list" /\ w'.pass = "flush"
      /\ w'.todo = {}
  BY <1>1 DEF TakeFlush, WorkerState, PCs
<1>3. /\ queue' \in Seq(Messages) /\ Len(queue') <= QueueSize
      /\ Len(queue') = Len(queue) - 1 /\ Len(queue) \in Nat \ {0} /\ queue[1].kind = "flush"
  BY <1>1, TakePlaces DEF BlobInv
<1>4. FlushAt(1)
  BY <1>3 DEF FlushAt
<1>5. queue' = <<>> /\ waiting = "reply"
  <2>1. Len(queue) = 1 /\ waiting = "reply"
    BY <1>4 DEF BlobInv, FlushInv
  <2>2. Len(queue') = 0
    <3> DEFINE n == Len(queue)
    <3>1. n = 1 /\ Len(queue') = n - 1
      BY <1>3, <2>1
    <3> HIDE DEF n
    <3> QED
      BY <3>1
  <2> QED
    BY <1>3, <2>1, <2>2, EmptyQueue
<1>6. BlobTypeOK'
  BY <1>1, <1>2, <1>3 DEF BlobInv, BlobTypeOK, outside
<1>7. TodoInv'
  BY <1>2 DEF TodoInv, Uploading, Downloading, RestPCs
<1>8. \A i \in Nat : i \notin 1..Len(queue')
  <2>1. Len(queue') = 0
    BY <1>3, <1>5, EmptyQueue
  <2> QED
    BY <2>1
<1>9. FlushInv'
  BY <1>1, <1>2, <1>5, <1>8 DEF FlushInv, FlushAt, InFlush, Uploading, Downloading
<1>10. ASSUME NEW c \in Blobs
       PROVE  RowInv(c)' /\ QueueInv(c)' /\ WorkInv(c)'
  <2>1. RowInv(c)'
    BY <1>1 DEF BlobInv, RowInv, Uploadable, Arriving, outside
  <2> QED
    BY <1>2, <1>8, <2>1 DEF QueueInv, Queued, WorkInv
<1> QED
  BY <1>6, <1>7, <1>9, <1>10 DEF BlobInv

\* set_local_path_and_size has been tried, and an upload cycle begins.
LEMMA StageRecordedKeeps ==
    ASSUME BlobInv, NEW b \in Blobs, StageRecorded(b)
    PROVE  BlobInv'
<1> USE AtTypes
<1>1. /\ w.pc = "path" /\ w.cur = {b} /\ UNCHANGED <<file, outside, channel>>
      /\ Statement(SetLocalPath(row, b))
  BY DEF StageRecorded, At
<1>2. Fresh(b) /\ w.ret = "idle" /\ file[b] = "whole" /\ w.todo = {}
  BY <1>1 DEF BlobInv, WorkInv, TodoInv
<1>3. /\ row' \in [Blobs -> BlobRow] /\ mishaps' \in 0..MaxMishaps
      /\ row' \in {row, SetLocalPath(row, b)}
  BY <1>1, StatementTypes, StatementRuns DEF BlobInv
<1>4. /\ w' \in WorkerState /\ w'.pc = "list" /\ w'.cur = {} /\ w'.pass = "stage"
      /\ w'.todo = {}
  BY <1>2 DEF StageRecorded, WorkerState, PCs
<1>5. /\ \A c \in Blobs \ {b} : row'[c] = row[c]
      /\ row'[b].status = "pending" /\ row'[b].ready = row[b].ready
      /\ row'[b].failed = row[b].failed
  BY <1>2, <1>3 DEF SetLocalPath, BlobRow, Fresh
<1>6. BlobTypeOK'
  BY <1>1, <1>3, <1>4 DEF BlobInv, BlobTypeOK, outside, channel
<1>7. TodoInv'
  BY <1>4 DEF TodoInv, Uploading, Downloading, RestPCs
<1>8. FlushInv'
  <2>1. ~InFlush /\ ~InFlush'
    BY <1>1, <1>2, <1>4 DEF InFlush, Uploading, Downloading
  <2> QED
    BY <1>1, <2>1 DEF BlobInv, FlushInv, FlushAt, channel
<1>9. ASSUME NEW c \in Blobs
      PROVE  RowInv(c)' /\ QueueInv(c)' /\ WorkInv(c)'
  <2>1. RowInv(c) /\ QueueInv(c)
    BY DEF BlobInv
  <2>2. RowInv(c)'
    BY <1>1, <1>2, <1>5, <2>1 DEF RowInv, Uploadable, Arriving, outside
  <2>3. QueueInv(c)'
    <3>1. CASE c = b
      <4>1. \A i \in Nat : ~Queued("stage", b, i) /\ ~Queued("download", b, i)
        BY <1>1, <1>2, <2>1, <3>1 DEF QueueInv, Fresh, Arriving
      <4> QED
        BY <1>1, <3>1, <4>1 DEF QueueInv, Queued, channel
    <3>2. CASE c # b
      BY <1>1, <1>4, <1>5, <2>1, <3>2 DEF QueueInv, Queued, Fresh, Arriving, channel
    <3> QED
      BY <3>1, <3>2
  <2> QED
    BY <1>4, <2>2, <2>3 DEF WorkInv
<1> QED
  BY <1>6, <1>7, <1>8, <1>9 DEF BlobInv

-----------------------------------------------------------------------------
(***************************************************************************)
(* The actor, time, the outside and faults                                  *)
(***************************************************************************)

\* The worker's knowledge lasts while others act.
LEMMA WorkerStays ==
    ASSUME BlobInv, UNCHANGED <<w, remote>>,
           \A c \in Blobs : /\ Uploadable(c)' = Uploadable(c)
                            /\ Fresh(c) => Fresh(c)'
                            /\ Arriving(c) => Arriving(c)'
                            /\ w.cur = {c} => file'[c] = file[c]
    PROVE  TodoInv' /\ \A c \in Blobs : WorkInv(c)'
<1>1. w.todo \subseteq Blobs
  BY AtTypes DEF WorkerState
<1>2. TodoInv'
  BY <1>1 DEF BlobInv, TodoInv, Uploading, Downloading
<1>3. ASSUME NEW c \in Blobs
      PROVE  WorkInv(c)'
  BY DEF BlobInv, WorkInv
<1> QED
  BY <1>2, <1>3

LEMMA NoFlush ==
    ASSUME BlobInv, waiting # "reply"
    PROVE  ~InFlush /\ \A i \in Nat : ~FlushAt(i)
  BY DEF BlobInv, FlushInv

LEMMA TrySendRuns ==
    ASSUME BlobTypeOK, NEW msg \in Messages, msg.kind # "flush", queue' = TrySend(msg)
    PROVE  /\ queue' \in Seq(Messages) /\ Len(queue') <= QueueSize
           /\ \A i \in Nat : FlushAt(i)' <=> FlushAt(i)
           /\ \/ queue' = queue
              \/ \A i \in Nat, kind \in {"stage", "download"}, b \in Blobs :
                   Queued(kind, b, i)' <=>
                       \/ Queued(kind, b, i)
                       \/ i = Len(queue) + 1 /\ msg.kind = kind /\ msg.blob = b
<1>1. CASE queue' = queue
  BY <1>1 DEF BlobTypeOK, FlushAt
<1>2. CASE Len(queue) < QueueSize /\ queue' = Append(queue, msg)
  BY <1>2, SendPlaces
<1> QED
  BY <1>1, <1>2 DEF TrySend

LEMMA PutKeeps ==
    ASSUME BlobInv, NEW b \in Blobs, PutBlob(b)
    PROVE  BlobInv'
<1> DEFINE msg == [kind |-> "stage", blob |-> b]
<1> USE AtTypes
<1>1. /\ waiting = "no" /\ row[b].status = "none" /\ row' = Insert(row, b)
      /\ queue' = TrySend(msg) /\ UNCHANGED <<file, outside, waiting, tried, w, mishaps>>
  BY DEF PutBlob, Exists
<1>2. msg \in Messages /\ msg.kind = "stage" /\ msg.blob = b
  BY DEF Messages
<1> HIDE DEF msg
<1>3. /\ row' \in [Blobs -> BlobRow] /\ \A c \in Blobs \ {b} : row'[c] = row[c]
      /\ row'[b].status = "pending" /\ ~row'[b].staged /\ row'[b].ready
  BY <1>1, StatementTypes DEF Insert, NoBlobRow
<1>4. /\ queue' \in Seq(Messages) /\ Len(queue') <= QueueSize
      /\ \A i \in Nat : FlushAt(i)' <=> FlushAt(i)
      /\ \A i \in Nat, kind \in {"stage", "download"}, c \in Blobs :
           Queued(kind, c, i)' =>
               \/ Queued(kind, c, i)
               \/ i = Len(queue) + 1 /\ kind = "stage" /\ c = b
  BY <1>1, <1>2, TrySendRuns DEF BlobInv, Queued
<1>5. BlobTypeOK'
  BY <1>1, <1>3, <1>4 DEF BlobInv, BlobTypeOK, outside
<1>6. \A c \in Blobs : /\ Uploadable(c)' = Uploadable(c)
                       /\ Fresh(c) => Fresh(c)'
                       /\ Arriving(c) => Arriving(c)'
  BY <1>1, <1>3 DEF BlobInv, RowInv, Uploadable, Fresh, Arriving
<1>7. TodoInv' /\ \A c \in Blobs : WorkInv(c)'
  BY <1>1, <1>6, WorkerStays DEF outside
<1>8. FlushInv'
  <2>1. ~InFlush /\ \A i \in Nat : ~FlushAt(i)
    BY <1>1, NoFlush
  <2>2. ~InFlush'
    BY <1>1, <2>1 DEF InFlush, Uploading, Downloading
  <2> QED
    BY <1>1, <1>4, <2>1, <2>2 DEF FlushInv
<1>9. ASSUME NEW c \in Blobs
      PROVE  RowInv(c)' /\ QueueInv(c)'
  <2>1. RowInv(c) /\ QueueInv(c) /\ WorkInv(c)
    BY DEF BlobInv
  <2>2. RowInv(c)'
    BY <1>1, <1>3, <2>1 DEF RowInv, Uploadable, Arriving, outside
  <2>3. CASE c # b
    BY <1>1, <1>4, <1>6, <2>1, <2>2, <2>3 DEF QueueInv
  <2>4. CASE c = b
    <3>1. ~Fresh(b) /\ ~Arriving(b) /\ Fresh(b)'
      BY <1>1, <1>3 DEF Fresh, Arriving
    <3>2. \A i \in Nat : ~Queued("stage", b, i) /\ ~Queued("download", b, i)
      BY <2>1, <2>4, <3>1 DEF QueueInv
    <3>3. ~(w.cur = {b} /\ w.pc \in {"copy", "path"})
      BY <2>1, <2>4, <3>1 DEF WorkInv
    <3> QED
      BY <1>1, <1>4, <2>2, <2>4, <3>1, <3>2, <3>3 DEF QueueInv
  <2> QED
    BY <2>2, <2>3, <2>4
<1> QED
  BY <1>5, <1>7, <1>8, <1>9 DEF BlobInv

\* Requests that change no row.
LEMMA RequestKeeps ==
    ASSUME BlobInv, (\E b \in Blobs : GetBlob(b)) \/ ForceFlush \/ FlushSent
    PROVE  BlobInv'
<1> USE AtTypes
<1>1. /\ UNCHANGED <<row, file, outside, w, mishaps>> /\ waiting # "reply"
      /\ waiting' \in {"no", "room", "reply"} /\ tried' \subseteq Blobs
  BY DEF GetBlob, ForceFlush, FlushSent, BlobInv, BlobTypeOK
<1>2. ~InFlush /\ ~InFlush' /\ \A i \in Nat : ~FlushAt(i)
  <2>1. ~InFlush /\ \A i \in Nat : ~FlushAt(i)
    BY <1>1, NoFlush
  <2> QED
    BY <1>1, <2>1 DEF InFlush, Uploading, Downloading
<1>3. \A c \in Blobs : /\ Uploadable(c)' = Uploadable(c) /\ Fresh(c)' = Fresh(c)
                       /\ Arriving(c)' = Arriving(c)
  BY <1>1 DEF Uploadable, Fresh, Arriving
<1>4. TodoInv' /\ \A c \in Blobs : WorkInv(c)'
  BY <1>1, <1>3, WorkerStays DEF outside
<1>5. /\ queue' \in Seq(Messages) /\ Len(queue') <= QueueSize
      /\ FlushInv'
      /\ \A i \in Nat, c \in Blobs :
           /\ Queued("stage", c, i)' => Queued("stage", c, i)
           /\ Queued("download", c, i)' => Queued("download", c, i) \/ Arriving(c)
  <2>1. CASE \E b \in Blobs : GetBlob(b)
    <3>1. PICK b \in Blobs : GetBlob(b)
      BY <2>1
    <3> DEFINE msg == [kind |-> "download", blob |-> b]
    <3>2. /\ msg \in Messages /\ msg.kind = "download" /\ msg.blob = b
          /\ queue' = TrySend(msg) /\ Arriving(b) /\ waiting' = waiting /\ tried' = tried
      BY <3>1 DEF GetBlob, Messages, Arriving
    <3> HIDE DEF msg
    <3>3. /\ queue' \in Seq(Messages) /\ Len(queue') <= QueueSize
          /\ \A i \in Nat : FlushAt(i)' <=> FlushAt(i)
          /\ \A i \in Nat, kind \in {"stage", "download"}, c \in Blobs :
               Queued(kind, c, i)' => Queued(kind, c, i) \/ (kind = "download" /\ c = b)
      BY <3>2, TrySendRuns DEF BlobInv, Queued
    <3>4. FlushInv'
      BY <1>1, <1>2, <3>2, <3>3 DEF FlushInv
    <3> QED
      BY <3>2, <3>3, <3>4
  <2>2. CASE ForceFlush
    <3>1. queue' = queue /\ tried' = tried /\ waiting' = "room"
      BY <2>2 DEF ForceFlush
    <3> QED
      BY <1>2, <3>1 DEF BlobInv, BlobTypeOK, FlushInv, FlushAt, Queued
  <2>3. CASE FlushSent
    <3> DEFINE msg == [kind |-> "flush"]
    <3>1. /\ msg \in Messages /\ msg.kind = "flush" /\ Len(queue) < QueueSize
          /\ queue' = Append(queue, msg) /\ waiting' = "reply"
      BY <2>3 DEF FlushSent, Messages
    <3> HIDE DEF msg
    <3>2. /\ queue' \in Seq(Messages) /\ Len(queue') <= QueueSize
          /\ Len(queue') = Len(queue) + 1 /\ Len(queue) \in Nat
          /\ \A i \in Nat, kind \in {"stage", "download"}, c \in Blobs :
               Queued(kind, c, i)' => Queued(kind, c, i)
          /\ \A i \in Nat : FlushAt(i)' <=> FlushAt(i) \/ i = Len(queue) + 1
      BY <3>1, SendPlaces DEF BlobInv
    <3>3. FlushInv'
      <4>1. Len(queue) + 1 \in Nat
        BY <3>2
      <4> QED
        BY <1>2, <3>1, <3>2, <4>1 DEF FlushInv
    <3> QED
      BY <3>2, <3>3
  <2> QED
    BY <2>1, <2>2, <2>3
<1>6. BlobTypeOK'
  BY <1>1, <1>5 DEF BlobInv, BlobTypeOK, outside
<1>7. ASSUME NEW c \in Blobs
      PROVE  RowInv(c)' /\ QueueInv(c)'
  <2>1. RowInv(c) /\ QueueInv(c)
    BY DEF BlobInv
  <2>2. RowInv(c)'
    BY <1>1, <2>1 DEF RowInv, Uploadable, Arriving, outside
  <2>3. QueueInv(c)'
    BY <1>1, <1>3, <1>5, <2>1 DEF QueueInv
  <2> QED
    BY <2>2, <2>3
<1> QED
  BY <1>4, <1>5, <1>6, <1>7 DEF BlobInv

\* Registration, the passing of time, evictions and expiry: the channel stays.
LEMMA OutsideKeeps ==
    ASSUME BlobInv, NEW b \in Blobs,
           \/ RegisterRemoteBlob(b) \/ BlobBackoffPasses(b) \/ Evict(b) \/ SessionExpires(b)
    PROVE  BlobInv'
<1> USE AtTypes
<1>1. UNCHANGED <<remote, channel, w>>
  BY DEF RegisterRemoteBlob, BlobBackoffPasses, Evict, SessionExpires, outside
<1>2. /\ row' \in [Blobs -> BlobRow] /\ \A c \in Blobs \ {b} : row'[c] = row[c]
      /\ row'[b].staged = row[b].staged /\ row'[b].failed = row[b].failed
      /\ row'[b].ready = row[b].ready \/ row'[b].ready
      /\ \/ row'[b].status = row[b].status
         \/ row[b].status \in {"none", "uploaded"} /\ row'[b].status = "download_pending"
  <2>1. CASE RegisterRemoteBlob(b)
    BY <2>1, StatementTypes DEF RegisterRemoteBlob, RegisterForDownload, BlobRow
  <2>2. CASE BlobBackoffPasses(b)
    BY <2>2 DEF BlobBackoffPasses, BlobRow
  <2>3. CASE Evict(b) \/ SessionExpires(b)
    BY <2>3 DEF Evict, SessionExpires
  <2> QED
    BY <2>1, <2>2, <2>3
<1>3. /\ file' \in [Blobs -> Contents]
      /\ \A c \in Blobs : \/ file'[c] = file[c]
                          \/ w.cur # {c} /\ row[c].status \in {"uploaded", "cached"}
  BY DEF RegisterRemoteBlob, BlobBackoffPasses, Evict, SessionExpires, Contents
<1>4. /\ session' \in [Blobs -> [open : BOOLEAN, parts : SUBSET Nat]]
      /\ \A c \in Blobs : session'[c] = session[c] \/ session'[c].parts = {}
  <2>1. CASE SessionExpires(b)
    <3>1. session' = [session EXCEPT ![b] = NoSession]
      BY <2>1 DEF SessionExpires
    <3>2. NoSession \in [open : BOOLEAN, parts : SUBSET Nat] /\ NoSession.parts = {}
      BY DEF NoSession
    <3> QED
      BY <3>1, <3>2
  <2>2. CASE session' = session
    BY <2>2
  <2> QED
    BY <2>1, <2>2 DEF RegisterRemoteBlob, BlobBackoffPasses, Evict, outside
<1>5. mishaps' \in 0..MaxMishaps
  BY MishapType DEF RegisterRemoteBlob, BlobBackoffPasses, Evict, SessionExpires
<1>6. \A c \in Blobs : /\ Uploadable(c)' = Uploadable(c)
                       /\ Fresh(c) => Fresh(c)'
                       /\ Arriving(c) => Arriving(c)'
                       /\ row'[c].failed = row[c].failed
  BY <1>2 DEF BlobInv, RowInv, Uploadable, Fresh, Arriving
<1>7. BlobTypeOK'
  BY <1>1, <1>2, <1>3, <1>4, <1>5 DEF BlobInv, BlobTypeOK, channel
<1>8. TodoInv' /\ \A c \in Blobs : WorkInv(c)'
  BY <1>1, <1>3, <1>6, WorkerStays
<1>9. FlushInv'
  <2>1. InFlush' = InFlush /\ Uploading' = Uploading
    BY <1>1 DEF InFlush, Uploading, Downloading
  <2> QED
    BY <1>1, <1>6, <2>1 DEF BlobInv, FlushInv, FlushAt, channel
<1>10. ASSUME NEW c \in Blobs
       PROVE  RowInv(c)' /\ QueueInv(c)'
  <2>1. RowInv(c) /\ QueueInv(c)
    BY DEF BlobInv
  <2>2. RowInv(c)'
    BY <1>1, <1>2, <1>3, <1>4, <1>6, <2>1 DEF RowInv, Uploadable, Arriving
  <2>3. QueueInv(c)'
    BY <1>1, <1>6, <2>1 DEF QueueInv, Queued, channel
  <2> QED
    BY <2>2, <2>3
<1> QED
  BY <1>7, <1>8, <1>9, <1>10 DEF BlobInv

\* A panic or a crash: the worker, the channel and who waited are gone.
LEMMA RestartKeeps ==
    ASSUME BlobInv, Panic \/ Crash
    PROVE  BlobInv'
<1> USE AtTypes
<1>1. PICK pc \in {"dead", "idle"} : Restarted(pc)
  BY DEF Panic, Crash
<1>2. /\ UNCHANGED <<row, file, outside>> /\ queue' = <<>> /\ waiting' = "no" /\ tried' = {}
      /\ w'.pc = pc /\ w'.cur = {} /\ w'.todo = {} /\ w' \in WorkerState
  BY <1>1 DEF Restarted, Worker0, WorkerState, PCs
<1>3. mishaps' \in 0..MaxMishaps
  BY MishapType DEF Panic, Crash
<1>4. Len(queue') = 0 /\ queue' \in Seq(Messages)
  BY <1>2
<1>5. BlobTypeOK'
  BY <1>2, <1>3, <1>4, BlobSyncAssumption DEF BlobInv, BlobTypeOK, outside
<1>6. \A i \in Nat : i \notin 1..Len(queue')
  BY <1>4
<1>7. TodoInv' /\ FlushInv'
  BY <1>2, <1>6
  DEF TodoInv, FlushInv, FlushAt, InFlush, Uploading, Downloading, RestPCs
<1>8. ASSUME NEW c \in Blobs
      PROVE  RowInv(c)' /\ QueueInv(c)' /\ WorkInv(c)'
  <2>1. RowInv(c)'
    BY <1>2 DEF BlobInv, RowInv, Uploadable, Arriving, outside
  <2> QED
    BY <1>2, <1>6, <2>1 DEF QueueInv, Queued, WorkInv
<1> QED
  BY <1>5, <1>7, <1>8 DEF BlobInv

LEMMA StutterKeeps ==
    ASSUME BlobInv, UNCHANGED vars
    PROVE  BlobInv'
  BY DEF vars, outside, channel, BlobInv, BlobTypeOK, TodoInv, FlushInv, RowInv, QueueInv, WorkInv,
    Uploadable, Arriving, Fresh, Queued, FlushAt, InFlush, Uploading, Downloading

-----------------------------------------------------------------------------
(***************************************************************************)
(* Theorems                                                                 *)
(***************************************************************************)

LEMMA BlobNextInv == BlobInv /\ [Next]_vars => BlobInv'
<1> SUFFICES ASSUME BlobInv, [Next]_vars PROVE BlobInv'
  OBVIOUS
<1>1. ASSUME NEW b \in Blobs, PutBlob(b) \/ RegisterRemoteBlob(b) \/ GetBlob(b)
      PROVE  BlobInv'
  BY <1>1, PutKeeps, OutsideKeeps, RequestKeeps
<1>2. CASE ForceFlush \/ FlushSent
  BY <1>2, RequestKeeps
<1>3. ASSUME NEW b \in Blobs, Upload(b)
      PROVE  BlobInv'
  BY <1>3, NextBlobKeeps, StoreStepKeeps, RecordStepKeeps, LocalStepKeeps DEF Upload
<1>4. ASSUME NEW b \in Blobs, Download(b)
      PROVE  BlobInv'
  BY <1>4, NextBlobKeeps, FileStepKeeps, RecordStepKeeps, LocalStepKeeps DEF Download
<1>5. ASSUME NEW b \in Blobs,
             \/ TakeStage(b) \/ CopyEnds(b) \/ StageRecorded(b) \/ TakeDownload(b)
             \/ RecordError(b)
      PROVE  BlobInv'
  BY <1>5, TakeBlobKeeps, FileStepKeeps, StageRecordedKeeps, RecordStepKeeps
<1>6. CASE \/ TakeFlush \/ ListUploads \/ ListFails \/ UploadsDone \/ DownloadListFails
           \/ PassEnds \/ Tick
  BY <1>6, TakeFlushKeeps, CycleStepKeeps
<1>7. ASSUME NEW b \in Blobs, BlobBackoffPasses(b) \/ Evict(b) \/ SessionExpires(b)
      PROVE  BlobInv'
  BY <1>7, OutsideKeeps
<1>8. CASE Panic \/ Crash
  BY <1>8, RestartKeeps
<1>9. CASE UNCHANGED vars
  BY <1>9, StutterKeeps
<1> QED
  BY <1>1, <1>2, <1>3, <1>4, <1>5, <1>6, <1>7, <1>8, <1>9 DEF Next, Actor, Worker

LEMMA BlobInvariance == Spec => []BlobInv
<1>1. Init => BlobInv
  BY InitBlobInv
<1>2. BlobInv /\ [Next]_vars => BlobInv'
  BY BlobNextInv
<1> QED
  BY <1>1, <1>2, PTL DEF Spec

\* Rows, files, objects, sessions, messages and the worker are what they are declared
\* to be, and the trigger channel never holds more than its capacity.
THEOREM BlobTypeCorrect == Spec => []BlobTypeOK
<1>1. BlobInv => BlobTypeOK
  BY DEF BlobInv
<1> QED
  BY <1>1, BlobInvariance, PTL

\* A row that says that the blob is on the remote backend is right, and the store
\* never has a part of a blob under its key: for any number of parts, and whatever
\* requests, answers, statements, sessions or workers are lost.
THEOREM UploadedStaysStored == Spec => []UploadedIsStored
<1>1. BlobInv => UploadedIsStored
  BY DEF BlobInv, RowInv, UploadedIsStored
<1> QED
  BY <1>1, BlobInvariance, PTL

\* A blob whose row has a local_path is never lost: the original is in the cache until
\* the store has it, and it stays in the store.
THEOREM StagedStaysKept == Spec => []StagedIsKept
<1>1. BlobInv => StagedIsKept
  <2> SUFFICES ASSUME BlobInv, NEW b \in Blobs, row[b].staged
               PROVE  file[b] = "whole" \/ remote[b] = "whole"
    BY DEF StagedIsKept
  <2>1. row[b].status \in Statuses
    BY AtTypes DEF BlobRow
  <2> QED
    BY <2>1 DEF BlobInv, RowInv, Uploadable, Arriving, Statuses
<1> QED
  BY <1>1, BlobInvariance, PTL

\* When force_flush_blobs returns, all that was sent before has been handled and every
\* blob that is in the cache and not in the store has been tried or waits for a retry.
THEOREM FlushIsWhole == Spec => FlushMeansTried
<1> DEFINE Step == waiting = "reply" /\ waiting' = "no" /\ mishaps' = mishaps =>
                      /\ queue = <<>>
                      /\ \A b \in Blobs :
                            row[b].staged /\ row[b].status \in {"pending", "uploading"} =>
                                b \in tried \/ row[b].failed
<1>1. BlobInv /\ [Next]_vars => [Step]_vars
  <2> SUFFICES ASSUME BlobInv, [Next]_vars,
                      waiting = "reply", waiting' = "no", mishaps' = mishaps
               PROVE  /\ queue = <<>>
                      /\ \A b \in Blobs :
                            row[b].staged /\ row[b].status \in {"pending", "uploading"} =>
                                b \in tried \/ row[b].failed
    OBVIOUS
  <2>1. mishaps' # mishaps + 1
    BY AtTypes, BlobSyncAssumption
  <2>2. PassEnds
    BY <2>1
    DEF Next, vars, channel, Actor, Worker, Upload, Download, PutBlob, RegisterRemoteBlob, GetBlob,
      ForceFlush, FlushSent, UploadBlob, PutObject, CreateUpload, UploadIdRecorded, ListParts,
      ForgetSession, CompleteUpload, UploadPart, UploadFails, Uploaded, DownloadBlob, GetObject,
      RowUnread, GetFails, WriteEnds, DownloadRecorded, Cached, TakeFlush, ListUploads, ListFails, UploadsDone,
      DownloadListFails, TakeStage, CopyEnds, StageRecorded, TakeDownload, RecordError, Tick,
      BlobBackoffPasses, Evict, SessionExpires, Panic, Crash, Mishap
  <2>3. w.pc = "downloads" /\ w.todo = {} /\ w.pass = "flush"
    BY <2>2 DEF PassEnds
  <2>4. InFlush /\ ~Uploading
    BY <2>3 DEF InFlush, Uploading, Downloading, BlobInv, TodoInv, RestPCs
  <2> QED
    BY <2>3, <2>4 DEF BlobInv, FlushInv, Uploadable
<1> QED
  BY <1>1, BlobInvariance, PTL DEF Spec, FlushMeansTried

-----------------------------------------------------------------------------
(***************************************************************************)
(* The life of a blob                                                       *)
(***************************************************************************)

\* A step that leaves rows and objects alone is a stutter ...
LEMMA LifeStays ==
    ASSUME UNCHANGED <<row, remote>>
    PROVE  UNCHANGED Life!lifeVars
  BY DEF Life!lifeVars, LifeView, StoreView

\* ... and so is one that changes what rows say of other things than lives.
LEMMA LifeStaysAt ==
    ASSUME NEW b \in Blobs, UNCHANGED remote, LifeOf(row'[b]) = LifeOf(row[b]),
           \A c \in Blobs \ {b} : row'[c] = row[c]
    PROVE  UNCHANGED Life!lifeVars
<1>1. \A c \in Blobs : LifeOf(row'[c]) = LifeOf(row[c])
  OBVIOUS
<1>2. LifeView' = LifeView
  BY <1>1 DEF LifeView
<1> QED
  BY <1>2 DEF Life!lifeVars, StoreView

\* A row that changes moves its blob.
LEMMA LifeMoves ==
    ASSUME NEW b \in Blobs, UNCHANGED remote, NEW before, LifeOf(row[b]) \in before,
           \A c \in Blobs \ {b} : row'[c] = row[c]
    PROVE  Life!Moves(b, before, LifeOf(row'[b]))
<1>1. LifeView' = [LifeView EXCEPT ![b] = LifeOf(row'[b])]
  BY DEF LifeView
<1>2. LifeView[b] \in before
  BY DEF LifeView
<1>3. StoreView' = StoreView
  BY DEF StoreView
<1> QED
  BY <1>1, <1>2, <1>3 DEF Life!Moves

\* The lives that rows stand for, by what the invariant knows of them.
LEMMA LivesOfRows ==
    ASSUME NEW b \in Blobs
    PROVE  /\ Fresh(b) => LifeOf(row[b]) = "put"
           /\ Uploadable(b) => LifeOf(row[b]) = "kept"
           /\ row[b].status = "none" => LifeOf(row[b]) = "none"
           /\ row[b].status = "uploaded" => LifeOf(row[b]) = "stored"
           /\ row[b].status = "download_pending" => LifeOf(row[b]) = "wanted"
           /\ row[b].status = "cached" => LifeOf(row[b]) = "here"
  BY DEF Fresh, Uploadable, LifeOf

\* Commands of the actor.
LEMMA ActorLives ==
    ASSUME BlobInv, NEW b \in Blobs, PutBlob(b) \/ RegisterRemoteBlob(b)
    PROVE  Life!LifeNext \/ UNCHANGED Life!lifeVars
<1>1. row \in [Blobs -> BlobRow] /\ UNCHANGED remote
  BY DEF BlobInv, BlobTypeOK, PutBlob, RegisterRemoteBlob, outside
<1>2. CASE PutBlob(b)
  <2>1. /\ row[b].status = "none"
        /\ row' = [row EXCEPT ![b] = [NoBlobRow EXCEPT !.status = "pending"]]
    BY <1>2 DEF PutBlob, Exists, Insert
  <2>2. Fresh(b)' /\ \A c \in Blobs \ {b} : row'[c] = row[c]
    BY <1>1, <2>1 DEF Fresh, NoBlobRow
  <2>3. LifeOf(row[b]) \in {"none"} /\ LifeOf(row'[b]) = "put"
    BY <2>1, <2>2 DEF Fresh, LifeOf
  <2>4. Life!LifePut(b)
    BY <1>1, <2>2, <2>3, LifeMoves DEF Life!LifePut
  <2> QED
    BY <2>4 DEF Life!LifeNext
<1>3. CASE RegisterRemoteBlob(b) /\ row[b].status \in {"none", "uploaded"}
  <2>1. row' = [row EXCEPT ![b].status = "download_pending"]
    BY <1>3 DEF RegisterRemoteBlob, RegisterForDownload
  <2>2. row'[b].status = "download_pending" /\ \A c \in Blobs \ {b} : row'[c] = row[c]
    BY <1>1, <2>1 DEF BlobRow
  <2>3. LifeOf(row[b]) \in {"none", "stored"} /\ LifeOf(row'[b]) = "wanted"
    BY <1>3, <2>2 DEF LifeOf
  <2>4. Life!LifeWant(b)
    BY <1>1, <2>2, <2>3, LifeMoves DEF Life!LifeWant
  <2> QED
    BY <2>4 DEF Life!LifeNext
<1>4. CASE RegisterRemoteBlob(b) /\ row[b].status \notin {"none", "uploaded"}
  BY <1>1, <1>4, LifeStays DEF RegisterRemoteBlob, RegisterForDownload
<1> QED
  BY <1>2, <1>3, <1>4

\* Statements of the worker that record how far a blob has come.
LEMMA RecordedLives ==
    ASSUME BlobInv, NEW b \in Blobs, StageRecorded(b) \/ Uploaded(b) \/ Cached(b)
    PROVE  Life!LifeNext \/ UNCHANGED Life!lifeVars
<1>1. /\ row \in [Blobs -> BlobRow] /\ UNCHANGED remote
      /\ WorkInv(b) /\ w.cur = {b}
  BY DEF BlobInv, BlobTypeOK, StageRecorded, Uploaded, Cached, outside, At
<1>2. CASE row' = row
  BY <1>1, <1>2, LifeStays
<1>3. CASE StageRecorded(b) /\ row' # row
  <2>1. row' = [row EXCEPT ![b].staged = TRUE] /\ Fresh(b)
    BY <1>1, <1>3 DEF StageRecorded, Statement, SetLocalPath, WorkInv, At
  <2>2. Uploadable(b)' /\ \A c \in Blobs \ {b} : row'[c] = row[c]
    BY <1>1, <2>1 DEF Uploadable, Fresh, BlobRow
  <2>3. LifeOf(row[b]) \in {"put"} /\ LifeOf(row'[b]) = "kept"
    BY <2>1, <2>2 DEF Uploadable, Fresh, LifeOf
  <2>4. Life!LifeKeep(b)
    BY <1>1, <2>2, <2>3, LifeMoves DEF Life!LifeKeep
  <2> QED
    BY <2>4 DEF Life!LifeNext
<1>4. CASE Uploaded(b) /\ row' # row
  <2>1. row' = [row EXCEPT ![b].status = "uploaded"] /\ Uploadable(b) /\ remote[b] = "whole"
    BY <1>1, <1>4 DEF Uploaded, Statement, SetStatus, WorkInv, At, UploadPCs
  <2>2. row'[b].status = "uploaded" /\ \A c \in Blobs \ {b} : row'[c] = row[c]
    BY <1>1, <2>1 DEF BlobRow
  <2>3. LifeOf(row[b]) \in {"kept"} /\ LifeOf(row'[b]) = "stored"
    BY <2>1, <2>2 DEF Uploadable, LifeOf
  <2>4. Life!LifeSettle(b)
    BY <1>1, <2>1, <2>2, <2>3, LifeMoves DEF Life!LifeSettle, StoreView
  <2> QED
    BY <2>4 DEF Life!LifeNext
<1>5. CASE Cached(b) /\ row' # row
  <2>1. row' = [row EXCEPT ![b].status = "cached"] /\ Arriving(b) /\ remote[b] = "whole"
    BY <1>1, <1>5 DEF Cached, Statement, SetStatus, WorkInv, At, DownloadPCs
  <2>2. row'[b].status = "cached" /\ \A c \in Blobs \ {b} : row'[c] = row[c]
    BY <1>1, <2>1 DEF BlobRow
  <2>3. CASE row[b].status = "cached"
    <3>1. LifeOf(row'[b]) = LifeOf(row[b])
      BY <2>2, <2>3 DEF LifeOf
    <3> QED
      BY <1>1, <2>2, <3>1, LifeStaysAt
  <2>4. CASE row[b].status # "cached"
    <3>1. LifeOf(row[b]) \in {"stored", "wanted"} /\ LifeOf(row'[b]) = "here"
      BY <2>1, <2>2, <2>4 DEF Arriving, LifeOf
    <3>2. Life!LifeArrive(b)
      BY <1>1, <2>1, <2>2, <3>1, LifeMoves DEF Life!LifeArrive, StoreView
    <3> QED
      BY <3>2 DEF Life!LifeNext
  <2> QED
    BY <2>3, <2>4
<1> QED
  BY <1>2, <1>3, <1>4, <1>5

\* What the store is given is whole, and belongs to a blob that is kept.
LEMMA StoredLives ==
    ASSUME BlobInv, NEW b \in Blobs, PutObject(b) \/ CompleteUpload(b)
    PROVE  Life!LifeNext
<1>1. /\ remote \in [Blobs -> Contents] /\ UNCHANGED row
      /\ WorkInv(b) /\ RowInv(b) /\ w.cur = {b} /\ w.pc \in UploadPCs
  BY DEF BlobInv, BlobTypeOK, PutObject, CompleteUpload, At, UploadPCs
<1>2. Uploadable(b) /\ file[b] = "whole"
  BY <1>1 DEF WorkInv, RowInv
<1>3. remote' = [remote EXCEPT ![b] = "whole"]
  <2>1. CASE PutObject(b)
    BY <1>2, <2>1 DEF PutObject
  <2>2. CASE CompleteUpload(b)
    <3>1. w.sent \subseteq Parts(b) /\ Parts(b) \subseteq w.sent
      BY <1>1, <2>2 DEF CompleteUpload, WorkInv, TotalParts, At
    <3>2. w.sent = Parts(b)
      BY <3>1
    <3> QED
      BY <1>2, <2>2, <3>2 DEF CompleteUpload
  <2> QED
    BY <2>1, <2>2
<1>4. StoreView' = StoreView \cup {b}
  BY <1>1, <1>3 DEF StoreView
<1>5. LifeView[b] = "kept" /\ LifeView' = LifeView
  BY <1>1, <1>2 DEF LifeView, Uploadable, LifeOf
<1>6. Life!LifeStore(b)
  BY <1>4, <1>5 DEF Life!LifeStore
<1> QED
  BY <1>6 DEF Life!LifeNext

\* The other changes of rows: retries, sessions, and a second local_path.
LEMMA OtherRowsLives ==
    ASSUME BlobInv, NEW b \in Blobs,
           \/ RecordError(b) \/ UploadIdRecorded(b) \/ ForgetSession(b)
           \/ DownloadRecorded(b) \/ BlobBackoffPasses(b)
    PROVE  UNCHANGED Life!lifeVars
<1>1. row \in [Blobs -> BlobRow] /\ UNCHANGED remote /\ WorkInv(b)
  BY DEF BlobInv, BlobTypeOK, RecordError, UploadIdRecorded, ForgetSession, DownloadRecorded,
    BlobBackoffPasses, outside
<1>2. CASE row' = row
  BY <1>1, <1>2, LifeStays
<1>3. CASE row' # row /\ (RecordError(b) \/ BlobBackoffPasses(b))
  <2>1. row' = [row EXCEPT ![b].failed = TRUE, ![b].ready = FALSE]
        \/ row' = [row EXCEPT ![b].ready = TRUE]
    BY <1>3 DEF RecordError, Statement, MarkBlobRetry, BlobBackoffPasses
  <2>2. /\ row'[b].status = row[b].status /\ row'[b].staged = row[b].staged
        /\ \A c \in Blobs \ {b} : row'[c] = row[c]
    BY <1>1, <2>1 DEF BlobRow
  <2>3. LifeOf(row'[b]) = LifeOf(row[b])
    BY <2>2 DEF LifeOf
  <2> QED
    BY <1>1, <2>2, <2>3, LifeStaysAt
<1>4. CASE row' # row /\ (UploadIdRecorded(b) \/ ForgetSession(b))
  <2>1. Uploadable(b)
    BY <1>1, <1>4 DEF UploadIdRecorded, ForgetSession, At, WorkInv, UploadPCs
  <2>2. row' = SetUploadId(row, b) \/ row' = ClearUploadId(row, b)
    BY <1>4 DEF UploadIdRecorded, ForgetSession, Statement
  <2>3. \A c \in Blobs \ {b} : row'[c] = row[c]
    BY <1>1, <2>2 DEF SetUploadId, ClearUploadId
  <2>4. row'[b].staged /\ row'[b].status \in {"pending", "uploading"}
    BY <1>1, <2>1, <2>2 DEF SetUploadId, ClearUploadId, Uploadable, BlobRow
  <2>5. LifeOf(row'[b]) = LifeOf(row[b])
    BY <2>1, <2>4 DEF LifeOf, Uploadable
  <2> QED
    BY <1>1, <2>3, <2>5, LifeStaysAt
<1>5. CASE row' # row /\ DownloadRecorded(b)
  <2>1. Arriving(b) /\ row' = [row EXCEPT ![b].staged = TRUE]
    BY <1>1, <1>5 DEF DownloadRecorded, Statement, SetLocalPath, At, WorkInv, DownloadPCs
  <2>2. row'[b].status = row[b].status /\ \A c \in Blobs \ {b} : row'[c] = row[c]
    BY <1>1, <2>1 DEF BlobRow
  <2>3. LifeOf(row'[b]) = LifeOf(row[b])
    BY <2>1, <2>2 DEF LifeOf, Arriving
  <2> QED
    BY <1>1, <2>2, <2>3, LifeStaysAt
<1> QED
  BY <1>2, <1>3, <1>4, <1>5

\* BlobSync implements BlobLife: put, register, the recorded copy, the object that is
\* stored, the recorded upload and the recorded download each map to one step of a
\* blob's life, everything else to a stutter.
THEOREM BlobsLiveForward == Spec => ImplementsBlobLife
<1>1. Init => Life!LifeInit
  <2> SUFFICES ASSUME Init PROVE Life!LifeInit
    OBVIOUS
  <2>1. \A b \in Blobs : LifeOf(row[b]) = "none"
    BY DEF Init, NoBlobRow, LifeOf
  <2>2. LifeView = [b \in Blobs |-> "none"] /\ StoreView \subseteq Blobs
    BY <2>1 DEF LifeView, StoreView
  <2> QED
    BY <2>2 DEF Life!LifeInit
<1>2. BlobInv /\ [Next]_vars => [Life!LifeNext]_(Life!lifeVars)
  <2> SUFFICES ASSUME BlobInv, [Next]_vars
               PROVE  Life!LifeNext \/ UNCHANGED Life!lifeVars
    OBVIOUS
  <2>1. CASE UNCHANGED <<row, remote>>
    BY <2>1, LifeStays
  <2>2. ASSUME NEW b \in Blobs, PutBlob(b) \/ RegisterRemoteBlob(b)
        PROVE  Life!LifeNext \/ UNCHANGED Life!lifeVars
    BY <2>2, ActorLives
  <2>3. ASSUME NEW b \in Blobs, StageRecorded(b) \/ Uploaded(b) \/ Cached(b)
        PROVE  Life!LifeNext \/ UNCHANGED Life!lifeVars
    BY <2>3, RecordedLives
  <2>4. ASSUME NEW b \in Blobs, PutObject(b) \/ CompleteUpload(b)
        PROVE  Life!LifeNext
    BY <2>4, StoredLives
  <2>5. ASSUME NEW b \in Blobs,
               \/ RecordError(b) \/ UploadIdRecorded(b) \/ ForgetSession(b)
               \/ DownloadRecorded(b) \/ BlobBackoffPasses(b)
        PROVE  UNCHANGED Life!lifeVars
    BY <2>5, OtherRowsLives
  <2>6. \/ UNCHANGED <<row, remote>>
        \/ \E b \in Blobs :
              \/ PutBlob(b) \/ RegisterRemoteBlob(b)
              \/ StageRecorded(b) \/ Uploaded(b) \/ Cached(b)
              \/ PutObject(b) \/ CompleteUpload(b)
              \/ RecordError(b) \/ UploadIdRecorded(b) \/ ForgetSession(b)
              \/ DownloadRecorded(b) \/ BlobBackoffPasses(b)
    BY DEF Next, vars, outside, Actor, Worker, Upload, Download, GetBlob,
      ForceFlush, FlushSent, UploadBlob, CreateUpload, ListParts, UploadPart, UploadFails,
      DownloadBlob, RowUnread, GetObject, GetFails, WriteEnds, TakeFlush, ListUploads, ListFails, UploadsDone,
      DownloadListFails, PassEnds, TakeStage, CopyEnds, TakeDownload, Tick, Evict, SessionExpires,
      Panic, Crash, Restarted
  <2> QED
    BY <2>1, <2>2, <2>3, <2>4, <2>5, <2>6
<1> QED
  BY <1>1, <1>2, BlobInvariance, PTL DEF Spec, ImplementsBlobLife, Life!LifeSpec

-----------------------------------------------------------------------------
(***************************************************************************)
(* Which blobs are forgotten.  A blob that was put and not copied yet hangs on *)
(* its Stage message alone: nothing but a fault takes it away before the copy *)
(* is recorded, and nothing brings it back.                                 *)
(***************************************************************************)

Unstaged(b) == Unfinished(b) /\ ~row[b].staged
AtCopy(b) == w.cur = {b} /\ w.pc \in {"copy", "path"}

\* Message i asks for the copy of b.
Asks(b, i) == queue[i].kind = "stage" /\ queue[i].blob = b

\* What sends no message and stays clear of the copy.
LEMMA QuietStep ==
    ASSUME queue' = queue, NEW b \in Blobs, AtCopy(b)' <=> AtCopy(b)
    PROVE  StageComes(b)' <=> StageComes(b)
  BY DEF StageComes, AtCopy

\* A message that is sent to the worker.
LEMMA SendStep ==
    ASSUME BlobTypeOK, NEW msg \in Messages, w' = w, NEW b \in Blobs,
           queue' = queue \/ (Len(queue) < QueueSize /\ queue' = Append(queue, msg))
    PROVE  /\ StageComes(b) => StageComes(b)'
           /\ msg # [kind |-> "stage", blob |-> b] => (StageComes(b)' => StageComes(b))
           /\ msg = [kind |-> "stage", blob |-> b] /\ queue' # queue => StageComes(b)'
<1>1. CASE queue' = queue
  BY <1>1, QuietStep DEF AtCopy
<1>2. CASE Len(queue) < QueueSize /\ queue' = Append(queue, msg)
  <2>1. /\ Len(queue') = Len(queue) + 1 /\ Len(queue) \in Nat
        /\ \A i \in 1..Len(queue) : queue'[i] = queue[i]
        /\ queue'[Len(queue) + 1] = msg
    BY <1>2, Appending DEF BlobTypeOK
  <2>2. StageComes(b) => StageComes(b)'
    BY <2>1 DEF StageComes
  <2>3. ASSUME msg # [kind |-> "stage", blob |-> b], StageComes(b)'
        PROVE  StageComes(b)
    <3>1. ~(msg.kind = "stage" /\ msg.blob = b)
      BY <2>3 DEF Messages
    <3>2. ASSUME NEW i \in 1..Len(queue'), queue'[i].kind = "stage", queue'[i].blob = b
          PROVE  i \in 1..Len(queue) /\ queue[i].kind = "stage" /\ queue[i].blob = b
      BY <2>1, <3>1, <3>2
    <3> QED
      BY <2>3, <3>2 DEF StageComes
  <2>4. ASSUME msg = [kind |-> "stage", blob |-> b]
        PROVE  StageComes(b)'
    <3>1. Len(queue) + 1 \in 1..Len(queue') /\ msg.kind = "stage" /\ msg.blob = b
      BY <2>1, <2>4
    <3> QED
      BY <2>1, <3>1 DEF StageComes
  <2> QED
    BY <2>2, <2>3, <2>4
<1> QED
  BY <1>1, <1>2

\* A message that the worker takes: it was the first.
LEMMA TakeStep ==
    ASSUME BlobTypeOK, NEW kind, Take(kind), NEW b \in Blobs
    PROVE  /\ StageComes(b) => AtCopy(b) \/ Asks(b, 1) \/ \E i \in 1..Len(queue') : Asks(b, i)'
           /\ (\E i \in 1..Len(queue') : Asks(b, i)') \/ Asks(b, 1) => StageComes(b)
           /\ Head(queue) = queue[1]
<1>1. /\ Len(queue) \in Nat \ {0} /\ Len(queue') = Len(queue) - 1 /\ Head(queue) = queue[1]
      /\ \A i \in 1..Len(queue') : queue'[i] = queue[i + 1]
  BY Receiving DEF BlobTypeOK, Take
<1>2. ASSUME NEW i \in 1..Len(queue'), Asks(b, i)'
      PROVE  StageComes(b)
  <2>1. i + 1 \in 1..Len(queue) /\ Asks(b, i + 1)
    BY <1>1, <1>2 DEF Asks
  <2> QED
    BY <2>1 DEF StageComes, Asks
<1>3. ASSUME NEW i \in 1..Len(queue), Asks(b, i), i # 1
      PROVE  \E j \in 1..Len(queue') : Asks(b, j)'
  <2>1. i - 1 \in 1..Len(queue') /\ (i - 1) + 1 = i
    BY <1>1, <1>3
  <2>2. Asks(b, i - 1)'
    BY <1>1, <1>3, <2>1 DEF Asks
  <2> QED
    BY <2>1, <2>2
<1>4. ASSUME Asks(b, 1)
      PROVE  StageComes(b)
  BY <1>1, <1>4 DEF Asks, StageComes
<1>5. StageComes(b) => AtCopy(b) \/ \E i \in 1..Len(queue) : Asks(b, i)
  BY DEF StageComes, AtCopy, Asks
<1> QED
  BY <1>1, <1>2, <1>3, <1>4, <1>5

\* No step loses b for another reason, and none brings it back.
Kept(b) == Forgotten(b)' => Forgotten(b) \/ Loses(b)
StaysLost(b) == Forgotten(b) => Forgotten(b)'

LEMMA SameRow ==
    ASSUME NEW b \in Blobs, Unstaged(b)' <=> Unstaged(b), StageComes(b)' <=> StageComes(b)
    PROVE  Kept(b) /\ StaysLost(b)
  BY DEF Forgotten, Unstaged, Kept, StaysLost

LEMMA TakeForgets ==
    ASSUME BlobInv, NEW a \in Blobs, TakeStage(a) \/ TakeDownload(a) \/ TakeFlush, NEW b \in Blobs
    PROVE  Kept(b) /\ StaysLost(b)
<1>1. PICK kind \in {"stage", "download", "flush"} :
         /\ Take(kind) /\ Head(queue).kind = kind
         /\ kind # "flush" => Head(queue).blob = a
         /\ kind = "stage" => TakeStage(a)
         /\ kind = "download" => TakeDownload(a)
         /\ kind = "flush" => TakeFlush
  BY DEF TakeStage, TakeDownload, TakeFlush, Take
<1>2. /\ StageComes(b) => AtCopy(b) \/ Asks(b, 1) \/ \E i \in 1..Len(queue') : Asks(b, i)'
      /\ (\E i \in 1..Len(queue') : Asks(b, i)') \/ Asks(b, 1) => StageComes(b)
      /\ Head(queue) = queue[1]
  BY <1>1, TakeStep DEF BlobInv
<1>3. (\E i \in 1..Len(queue') : Asks(b, i)') \/ AtCopy(b)' <=> StageComes(b)'
  BY DEF StageComes, Asks, AtCopy
<1>4. /\ row' = row /\ w.pc = "idle" /\ w.cur = {} /\ w \in WorkerState
      /\ Unstaged(b)' <=> Unstaged(b)
  BY <1>1, AtTypes DEF TakeStage, TakeDownload, TakeFlush, Take, Unstaged, Unfinished, BlobInv,
     TodoInv, RestPCs
<1>5. CASE kind = "stage" /\ a = b
  <2>1. Asks(b, 1)
    BY <1>1, <1>2, <1>5 DEF Asks
  <2>2. AtCopy(b)' \/ (Mishap("io") /\ TakeStage(b))
    <3>1. TakeStage(b)
      BY <1>1, <1>5
    <3>2. AtCopy(b)' \/ Mishap("io")
      BY <1>4, <3>1 DEF TakeStage, TurnTo, AtCopy, WorkerState
    <3> QED
      BY <3>1, <3>2
  <2> QED
    BY <1>2, <1>3, <2>1, <2>2 DEF Kept, StaysLost, Forgotten, Loses
<1>6. CASE ~(kind = "stage" /\ a = b)
  <2>1. ~Asks(b, 1)
    BY <1>1, <1>2, <1>6 DEF Asks
  <2>2. kind = "stage" => w'.cur = {a}
    BY <1>1, <1>4 DEF TakeStage, TurnTo, WorkerState
  <2>3. kind # "stage" => w'.pc \in {"fetch", "list"}
    BY <1>1, <1>4 DEF TakeDownload, TakeFlush, TurnTo, WorkerState
  <2>4. ~AtCopy(b) /\ ~AtCopy(b)'
    BY <1>4, <1>6, <2>2, <2>3 DEF AtCopy
  <2> QED
    BY <1>2, <1>3, <1>4, <2>1, <2>4, SameRow
<1> QED
  BY <1>5, <1>6

LEMMA CopyForgets ==
    ASSUME BlobInv, NEW a \in Blobs, CopyEnds(a) \/ StageRecorded(a), NEW b \in Blobs
    PROVE  Kept(b) /\ StaysLost(b)
<1>1. /\ w.cur = {a} /\ AtCopy(a) /\ queue' = queue /\ w \in WorkerState
      /\ row \in [Blobs -> BlobRow]
  BY AtTypes DEF CopyEnds, StageRecorded, At, AtCopy, channel
<1>2. w'.cur \in {{}, {a}}
  BY <1>1 DEF CopyEnds, StageRecorded, GoTo, Fail, WorkerState
<1>3. \A c \in Blobs \ {a} : row'[c] = row[c]
  BY <1>1 DEF CopyEnds, StageRecorded, Statement, SetLocalPath
<1>4. CASE b # a
  BY <1>1, <1>2, <1>3, <1>4, QuietStep, SameRow DEF AtCopy, Unstaged, Unfinished
<1>5. CASE b = a
  <2>1. CopyEnds(a) => AtCopy(a)' \/ Mishap("io")
    BY <1>1 DEF CopyEnds, GoTo, AtCopy, WorkerState
  <2>2. StageRecorded(a) => row'[a].staged \/ Mishap("stmt")
    BY <1>1 DEF StageRecorded, Statement, SetLocalPath, BlobRow
  <2> QED
    BY <1>1, <1>5, <2>1, <2>2 DEF Kept, StaysLost, Forgotten, Loses, StageComes, AtCopy
<1> QED
  BY <1>4, <1>5

\* The worker away from the copy.
LEMMA WorkForgets ==
    ASSUME BlobInv, NEW b \in Blobs, queue' = queue, w.pc \notin {"copy", "path"},
           w'.pc \notin {"copy", "path"}, Unstaged(b)' <=> Unstaged(b)
    PROVE  Kept(b) /\ StaysLost(b)
  BY QuietStep, SameRow DEF AtCopy

LEMMA RecordForgets ==
    ASSUME BlobInv, NEW a \in Blobs,
           \/ RecordError(a) \/ UploadIdRecorded(a) \/ ForgetSession(a) \/ Uploaded(a)
           \/ RowUnread(a) \/ DownloadRecorded(a) \/ Cached(a),
           NEW b \in Blobs
    PROVE  Kept(b) /\ StaysLost(b)
<1>1. /\ w.cur = {a} /\ queue' = queue /\ w \in WorkerState /\ row \in [Blobs -> BlobRow]
      /\ w.pc \in {"failed", "id", "expired", "uploaded", "fetch", "arrived", "cached"} /\ WorkInv(a)
  BY AtTypes DEF RecordError, UploadIdRecorded, ForgetSession, Uploaded, RowUnread,
     DownloadRecorded, Cached, At, channel, BlobInv
<1>2. w'.pc \in {"parts", "failed", "cached", "idle", "uploads", "downloads"}
  BY <1>1 DEF RecordError, UploadIdRecorded, ForgetSession, Uploaded, RowUnread, DownloadRecorded,
     Cached, GoTo, Fail, TurnBack, WorkerState
<1>3. CASE row' = row
  BY <1>1, <1>2, <1>3, WorkForgets DEF Unstaged, Unfinished
<1>4. CASE row' # row
  <2>1. \/ RecordError(a) /\ row' = MarkBlobRetry(row, a)
        \/ UploadIdRecorded(a) /\ row' = SetUploadId(row, a)
        \/ ForgetSession(a) /\ row' = ClearUploadId(row, a)
        \/ Uploaded(a) /\ row' = SetStatus(row, a, "uploaded")
        \/ DownloadRecorded(a) /\ row' = SetLocalPath(row, a)
        \/ Cached(a) /\ row' = SetStatus(row, a, "cached")
    BY <1>4 DEF RecordError, UploadIdRecorded, ForgetSession, Uploaded, RowUnread, DownloadRecorded,
       Cached, Statement
  <2>2. \A c \in Blobs \ {a} : row'[c] = row[c]
    BY <1>1, <2>1 DEF MarkBlobRetry, SetUploadId, ClearUploadId, SetStatus, SetLocalPath
  <2>3. CASE RecordError(a) /\ row' = MarkBlobRetry(row, a)
    <3>1. row'[a].status = row[a].status /\ row'[a].staged = row[a].staged
      BY <1>1, <2>3 DEF MarkBlobRetry, BlobRow
    <3> QED
      BY <1>1, <1>2, <2>2, <3>1, WorkForgets DEF Unstaged, Unfinished
  <2>4. CASE UploadIdRecorded(a) \/ ForgetSession(a) \/ Uploaded(a)
    <3>1. row[a].staged
      BY <1>1, <2>4 DEF UploadIdRecorded, ForgetSession, Uploaded, At, WorkInv, UploadPCs,
         Uploadable
    <3>2. \/ row' = SetUploadId(row, a)
          \/ row' = ClearUploadId(row, a)
          \/ row' = SetStatus(row, a, "uploaded")
      BY <1>1, <2>1, <2>4 DEF UploadIdRecorded, ForgetSession, Uploaded, RecordError,
         DownloadRecorded, Cached, At
    <3>3. row'[a].staged = row[a].staged
      BY <1>1, <3>2 DEF SetUploadId, ClearUploadId, SetStatus, BlobRow
    <3>4. ~Unstaged(a) /\ ~Unstaged(a)'
      BY <3>1, <3>3 DEF Unstaged
    <3>5. b # a => (Unstaged(b)' <=> Unstaged(b))
      BY <2>2 DEF Unstaged, Unfinished
    <3>6. Unstaged(b)' <=> Unstaged(b)
      BY <3>4, <3>5
    <3> QED
      BY <1>1, <1>2, <3>6, WorkForgets
  <2>5. CASE DownloadRecorded(a) \/ Cached(a)
    <3>1. row[a].status \notin {"pending", "uploading"}
      BY <1>1, <2>5 DEF DownloadRecorded, Cached, At, WorkInv, DownloadPCs, Arriving
    <3>2. row'[a].status \notin {"pending", "uploading"}
      <4>1. \/ row' = SetLocalPath(row, a)
            \/ row' = SetStatus(row, a, "cached")
        BY <2>1, <2>5, <1>1 DEF RecordError, UploadIdRecorded, ForgetSession, Uploaded,
           DownloadRecorded, Cached, At
      <4> QED
        BY <1>1, <3>1, <4>1 DEF SetLocalPath, SetStatus, BlobRow
    <3> QED
      BY <1>1, <1>2, <2>2, <3>1, <3>2, WorkForgets DEF Unstaged, Unfinished
  <2> QED
    BY <2>1, <2>3, <2>4, <2>5
<1> QED
  BY <1>3, <1>4

\* The rest of the worker changes no row and no message.
LEMMA CycleForgets ==
    ASSUME BlobInv, NEW b \in Blobs,
           ListUploads \/ ListFails \/ UploadsDone \/ DownloadListFails \/ PassEnds \/ Tick
    PROVE  Kept(b) /\ StaysLost(b)
<1> USE AtTypes
<1>1. row' = row /\ queue' = queue /\ w.pc \notin {"copy", "path"}
  BY DEF ListUploads, ListFails, UploadsDone, DownloadListFails, PassEnds, Tick, channel
<1>2. w'.pc \in {"uploads", "idle", "downloads", "list"}
  BY DEF ListUploads, ListFails, UploadsDone, DownloadListFails, PassEnds, Tick, GoTo,
     StartDownloads, WorkerState
<1> QED
  BY <1>1, <1>2, WorkForgets DEF Unstaged, Unfinished

LEMMA NextBlobForgets ==
    ASSUME BlobInv, NEW a \in Blobs, UploadBlob(a) \/ DownloadBlob(a), NEW b \in Blobs
    PROVE  Kept(b) /\ StaysLost(b)
<1> USE AtTypes
<1>1. row' = row /\ queue' = queue /\ w.pc \notin {"copy", "path"}
  BY DEF UploadBlob, DownloadBlob, channel
<1>2. w'.pc \in {"put", "parts", "create", "fetch"}
  <2>1. CASE UploadBlob(a)
    <3>1. PICK pc \in {"put", "parts", "create"} :
             w' = [w EXCEPT !.todo = @ \ {a}, !.cur = {a}, !.ret = "uploads",
                            !.resumed = row[a].upload, !.pc = pc]
      BY <2>1 DEF UploadBlob
    <3> QED
      BY <3>1 DEF WorkerState
  <2>2. CASE DownloadBlob(a)
    BY <2>2 DEF DownloadBlob, WorkerState
  <2> QED
    BY <2>1, <2>2
<1> QED
  BY <1>1, <1>2, WorkForgets DEF Unstaged, Unfinished

LEMMA LocalForgets ==
    ASSUME BlobInv, NEW a \in Blobs, ListParts(a) \/ UploadFails(a) \/ GetFails(a),
           NEW b \in Blobs
    PROVE  Kept(b) /\ StaysLost(b)
<1> USE AtTypes
<1>1. row' = row /\ queue' = queue /\ w.pc \notin {"copy", "path"}
  BY DEF ListParts, UploadFails, GetFails, At, channel
<1>2. w'.pc \in {"expired", "part", "failed"}
  <2>1. CASE ListParts(a)
    BY <2>1 DEF ListParts, WorkerState
  <2>2. CASE UploadFails(a) \/ GetFails(a)
    BY <2>2 DEF UploadFails, GetFails, Fail, GoTo, WorkerState
  <2> QED
    BY <2>1, <2>2
<1> QED
  BY <1>1, <1>2, WorkForgets DEF Unstaged, Unfinished

LEMMA RequestsForget ==
    ASSUME BlobInv, NEW a \in Blobs,
           \/ PutObject(a) \/ CreateUpload(a) \/ CompleteUpload(a) \/ GetObject(a) \/ WriteEnds(a)
           \/ \E p \in Parts(a) : UploadPart(a, p),
           NEW b \in Blobs
    PROVE  Kept(b) /\ StaysLost(b)
<1> USE AtTypes
<1>1. row' = row /\ queue' = queue /\ w.pc \notin {"copy", "path"}
  BY DEF PutObject, CreateUpload, CompleteUpload, GetObject, WriteEnds, UploadPart, At, channel
<1>2. \/ GoTo("uploaded") \/ GoTo("id") \/ GoTo("write") \/ GoTo("arrived") \/ GoTo("failed")
      \/ \E p \in Parts(a) : w' = [w EXCEPT !.sent = @ \cup {p}]
  BY DEF PutObject, CreateUpload, CompleteUpload, GetObject, WriteEnds, UploadPart, Answer, Fail,
     GoTo
<1>3. w'.pc \in {"uploaded", "id", "write", "arrived", "failed", w.pc}
  BY <1>2 DEF GoTo, WorkerState
<1> QED
  BY <1>1, <1>3, WorkForgets DEF Unstaged, Unfinished

LEMMA PutForgets ==
    ASSUME BlobInv, NEW a \in Blobs, PutBlob(a), NEW b \in Blobs
    PROVE  Kept(b) /\ StaysLost(b)
<1> DEFINE msg == [kind |-> "stage", blob |-> a]
<1>1. /\ msg \in Messages /\ msg.kind = "stage" /\ msg.blob = a
      /\ queue' = TrySend(msg) /\ w' = w /\ row[a].status = "none" /\ row' = Insert(row, a)
  BY DEF PutBlob, Exists, Messages
<1>2. b # a => msg # [kind |-> "stage", blob |-> b]
  OBVIOUS
<1>a. msg = [kind |-> "stage", blob |-> a]
  OBVIOUS
<1> HIDE DEF msg
<1>3. /\ StageComes(b) => StageComes(b)'
      /\ b # a => (StageComes(b)' => StageComes(b))
      /\ b = a /\ queue' # queue => StageComes(b)'
  BY <1>1, <1>2, <1>a, SendStep DEF TrySend, BlobInv
<1>4. CASE b # a
  <2>1. row'[b] = row[b]
    BY <1>1, <1>4, AtTypes DEF Insert
  <2> QED
    BY <1>3, <1>4, <2>1, SameRow DEF Unstaged, Unfinished
<1>5. CASE b = a
  <2>1. PutBlob(b) /\ ~Forgotten(b)
    BY <1>1, <1>5 DEF Forgotten, Unfinished
  <2>2. CASE queue' = queue
    <3>1. Len(queue) \in Nat /\ Len(queue) <= QueueSize /\ QueueSize \in Nat
      BY BlobSyncAssumption DEF BlobInv, BlobTypeOK
    <3>2. w.pc = "dead" \/ ~(Len(queue) < QueueSize)
      <4>1. queue \in Seq(Messages)
        BY DEF BlobInv, BlobTypeOK
      <4>2. Append(queue, msg) # queue
        BY <1>1, <4>1, Appending
      <4> QED
        BY <1>1, <2>2, <4>2 DEF TrySend
    <3> QED
      BY <2>1, <3>1, <3>2 DEF Kept, StaysLost, Loses
  <2>3. CASE queue' # queue
    BY <1>3, <1>5, <2>1, <2>3 DEF Kept, StaysLost, Forgotten
  <2> QED
    BY <2>2, <2>3
<1> QED
  BY <1>4, <1>5

LEMMA RequestForgets ==
    ASSUME BlobInv, (\E a \in Blobs : GetBlob(a)) \/ ForceFlush \/ FlushSent, NEW b \in Blobs
    PROVE  Kept(b) /\ StaysLost(b)
<1>1. row' = row
  BY DEF GetBlob, ForceFlush, FlushSent
<1>2. CASE ForceFlush
  <2>1. queue' = queue /\ (AtCopy(b)' <=> AtCopy(b))
    BY <1>2 DEF ForceFlush, AtCopy
  <2> QED
    BY <1>1, <2>1, QuietStep, SameRow DEF Unstaged, Unfinished
<1>3. ASSUME NEW msg \in Messages, msg.kind # "stage", w' = w,
             queue' = queue \/ (Len(queue) < QueueSize /\ queue' = Append(queue, msg))
      PROVE  Kept(b) /\ StaysLost(b)
  <2>1. msg # [kind |-> "stage", blob |-> b]
    BY <1>3
  <2>2. StageComes(b)' <=> StageComes(b)
    BY <1>3, <2>1, SendStep DEF BlobInv
  <2> QED
    BY <1>1, <2>2, SameRow DEF Unstaged, Unfinished
<1>4. CASE FlushSent
  <2>1. [kind |-> "flush"] \in Messages /\ [kind |-> "flush"].kind # "stage"
    BY DEF Messages
  <2> QED
    BY <1>3, <1>4, <2>1 DEF FlushSent
<1>5. ASSUME NEW a \in Blobs, GetBlob(a)
      PROVE  Kept(b) /\ StaysLost(b)
  <2>1. [kind |-> "download", blob |-> a] \in Messages /\ [kind |-> "download", blob |-> a].kind # "stage"
    BY DEF Messages
  <2> QED
    BY <1>3, <1>5, <2>1 DEF GetBlob, TrySend
<1> QED
  BY <1>2, <1>4, <1>5

LEMMA OutsideForgets ==
    ASSUME BlobInv, NEW a \in Blobs,
           \/ RegisterRemoteBlob(a) \/ BlobBackoffPasses(a) \/ Evict(a) \/ SessionExpires(a),
           NEW b \in Blobs
    PROVE  Kept(b) /\ StaysLost(b)
<1>1. queue' = queue /\ w' = w /\ row \in [Blobs -> BlobRow]
  BY AtTypes DEF RegisterRemoteBlob, BlobBackoffPasses, Evict, SessionExpires, channel
<1>2. Unstaged(b)' <=> Unstaged(b)
  <2>1. \A c \in Blobs \ {a} : row'[c] = row[c]
    BY <1>1 DEF RegisterRemoteBlob, BlobBackoffPasses, Evict, SessionExpires, RegisterForDownload
  <2>2. row'[a].staged = row[a].staged
    BY <1>1 DEF RegisterRemoteBlob, BlobBackoffPasses, Evict, SessionExpires, RegisterForDownload,
       BlobRow
  <2>3. row'[a].status = row[a].status \/
        (row[a].status \in {"none", "uploaded"} /\ row'[a].status = "download_pending")
    BY <1>1 DEF RegisterRemoteBlob, BlobBackoffPasses, Evict, SessionExpires, RegisterForDownload,
       BlobRow
  <2>4. CASE b = a
    BY <2>2, <2>3, <2>4 DEF Unstaged, Unfinished
  <2>5. CASE b # a
    BY <2>1, <2>5 DEF Unstaged, Unfinished
  <2> QED
    BY <2>4, <2>5
<1>3. AtCopy(b)' <=> AtCopy(b)
  BY <1>1 DEF AtCopy
<1> QED
  BY <1>1, <1>2, <1>3, QuietStep, SameRow

LEMMA RestartForgets ==
    ASSUME BlobInv, Panic \/ Crash, NEW b \in Blobs
    PROVE  Kept(b) /\ StaysLost(b)
<1>1. Loses(b)
  BY DEF Loses
<1>2. PICK pc \in {"dead", "idle"} : Restarted(pc)
  BY DEF Panic, Crash
<1>3. row' = row /\ queue' = <<>> /\ w'.pc = pc
  BY <1>2 DEF Restarted, Worker0
<1>4. ~StageComes(b)'
  BY <1>3 DEF StageComes
<1> QED
  BY <1>1, <1>3, <1>4 DEF Kept, StaysLost, Forgotten, Unfinished

LEMMA StepForgets ==
    ASSUME BlobInv, [Next]_vars, NEW b \in Blobs
    PROVE  Kept(b) /\ StaysLost(b)
<1>1. CASE Actor
  BY <1>1, PutForgets, RequestForgets, OutsideForgets DEF Actor
<1>2. ASSUME NEW a \in Blobs, Upload(a)
      PROVE  Kept(b) /\ StaysLost(b)
  BY <1>2, NextBlobForgets, LocalForgets, RequestsForget, RecordForgets DEF Upload
<1>3. ASSUME NEW a \in Blobs, Download(a)
      PROVE  Kept(b) /\ StaysLost(b)
  BY <1>3, NextBlobForgets, LocalForgets, RequestsForget, RecordForgets DEF Download
<1>4. CASE Worker
  <2>1. \E a \in Blobs : TRUE
    BY BlobDbAssumption
  <2>2. CASE TakeFlush
    BY <2>1, <2>2, TakeForgets
  <2>3. CASE ListUploads \/ ListFails \/ UploadsDone \/ DownloadListFails \/ PassEnds
    BY <2>3, CycleForgets
  <2>4. ASSUME NEW a \in Blobs,
               TakeStage(a) \/ CopyEnds(a) \/ StageRecorded(a) \/ TakeDownload(a) \/ RecordError(a)
        PROVE  Kept(b) /\ StaysLost(b)
    BY <2>4, TakeForgets, CopyForgets, RecordForgets
  <2> QED
    BY <1>2, <1>3, <1>4, <2>2, <2>3, <2>4 DEF Worker
<1>5. CASE Tick
  BY <1>5, CycleForgets
<1>6. ASSUME NEW a \in Blobs, BlobBackoffPasses(a) \/ Evict(a) \/ SessionExpires(a)
      PROVE  Kept(b) /\ StaysLost(b)
  BY <1>6, OutsideForgets
<1>7. CASE Panic \/ Crash
  BY <1>7, RestartForgets
<1>8. CASE UNCHANGED vars
  BY <1>8, QuietStep, SameRow DEF vars, channel, AtCopy, Unstaged, Unfinished
<1> QED
  BY <1>1, <1>4, <1>5, <1>6, <1>7, <1>8 DEF Next

\* The request to copy a blob gets lost only in the steps of Loses: with its own copy or
\* the statement after it, with the worker or the process, or because the channel had
\* no room when the blob was put.  No failed request, expired session, eviction,
\* statement about something else or copy of another blob takes it away.
THEOREM FaultsAloneLoseAPut == Spec => FaultsAloneForget
<1>1. BlobInv /\ [Next]_vars =>
        [\A b \in Blobs : ~Forgotten(b) /\ Forgotten(b)' => Loses(b)]_vars
  BY StepForgets DEF Kept
<1> QED
  BY <1>1, BlobInvariance, PTL DEF Spec, FaultsAloneForget

\* ... and then it is lost for good: no message, pass, flush, restart or further call
\* of put_blob copies the file after that.  This is why blob_never_staged fails.
THEOREM ForgottenForGood ==
    Spec => [][\A b \in Blobs : Forgotten(b) => Forgotten(b)']_vars
<1>1. BlobInv /\ [Next]_vars => [\A b \in Blobs : Forgotten(b) => Forgotten(b)']_vars
  BY StepForgets DEF StaysLost
<1> QED
  BY <1>1, BlobInvariance, PTL DEF Spec

\* A put finds room in the channel, and a worker.
PutsFindRoom ==
    \A b \in Blobs : PutBlob(b) => Len(queue) < QueueSize /\ w.pc # "dead"

NoneForgotten == \A b \in Blobs : ~Forgotten(b)

\* Where the disk, the statements and the process hold, every blob that was put is in the
\* cache, or its message is in the channel or being handled: network faults, evictions
\* and expired sessions do no harm.
THEOREM PutsAreRemembered ==
    ASSUME Faults \cap {"io", "stmt", "crash", "panic"} = {}
    PROVE  Spec /\ [][PutsFindRoom]_vars => []NoneForgotten
<1>1. Init => NoneForgotten
  <2> SUFFICES ASSUME Init, NEW b \in Blobs
               PROVE  ~Forgotten(b)
    BY DEF NoneForgotten
  <2>1. row[b].status = "none"
    BY DEF Init, NoBlobRow
  <2> QED
    BY <2>1 DEF Forgotten, Unfinished
<1>2. BlobInv /\ NoneForgotten /\ [Next]_vars /\ [PutsFindRoom]_vars => NoneForgotten'
  <2> SUFFICES ASSUME BlobInv, NoneForgotten, [Next]_vars, [PutsFindRoom]_vars,
                      NEW b \in Blobs, Forgotten(b)'
               PROVE  FALSE
    BY DEF NoneForgotten
  <2>1. Loses(b)
    BY StepForgets DEF Kept, NoneForgotten
  <2>2. PutBlob(b) /\ (Len(queue) = QueueSize \/ w.pc = "dead")
    BY <2>1 DEF Loses, Panic, Crash, Mishap
  <2>3. Len(queue) < QueueSize /\ w.pc # "dead"
    <3>1. row' # row
      BY <2>2 DEF PutBlob, Exists, Forgotten, Unfinished
    <3> QED
      BY <2>2, <3>1 DEF PutsFindRoom, vars
  <2>4. Len(queue) \in Nat /\ QueueSize \in Nat
    BY BlobSyncAssumption DEF BlobInv, BlobTypeOK
  <2> QED
    BY <2>2, <2>3, <2>4
<1> QED
  BY <1>1, <1>2, BlobInvariance, PTL DEF Spec

-----------------------------------------------------------------------------
(***************************************************************************)
(* The actor inside force_flush_blobs.                                      *)
(***************************************************************************)

\* A worker that is gone has nothing queued and nobody waiting for it.
DeadInv == w.pc = "dead" => queue = <<>> /\ waiting = "no"

\* It is gone by a panic alone.
LEMMA WorkerLives ==
    ASSUME BlobInv, Worker \/ Tick
    PROVE  w'.pc # "dead"
<1> USE AtTypes
<1>1. CASE Tick
  BY <1>1 DEF Tick, WorkerState
<1>2. CASE ListUploads \/ ListFails \/ UploadsDone \/ DownloadListFails \/ PassEnds \/ TakeFlush
  BY <1>2 DEF ListUploads, ListFails, UploadsDone, DownloadListFails, PassEnds, TakeFlush, GoTo,
     StartDownloads, WorkerState
<1>3. ASSUME NEW b \in Blobs, TakeStage(b) \/ CopyEnds(b) \/ StageRecorded(b) \/ TakeDownload(b)
      PROVE  w'.pc # "dead"
  BY <1>3 DEF TakeStage, CopyEnds, StageRecorded, TakeDownload, TurnTo, Fail, GoTo, WorkerState
<1>4. ASSUME NEW b \in Blobs, RecordError(b) \/ Uploaded(b) \/ RowUnread(b) \/ Cached(b)
      PROVE  w'.pc # "dead"
  BY <1>4 DEF RecordError, Uploaded, RowUnread, Cached, TurnBack, WorkerState
<1>5. ASSUME NEW b \in Blobs, UploadIdRecorded(b) \/ ForgetSession(b) \/ DownloadRecorded(b)
      PROVE  w'.pc # "dead"
  BY <1>5 DEF UploadIdRecorded, ForgetSession, DownloadRecorded, Fail, GoTo, WorkerState
<1>6. ASSUME NEW b \in Blobs, UploadBlob(b)
      PROVE  w'.pc # "dead"
  <2>1. PICK pc \in {"put", "parts", "create"} :
           w' = [w EXCEPT !.todo = @ \ {b}, !.cur = {b}, !.ret = "uploads",
                          !.resumed = row[b].upload, !.pc = pc]
    BY <1>6 DEF UploadBlob
  <2> QED
    BY <2>1 DEF WorkerState
<1>7. ASSUME NEW b \in Blobs, ListParts(b)
      PROVE  w'.pc # "dead"
  BY <1>7 DEF ListParts, WorkerState
<1>8. ASSUME NEW b \in Blobs, UploadFails(b) \/ GetFails(b) \/ DownloadBlob(b)
      PROVE  w'.pc # "dead"
  BY <1>8 DEF UploadFails, GetFails, DownloadBlob, Fail, GoTo, WorkerState
<1>9. ASSUME NEW b \in Blobs,
             \/ PutObject(b) \/ CreateUpload(b) \/ CompleteUpload(b) \/ GetObject(b)
             \/ WriteEnds(b) \/ \E p \in Parts(b) : UploadPart(b, p)
      PROVE  w'.pc # "dead"
  <2>1. \/ GoTo("uploaded") \/ GoTo("id") \/ GoTo("write") \/ GoTo("arrived") \/ GoTo("failed")
        \/ w.pc = "part" /\ \E p \in Parts(b) : w' = [w EXCEPT !.sent = @ \cup {p}]
    BY <1>9 DEF PutObject, CreateUpload, CompleteUpload, GetObject, WriteEnds, UploadPart, Answer,
       Fail, GoTo, At
  <2> QED
    BY <2>1 DEF GoTo, WorkerState
<1>10. ASSUME NEW b \in Blobs, Upload(b) \/ Download(b)
       PROVE  w'.pc # "dead"
  BY <1>4, <1>5, <1>6, <1>7, <1>8, <1>9, <1>10 DEF Upload, Download
<1> QED
  BY <1>1, <1>2, <1>3, <1>4, <1>10 DEF Worker

LEMMA StepDeadInv ==
    ASSUME BlobInv, DeadInv, [Next]_vars
    PROVE  DeadInv'
<1>1. CASE Worker \/ Tick
  BY <1>1, WorkerLives DEF DeadInv
<1>2. CASE Actor
  BY <1>2 DEF Actor, PutBlob, RegisterRemoteBlob, GetBlob, ForceFlush, FlushSent, TrySend, channel,
     DeadInv
<1>3. ASSUME NEW b \in Blobs, BlobBackoffPasses(b) \/ Evict(b) \/ SessionExpires(b)
      PROVE  DeadInv'
  BY <1>3 DEF BlobBackoffPasses, Evict, SessionExpires, channel, DeadInv
<1>4. CASE Panic \/ Crash
  BY <1>4 DEF Panic, Crash, Restarted, DeadInv
<1>5. CASE UNCHANGED vars
  BY <1>5 DEF vars, channel, DeadInv
<1> QED
  BY <1>1, <1>2, <1>3, <1>4, <1>5 DEF Next

\* The actor takes no command while it waits for a flush.  It does not wait for nothing:
\* its one request is in the channel, or the pass that will answer it is under way, and
\* a worker that panics meanwhile leaves nobody waiting.
THEOREM FlushStaysHeard == Spec => []FlushIsHeard
<1>1. Init => DeadInv
  BY DEF Init, DeadInv
<1>2. BlobInv /\ DeadInv => FlushIsHeard
  <2> SUFFICES ASSUME BlobInv, DeadInv PROVE FlushIsHeard
    OBVIOUS
  <2>1. waiting = "reply" => InFlush \/ \E i \in Nat : FlushAt(i)
    BY DEF BlobInv, FlushInv
  <2>2. waiting # "no" => w.pc # "dead"
    BY DEF DeadInv
  <2> QED
    BY <2>1, <2>2 DEF FlushIsHeard, FlushAt
<1> QED
  BY <1>1, <1>2, StepDeadInv, BlobInvariance, PTL DEF Spec
=============================================================================

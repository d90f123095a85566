------------------------------ MODULE BlobSync ------------------------------
(***************************************************************************)
(* Blobs of one device: the blob commands of the actor (src/src/engine.rs),  *)
(* the worker task that copies, uploads and downloads files                 *)
(* (src/src/blob/worker.rs), the channel between them, the cache files and   *)
(* the object store.  One action is one statement, one file operation (two  *)
(* where a half written file can be seen) or one exchange with the store.   *)
(***************************************************************************)
EXTENDS BlobDb, Sequences

CONSTANTS
    PartCount,      \* parts of a blob; 0 for one below MULTIPART_THRESHOLD
    Elsewhere,      \* blobs another device has uploaded under the same key
    QueueSize,      \* capacity of the trigger channel (32 in the code)
    Faults,         \* what may go wrong
    MaxMishaps      \* bound: faults of every kind but evictions, together

ASSUME BlobSyncAssumption ==
    /\ PartCount \in [Blobs -> Nat]
    /\ Elsewhere \subseteq Blobs
    /\ QueueSize \in Nat \ {0}
    /\ Faults \subseteq {"network", "evict", "crash", "panic", "stmt", "io", "expire"}
    /\ MaxMishaps \in Nat

VARIABLES
    row,            \* blobs table
    file,           \* {cache_dir}/{blob_id}
    remote,         \* objects of the store
    session,        \* the multipart session whose id the row or the worker has
    queue,          \* trigger channel
    waiting,        \* the actor is in force_flush_blobs_via and takes no command
    tried,          \* history: blobs come to since the actor began to wait
    w,              \* the worker
    mishaps         \* faults so far, for the bound

outside == <<remote, session>>
channel == <<queue, waiting, tried>>
vars == <<row, file, outside, channel, w, mishaps>>

Contents == {"none", "partial", "whole"}
Messages == [kind : {"stage", "download"}, blob : Blobs] \cup [kind : {"flush"}]

PCs == {"idle", "dead", "copy", "path", "failed", "list", "uploads", "put", "create", "id",
        "parts", "part", "expired", "uploaded", "downloads", "fetch", "write", "arrived",
        "cached"}

\* pc: where the worker stands.  cur: the blob at hand, if any; ret: where it goes
\* on after that blob.  pass: why it runs an upload cycle; todo: the blobs that
\* the running cycle has listed and not come to.  upload_multipart: sent is
\* all_parts, and resumed says that the row had an upload_id when listed.
WorkerState == [pc : PCs, cur : SUBSET Blobs, ret : {"idle", "uploads", "downloads"},
                pass : {"stage", "tick", "flush"}, todo : SUBSET Blobs,
                sent : SUBSET Nat, resumed : BOOLEAN]

Worker0 == [pc |-> "idle", cur |-> {}, ret |-> "idle", pass |-> "tick", todo |-> {},
            sent |-> {}, resumed |-> FALSE]

Parts(b) == 1..PartCount[b]

NoSession == [open |-> FALSE, parts |-> {}]

Init ==
    /\ row = [b \in Blobs |-> NoBlobRow]
    /\ file = [b \in Blobs |-> "none"]
    /\ remote = [b \in Blobs |-> IF b \in Elsewhere THEN "whole" ELSE "none"]
    /\ session = [b \in Blobs |-> NoSession]
    /\ queue = <<>> /\ waiting = "no" /\ tried = {}
    /\ w = Worker0
    /\ mishaps = 0

Mishap(kind) ==
    /\ kind \in Faults
    /\ mishaps < MaxMishaps
    /\ mishaps' = mishaps + 1

\* `let _ = statement`: the worker goes on when it fails.
Statement(rows) ==
    \/ row' = rows /\ UNCHANGED mishaps
    \/ Mishap("stmt") /\ UNCHANGED row

-----------------------------------------------------------------------------
(***************************************************************************)
(* The actor                                                                *)
(***************************************************************************)

\* Bug variant: the channel has no capacity.
SendAlways(msg) == IF w.pc # "dead" THEN Append(queue, msg) ELSE queue

\* Bug variant: the last place is kept free.
SendWhileRoomy(msg) ==
    IF w.pc # "dead" /\ Len(queue) + 1 < QueueSize THEN Append(queue, msg) ELSE queue

\* try_send: the message is dropped when the channel is full or the worker gone.
TrySend(msg) ==
    IF w.pc # "dead" /\ Len(queue) < QueueSize THEN Append(queue, msg) ELSE queue

\* handle_put_blob of an id that has no row (otherwise it does nothing).  The
\* file itself is copied by the worker, later.
PutBlob(b) ==
    /\ waiting = "no"
    /\ ~Exists(row, b)
    /\ row' = Insert(row, b)
    /\ queue' = TrySend([kind |-> "stage", blob |-> b])
    /\ UNCHANGED <<file, outside, waiting, tried, w, mishaps>>

\* handle_register_remote_blob.
RegisterRemoteBlob(b) ==
    /\ waiting = "no"
    /\ row' = RegisterForDownload(row, b)
    /\ UNCHANGED <<file, outside, channel, w, mishaps>>

\* handle_get_blob answers with the path: a row with a local_path, and a file
\* that exists.
Offered(b) == row[b].staged /\ file[b] # "none"

\* handle_get_blob of a blob it cannot offer asks for it, if it is 'uploaded'.
GetBlob(b) ==
    /\ waiting = "no"
    /\ ~Offered(b) /\ row[b].status = "uploaded"
    /\ queue' = TrySend([kind |-> "download", blob |-> b])
    /\ UNCHANGED <<row, file, outside, waiting, tried, w, mishaps>>

\* force_flush_blobs_via: the actor awaits room in the channel, then the reply.
\* (With the worker gone it answers ActorClosed at once.)
ForceFlush ==
    /\ waiting = "no" /\ w.pc # "dead"
    /\ waiting' = "room"
    /\ UNCHANGED <<row, file, outside, queue, tried, w, mishaps>>

FlushSent ==
    /\ waiting = "room" /\ Len(queue) < QueueSize
    /\ queue' = Append(queue, [kind |-> "flush"])
    /\ waiting' = "reply"
    /\ tried' = {}
    /\ UNCHANGED <<row, file, outside, w, mishaps>>

-----------------------------------------------------------------------------
(***************************************************************************)
(* The worker: BlobWorker::run and handle_stage                             *)
(***************************************************************************)

At(pc, b) == w.pc = pc /\ w.cur = {b}
GoTo(pc) == w' = [w EXCEPT !.pc = pc]

\* The worker turns to b, and goes on at ret afterwards.
TurnTo(b, pc, ret) == w' = [w EXCEPT !.pc = pc, !.cur = {b}, !.ret = ret]

\* The worker is done with the blob at hand.
TurnBack == w' = [w EXCEPT !.pc = w.ret, !.cur = {}]

\* An error ends the work on a blob ...
Fail == GoTo("failed")

\* ... and mark_retry schedules it again.
RecordError(b) ==
    /\ At("failed", b)
    /\ Statement(MarkBlobRetry(row, b))
    /\ TurnBack
    /\ UNCHANGED <<file, outside, channel>>

Take(kind) ==
    /\ w.pc = "idle"
    /\ queue # <<>> /\ Head(queue).kind = kind
    /\ queue' = Tail(queue)

\* tokio::fs::copy has created or truncated the cache file, or failed before.
TakeStage(b) ==
    /\ Take("stage") /\ Head(queue).blob = b
    /\ \/ TurnTo(b, "copy", "idle") /\ file' = [file EXCEPT ![b] = "partial"] /\ UNCHANGED mishaps
       \/ Mishap("io") /\ TurnTo(b, "failed", "idle") /\ UNCHANGED file
    /\ UNCHANGED <<row, outside, waiting, tried>>

CopyEnds(b) ==
    /\ At("copy", b)
    /\ \/ GoTo("path") /\ file' = [file EXCEPT ![b] = "whole"] /\ UNCHANGED mishaps
       \/ Mishap("io") /\ Fail /\ UNCHANGED file
    /\ UNCHANGED <<row, outside, channel>>

\* Bug variant: the row gets its local_path before the copy has ended.
StageRecordedFirst(b) ==
    /\ At("copy", b) \/ At("path", b)
    /\ Statement(SetLocalPath(row, b))
    /\ w' = [w EXCEPT !.pc = "list", !.pass = "stage", !.cur = {}]
    /\ UNCHANGED <<file, outside, channel>>

\* set_local_path_and_size, then an upload cycle.
StageRecorded(b) ==
    /\ At("path", b)
    /\ Statement(SetLocalPath(row, b))
    /\ w' = [w EXCEPT !.pc = "list", !.pass = "stage", !.cur = {}]
    /\ UNCHANGED <<file, outside, channel>>

TakeDownload(b) ==
    /\ Take("download") /\ Head(queue).blob = b
    /\ TurnTo(b, "fetch", "idle")
    /\ UNCHANGED <<row, file, outside, waiting, tried, mishaps>>

\* Bug variant: the reply is not kept for the end of the pass.
TakeFlushAsTick ==
    /\ Take("flush")
    /\ w' = [w EXCEPT !.pc = "list", !.pass = "tick"]
    /\ UNCHANGED <<row, file, outside, waiting, tried, mishaps>>

TakeFlush ==
    /\ Take("flush")
    /\ w' = [w EXCEPT !.pc = "list", !.pass = "flush"]
    /\ UNCHANGED <<row, file, outside, waiting, tried, mishaps>>

\* The deadline passes without a message.
Tick ==
    /\ w.pc = "idle" /\ queue = <<>>
    /\ w' = [w EXCEPT !.pc = "list", !.pass = "tick"]
    /\ UNCHANGED <<row, file, outside, channel, mishaps>>

-----------------------------------------------------------------------------
(***************************************************************************)
(* The worker: run_upload_cycle and upload_blob                             *)
(***************************************************************************)

\* Bug variant: an upload that has begun is not listed again.
ListPendingUploads ==
    /\ w.pc = "list"
    /\ w' = [w EXCEPT !.pc = "uploads",
                      !.todo = {b \in ListReady(row, {"pending"}) : row[b].staged}]
    /\ UNCHANGED <<row, file, outside, channel, mishaps>>

\* Rows without a local_path are passed over.
ListUploads ==
    /\ w.pc = "list"
    /\ w' = [w EXCEPT !.pc = "uploads",
                      !.todo = {b \in ListReady(row, {"pending", "uploading"}) : row[b].staged}]
    /\ UNCHANGED <<row, file, outside, channel, mishaps>>

\* list_ready fails, and the cycle is over.  (Whoever waits for the pass is not
\* told; the history takes every blob as tried.)
ListFails ==
    /\ w.pc = "list" /\ Mishap("stmt")
    /\ GoTo("uploads")
    /\ tried' = Blobs
    /\ UNCHANGED <<row, file, outside, queue, waiting>>

UploadBlob(b) ==
    /\ w.pc = "uploads" /\ b \in w.todo
    /\ w' = [w EXCEPT !.todo = @ \ {b}, !.cur = {b}, !.ret = "uploads",
                      !.resumed = row[b].upload,
                      !.pc = IF PartCount[b] = 0 THEN "put"
                             ELSE IF row[b].upload THEN "parts"
                             ELSE "create"]
    /\ tried' = tried \cup {b}
    /\ UNCHANGED <<row, file, outside, queue, waiting, mishaps>>

\* The store has done what it was asked.  The answer arrives and the worker goes
\* on at next, or the answer is lost.
Answer(next) ==
    \/ w' = next /\ UNCHANGED mishaps
    \/ Mishap("network") /\ Fail

\* upload_single: the object is what the cache file holds.
PutObject(b) ==
    /\ At("put", b) /\ file[b] # "none"
    /\ remote' = [remote EXCEPT ![b] = file[b]]
    /\ Answer([w EXCEPT !.pc = "uploaded"])
    /\ UNCHANGED <<row, file, session, channel>>

CreateUpload(b) ==
    /\ At("create", b)
    /\ session' = [session EXCEPT ![b] = [open |-> TRUE, parts |-> {}]]
    /\ Answer([w EXCEPT !.pc = "id"])
    /\ UNCHANGED <<row, file, remote, channel>>

UploadIdRecorded(b) ==
    /\ At("id", b)
    /\ Statement(SetUploadId(row, b))
    /\ GoTo("parts")
    /\ UNCHANGED <<file, outside, channel>>

\* The parts of a session that is gone are none, and so are those of a session
\* whose first part never arrived: a resumed upload starts again then.
ListParts(b) ==
    /\ At("parts", b)
    /\ w' = [w EXCEPT !.sent = session[b].parts,
                      !.pc = IF session[b].parts = {} /\ w.resumed THEN "expired" ELSE "part"]
    /\ UNCHANGED <<row, file, outside, channel, mishaps>>

ForgetSession(b) ==
    /\ At("expired", b)
    /\ Statement(ClearUploadId(row, b))
    /\ Fail
    /\ UNCHANGED <<file, outside, channel>>

\* Bug variant: the last, shorter part is forgotten.
FullParts(b) == 1..(PartCount[b] - 1)

\* total_parts: size_bytes divided by CHUNK_SIZE, rounded up.
TotalParts(b) == Parts(b)

\* p is the first part that is missing.
NextPart(p) == p \notin w.sent /\ 1..(p - 1) \subseteq w.sent

UploadPart(b, p) ==
    /\ At("part", b)
    /\ p \in TotalParts(b) /\ NextPart(p)
    /\ session[b].open
    /\ session' = [session EXCEPT ![b].parts = @ \cup {p}]
    /\ Answer([w EXCEPT !.sent = @ \cup {p}])
    /\ UNCHANGED <<row, file, remote, channel>>

\* complete_multipart_upload joins the parts it is given.  A session that is gone is
\* an error (UploadFails), as S3 answers; the in-memory store answers Ok.
CompleteUpload(b) ==
    /\ At("part", b) /\ TotalParts(b) \subseteq w.sent
    /\ session[b].open
    /\ remote' = [remote EXCEPT ![b] = IF w.sent = Parts(b) THEN file[b] ELSE "partial"]
    /\ session' = [session EXCEPT ![b] = NoSession]
    /\ Answer([w EXCEPT !.pc = "uploaded"])
    /\ UNCHANGED <<row, file, channel>>

\* The cache file is gone, the session has expired, or a request does not reach
\* the store.
UploadFails(b) ==
    /\ w.pc \in {"put", "create", "parts", "part"} /\ w.cur = {b}
    /\ \/ Mishap("network")
       \/ w.pc = "put" /\ file[b] = "none" /\ UNCHANGED mishaps
       \/ w.pc = "part" /\ ~session[b].open /\ UNCHANGED mishaps
    /\ Fail
    /\ UNCHANGED <<row, file, outside, channel>>

Uploaded(b) ==
    /\ At("uploaded", b)
    /\ Statement(SetStatus(row, b, "uploaded"))
    /\ TurnBack
    /\ UNCHANGED <<file, outside, channel>>

-----------------------------------------------------------------------------
(***************************************************************************)
(* The worker: run_download_cycle and handle_download                       *)
(***************************************************************************)

\* The download cycle has listed blobs.
StartDownloads(blobs) ==
    w' = [w EXCEPT !.pc = "downloads", !.todo = blobs, !.sent = {}, !.resumed = FALSE]

\* Bug variant: only a flush downloads.
UploadsDoneQuick ==
    /\ w.pc = "uploads" /\ w.todo = {}
    /\ IF w.pass # "flush"
       THEN w' = [w EXCEPT !.pc = "idle", !.sent = {}, !.resumed = FALSE]
       ELSE StartDownloads(ListReady(row, {"download_pending"}))
    /\ UNCHANGED <<row, file, outside, channel, mishaps>>

\* After an upload that Stage caused the worker waits for messages; otherwise
\* it runs a download cycle.
UploadsDone ==
    /\ w.pc = "uploads" /\ w.todo = {}
    /\ IF w.pass = "stage"
       THEN w' = [w EXCEPT !.pc = "idle", !.sent = {}, !.resumed = FALSE]
       ELSE StartDownloads(ListReady(row, {"download_pending"}))
    /\ UNCHANGED <<row, file, outside, channel, mishaps>>

\* list_ready fails here too.
DownloadListFails ==
    /\ w.pc = "uploads" /\ w.todo = {} /\ w.pass # "stage"
    /\ Mishap("stmt")
    /\ StartDownloads({})
    /\ UNCHANGED <<row, file, outside, channel>>

DownloadBlob(b) ==
    /\ w.pc = "downloads" /\ b \in w.todo
    /\ w' = [w EXCEPT !.pc = "fetch", !.cur = {b}, !.ret = "downloads", !.todo = @ \ {b}]
    /\ UNCHANGED <<row, file, outside, channel, mishaps>>

\* The row of the blob cannot be read: the download is given up and no retry is
\* marked.
RowUnread(b) ==
    /\ At("fetch", b) /\ Mishap("stmt")
    /\ TurnBack
    /\ UNCHANGED <<row, file, outside, channel>>

\* get_object has the bytes and creates or truncates the cache file.
GetObject(b) ==
    /\ At("fetch", b)
    /\ remote[b] # "none"
    /\ file' = [file EXCEPT ![b] = "partial"]
    /\ GoTo("write")
    /\ UNCHANGED <<row, outside, channel, mishaps>>

GetFails(b) ==
    /\ At("fetch", b)
    /\ \/ Mishap("network")
       \/ remote[b] = "none" /\ UNCHANGED mishaps
    /\ Fail
    /\ UNCHANGED <<row, file, outside, channel>>

WriteEnds(b) ==
    /\ At("write", b)
    /\ \/ GoTo("arrived") /\ file' = [file EXCEPT ![b] = remote[b]] /\ UNCHANGED mishaps
       \/ Mishap("io") /\ Fail /\ UNCHANGED file
    /\ UNCHANGED <<row, outside, channel>>

\* set_local_path_and_size ...
DownloadRecorded(b) ==
    /\ At("arrived", b)
    /\ Statement(SetLocalPath(row, b))
    /\ GoTo("cached")
    /\ UNCHANGED <<file, outside, channel>>

\* ... then set_status.
Cached(b) ==
    /\ At("cached", b)
    /\ Statement(SetStatus(row, b, "cached"))
    /\ TurnBack
    /\ UNCHANGED <<file, outside, channel>>

\* The end of a pass: who waits for it is answered.
PassEnds ==
    /\ w.pc = "downloads" /\ w.todo = {}
    /\ GoTo("idle")
    /\ waiting' = IF w.pass = "flush" THEN "no" ELSE waiting
    /\ UNCHANGED <<row, file, outside, queue, tried, mishaps>>

-----------------------------------------------------------------------------
(***************************************************************************)
(* Time, the outside, and faults                                            *)
(***************************************************************************)

\* next_retry_at of a row passes.
BlobBackoffPasses(b) ==
    /\ ~row[b].ready
    /\ row' = [row EXCEPT ![b].ready = TRUE]
    /\ UNCHANGED <<file, outside, channel, w, mishaps>>

\* The application frees disk space: the file of a blob that it knows to be
\* uploaded (or downloaded), and not while the worker is at it.
Evict(b) ==
    /\ "evict" \in Faults
    /\ row[b].status \in {"uploaded", "cached"} /\ w.cur # {b}
    /\ file' = [file EXCEPT ![b] = "none"]
    /\ UNCHANGED <<row, outside, channel, w, mishaps>>

\* The store drops an unfinished upload.
SessionExpires(b) ==
    /\ session[b].open
    /\ Mishap("expire")
    /\ session' = [session EXCEPT ![b] = NoSession]
    /\ UNCHANGED <<row, file, remote, channel, w>>

\* The worker is gone or starts afresh.  Tables, files and the store are as they
\* were; what was queued is gone, and whoever waited has an error.
Restarted(pc) ==
    /\ w' = [Worker0 EXCEPT !.pc = pc]
    /\ queue' = <<>> /\ waiting' = "no" /\ tried' = {}
    /\ UNCHANGED <<row, file, outside>>

\* open_conn panics and takes the worker with it: the channel is closed.
Panic ==
    /\ w.pc \in {"path", "failed", "list", "uploads", "id", "part", "expired", "uploaded",
                 "fetch", "arrived", "cached"}
    /\ w.pc = "uploads" => w.todo = {}
    /\ Mishap("panic")
    /\ Restarted("dead")

\* A crash of the process and SquirrelEngine::open after it.
Crash == Mishap("crash") /\ Restarted("idle")

-----------------------------------------------------------------------------
Actor ==
    \/ \E b \in Blobs : PutBlob(b) \/ RegisterRemoteBlob(b) \/ GetBlob(b)
    \/ ForceFlush \/ FlushSent

Upload(b) ==
    \/ UploadBlob(b) \/ PutObject(b) \/ CreateUpload(b) \/ UploadIdRecorded(b)
    \/ ListParts(b) \/ ForgetSession(b) \/ CompleteUpload(b)
    \/ \E p \in Parts(b) : UploadPart(b, p)
    \/ UploadFails(b) \/ Uploaded(b)

Download(b) ==
    \/ DownloadBlob(b) \/ RowUnread(b) \/ GetObject(b) \/ GetFails(b) \/ WriteEnds(b)
    \/ DownloadRecorded(b) \/ Cached(b)

Worker ==
    \/ TakeFlush \/ ListUploads \/ ListFails \/ UploadsDone \/ DownloadListFails \/ PassEnds
    \/ \E b \in Blobs :
          \/ TakeStage(b) \/ CopyEnds(b) \/ StageRecorded(b) \/ TakeDownload(b)
          \/ RecordError(b) \/ Upload(b) \/ Download(b)

Next ==
    \/ Actor
    \/ Worker
    \/ Tick
    \/ \E b \in Blobs : BlobBackoffPasses(b) \/ Evict(b) \/ SessionExpires(b)
    \/ Panic \/ Crash

Spec == Init /\ [][Next]_vars

\* Tick: the worker is left alone for a minute now and then (every message it
\* gets puts the deadline off).
FairSpec ==
    /\ Spec
    /\ WF_vars(Worker) /\ SF_vars(Tick)
    /\ \A b \in Blobs : WF_vars(BlobBackoffPasses(b))
-----------------------------------------------------------------------------
(***************************************************************************)
(* Properties                                                               *)
(***************************************************************************)

\* Every variable has its type.
BlobTypeOK ==
    /\ row \in [Blobs -> BlobRow]
    /\ file \in [Blobs -> Contents] /\ remote \in [Blobs -> Contents]
    /\ session \in [Blobs -> [open : BOOLEAN, parts : SUBSET Nat]]
    /\ queue \in Seq(Messages) /\ Len(queue) <= QueueSize
    /\ waiting \in {"no", "room", "reply"} /\ tried \subseteq Blobs
    /\ w \in WorkerState
    /\ mishaps \in 0..MaxMishaps

\* BlobStatus::Uploaded, "the blob lives on the remote backend", whole, whatever
\* was resumed, lost or retried on the way; and so does one that was downloaded.
UploadedIsStored ==
    /\ \A b \in Blobs : row[b].status \in {"uploaded", "cached"} => remote[b] = "whole"
    /\ \A b \in Blobs : remote[b] # "partial"

\* A blob the worker has copied survives: whole in the cache or in the store.
StagedIsKept == \A b \in Blobs : row[b].staged => file[b] = "whole" \/ remote[b] = "whole"

\* force_flush_blobs: "Trigger an immediate upload+download pass and wait for it
\* to complete": when it returns, every message sent before has been handled and
\* every blob in the cache has been uploaded, tried, or waits for a retry.
FlushMeansTried ==
    [][waiting = "reply" /\ waiting' = "no" /\ mishaps' = mishaps =>
         /\ queue = <<>>
         /\ \A b \in Blobs :
               row[b].staged /\ row[b].status \in {"pending", "uploading"} =>
                   b \in tried \/ row[b].failed]_vars

Uploading == w.pc = "uploads" \/ (w.cur # {} /\ w.ret = "uploads")
Downloading == w.pc = "downloads" \/ (w.cur # {} /\ w.ret = "downloads")

\* The worker is in the pass that a flush has asked for.
InFlush == w.pass = "flush" /\ (w.pc = "list" \/ Uploading \/ Downloading)

\* The actor does not wait for nothing: the flush it waits for is in the channel or in
\* hand, and a worker is there.
FlushIsHeard ==
    /\ waiting = "reply" => InFlush \/ \E i \in 1..Len(queue) : queue[i].kind = "flush"
    /\ waiting # "no" => w.pc # "dead"

\* ... and its reply comes.
FlushReturns == waiting = "reply" ~> waiting # "reply"

Unfinished(b) == row[b].status \in {"pending", "uploading"}

\* The Stage message of b is in the channel, or the worker is at it.
StageComes(b) ==
    \/ \E i \in 1..Len(queue) : queue[i].kind = "stage" /\ queue[i].blob = b
    \/ w.cur = {b} /\ w.pc \in {"copy", "path"}

\* put_blob has made its row, and nobody is going to copy its file.
Forgotten(b) == Unfinished(b) /\ ~row[b].staged /\ ~StageComes(b)

\* The steps that may lose the request to copy b: a copy of b that fails, the
\* statement after it that fails, the end of the worker or of the process, and a put
\* of b that finds no room in the channel, or no worker.
Loses(b) ==
    \/ Mishap("io") /\ (TakeStage(b) \/ CopyEnds(b))
    \/ Mishap("stmt") /\ StageRecorded(b)
    \/ Panic \/ Crash
    \/ PutBlob(b) /\ (Len(queue) = QueueSize \/ w.pc = "dead")

\* "schedule it for background upload": a blob that was put is forgotten in one of
\* these steps and in no other: not when another blob fails to be copied, another
\* statement or a request fails, a session expires or a file is evicted.
FaultsAloneForget ==
    [][\A b \in Blobs : ~Forgotten(b) /\ Forgotten(b)' => Loses(b)]_vars

\* What has been copied is uploaded in the end, through retries, restarts and
\* expired sessions, unless the worker has panicked for good.
StagedUploads ==
    \A b \in Blobs :
        row[b].staged /\ Unfinished(b) ~> ~Unfinished(b) \/ w.pc = "dead"

\* A registered blob that the store has is downloaded in the end.
RegisteredArrives ==
    \A b \in Blobs :
        row[b].status = "download_pending" /\ remote[b] = "whole" ~>
            row[b].status = "cached" \/ w.pc = "dead"

\* put_blob: "Stage a local file as a blob and schedule it for background upload":
\* every blob that was put is uploaded in the end.
EveryPutUploads ==
    \A b \in Blobs : Unfinished(b) ~> ~Unfinished(b) \/ w.pc = "dead"

-----------------------------------------------------------------------------
(***************************************************************************)
(* The refinement                                                           *)
(***************************************************************************)

\* What a row says of the life of its blob.
LifeOf(r) ==
    CASE r.status = "none"                -> "none"
      [] r.status = "uploaded"            -> "stored"
      [] r.status = "download_pending"    -> "wanted"
      [] r.status = "cached"              -> "here"
      [] r.status \in {"pending", "uploading"} /\ ~r.staged -> "put"
      [] OTHER                            -> "kept"

LifeView == [b \in Blobs |-> LifeOf(row[b])]
StoreView == {b \in Blobs : remote[b] = "whole"}

Life == INSTANCE BlobLife WITH life <- LifeView, store <- StoreView

\* Actor, worker and store together implement the life of a blob: no retry, lost
\* answer, resumed upload, second download, panic or crash makes a blob go back,
\* skip a stage, or count as stored or here before the store has all of it.
ImplementsBlobLife == Life!LifeSpec
=============================================================================

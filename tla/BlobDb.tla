------------------------------- MODULE BlobDb -------------------------------
(***************************************************************************)
(* The statements of src/src/db/blobs.rs as operators on the blobs table of *)
(* one device, a function from blob ids to rows.  The table blob_parts is   *)
(* left out: the worker writes it and nothing reads it.                     *)
(***************************************************************************)
EXTENDS Naturals

CONSTANT Blobs      \* blob ids

ASSUME BlobDbAssumption == Blobs # {}

Statuses == {"none", "pending", "uploading", "uploaded", "download_pending", "cached"}

\* staged is local_path IS NOT NULL, upload is upload_id IS NOT NULL, failed is
\* retries > 0 and ready is next_retry_at <= now; status "none" is no row.
BlobRow == [status : Statuses, staged : BOOLEAN, upload : BOOLEAN,
            failed : BOOLEAN, ready : BOOLEAN]

NoBlobRow == [status |-> "none", staged |-> FALSE, upload |-> FALSE,
              failed |-> FALSE, ready |-> TRUE]

Exists(row, b) == row[b].status # "none"

Insert(row, b) == [row EXCEPT ![b] = [NoBlobRow EXCEPT !.status = "pending"]]

\* Bug variant: ON CONFLICT DO UPDATE, whatever the status.
RegisterAlways(row, b) == [row EXCEPT ![b].status = "download_pending"]

\* INSERT, or an UPDATE of the status of a row that is 'uploaded', or nothing.
RegisterForDownload(row, b) ==
    IF row[b].status \in {"none", "uploaded"}
    THEN [row EXCEPT ![b].status = "download_pending"]
    ELSE row

ListReady(row, statuses) == {b \in Blobs : row[b].status \in statuses /\ row[b].ready}

SetStatus(row, b, status) == [row EXCEPT ![b].status = status]

SetLocalPath(row, b) == [row EXCEPT ![b].staged = TRUE]

SetUploadId(row, b) == [row EXCEPT ![b].upload = TRUE, ![b].status = "uploading"]

\* Bug variant: only the retry columns are reset.
KeepUploadId(row, b) == [row EXCEPT ![b].failed = FALSE, ![b].ready = TRUE]

\* Resets the retry columns too.
ClearUploadId(row, b) ==
    [row EXCEPT ![b].upload = FALSE, ![b].status = "pending",
                ![b].failed = FALSE, ![b].ready = TRUE]

MarkBlobRetry(row, b) == [row EXCEPT ![b].failed = TRUE, ![b].ready = FALSE]
=============================================================================

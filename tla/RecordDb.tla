------------------------------ MODULE RecordDb ------------------------------
(***************************************************************************)
(* The SQL statements of src/src/db/records.rs and src/src/db/outbox.rs as   *)
(* operators: what one statement reads from, or does to, the `records` and  *)
(* `outbox` tables of one device.  A table of records maps each id to its    *)
(* row (the primary key of `records` is the id alone: an id lives in one     *)
(* collection at a time); the outbox is a set of entries told apart by seq. *)
(***************************************************************************)
EXTENDS Hlc, FiniteSets

CONSTANTS Ids,            \* record ids
          Colls,          \* collection names
          PushBatch       \* LIMIT of peek_batch (25 in the code)

ASSUME RecordDbAssumption == /\ Ids # {} /\ Colls # {}
                             /\ PushBatch \in Nat \ {0}

\* A payload is named after the write that produced it: the device and the
\* outbox seq.  Tombstones on the wire carry none.
Payload == [dev : Nat, n : Nat]
NoData  == [dev |-> 0, n |-> 0]

Row == [coll : Colls, hlc : Stamp, data : Payload, deleted : BOOLEAN, synced : BOOLEAN]

NoRow == [coll |-> CHOOSE c \in Colls : TRUE, hlc |-> Never, data |-> NoData,
          deleted |-> FALSE, synced |-> FALSE]

\* ready abstracts next_retry_at <= now.
Entry == [seq : Nat, id : Ids, coll : Colls, op : {"upsert", "delete"}, hlc : Stamp,
          data : Payload, retries : Nat, ready : BOOLEAN]

\* What a backend stores for one (record id, collection).
Version == [hlc : Stamp, data : Payload, deleted : BOOLEAN]

\* A record on its way from a backend.
RemoteRecord == [id : Ids, coll : Colls, hlc : Stamp, data : Payload, deleted : BOOLEAN]

-----------------------------------------------------------------------------
\* records

Present(row) == row.hlc # Never

Get(rows, c, id) == IF rows[id].coll = c THEN rows[id] ELSE NoRow

\* INSERT ... ON CONFLICT(id) DO UPDATE: the collection moves with the write.
Upsert(rows, c, id, h, v) ==
    [rows EXCEPT ![id] = [coll |-> c, hlc |-> h, data |-> v,
                          deleted |-> FALSE, synced |-> FALSE]]

\* Bug variant: the deleted flag of the remote record is not stored.
UpsertRemoteAsLive(rows, r) ==
    [rows EXCEPT ![r.id] = [coll |-> r.coll, hlc |-> r.hlc, data |-> r.data,
                            deleted |-> FALSE, synced |-> TRUE]]

\* Unconditional: the HLC comparison is the caller's, made before.
UpsertRemote(rows, r) ==
    [rows EXCEPT ![r.id] = [coll |-> r.coll, hlc |-> r.hlc, data |-> r.data,
                            deleted |-> r.deleted, synced |-> TRUE]]

\* UPDATE ... WHERE id AND collection: touches no row when none matches, and
\* keeps the payload of the row it tombstones.
SoftDelete(rows, c, id, h) ==
    IF Present(Get(rows, c, id))
    THEN [rows EXCEPT ![id].deleted = TRUE, ![id].hlc = h, ![id].synced = FALSE]
    ELSE rows

MarkSynced(rows, c, id) ==
    IF Present(Get(rows, c, id)) THEN [rows EXCEPT ![id].synced = TRUE] ELSE rows

\* h is SELECT MAX(hlc): over every row, own or pulled; Never on an empty table.
IsMaxHlc(rows, h) == \A id \in Ids : AtLeast(h, rows[id].hlc)

-----------------------------------------------------------------------------
\* outbox

NewEntry(seq, c, id, op, h, v) ==
    [seq |-> seq, id |-> id, coll |-> c, op |-> op, hlc |-> h, data |-> v,
     retries |-> 0, ready |-> TRUE]

\* Bug variant: the highest seqs come first.
PeekNewest(outbox) ==
    LET due == {e \in outbox : e.ready}
    IN  {e \in due : Cardinality({f \in due : f.seq > e.seq}) < PushBatch}

\* The PushBatch lowest seqs among the entries that are due.
PeekBatch(outbox) ==
    LET due == {e \in outbox : e.ready}
    IN  {e \in due : Cardinality({f \in due : f.seq < e.seq}) < PushBatch}

First(entries) == CHOOSE e \in entries : \A f \in entries : e.seq <= f.seq

DeleteSeq(outbox, seq) == {e \in outbox : e.seq # seq}

\* One more failure, and not due again until the backoff has passed.
MarkRetry(outbox, seq) ==
    {IF e.seq = seq THEN [e EXCEPT !.retries = @ + 1, !.ready = FALSE] ELSE e : e \in outbox}

\* The backoff of an entry has passed.
MakeDue(outbox, seq) ==
    {IF e.seq = seq THEN [e EXCEPT !.ready = TRUE] ELSE e : e \in outbox}

\* Bug variant: the condition on the collection is missing.
RemoveForId(outbox, c, id) == {e \in outbox : e.id # id}

\* Every entry of the record, whatever its stamp.
RemoveForRecord(outbox, c, id) == {e \in outbox : ~(e.id = id /\ e.coll = c)}
=============================================================================

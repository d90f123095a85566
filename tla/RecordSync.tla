----------------------------- MODULE RecordSync -----------------------------
(***************************************************************************)
(* Record synchronisation of squirreld: on every device an actor task       *)
(* (src/src/engine.rs) that writes records and outbox entries in one         *)
(* transaction, and a sync loop (src/src/sync/mod.rs) that pushes the outbox *)
(* and pulls the remote store through connections of its own, without a      *)
(* transaction.  The two tasks interleave at every SQL statement and at      *)
(* every await; one action below is one statement (or one transaction of    *)
(* the actor) or one exchange with the backend.                             *)
(***************************************************************************)
EXTENDS RecordBackend

CONSTANTS
    Devices,        \* node ids
    Wall,           \* what SystemTime::now() may read, at any call, on any device
    Faults,         \* which faults the environment may inject, per device
    MaxWrites,      \* bound: puts and deletes, per device (0 for a pure reader)
    MaxRetries      \* bound: failed pushes of one outbox entry

ASSUME RecordSyncAssumption ==
    /\ Devices \subseteq Nat \ {0}
    /\ Wall \subseteq Nat
    /\ Faults \in [Devices -> SUBSET {"crash", "network", "db", "clear"}]
    /\ MaxWrites \in [Devices -> Nat]
    /\ MaxRetries \in Nat

VARIABLES
    rows,           \* records table, per device
    outbox,         \* outbox table
    nextSeq,        \* sqlite_sequence of the outbox: AUTOINCREMENT, never reused
    checkpoint,     \* sync_state.last_pull_hlc
    lastHlc,        \* ActorState.last_hlc, in memory
    pc,             \* where the sync loop stands
    peeked,         \* push cycle: peeked entries whose row is still to be read
    batch,          \* push cycle: push entries not settled yet
    reply,          \* push cycle: what push_one answered for First(batch)
    pulled,         \* pull cycle: records still to be applied
    applying,       \* pull cycle: the record apply_remote_record is at, if any
    newCp,          \* pull cycle: new_checkpoint
    remote,         \* the remote store
    issued,         \* history: versions stamped by handle_put and handle_delete
    discarded,      \* history: outbox entries dropped although the remote store
                    \* had nothing as recent
    skipped         \* history: pulled versions that could not be applied

dbVars   == <<rows, outbox, nextSeq, checkpoint>>
loopVars == <<pc, peeked, batch, reply, pulled, applying, newCp>>
history  == <<issued, discarded, skipped>>
vars     == <<dbVars, lastHlc, loopVars, remote, history>>

Ops  == {"upsert", "delete"}
PCs  == {"idle", "build", "push", "settle", "mark", "pull", "apply", "upsert", "remove"}
Replies == {"none", "ok", "conflict", "transient"}

Init ==
    /\ rows = [d \in Devices |-> [id \in Ids |-> NoRow]]
    /\ outbox = [d \in Devices |-> {}]
    /\ nextSeq = [d \in Devices |-> 1]
    /\ checkpoint = [d \in Devices |-> Never]
    /\ \E wall \in [Devices -> Wall] :
          lastHlc = [d \in Devices |-> NewHlc(d, wall[d])]
    /\ pc = [d \in Devices |-> "idle"]
    /\ peeked = [d \in Devices |-> {}]
    /\ batch = [d \in Devices |-> {}]
    /\ reply = [d \in Devices |-> "none"]
    /\ pulled = [d \in Devices |-> {}]
    /\ applying = [d \in Devices |-> {}]
    /\ newCp = [d \in Devices |-> Never]
    /\ remote = EmptyStore
    /\ issued = {}
    /\ discarded = {}
    /\ skipped = {}

-----------------------------------------------------------------------------
(***************************************************************************)
(* The actor                                                                *)
(***************************************************************************)

\* handle_put: one transaction for the row and the outbox entry; last_hlc
\* moves only once it has committed.
Put(d, c, id, wall) ==
    LET h == Tick(lastHlc[d], wall)
        v == [dev |-> d, n |-> nextSeq[d]]
    IN  /\ nextSeq[d] <= MaxWrites[d]
        /\ rows' = [rows EXCEPT ![d] = Upsert(@, c, id, h, v)]
        /\ outbox' = [outbox EXCEPT ![d] = @ \cup {NewEntry(nextSeq[d], c, id, "upsert", h, v)}]
        /\ nextSeq' = [nextSeq EXCEPT ![d] = @ + 1]
        /\ lastHlc' = [lastHlc EXCEPT ![d] = h]
        /\ issued' = issued \cup {[dev |-> d, id |-> id, coll |-> c, hlc |-> h, deleted |-> FALSE]}
        /\ UNCHANGED <<checkpoint, loopVars, remote, discarded, skipped>>

\* handle_delete: the entry is queued whether or not a row was tombstoned.
Delete(d, c, id, wall) ==
    LET h == Tick(lastHlc[d], wall)
    IN  /\ nextSeq[d] <= MaxWrites[d]
        /\ rows' = [rows EXCEPT ![d] = SoftDelete(@, c, id, h)]
        /\ outbox' = [outbox EXCEPT ![d] =
                        @ \cup {NewEntry(nextSeq[d], c, id, "delete", h, NoData)}]
        /\ nextSeq' = [nextSeq EXCEPT ![d] = @ + 1]
        /\ lastHlc' = [lastHlc EXCEPT ![d] = h]
        /\ issued' = issued \cup {[dev |-> d, id |-> id, coll |-> c, hlc |-> h, deleted |-> TRUE]}
        /\ UNCHANGED <<checkpoint, loopVars, remote, discarded, skipped>>

\* What is lost for good when the entries in gone leave the outbox of d.
Discard(d, gone, why) ==
    {[dev |-> d, id |-> e.id, coll |-> e.coll, hlc |-> e.hlc, why |-> why] : e \in gone}

\* clear_error: the user may discard any entry, failed or not.
ClearError(d, e) ==
    /\ "clear" \in Faults[d]
    /\ outbox' = [outbox EXCEPT ![d] = DeleteSeq(@, e.seq)]
    /\ discarded' = discarded \cup Discard(d, {e}, "cleared")
    /\ UNCHANGED <<rows, nextSeq, checkpoint, lastHlc, loopVars, remote, issued, skipped>>

\* A crash (or a shutdown) at any point and SquirrelEngine::open after it:
\* the tables survive, the clock is rebuilt from MAX(hlc), node id included.
Reopen(d, wall) ==
    /\ "crash" \in Faults[d]
    /\ \E h \in {rows[d][id].hlc : id \in Ids} :
          /\ IsMaxHlc(rows[d], h)
          /\ lastHlc' = [lastHlc EXCEPT ![d] = IF h = Never THEN NewHlc(d, wall) ELSE h]
    /\ pc' = [pc EXCEPT ![d] = "idle"]
    /\ peeked' = [peeked EXCEPT ![d] = {}]
    /\ batch' = [batch EXCEPT ![d] = {}]
    /\ reply' = [reply EXCEPT ![d] = "none"]
    /\ pulled' = [pulled EXCEPT ![d] = {}]
    /\ applying' = [applying EXCEPT ![d] = {}]
    /\ newCp' = [newCp EXCEPT ![d] = Never]
    /\ UNCHANGED <<dbVars, remote, history>>

\* Time passes: next_retry_at of a failed entry is no longer in the future.
BackoffPasses(d, e) ==
    /\ ~e.ready
    /\ outbox' = [outbox EXCEPT ![d] = MakeDue(@, e.seq)]
    /\ UNCHANGED <<rows, nextSeq, checkpoint, lastHlc, loopVars, remote, history>>

-----------------------------------------------------------------------------
(***************************************************************************)
(* The sync loop: run_push_cycle                                            *)
(***************************************************************************)

\* SQLite statements of the sync loop may fail on d.
Db(d) == "db" \in Faults[d]

\* Where the push cycle goes with b left to send.
NextPush(b) == IF b = {} THEN "pull" ELSE "push"

\* A cycle may begin at any time: the timer fires every 60 seconds, and every
\* write kicks the loop.
PeekOutbox(d) ==
    /\ pc[d] = "idle"
    /\ \E entries \in {PeekBatch(outbox[d])} \cup (IF Db(d) THEN {{}} ELSE {}) :
          /\ peeked' = [peeked EXCEPT ![d] = entries]
          /\ pc' = [pc EXCEPT ![d] = IF entries = {} THEN "pull" ELSE "build"]
    /\ UNCHANGED <<dbVars, lastHlc, batch, reply, pulled, applying, newCp, remote, history>>

\* build_push_entry for the next peeked entry: an upsert carries what the row
\* holds now under the stamp of the entry; with no row for it in the
\* collection the entry is passed over (and stays in the outbox).
BuildEntry(d) ==
    LET e   == First(peeked[d])
        row == Get(rows[d], e.coll, e.id)
        built == IF e.op = "delete" THEN {[e EXCEPT !.data = NoData]}
                 ELSE IF Present(row) THEN {[e EXCEPT !.data = row.data]}
                 ELSE {}
    IN  /\ pc[d] = "build"
        /\ peeked' = [peeked EXCEPT ![d] = @ \ {e}]
        /\ \E b \in {batch[d] \cup built} \cup
                    (IF Db(d) /\ e.op = "upsert" THEN {batch[d]} ELSE {}) :
              /\ batch' = [batch EXCEPT ![d] = b]
              /\ pc' = [pc EXCEPT ![d] =
                          IF peeked[d] \ {e} # {} THEN "build" ELSE NextPush(b)]
        /\ UNCHANGED <<dbVars, lastHlc, reply, pulled, applying, newCp, remote, history>>

\* push_one is evaluated by the backend and the answer arrives.
PushAnswered(d) ==
    LET e == First(batch[d])
    IN  /\ pc[d] = "push"
        /\ remote' = PushOne(remote, e)
        /\ reply' = [reply EXCEPT ![d] = IF Accepts(remote, e) THEN "ok" ELSE "conflict"]
        /\ pc' = [pc EXCEPT ![d] = "settle"]
        /\ UNCHANGED <<dbVars, lastHlc, peeked, batch, pulled, applying, newCp, history>>

\* The request or its answer is lost: the backend may have evaluated it.
PushUnanswered(d) ==
    LET e == First(batch[d])
    IN  /\ "network" \in Faults[d]
        /\ pc[d] = "push"
        /\ e.retries < MaxRetries
        /\ remote' \in {remote, PushOne(remote, e)}
        /\ reply' = [reply EXCEPT ![d] = "transient"]
        /\ pc' = [pc EXCEPT ![d] = "settle"]
        /\ UNCHANGED <<dbVars, lastHlc, peeked, batch, pulled, applying, newCp, history>>

\* PushResult::Ok: delete_seqs; its error is ignored.
SettleOk(d) ==
    LET e == First(batch[d])
    IN  /\ pc[d] = "settle" /\ reply[d] = "ok"
        /\ outbox' \in {[outbox EXCEPT ![d] = DeleteSeq(@, e.seq)]} \cup
                       (IF Db(d) THEN {outbox} ELSE {})
        /\ pc' = [pc EXCEPT ![d] = "mark"]
        /\ UNCHANGED <<rows, nextSeq, checkpoint, lastHlc, peeked, batch, reply, pulled,
                       applying, newCp, remote, history>>

\* ... then mark_synced, whatever version the row holds by now.
SettleMark(d) ==
    LET e == First(batch[d])
    IN  /\ pc[d] = "mark"
        /\ rows' \in {[rows EXCEPT ![d] = MarkSynced(@, e.coll, e.id)]} \cup
                     (IF Db(d) THEN {rows} ELSE {})
        /\ batch' = [batch EXCEPT ![d] = @ \ {e}]
        /\ reply' = [reply EXCEPT ![d] = "none"]
        /\ pc' = [pc EXCEPT ![d] = NextPush(batch[d] \ {e})]
        /\ UNCHANGED <<outbox, nextSeq, checkpoint, lastHlc, peeked, pulled, applying,
                       newCp, remote, history>>

\* Bug variant: a conflict leaves its entry for the pull to clean up.
SettleConflictLater(d) ==
    LET e == First(batch[d])
    IN  /\ pc[d] = "settle" /\ reply[d] = "conflict"
        /\ batch' = [batch EXCEPT ![d] = @ \ {e}]
        /\ reply' = [reply EXCEPT ![d] = "none"]
        /\ pc' = [pc EXCEPT ![d] = NextPush(batch[d] \ {e})]
        /\ UNCHANGED <<dbVars, lastHlc, peeked, pulled, applying, newCp, remote, history>>

\* PushResult::ConflictAt: the remote version is as recent, drop the entry.
SettleConflict(d) ==
    LET e == First(batch[d])
    IN  /\ pc[d] = "settle" /\ reply[d] = "conflict"
        /\ outbox' \in {[outbox EXCEPT ![d] = DeleteSeq(@, e.seq)]} \cup
                       (IF Db(d) THEN {outbox} ELSE {})
        /\ batch' = [batch EXCEPT ![d] = @ \ {e}]
        /\ reply' = [reply EXCEPT ![d] = "none"]
        /\ pc' = [pc EXCEPT ![d] = NextPush(batch[d] \ {e})]
        /\ UNCHANGED <<rows, nextSeq, checkpoint, lastHlc, peeked, pulled, applying,
                       newCp, remote, history>>

\* PushResult::TransientError: mark_retry and give up the rest of the batch.
SettleTransient(d) ==
    LET e == First(batch[d])
    IN  /\ pc[d] = "settle" /\ reply[d] = "transient"
        /\ outbox' \in {[outbox EXCEPT ![d] = MarkRetry(@, e.seq)]} \cup
                       (IF Db(d) THEN {outbox} ELSE {})
        /\ batch' = [batch EXCEPT ![d] = {}]
        /\ reply' = [reply EXCEPT ![d] = "none"]
        /\ pc' = [pc EXCEPT ![d] = "pull"]
        /\ UNCHANGED <<rows, nextSeq, checkpoint, lastHlc, peeked, pulled, applying,
                       newCp, remote, history>>

\* The connection for the write phase cannot be opened: the answer is lost
\* and so is the rest of the batch.
SettleOpenFails(d) ==
    /\ Db(d)
    /\ pc[d] = "settle"
    /\ batch' = [batch EXCEPT ![d] = {}]
    /\ reply' = [reply EXCEPT ![d] = "none"]
    /\ pc' = [pc EXCEPT ![d] = "pull"]
    /\ UNCHANGED <<dbVars, lastHlc, peeked, pulled, applying, newCp, remote, history>>

-----------------------------------------------------------------------------
(***************************************************************************)
(* The sync loop: run_pull_cycle and apply_remote_record                    *)
(***************************************************************************)

\* Everything stamped after the checkpoint; nothing there ends the cycle.
Pull(d) ==
    LET records == PullSince(remote, checkpoint[d])
    IN  /\ pc[d] = "pull"
        /\ pulled' = [pulled EXCEPT ![d] = records]
        /\ newCp' = [newCp EXCEPT ![d] = IF records = {} THEN Never ELSE checkpoint[d]]
        /\ pc' = [pc EXCEPT ![d] = IF records = {} THEN "idle" ELSE "apply"]
        /\ UNCHANGED <<dbVars, lastHlc, peeked, batch, reply, applying, remote, history>>

\* The checkpoint cannot be read or pull_since fails.
PullFails(d) ==
    /\ Db(d) \/ "network" \in Faults[d]
    /\ pc[d] = "pull"
    /\ pc' = [pc EXCEPT ![d] = "idle"]
    /\ UNCHANGED <<dbVars, lastHlc, peeked, batch, reply, pulled, applying, newCp, remote,
                   history>>

\* Records of the pull in stamp order.
IsNext(d, r) == r \in pulled[d] /\ \A q \in pulled[d] : AtLeast(q.hlc, r.hlc)

\* new_checkpoint after a record has been applied without error.
Advance(cp, r) == IF Less(cp, r.hlc) THEN r.hlc ELSE cp

\* SELECT of the local row: same or newer, nothing to do.
ApplySkip(d, r) ==
    /\ pc[d] = "apply" /\ IsNext(d, r)
    /\ AtLeast(Get(rows[d], r.coll, r.id).hlc, r.hlc)
    /\ pulled' = [pulled EXCEPT ![d] = @ \ {r}]
    /\ newCp' = [newCp EXCEPT ![d] = Advance(@, r)]
    /\ UNCHANGED <<dbVars, lastHlc, pc, peeked, batch, reply, applying, remote, history>>

\* SELECT of the local row: absent or older, it will be overwritten.
ApplyGet(d, r) ==
    /\ pc[d] = "apply" /\ IsNext(d, r)
    /\ Less(Get(rows[d], r.coll, r.id).hlc, r.hlc)
    /\ pulled' = [pulled EXCEPT ![d] = @ \ {r}]
    /\ applying' = [applying EXCEPT ![d] = {r}]
    /\ pc' = [pc EXCEPT ![d] = "upsert"]
    /\ UNCHANGED <<dbVars, lastHlc, peeked, batch, reply, newCp, remote, history>>

\* upsert_remote: unconditional.
ApplyUpsert(d, r) ==
    /\ pc[d] = "upsert" /\ r \in applying[d]
    /\ rows' = [rows EXCEPT ![d] = UpsertRemote(@, r)]
    /\ pc' = [pc EXCEPT ![d] = "remove"]
    /\ UNCHANGED <<outbox, nextSeq, checkpoint, lastHlc, peeked, batch, reply, pulled,
                   applying, newCp, remote, history>>

\* remove_outbox_for_record: every entry of the record, whatever its stamp.
ApplyRemove(d, r) ==
    LET gone == outbox[d] \ RemoveForRecord(outbox[d], r.coll, r.id)
    IN  /\ pc[d] = "remove" /\ r \in applying[d]
        /\ outbox' = [outbox EXCEPT ![d] = RemoveForRecord(@, r.coll, r.id)]
        /\ discarded' = discarded \cup
              Discard(d, {e \in gone : Less(r.hlc, e.hlc)}, "overtaken")
        /\ applying' = [applying EXCEPT ![d] = {}]
        /\ newCp' = [newCp EXCEPT ![d] = Advance(@, r)]
        /\ pc' = [pc EXCEPT ![d] = "apply"]
        /\ UNCHANGED <<rows, nextSeq, checkpoint, lastHlc, peeked, batch, reply, pulled,
                       remote, issued, skipped>>

\* A statement of apply_remote_record fails: `continue`, the checkpoint does
\* not count this record, the statements before it stay done.
ApplyFails(d, r) ==
    /\ Db(d)
    /\ \/ pc[d] = "apply" /\ IsNext(d, r)
       \/ pc[d] \in {"upsert", "remove"} /\ r \in applying[d]
    /\ pulled' = [pulled EXCEPT ![d] = @ \ {r}]
    /\ applying' = [applying EXCEPT ![d] = {}]
    /\ pc' = [pc EXCEPT ![d] = "apply"]
    /\ skipped' = skipped \cup {[dev |-> d, id |-> r.id, coll |-> r.coll, hlc |-> r.hlc]}
    /\ UNCHANGED <<dbVars, lastHlc, peeked, batch, reply, newCp, remote, issued, discarded>>

\* set_checkpoint ends the cycle; its error is ignored.
FinishPull(d) ==
    /\ pc[d] = "apply" /\ pulled[d] = {}
    /\ checkpoint' \in {[checkpoint EXCEPT ![d] = newCp[d]]} \cup
                       (IF Db(d) THEN {checkpoint} ELSE {})
    /\ newCp' = [newCp EXCEPT ![d] = Never]
    /\ pc' = [pc EXCEPT ![d] = "idle"]
    /\ UNCHANGED <<rows, outbox, nextSeq, lastHlc, peeked, batch, reply, pulled, applying,
                   remote, history>>

-----------------------------------------------------------------------------
Actor(d) ==
    \/ \E c \in Colls, id \in Ids, wall \in Wall :
          Put(d, c, id, wall) \/ Delete(d, c, id, wall)
    \/ \E e \in outbox[d] : ClearError(d, e)

PushStep(d) ==
    \/ PeekOutbox(d) \/ BuildEntry(d) \/ PushAnswered(d) \/ PushUnanswered(d)
    \/ SettleOk(d) \/ SettleMark(d) \/ SettleConflict(d) \/ SettleTransient(d)
    \/ SettleOpenFails(d)

PullStep(d) ==
    \/ Pull(d) \/ PullFails(d) \/ FinishPull(d)
    \/ \E r \in pulled[d] : ApplySkip(d, r) \/ ApplyGet(d, r)
    \/ \E r \in applying[d] : ApplyUpsert(d, r) \/ ApplyRemove(d, r)
    \/ \E r \in pulled[d] \cup applying[d] : ApplyFails(d, r)

\* SyncLoop::run: what wakes the loop (timer, kick, forced sync) and the debounce
\* only decide when the next cycle begins.
SyncLoop(d) == PushStep(d) \/ PullStep(d)

Next ==
    \E d \in Devices :
        \/ Actor(d)
        \/ \E wall \in Wall : Reopen(d, wall)
        \/ \E e \in outbox[d] : BackoffPasses(d, e)
        \/ SyncLoop(d)

Spec == Init /\ [][Next]_vars
-----------------------------------------------------------------------------
(***************************************************************************)
(* Properties                                                               *)
(***************************************************************************)

\* A stamped version, an outbox entry dropped for good, a record passed over.
Issue   == [dev : Devices, id : Ids, coll : Colls, hlc : Stamp, deleted : BOOLEAN]
Discarded == [dev : Devices, id : Ids, coll : Colls, hlc : Stamp,
              why : {"cleared", "overtaken"}]
Skip    == [dev : Devices, id : Ids, coll : Colls, hlc : Stamp]

\* Every variable has its type (the columns of schema.rs, the locals of the
\* two cycles).
TypeOK ==
    /\ rows \in [Devices -> [Ids -> Row]]
    /\ outbox \in [Devices -> SUBSET Entry]
    /\ nextSeq \in [Devices -> Nat \ {0}]
    /\ checkpoint \in [Devices -> Stamp]
    /\ lastHlc \in [Devices -> Stamp]
    /\ pc \in [Devices -> PCs]
    /\ peeked \in [Devices -> SUBSET Entry]
    /\ batch \in [Devices -> SUBSET Entry]
    /\ reply \in [Devices -> Replies]
    /\ pulled \in [Devices -> SUBSET RemoteRecord]
    /\ applying \in [Devices -> SUBSET RemoteRecord]
    /\ newCp \in [Devices -> Stamp]
    /\ remote \in [Keys -> Version]
    /\ issued \in SUBSET Issue
    /\ discarded \in SUBSET Discarded
    /\ skipped \in SUBSET Skip

\* The store has this version of a record or a later one.
Covered(id, c, h) == AtLeast(remote[<<id, c>>].hlc, h)

\* The outbox of d has an entry for it.
Queued(d, id, c, h) == \E e \in outbox[d] : e.id = id /\ e.coll = c /\ e.hlc = h

\* An entry for it was dropped knowingly (Discarded).
GivenUp(d, id, c, h) ==
    \E x \in discarded : x.dev = d /\ x.id = id /\ x.coll = c /\ x.hlc = h

\* The promise of the transactional outbox, for every interleaving of the two
\* tasks, crash, lost answer and failed statement: every version a device has
\* stamped is in the remote store (or a later one is), or is still queued, or
\* the user discarded it, or remove_outbox_for_record took it away with the
\* entries it was meant for.
NothingForgotten ==
    \A i \in issued :
        \/ Covered(i.id, i.coll, i.hlc)
        \/ Queued(i.dev, i.id, i.coll, i.hlc)
        \/ GivenUp(i.dev, i.id, i.coll, i.hlc)

\* Some device has put (or deleted) this version.
Stamped(id, c, h, deleted) ==
    \E i \in issued : i.id = id /\ i.coll = c /\ i.hlc = h /\ i.deleted = deleted

\* No version is made up on the way: what the remote store and every device
\* hold of a record is a put or a delete some device stamped for it.
NothingInvented ==
    /\ \A k \in Keys : remote[k].hlc # Never =>
          Stamped(k[1], k[2], remote[k].hlc, remote[k].deleted)
    /\ \A d \in Devices, id \in Ids : Present(rows[d][id]) =>
          Stamped(id, rows[d][id].coll, rows[d][id].hlc, rows[d][id].deleted)

\* The replicated register this module implements: stamped versions, the stamp
\* and the tombstone flag of every stored record and of every row.
Lww == INSTANCE LwwReplication WITH
    stamped <- issued,
    store   <- [k \in Keys |-> [hlc |-> remote[k].hlc, deleted |-> remote[k].deleted]],
    view    <- [d \in Devices |-> [id \in Ids |->
                  [coll |-> rows[d][id].coll,
                   mark |-> [hlc |-> rows[d][id].hlc, deleted |-> rows[d][id].deleted]]]]

\* The two tasks of every device implement LwwReplication: the store never moves
\* back, and the rows of a device only change by its own writes and by versions
\* the store has reached.
ImplementsLww == Lww!AbsSpec

\* A stamp names one version of a record: two copies of it that carry the same
\* stamp, on two devices or in the store, have the same content, although a
\* push sends the payload of the moment under the stamp of an older entry.
\* (As long as no device that writes restarts: Reopen may lead it to stamp two
\* versions alike.)
OneVersionPerStamp ==
    LET copies(k) == {remote[k]} \cup {Get(rows[d], k[2], k[1]) : d \in Devices}
    IN  \A k \in Keys : \A v, w \in copies(k) :
            v.hlc = w.hlc => /\ v.deleted = w.deleted
                             /\ v.deleted \/ v.data = w.data

\* A pull of d could not apply this version.
Skipped(d, id, c, h) == [dev |-> d, id |-> id, coll |-> c, hlc |-> h] \in skipped

\* Which records a device has to show once its pulls have passed the
\* checkpoint: what the store holds up to there, but for the versions that a
\* failed statement made a pull pass over.
CheckpointIsComplete ==
    \A d \in Devices, k \in Keys :
        remote[k].hlc # Never /\ AtLeast(checkpoint[d], remote[k].hlc) =>
            \/ AtLeast(Get(rows[d], k[2], k[1]).hlc, remote[k].hlc)
            \/ Skipped(d, k[1], k[2], remote[k].hlc)

\* Nothing left to push, to pull or to apply, anywhere.
Settled ==
    \A d \in Devices :
        /\ outbox[d] = {} /\ peeked[d] = {} /\ batch[d] = {}
        /\ pulled[d] = {} /\ applying[d] = {}
        /\ PullSince(remote, checkpoint[d]) = {}

\* A tombstone keeps the payload where the delete was made and comes without
\* one where it was pulled: nobody can read it.
SameVersion(r, s) ==
    /\ r.coll = s.coll /\ r.hlc = s.hlc /\ r.deleted = s.deleted
    /\ r.deleted \/ r.data = s.data

\* Every device shows the same version of every record, or none.
AllTheSame == \A d1, d2 \in Devices, id \in Ids : SameVersion(rows[d1][id], rows[d2][id])

\* sync_push.rs: "both devices must converge to the same value": once there is
\* nothing left to push or pull, and provided that no entry was discarded and no
\* record skipped.
Converged == Settled /\ discarded = {} /\ skipped = {} => AllTheSame

\* README: "Last-write-wins (LWW): conflict resolution via Hybrid Logical Clock".
\* What all devices show by then is the version with the highest stamp any of them
\* has given the record: they do not agree on an older one, or on none.
LastWriteWins ==
    Settled /\ discarded = {} /\ skipped = {} =>
        \A d \in Devices, i \in issued : AtLeast(rows[d][i.id].hlc, i.hlc)

\* Two devices never stamp two versions alike: the node id "prevents HLC
\* collisions between devices that write in the same millisecond".
StampsUnique == \A i, j \in issued : i.hlc = j.hlc => i.dev = j.dev

\* "There is no window where data is written locally but not tracked for sync."
EveryWriteTracked ==
    \A i \in issued :
        Covered(i.id, i.coll, i.hlc) \/ Queued(i.dev, i.id, i.coll, i.hlc)

-----------------------------------------------------------------------------
(***************************************************************************)
(* Fairness.  The loop keeps running cycles (timer), a pending answer or    *)
(* timeout arrives, a pull that is tried for ever succeeds now and then, and *)
(* clocks advance past next_retry_at.                                       *)
(***************************************************************************)
FairSpec ==
    /\ Spec
    /\ \A d \in Devices :
          /\ WF_vars(SyncLoop(d))
          /\ SF_vars(Pull(d))
          /\ WF_vars(\E e \in outbox[d] : BackoffPasses(d, e))

\* "entries retry indefinitely": every queued entry leaves the outbox.
EveryEntryLeaves ==
    \A d \in Devices : \A n \in 1..MaxWrites[d] :
        (\E e \in outbox[d] : e.seq = n) ~> ~(\E e \in outbox[d] : e.seq = n)

\* Once restarts have ceased, the devices end up holding the same records.
EventuallyTheSame ==
    <>[][\A d \in Devices, wall \in Wall : ~Reopen(d, wall)]_vars
        => <>[](AllTheSame \/ discarded # {} \/ skipped # {})
=============================================================================

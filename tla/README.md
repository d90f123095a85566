# squirreld in TLA+

squirreld is an embedded document store. Every device keeps its records and
blobs in SQLite; background tasks carry them to a remote store (DynamoDB and S3,
or in-memory backends for tests) and bring back what other devices wrote. The
last writer wins, by hybrid logical timestamps. This directory models the parts
of the program in which tasks, devices and failures interleave, checks them with
TLC on small instances, and proves nearly all of their safety properties with
TLAPS for instances of every size.

Paths below are relative to the crate: `engine.rs` is `src/engine.rs` of the
repository, and so on.

## 1. Inventory

| Part | State | Operations | Interacts by |
|---|---|---|---|
| Clock, `hlc.rs` | none (values `ms-counter-node`) | `new`, `tick`, `merge`, order | called by the actor; `merge` by nobody |
| Engine actor, `engine.rs` | a connection, `last_hlc`, registered indexes, trigger senders | put, delete, get, list, clear_error, force_sync, blob and index commands | one command at a time; `try_send` to the loops, a blocking wait for forced syncs and flushes |
| Tables, `db/` | `records`, `outbox`, `sync_state`, `blobs`, index tables | one SQL statement each | shared by actor, sync loop and blob worker, each with connections of its own |
| Sync trigger, `sync/mod.rs` and `engine.rs` | a channel of 8 messages, `deadline`, the replies of forced syncs | kick, force, debounce, timer, close | the actor sends, the loop receives; kicks are dropped when there is no room |
| Sync loop, `sync/mod.rs` | locals of the push and the pull cycle | push cycle, pull cycle | SQLite statements without a transaction; the record backend |
| Record backend, `backend/in_memory.rs`, `backend/dynamodb.rs` | one version per id and collection | conditional `push_one`, `pull_since` | requests whose answer may be lost |
| Blob worker, `blob/worker.rs` | `deadline`, `flush_replies`, locals of the cycle | stage, upload (single, multipart), download, retry | a channel of 32 messages, SQLite, cache files, the blob backend |
| Blob backend, `backend/s3.rs` | objects, multipart sessions | put, create, part, list, complete, get | as above |
| Shadow index and full text, `db/index.rs` and `engine.rs` | tables `sidx_*` and `fts_*`; the definitions, in memory only | register, maintain with put and delete, rebuild, query | the actor; the sync loop changes the records beside it |
| Encryption, configuration, schema | keys, node id, salt | pure functions and set-up at open | at open, and on every payload |

What is hard here, and what correctness means for each part:

- **Actor against sync loop.** The actor writes a row and its outbox entry in one
  transaction. The loop reads the outbox, reads the rows later, pushes, deletes
  the entry later still, and applies a pulled record in three statements. A write
  may fall between any two of them. Correct means: no write is lost without a
  trace, no version is mixed or made up, and a device shows only what it wrote or
  what the store has had.
- **Retries and lost answers.** A push may have been evaluated although it failed;
  the entry is pushed again under the same stamp. The store must only move
  forward, and the entry must leave the outbox in the end.
- **The checkpoint.** A pull asks for stamps above the highest one applied. It is
  complete only when stamps reach the store in order, which retries, offline
  devices and slow clocks break.
- **Crashes and reopening.** What the loop held in memory is gone; `last_hlc` is
  rebuilt from the table.
- **The trigger.** Kicks are dropped when the channel is full and coalesced while a
  window is open; a forced sync blocks the actor; after a shutdown the old loop
  still runs while the next engine opens. Correct means: no write is left
  without a push, a forced sync answers only after a whole cycle that began after
  it, and nobody waits for ever.
- **The index beside the records.** A put fills its index rows in the transaction
  of the record; a pull changes the record and not the index; a rebuild reads
  records first and writes rows later, one statement at a time, and the
  definitions it goes by are lost with the process. Correct means: what a put was
  indexed with is found, what was deleted is not, and nothing hides a record.
- **Blobs.** The file, the row, the message and the object are four places that
  change one after the other. Correct means: what is marked uploaded is whole in
  the store, what was staged survives and gets there, what was registered gets
  here, a flush waits for what was asked before it.

The full list of hazards, each at its line and with the properties aimed at it, is
in `PROJECT.json`.

## 2. Modules

```
Hlc  <-  RecordDb  <-  RecordBackend  <-  RecordSync  --implements-->  LwwReplication
                                              ^
                                         MCRecordSync

                             BlobDb  <-  BlobSync  --implements-->  BlobLife
                                            ^
                                       MCBlobSync

SyncTrigger                  ShadowIndex  <-  MCShadowIndex

proofs:  RecordDbProofs <- RecordSyncProofs <- RecordSyncRefinement
                                            <- RecordSyncStamps <- RecordSyncOrder
         SyncTriggerProofs        ShadowIndexProofs        BlobProofs
```

**Hlc** translates `hlc.rs`. A stamp is a record of milliseconds, counter and node,
ordered lexicographically; `Never` stands for the absent timestamp. The 16-bit
counter saturates at `LogicalMax`, as `saturating_add` does.

**RecordDb** has one operator per SQL statement on `records`, `outbox` and
`sync_state`: `Upsert`, `UpsertRemote`, `SoftDelete`, `PeekBatch`, `DeleteSeq`,
`MarkRetry`, `RemoveForRecord`. The key of a row is the id alone, as in the
schema, so a put in another collection moves it. `ready` is
`next_retry_at <= now`; the length of a backoff is left to `BackoffPasses`. A
payload is the write that made it.

**RecordBackend** is the remote store as `in_memory.rs` evaluates it (DynamoDB's
conditional put has the same condition).

**RecordSync** composes any number of devices. Each has two processes: the actor
(`Put`, `Delete`, `ClearError`, each a whole transaction or statement) and the sync
loop, whose program counter `pc` walks through

| `pc` | what comes next in `sync/mod.rs` |
|---|---|
| `idle` | `PeekOutbox`: `peek_batch` |
| `build` | `BuildEntry`: `build_push_entry` for one entry |
| `push` | `PushAnswered` or `PushUnanswered`: `push_one` |
| `settle`, `mark` | `SettleOk` then `SettleMark`, `SettleConflict`, `SettleTransient`, or `SettleOpenFails` |
| `pull` | `Pull` or `PullFails` |
| `apply`, `upsert`, `remove` | `ApplySkip` or `ApplyGet`, `ApplyUpsert`, `ApplyRemove`, or `ApplyFails`; at the end `FinishPull` |

`peeked`, `batch`, `reply`, `pulled`, `applying` and `newCp` are the locals that live
across those steps. `Reopen` is a crash or a shutdown and the `open` after it. A
cycle may begin at any time; when the code begins one is `SyncTrigger`. `issued`, `discarded` and `skipped` are histories: the versions that were
stamped, the entries that were dropped although the store had nothing as
recent, and the pulled versions on which a statement failed (the loop logs that and
goes on, so a later record of the pull takes the checkpoint past them).

**LwwReplication** is what record synchronisation promises: `Write` stamps a version
and shows it at the writer, `Accept` moves the store to a later stamped version,
`Adopt` lets a device show a version that the store has reached. No outbox, no
cycles, no statements.

**SyncTrigger** is what the two leave out: when a cycle runs. An instance is an engine;
the engines of the model are opened one after the other on one database, the next when
the actor of the last has shut down, whether or not its loop has noticed. The
actor commits a write (`Commit`) and kicks in a step of its own (`Kick`), or is in
`force_sync_via`, waiting for room (`ForceSent`) and then for the reply. The loop
ensures its table, waits, opens a window on a kick (`TakeKick`), swallows more kicks
in it (`Coalesce`), and leaves it by time or by a forced sync; a cycle is its two
phases and the replies. `Close` is the end of a loop whose channel is closed and
empty. The real time of the window (500 ms) and of the deadline (60 s) is left to
`DebounceEnds` and `TimerFires`; what is kept is that the timer only fires on an
empty, open channel. `fresh` and `begun` are histories: a write that no push has come
after, and the phases since `force_sync` was called.

**ShadowIndex** is one device's index tables beside its records. A version is a number,
and a column that was filled from version `v` holds `v`, 0 being NULL or the empty text:
that is all the properties need to tell a stale value from the right one. `table` has the
columns of the tables, which `CREATE TABLE IF NOT EXISTS` never changes; `indexes` is the
map in memory; `scan` is the position inside `handle_rebuild_indexes`, where `read`
remembers what was listed, so that a pull may come between the reading of a record and
the writing of its row, and between the two statements that replace its text.
`data` says whether the bytes of a version are JSON, something else, or
sealed under a key this device lacks. `by` is history: which fields the put of a row's
version was indexed with. `Listed`, `Comparing` and `Containing` are the join that queries
make, a comparison, and a full text search.

**BlobDb** has the statements of `db/blobs.rs`. `staged` and `upload` are the
non-null `local_path` and `upload_id`.

**BlobSync** is one device with its actor's blob commands, the trigger channel
(`queue`), the worker, the cache files and the object store. A file or an object
is `none`, `partial` or `whole`; writing a file is two actions, so that a half
written one can be seen, uploaded or left behind by a crash. `waiting` is the
actor inside `force_flush_blobs`, which takes no other command meanwhile. `w` holds
the worker's locals, and its `pc` the await or the statement at which it stands. A
request to the store is `Answer`ed, or done and not answered (the answer is lost), or
does not arrive (`UploadFails`). A blob has
`PartCount` parts, or none when it is below the multipart threshold. `Panic` is
`open_conn` taking the worker down: messages are dropped from then on and only a
restart brings it back. `Crash` keeps rows, files and the store, and loses the
channel. `ListParts` cannot tell a session that is gone from one that never got a
part, as in the code. Completing a session that is gone is an error, as S3 answers; the
in-memory store of the tests completes it with what it has. `RowUnread` is the early return of
`handle_download` that marks no retry.

**BlobLife** is what a device promises about the life of a blob: a blob that is put is
copied into the cache, then stored, then said to be stored; a blob that is wanted is
here only after the store has had it; nothing goes back, and what is being uploaded is
not turned into a download. No files, messages, sessions or retries.
`BlobSync!LifeOf` reads the stage of a blob from its row and its `local_path`.

## 3. Runs

| Run | Checks | Shows |
|---|---|---|
| `two_devices` | `TypeOK`, `NothingForgotten`, `NothingInvented`, `ImplementsLww` | two writers, an id in two collections, device 1 with every fault (crash, lost request or answer, failed statement, clear_error); the counter is used up at once (`LogicalMax` 1) |
| `overlapping_writes` | `OneVersionPerStamp`, `EveryEntryLeaves` | the payload of the moment goes out under an older stamp, and yet a stamp names one version; every entry leaves through retries |
| `one_writer` | `CheckpointIsComplete`, `Converged`, `LastWriteWins`, `EventuallyTheSame` | with one writer whose pushes are answered, batches of one entry and a reader that crashes, loses requests and fails statements, pulls are complete but for the records skipped, and both end up the same, with the last write |
| `sync_trigger` | `TriggerTypeOK`, `NoWriteUnnoticed`, `ForcedIsWhole`, `ForceReturns`, `EveryWriteGetsACycle`, `CyclesGoOn` | two engines on one database; dropped and coalesced kicks lose no write, a forced sync is a whole cycle and comes back, an open engine's cycles go on, a loop ends after shutdown |
| `shadow_index` | `IndexTypeOK`, `MisfitsAreEvolved`, `PutIsFound`, `DeletedIsForgotten`, `RebuildCatchesUp`, `StaysVisible` | an index that is registered with one field and later with two, any data, failing statements and restarts in the middle of a rebuild, pulls at any time |
| `two_blobs` | `BlobTypeOK`, `StagedIsKept`, `FlushIsHeard`, `FlushMeansTried`, `FaultsAloneForget`, `ImplementsBlobLife` | a small and a large blob share the worker and a channel of two messages, with one fault of any kind |
| `large_blob` | `UploadedIsStored`, `StagedUploads`, `RegisteredArrives`, `FlushReturns` | three parts and three faults, enough for a resumed upload to expire or to lose its last answer, and for a crash on top |
| `write_during_apply` | `EveryWriteTracked` (violated) | a put inside `apply_remote_record` loses its entry |
| `stamps_after_restart` | `StampsUnique` (violated) | a restart after a pull goes on under another device's node id |
| `retry_overtaken` | `Converged` (violated) | the outbox is not FIFO under backoff, and a reader misses the overtaken entry |
| `blob_never_staged` | `EveryPutUploads` (violated) | a put whose Stage message is lost is never uploaded |
| `rebuild_drops_text` | `TextStaysFound` (violated) | `rebuild_indexes` empties the text of a collection whose text fields are not scalar fields too, and once it has answered no query finds it |

The last five are disagreements between the code and what its documents,
comments or tests say; `PROJECT.json` quotes the sentence for each under
"findings".

`NothingForgotten` deserves a remark: it allows an entry to disappear that
`remove_outbox_for_record` took away with older ones (`discarded`, "overtaken"),
since the code does that and `write_during_apply` shows it. What it excludes is
every other loss. `Converged`, `LastWriteWins` and `EventuallyTheSame` hold only where
stamps reach the store in order; `retry_overtaken` shows one way in which they do not.
They also exclude runs in which an entry was discarded or a record skipped: the code
gives both up for good, and what can be said then is `CheckpointIsComplete`, that
nothing *else* is missing. `EventuallyTheSame` reads: once restarts have ceased, the devices
become the same and stay so, or something has been discarded or skipped.

`FaultsAloneForget` is what is left of `EveryPutUploads`, which `blob_never_staged` refutes:
between `put_blob` and the copy of the file, only a message knows of the blob, and
that knowledge is lost by five kinds of step, which `Loses(b)` names one by one: the copy of
this blob fails, the statement that records this copy fails, the worker panics, the process
crashes, or the put finds no room in the channel (or no worker). A failed request, an
expired session, an eviction, a failed statement about anything else and a failed copy of
another blob are not among them, and the run has them all.

`TextStaysFound` is about the moments at which the actor can take a query (`Idle`): between the
`DELETE` and the `INSERT` of a text row a record is always without its text, and nobody can see
that. The run has no faults, payloads that are JSON or sealed, and one definition, so that the
only thing that loses a text is what `FromData` hands to `InsertText`; with the text fields
handed over instead, the same run finds no violation.

`MisfitsAreEvolved` says when puts lack a column: only where another definition of the
collection made the table first. That they fail then is what the code does (below); the
property excludes that a registration that fails between its two tables, or is
lost with the process, has the same effect.

Meanings that are easily misread: `PutIsFound` is about the values a put came with, and
about data that is JSON when a rebuild goes over it. A value that the caller supplied
beside data of another kind is replaced by NULL. `RebuildCatchesUp` leaves out what changed
since it was listed. `DeletedIsForgotten` is about deletes of this device under a
registered definition; a pulled tombstone leaves rows and text in place, out of the
queries' sight only because the record is marked deleted.

Read in the code, and not run as findings, because no sentence of the repository
that a run could refute is as clear as those above:

- `Hlc::merge` has no caller, so a device with a slow clock writes below the others'
  checkpoints, and they do not pull that version.
- An entry whose row moved to another collection before it was pushed does not
  find its row again and stays in the outbox.
- `get_blob` for a cached blob that is being downloaded a second time returns a path
  whose file is being rewritten in place.
- Registering an index again with more fields leaves the table as it was: puts
  then fail and a rebuild stops at the first record. With fewer fields, the columns
  that are no longer named keep old values.
- The rows of the old collection stay when a record moves; pulls do not extract
  index fields (ARCHITECTURE.md:475 says so of the sync loop).
- The window is 500 ms from the first kick, not from the last one, and there is no
  cycle at start-up (ARCHITECTURE.md:435, 437).

**Bounds.** Devices 2: a writer and a reader, or two writers, make every race of
the code; a third device adds only further pulls. Ids 1 or 2, collections 1 or 2
(two are needed for a record that moves). `MaxWrites` at most 2 for a device: two
writes of one record can overlap a cycle, overtake and conflict. `MaxRetries` 1: the
second failure of an entry is like the first. `Wall` has one or two values, since
the code asks only whether time has passed since the last stamp. `PushBatch` is 25
in the code and 1 or 2 here, at the number of entries. `LogicalMax` is 65535 in the
code; 1 makes the counter saturate in `two_devices`. Blobs: two of different size;
3 parts (first, middle, last); `QueueSize` 2 for 32, so that the channel is
full; `MaxMishaps` bounds faults, evictions excepted. Trigger: two engines are enough for
an old loop beside a new actor; `QueueSize` 2 for 8, so that kicks fill the channel
and are dropped; `MaxWrites` 3 is one more than the channel holds. Index: two records,
one in the scan and one before or behind it, are interchangeable (`SYMMETRY AnyId`,
with safety properties only); `MaxVer` 3 lets a listed version be replaced by a pull
and again by a put; `Evolving` registers a definition and a wider one. The cfg
names every bound.

**Fairness.** `RecordSync!FairSpec`: the loop always takes its next step, because
requests end in an answer or a timeout and the periodic deadline starts cycles
(weak fairness of `SyncLoop`); a pull that is tried for ever succeeds now and then
(strong fairness of `Pull`, on networks that fail); clocks move past `next_retry_at`.
`BlobSync!FairSpec`: the worker takes its next step (which is all that `FlushReturns`
rests on); backoffs pass; and, strongly fair, the deadline passes while the worker waits. The last one is an assumption
about the application: every message puts the deadline off by 60 seconds, so an
application that asks for a blob more often than that keeps the periodic pass
from running. Faults are bounded, so liveness reads: once faults cease.

`SyncTrigger!FairSpec`: the actor completes its sends, the loop takes its next step, timers
fire. `Coalesce` is excepted from what the loop is asked to do: a stream of kicks does
not hold the window open, because tokio makes a task that always finds a message
yield, and then looks at its clock. Commands and `Open` have no fairness. `CyclesGoOn` is
what the fairness of `RecordSync` assumes of the loop.

**Deadlock** is checked in every run except `sync_trigger`, where all engines may have
been shut down and their loops have ended. In `BlobSync` it says little, since a command that
changes nothing is a step; that the actor's wait for a flush and the worker's passes
end is what the liveness properties are about.

**Mutants.** Every property has a mutant in `PROJECT.json`: a plausible slip in one
definition (for instance a removal by id alone, an equal stamp accepted, the last
part forgotten, `local_path` recorded before the copy has ended) that breaks it under
the same cfg. The mutated forms stand before the definitions, marked "Bug variant".

## 4. Proofs

All theorems are for every value of the constants: any set of devices, ids,
collections and wall times, any fault set, any bound. They rest on the named
assumptions of the modules, which say what the constants are and no more.

- `RecordDbProofs`: the order of stamps is a strict total order; `TickAdvances` and
  `MergeAdvances` say when the clock moves forward (the counter must not be used up);
  what each statement returns and leaves alone.
- `RecordSyncProofs!TypeCorrect`: `Spec => []TypeOK`. `TypeOK` alone is not inductive: the
  push steps take the first entry of a set, and `LoopShape` says it is not empty.
- `RecordSyncProofs!NothingIsForgotten`, `NothingIsInvented`, `AnswersStayTrue`,
  `RemoteOnlyAdvances`. The inductive invariant is
  `IInv == TypeInv /\ EntriesAreWrites /\ AnswersHold /\ PulledIsCovered /\ PulledIsStamped /\
  NothingInvented /\ NothingForgotten`. An entry may leave the outbox in three ways. After an
  answer: then the store covers its stamp, provided the answer is still true
  (`AnswersHold`, since the store never goes back) and the seq that is deleted is that of
  the write that was pushed (`EntriesAreWrites`, since seqs are never reused, which is what
  AUTOINCREMENT gives). With a pulled record: then the store covers the pulled stamp
  (`PulledIsCovered`), and an entry stamped later is recorded as overtaken. By the user: it
  is recorded as cleared. The step lemmas first establish which action changes which
  table, then treat each part of `IInv` once.
- `RecordSyncRefinement!RefinesLww`: under `IInv` each action of `RecordSync` maps to one
  action of `LwwReplication` or to a stutter: put and delete to `Write`, an accepted push to
  `Accept`, the upsert of a pulled record to `Adopt`, everything else to a stutter.
- `RecordSyncProofs!NothingIsOvertaken` and `WritesStayTracked`: what `write_during_apply` refutes,
  "There is no window where data is written locally but not tracked for sync"
  (README.md:687), is true under hypotheses on the calls that are made, and under every
  crash and fault: no record is put or deleted while it is being applied, none is deleted
  that has no row (`WritesAside`), a record stays in its collection (`KeepCollections`),
  and, for the second theorem, errors are not cleared. TLC finds a lost entry when any one of
  them is dropped. The invariant `AsideInv` adds to `IInv` that an entry is not above its row,
  nor above the version that is being applied to that row (`RowsLead`), so that the removal,
  which looks at no stamp, finds only entries as old as what the store has.
- `RecordSyncStamps!StampsAreUnique`: `Spec => []StampsUnique`, assuming `WritersStay`: no device
  that writes restarts (a restart may go on under another device's node id, as
  `stamps_after_restart` shows). Clocks may stand still or go back and counters may be used up:
  `NodesOwn` says that a stamp, and the clock it is made from, bear the node of their device.
- `RecordSyncStamps!StampsNameVersions`: `Spec => []OneVersionPerStamp`, assuming
  `CountersLast`: `WritersStay`, and a device does not write more often than the
  counter counts. Whatever readers, the network and the database do is left open. The push sends
  the payload that the row has now under the stamp of an older entry; what makes this
  harmless is `StampInv`: stamps are given once (`ClocksOwn`, `StampedOnce`); as long as the row
  still has the stamp of the entry, it also has the payload in the batch (`BatchIsRow`,
  because no pull runs beside a push, `PullsAlone`); a copy of a version anywhere else
  has come from the store (`ForeignIsCovered`), so while the store has not accepted a stamp
  only its writer holds it, and `CopiesAgree` survives the push that is accepted.
- `RecordSyncOrder!CompleteInOrder`, `LastWriteInOrder` and `ConvergedInOrder`:
  `Spec /\ [][Orderly]_vars /\ []KeepCollections => []CheckpointIsComplete`, `[]LastWriteWins` and
  `[]Converged`, for any number of devices that write, crash, lose requests and answers and have
  statements fail, and users that clear entries (`Converged` also takes `CountersLast`, so that a
  stamp names one version). `Orderly` says what the checkpoint of a pull, which is a single
  stamp, takes for granted: what reaches the store is later than all it has (`InStampOrder`), and a
  put or delete is not stamped below the row it replaces (`NoWriteGoesBack`, what `Hlc::merge`
  would be for). With two writers TLC finds an incomplete checkpoint when either is
  dropped: a write that arrives late is below checkpoints already noted; a write of a device whose
  clock is behind replaces a pulled row by an older stamp. `FlowInv` says of each device: a stored
  record has reached the row, or was skipped, or is in the pull, or is later than all the pull has
  seen (`PullGoesOn`); what is pulled is what the store has, unless the store has got something
  later since (`PullsFresh`); and the new checkpoint is not below the old one (`CpGoesOn`). The last two are there
  for `upsert_remote`, which may put back a row that was written under it: the row falls
  behind only what neither checkpoint has passed. A push, by whatever device, that falls into
  a pull is later than all the pull has seen. `ConvergedInOrder` joins three results: a row is as recent as the
  store (`Complete`), the store is as recent as the row (`NothingForgotten`), and one stamp
  names one version (`CopiesAgree`).
- `RecordSyncOrder!OneWriterInOrder`: `Spec /\ []KeepCollections => [][Orderly]_vars`, assuming
  `InOrder(w)`: `w` is the only writer, its pushes are answered, its statements do not fail
  and it does not restart, and `CountersLast`. Readers are under every fault, `w` may write or clear an
  entry at any moment, and the numbers of devices, collections, records, writes and entries in a
  batch are open. TLC finds counterexamples to `CheckpointIsComplete` when `w` may crash or when its
  statements may fail, and when a record may move to another collection (a row that has moved hides the
  record it was). The invariant `OrderInv` says that an entry that has not been answered is later than
  all the store has (`Ahead`). That needs more than one would expect: the peeked entries come before the
  rest of the outbox (`InFront`, a counting argument about the LIMIT of the query), and none is passed
  over, because no row ever goes away (`WritesHere`) and none waits for a retry (`NoRetries`).
  `CheckpointsComplete`, `DevicesConverge` and `LastWriteIsShown`, the three properties of run
  `one_writer`, follow from it and the three theorems above.
- `SyncTriggerProofs!TriggerTypeCorrect`, `WritesAreNoticed`, `ForceIsPending`, `ForcedIsWholeCycle`, for
  any number of engines. A forced sync is remembered in exactly one place: the channel
  holds one request, or the loop holds its reply and is in a cycle (`TriggerInv`); what
  has begun since the call follows from where that is, and after the push phase the actor,
  which waits, can have committed nothing.
- `ShadowIndexProofs!IndexTypeCorrect`, `PutStaysFound`, `DeletedStaysForgotten`,
  `RebuildIsComplete`, `RecordsStayVisible`, `MisfitsStayEvolved`. The invariant `IndexInv` has the types, the shape of
  the scan, and what it knows: a version listed is not newer than the record, equal only if
  the record has not changed, and never that of a tombstone (`Fresh`, `ReadThere`), so that a
  row written late belongs to a record that is still the same, or is older than
  anything the actor wrote or deleted. Nothing the actor does can fall into a scan, because a
  rebuild is one command; only pulls can, and they carry no `by`. `TablesAreDefined` says of the
  columns that a table has those of one definition, and that whatever is registered has its
  tables; with a single definition per collection it follows that every column is there
  (`OneDefinitionFits`).
- `ShadowIndexProofs!ScalarTextStaysFound`: what `rebuild_drops_text` refutes is true of an
  application whose text fields are scalar fields too and whose data are JSON or sealed, whenever
  the actor is free to take a query, and as long as no rebuild is cut off between the `DELETE` and
  the `INSERT` of a text row. `TextInv` says that a text row is missing only in that gap, and
  that a rebuild clears one only for a definition whose text fields the data have. TLC refutes it
  when any of the three is dropped.
- `BlobProofs!BlobTypeCorrect`, `UploadedStaysStored`, `StagedStaysKept`, `FlushIsWhole`,
  `BlobsLiveForward` (`BlobSync` implements `BlobLife`), for any blobs, part counts, channel and
  faults. `BlobInv` relates, for each blob, its row, the
  messages about it and the worker's locals (`RowInv`, `QueueInv`, `WorkInv`). A blob is in one
  of two halves: it was put here (`Uploadable`) or is to come (`Arriving`), and no step
  crosses over. A copy is asked for once, so a cache file is not written under an upload; an
  object appears in the store only whole, from a whole file; a flush is the last message
  of the channel, since the actor waits, so whatever was asked before it has been handled.
- `BlobProofs!FlushStaysHeard`: while the actor waits in `force_flush_blobs`, its request is in
  the channel or the pass that answers it is under way, and the worker is alive. A worker
  that has panicked has an empty channel and nobody waiting (`DeadInv`).
- `BlobProofs!FaultsAloneLoseAPut`, `ForgottenForGood`, `PutsAreRemembered`: the three sides of
  `blob_never_staged`. A blob that was put and whose message is gone is `Forgotten`; only a step of
  `Loses` makes it so; nothing the program does afterwards undoes
  it (`put_blob` again finds the row and returns); and where the disk, the statements and the
  process hold and puts find room, it does not happen, whatever the network and the store do. The
  step lemmas follow where the message can be: in the channel (`Asks`) or in the worker's hands
  (`AtCopy`).

Only model-checked: liveness (`EveryEntryLeaves`, `EventuallyTheSame`, `ForceReturns`,
`EveryWriteGetsACycle`, `CyclesGoOn`, `StagedUploads`, `RegisteredArrives`, `FlushReturns`), since
fairness and ENABLED are beyond the prover. Every invariant and action property of a passing run
is proved. Of the properties that runs refute, four are proved under the hypotheses that the
code needs for them: `EveryWriteTracked`, `StampsUnique`, `Converged` and `TextStaysFound`;
`EveryPutUploads` is liveness, and its safety part is `FaultsAloneForget`.

## 5. What is not modelled

- DynamoDB's index: eventually consistent and read page by page (`dynamodb.rs:149`). The
  model's store is atomic. A request that is evaluated after the client has given up on it
  (or after its process has ended) is not modelled either.
- Two sync loops on one outbox after a `shutdown` that the old loop has not noticed.
  `SyncTrigger` has both loops, and what they are asked to do, but `RecordSync` has one
  per device.
- The `synced` flag is modelled but no property speaks of it, since nothing reads it.
- `blob_parts`, written and never read; sessions that nobody knows of any more (a
  restart between creating one and recording its id); the order of uploads by
  `created_at`, which is left open. `BlobTrigger::Tick` is never sent.
- `Evict` is the application's doing: it removes a file only of a blob that is uploaded
  or cached, and not while the worker is at it.
- Queries: And, Or, order, offset and limit, which combine or cut what the comparisons and
  the text search find; the tokenizer; the columns of `records` itself in a filter.
- Encryption (pure functions of library primitives), configuration, events and logging.

## 6. What could come next

1. `PagedBackend`: pages and an eventually consistent index for `pull_since`.
2. Two loops on one outbox, by giving a device of `RecordSync` more than one loop.


-------------------------- MODULE RecordSyncProofs --------------------------
(***************************************************************************)
(* The safety of RecordSync, for every number of devices, ids, collections  *)
(* and every bound: the types, that no write is lost without trace, and that  *)
(* no version is made up.                                                   *)
(***************************************************************************)
EXTENDS RecordSync, RecordDbProofs

USE RecordSyncAssumption

-----------------------------------------------------------------------------
(***************************************************************************)
(* Types.  TypeOK alone is not inductive: NextPush, PushAnswered and the    *)
(* Settle actions take the first entry of a set, which has a type only because *)
(* the set is not empty where they are enabled.  That is LoopShape.         *)
(***************************************************************************)

\* Where the push cycle holds entries.
LoopShape ==
    \A d \in Devices :
        /\ pc[d] = "build" => peeked[d] # {}
        /\ pc[d] \in {"push", "settle", "mark"} => batch[d] # {}

\* TypeOK, strengthened until it is inductive.
TypeInv == TypeOK /\ LoopShape

\* The push phase stays at "push" exactly as long as entries are left.
LEMMA NextPushType ==
    ASSUME NEW b
    PROVE  NextPush(b) \in {"push", "pull"} /\ (NextPush(b) = "push" <=> b # {})
  BY DEF NextPush

\* An engine opened on an empty database is in a state of the right type.
LEMMA InitTypeInv == Init => TypeInv
<1> SUFFICES ASSUME Init PROVE TypeInv
  OBVIOUS
<1>1. \A wall \in Wall, d \in Devices : NewHlc(d, wall) \in Stamp
  BY StampTypes
<1>2. EmptyStore \in [Keys -> Version]
  BY StampTypes, NoRowType DEF EmptyStore, Version
<1>3. LoopShape
  BY DEF Init, LoopShape
<1>4. rows \in [Devices -> [Ids -> Row]]
  BY NoRowType DEF Init
<1>5. lastHlc \in [Devices -> Stamp]
  <2>1. PICK wall \in [Devices -> Wall] : lastHlc = [d \in Devices |-> NewHlc(d, wall[d])]
    BY DEF Init
  <2>2. \A d \in Devices : wall[d] \in Wall
    BY <2>1
  <2> QED
    BY <1>1, <2>1, <2>2
<1>6. checkpoint \in [Devices -> Stamp] /\ newCp \in [Devices -> Stamp]
  BY StampTypes DEF Init
<1> QED
  BY <1>2, <1>3, <1>4, <1>5, <1>6 DEF Init, TypeInv, TypeOK, PCs, Replies

\* What TypeOK says of one device.
LEMMA DeviceTypes ==
    ASSUME TypeOK, NEW d \in Devices
    PROVE  /\ rows[d] \in [Ids -> Row] /\ outbox[d] \in SUBSET Entry
           /\ nextSeq[d] \in Nat /\ checkpoint[d] \in Stamp /\ lastHlc[d] \in Stamp
           /\ peeked[d] \in SUBSET Entry /\ batch[d] \in SUBSET Entry
           /\ pulled[d] \in SUBSET RemoteRecord /\ applying[d] \in SUBSET RemoteRecord
           /\ newCp[d] \in Stamp
  BY DEF TypeOK

\* A write: the row is left to the caller.
LEMMA WriteTypes ==
    ASSUME TypeInv, NEW d \in Devices, NEW c \in Colls, NEW id \in Ids, NEW wall \in Wall,
           NEW op \in Ops, NEW v \in Payload, NEW t \in [Ids -> Row], NEW x \in BOOLEAN,
           rows' = [rows EXCEPT ![d] = t],
           outbox' = [outbox EXCEPT ![d] =
              @ \cup {NewEntry(nextSeq[d], c, id, op, Tick(lastHlc[d], wall), v)}],
           nextSeq' = [nextSeq EXCEPT ![d] = @ + 1],
           lastHlc' = [lastHlc EXCEPT ![d] = Tick(lastHlc[d], wall)],
           issued' = issued \cup
              {[dev |-> d, id |-> id, coll |-> c, hlc |-> Tick(lastHlc[d], wall), deleted |-> x]},
           UNCHANGED <<checkpoint, loopVars, remote, discarded, skipped>>
    PROVE  TypeInv'
<1> DEFINE h == Tick(lastHlc[d], wall)
           e == NewEntry(nextSeq[d], c, id, op, h, v)
           i == [dev |-> d, id |-> id, coll |-> c, hlc |-> h, deleted |-> x]
<1>1. h \in Stamp
  BY StampTypes, DeviceTypes DEF TypeInv
<1>2. e \in Entry
  BY <1>1, DeviceTypes DEF NewEntry, Entry, TypeInv, Ops
<1>3. i \in Issue
  BY <1>1 DEF Issue
<1>4. /\ outbox' = [outbox EXCEPT ![d] = @ \cup {e}]
      /\ lastHlc' = [lastHlc EXCEPT ![d] = h]
      /\ issued' = issued \cup {i}
  OBVIOUS
<1> HIDE DEF h, e, i
<1>5. rows' \in [Devices -> [Ids -> Row]]
  BY DEF TypeInv, TypeOK
<1>6. outbox' \in [Devices -> SUBSET Entry]
  BY <1>2, <1>4 DEF TypeInv, TypeOK
<1>7. nextSeq' \in [Devices -> Nat \ {0}]
  BY DEF TypeInv, TypeOK
<1>8. lastHlc' \in [Devices -> Stamp]
  BY <1>1, <1>4 DEF TypeInv, TypeOK
<1>9. issued' \in SUBSET Issue
  BY <1>3, <1>4 DEF TypeInv, TypeOK
<1> QED
  BY <1>5, <1>6, <1>7, <1>8, <1>9 DEF TypeInv, TypeOK, LoopShape, loopVars

\* Every action keeps the types, and leaves the sync loop holding entries where
\* its next step needs one.
LEMMA StepTypeInv == TypeInv /\ [Next]_vars => TypeInv'
<1> SUFFICES ASSUME TypeInv, [Next]_vars PROVE TypeInv'
  OBVIOUS
<1> USE DEF dbVars, loopVars, history
<1>put. ASSUME NEW d \in Devices, NEW c \in Colls, NEW id \in Ids, NEW wall \in Wall,
               Put(d, c, id, wall)
        PROVE  TypeInv'
  <2> DEFINE h == Tick(lastHlc[d], wall)
             v == [dev |-> d, n |-> nextSeq[d]]
  <2>1. h \in Stamp /\ v \in Payload
    BY StampTypes, DeviceTypes DEF TypeInv, Payload
  <2>2. Upsert(rows[d], c, id, h, v) \in [Ids -> Row]
    BY <2>1, TableTypes, DeviceTypes DEF TypeInv
  <2>3. rows' = [rows EXCEPT ![d] = Upsert(rows[d], c, id, h, v)]
    BY <1>put DEF Put, TypeInv, TypeOK
  <2> QED
    BY <1>put, <2>1, <2>2, <2>3, WriteTypes DEF Put, Ops
<1>delete. ASSUME NEW d \in Devices, NEW c \in Colls, NEW id \in Ids, NEW wall \in Wall,
                  Delete(d, c, id, wall)
           PROVE  TypeInv'
  <2> DEFINE h == Tick(lastHlc[d], wall)
  <2>1. h \in Stamp
    BY StampTypes, DeviceTypes DEF TypeInv
  <2>2. SoftDelete(rows[d], c, id, h) \in [Ids -> Row]
    BY <2>1, TableTypes, DeviceTypes DEF TypeInv
  <2>3. rows' = [rows EXCEPT ![d] = SoftDelete(rows[d], c, id, h)]
    BY <1>delete DEF Delete, TypeInv, TypeOK
  <2> QED
    BY <1>delete, <2>2, <2>3, WriteTypes, NoRowType DEF Delete, Ops
<1>clear. ASSUME NEW d \in Devices, NEW e \in outbox[d], ClearError(d, e)
          PROVE  TypeInv'
  <2>1. e \in Entry
    BY DeviceTypes DEF TypeInv
  <2>2. outbox' \in [Devices -> SUBSET Entry]
    BY <1>clear DEF ClearError, DeleteSeq, TypeInv, TypeOK
  <2>3. Discard(d, {e}, "cleared") \in SUBSET Discarded
    BY <2>1 DEF Discard, Discarded, Entry
  <2>4. discarded' \in SUBSET Discarded
    BY <1>clear, <2>3 DEF ClearError, TypeInv, TypeOK
  <2> QED
    BY <1>clear, <2>2, <2>4 DEF ClearError, TypeInv, TypeOK, LoopShape
<1>reopen. ASSUME NEW d \in Devices, NEW wall \in Wall, Reopen(d, wall)
           PROVE  TypeInv'
  <2>1. \A id \in Ids : rows[d][id].hlc \in Stamp
    BY DeviceTypes DEF TypeInv, Row
  <2>2. NewHlc(d, wall) \in Stamp
    BY StampTypes
  <2>3. lastHlc' \in [Devices -> Stamp]
    BY <1>reopen, <2>1, <2>2 DEF Reopen, TypeInv, TypeOK
  <2>4. newCp' \in [Devices -> Stamp]
    BY <1>reopen, StampTypes DEF Reopen, TypeInv, TypeOK
  <2>5. pc' \in [Devices -> PCs] /\ reply' \in [Devices -> Replies]
    BY <1>reopen DEF Reopen, TypeInv, TypeOK, PCs, Replies
  <2>6. /\ peeked' \in [Devices -> SUBSET Entry] /\ batch' \in [Devices -> SUBSET Entry]
        /\ pulled' \in [Devices -> SUBSET RemoteRecord]
        /\ applying' \in [Devices -> SUBSET RemoteRecord]
    BY <1>reopen DEF Reopen, TypeInv, TypeOK
  <2>7. LoopShape'
    BY <1>reopen DEF Reopen, TypeInv, TypeOK, LoopShape
  <2> QED
    BY <1>reopen, <2>3, <2>4, <2>5, <2>6, <2>7 DEF Reopen, TypeInv, TypeOK
<1>backoff. ASSUME NEW d \in Devices, NEW e \in outbox[d], BackoffPasses(d, e)
            PROVE  TypeInv'
  <2>1. MakeDue(outbox[d], e.seq) \in SUBSET Entry
    <3>1. outbox[d] \in SUBSET Entry /\ e.seq \in Nat
      BY DeviceTypes DEF TypeInv, Entry
    <3> QED
      BY <3>1, OutboxTypes
  <2>2. outbox' \in [Devices -> SUBSET Entry]
    BY <1>backoff, <2>1 DEF BackoffPasses, TypeInv, TypeOK
  <2> QED
    BY <1>backoff, <2>2 DEF BackoffPasses, TypeInv, TypeOK, LoopShape
<1>peek. ASSUME NEW d \in Devices, PeekOutbox(d)
         PROVE  TypeInv'
  <2>1. PICK entries \in {PeekBatch(outbox[d]), {}} :
           /\ peeked' = [peeked EXCEPT ![d] = entries]
           /\ pc' = [pc EXCEPT ![d] = IF entries = {} THEN "pull" ELSE "build"]
    BY <1>peek DEF PeekOutbox
  <2>2. entries \in SUBSET Entry
    BY OutboxTypes, DeviceTypes DEF TypeInv
  <2>3. peeked' \in [Devices -> SUBSET Entry] /\ pc' \in [Devices -> PCs]
    BY <2>1, <2>2 DEF TypeInv, TypeOK, PCs
  <2>4. LoopShape'
    BY <1>peek, <2>1 DEF PeekOutbox, TypeInv, TypeOK, LoopShape
  <2> QED
    BY <1>peek, <2>3, <2>4 DEF PeekOutbox, TypeInv, TypeOK
<1>build. ASSUME NEW d \in Devices, BuildEntry(d)
          PROVE  TypeInv'
  <2> DEFINE e == First(peeked[d])
             row == Get(rows[d], e.coll, e.id)
             built == IF e.op = "delete" THEN {[e EXCEPT !.data = NoData]}
                      ELSE IF Present(row) THEN {[e EXCEPT !.data = row.data]}
                      ELSE {}
  <2>1. e \in Entry
    BY <1>build, FirstExists, DeviceTypes DEF BuildEntry, TypeInv, LoopShape
  <2>2. row \in Row
    BY <2>1, TableTypes, DeviceTypes DEF TypeInv, Entry
  <2>3. \A v \in Payload : [e EXCEPT !.data = v] \in Entry
    BY <2>1 DEF Entry
  <2>4. built \in SUBSET Entry
    BY <2>2, <2>3, NoRowType DEF Row
  <2>5. PICK b \in {batch[d] \cup built, batch[d]} :
           /\ batch' = [batch EXCEPT ![d] = b]
           /\ pc' = [pc EXCEPT ![d] = IF peeked[d] \ {e} # {} THEN "build" ELSE NextPush(b)]
    BY <1>build DEF BuildEntry
  <2>6. peeked' = [peeked EXCEPT ![d] = @ \ {e}]
    BY <1>build DEF BuildEntry
  <2> HIDE DEF e, built
  <2>7. b \in SUBSET Entry
    BY <2>4, DeviceTypes DEF TypeInv
  <2>8. batch' \in [Devices -> SUBSET Entry] /\ peeked' \in [Devices -> SUBSET Entry]
    BY <2>5, <2>6, <2>7 DEF TypeInv, TypeOK
  <2>9. pc' \in [Devices -> PCs]
    BY <2>5, NextPushType DEF TypeInv, TypeOK, PCs
  <2>10. LoopShape'
    BY <2>5, <2>6, NextPushType DEF TypeInv, TypeOK, LoopShape
  <2> QED
    BY <1>build, <2>8, <2>9, <2>10 DEF BuildEntry, TypeInv, TypeOK
<1>pushAnswered. ASSUME NEW d \in Devices, PushAnswered(d) \/ PushUnanswered(d)
                 PROVE  TypeInv'
  <2> DEFINE e == First(batch[d])
  <2>1. e \in Entry
    BY <1>pushAnswered, FirstExists, DeviceTypes
    DEF PushAnswered, PushUnanswered, TypeInv, LoopShape
  <2>2. remote \in [Keys -> Version] /\ PushOne(remote, e) \in [Keys -> Version]
    BY <2>1, PushOneFacts DEF TypeInv, TypeOK
  <2>3. remote' \in [Keys -> Version]
    BY <1>pushAnswered, <2>2 DEF PushAnswered, PushUnanswered
  <2>4. PICK w \in {"ok", "conflict", "transient"} : reply' = [reply EXCEPT ![d] = w]
    BY <1>pushAnswered DEF PushAnswered, PushUnanswered
  <2>5. reply' \in [Devices -> Replies]
    BY <2>4 DEF TypeInv, TypeOK, Replies
  <2>6. /\ pc[d] = "push" /\ pc' = [pc EXCEPT ![d] = "settle"]
        /\ UNCHANGED <<dbVars, lastHlc, peeked, batch, pulled, applying, newCp, history>>
    BY <1>pushAnswered DEF PushAnswered, PushUnanswered
  <2>7. pc' \in [Devices -> PCs]
    BY <2>6 DEF TypeInv, TypeOK, PCs
  <2>8. LoopShape'
    BY <2>6 DEF TypeInv, TypeOK, LoopShape
  <2> QED
    BY <2>3, <2>5, <2>6, <2>7, <2>8 DEF TypeInv, TypeOK
<1>settleOk. ASSUME NEW d \in Devices, SettleOk(d)
             PROVE  TypeInv'
  <2>1. outbox' \in [Devices -> SUBSET Entry]
    BY <1>settleOk DEF SettleOk, DeleteSeq, TypeInv, TypeOK
  <2>2. pc' \in [Devices -> PCs]
    BY <1>settleOk DEF SettleOk, TypeInv, TypeOK, PCs
  <2>3. LoopShape'
    BY <1>settleOk DEF SettleOk, TypeInv, TypeOK, LoopShape
  <2> QED
    BY <1>settleOk, <2>1, <2>2, <2>3 DEF SettleOk, TypeInv, TypeOK
<1>entryDone. ASSUME NEW d \in Devices, NEW b \in SUBSET batch[d], NEW r \in Replies,
                     rows' \in [Devices -> [Ids -> Row]],
                     outbox' \in [Devices -> SUBSET Entry],
                     batch' = [batch EXCEPT ![d] = b],
                     reply' = [reply EXCEPT ![d] = r],
                     pc' = [pc EXCEPT ![d] = NextPush(b)],
                     UNCHANGED <<nextSeq, checkpoint, lastHlc, peeked, pulled, applying, newCp,
                                 remote, history>>
              PROVE  TypeInv'
  <2>1. b \in SUBSET Entry
    BY DeviceTypes DEF TypeInv
  <2>2. batch' \in [Devices -> SUBSET Entry]
    BY <1>entryDone, <2>1 DEF TypeInv, TypeOK
  <2>3. reply' \in [Devices -> Replies]
    BY <1>entryDone DEF TypeInv, TypeOK
  <2>4. pc' \in [Devices -> PCs]
    BY <1>entryDone, NextPushType DEF TypeInv, TypeOK, PCs
  <2>5. LoopShape'
    BY <1>entryDone, NextPushType DEF TypeInv, TypeOK, LoopShape
  <2> QED
    BY <1>entryDone, <2>2, <2>3, <2>4, <2>5 DEF TypeInv, TypeOK
<1>settleMark. ASSUME NEW d \in Devices, SettleMark(d)
               PROVE  TypeInv'
  <2> DEFINE e == First(batch[d])
  <2>1. e \in Entry
    BY <1>settleMark, FirstExists, DeviceTypes DEF SettleMark, TypeInv, LoopShape
  <2>2. MarkSynced(rows[d], e.coll, e.id) \in [Ids -> Row]
    BY <2>1, TableTypes, DeviceTypes DEF TypeInv, Entry
  <2>3. rows' \in [Devices -> [Ids -> Row]]
    BY <1>settleMark, <2>2 DEF SettleMark, TypeInv, TypeOK
  <2>4. outbox' \in [Devices -> SUBSET Entry]
    BY <1>settleMark DEF SettleMark, TypeInv, TypeOK
  <2> QED
    BY <1>settleMark, <1>entryDone, <2>3, <2>4 DEF SettleMark, Replies
<1>settleConflict. ASSUME NEW d \in Devices, SettleConflict(d)
                   PROVE  TypeInv'
  <2>1. outbox' \in [Devices -> SUBSET Entry]
    BY <1>settleConflict DEF SettleConflict, DeleteSeq, TypeInv, TypeOK
  <2>2. rows' \in [Devices -> [Ids -> Row]]
    BY <1>settleConflict DEF SettleConflict, TypeInv, TypeOK
  <2> QED
    BY <1>settleConflict, <1>entryDone, <2>1, <2>2 DEF SettleConflict, Replies
<1>settleTransient. ASSUME NEW d \in Devices, SettleTransient(d)
                    PROVE  TypeInv'
  <2> DEFINE e == First(batch[d])
  <2>1. e \in Entry
    BY <1>settleTransient, FirstExists, DeviceTypes DEF SettleTransient, TypeInv, LoopShape
  <2>2. outbox[d] \in SUBSET Entry /\ e.seq \in Nat
    BY <2>1, DeviceTypes DEF TypeInv, Entry
  <2>3. MarkRetry(outbox[d], e.seq) \in SUBSET Entry
    BY <2>2, OutboxTypes
  <2>4. outbox' \in [Devices -> SUBSET Entry]
    BY <1>settleTransient, <2>3 DEF SettleTransient, TypeInv, TypeOK
  <2>5. rows' \in [Devices -> [Ids -> Row]]
    BY <1>settleTransient DEF SettleTransient, TypeInv, TypeOK
  <2> QED
    BY <1>settleTransient, <1>entryDone, <2>4, <2>5 DEF SettleTransient, Replies, NextPush
<1>settleOpenFails. ASSUME NEW d \in Devices, SettleOpenFails(d)
                    PROVE  TypeInv'
  <2>1. outbox' \in [Devices -> SUBSET Entry] /\ rows' \in [Devices -> [Ids -> Row]]
    BY <1>settleOpenFails DEF SettleOpenFails, TypeInv, TypeOK
  <2> QED
    BY <1>settleOpenFails, <1>entryDone, <2>1 DEF SettleOpenFails, Replies, NextPush
<1>pull. ASSUME NEW d \in Devices, Pull(d)
         PROVE  TypeInv'
  <2> DEFINE records == PullSince(remote, checkpoint[d])
  <2>1. records \in SUBSET RemoteRecord
    <3>1. remote \in [Keys -> Version] /\ checkpoint[d] \in Stamp
      BY DEF TypeInv, TypeOK
    <3> QED
      BY <3>1, PullSinceFacts
  <2> HIDE DEF records
  <2>2. /\ pc[d] = "pull"
        /\ pulled' = [pulled EXCEPT ![d] = records]
        /\ newCp' = [newCp EXCEPT ![d] = IF records = {} THEN Never ELSE checkpoint[d]]
        /\ pc' = [pc EXCEPT ![d] = IF records = {} THEN "idle" ELSE "apply"]
        /\ UNCHANGED <<dbVars, lastHlc, peeked, batch, reply, applying, remote, history>>
    BY <1>pull DEF Pull, records
  <2>3. pulled' \in [Devices -> SUBSET RemoteRecord]
    BY <2>1, <2>2 DEF TypeInv, TypeOK
  <2>4. newCp' \in [Devices -> Stamp]
    BY <2>2, StampTypes DEF TypeInv, TypeOK
  <2>5. pc' \in [Devices -> PCs]
    BY <2>2 DEF TypeInv, TypeOK, PCs
  <2>6. LoopShape'
    BY <2>2 DEF TypeInv, TypeOK, LoopShape
  <2> QED
    BY <2>2, <2>3, <2>4, <2>5, <2>6 DEF TypeInv, TypeOK
<1>pullFails. ASSUME NEW d \in Devices, PullFails(d)
              PROVE  TypeInv'
  <2>1. pc' \in [Devices -> PCs]
    BY <1>pullFails DEF PullFails, TypeInv, TypeOK, PCs
  <2>2. LoopShape'
    BY <1>pullFails DEF PullFails, TypeInv, TypeOK, LoopShape
  <2> QED
    BY <1>pullFails, <2>1, <2>2 DEF PullFails, TypeInv, TypeOK
<1>recordStep. ASSUME NEW d \in Devices, NEW p \in SUBSET RemoteRecord,
                      NEW a \in SUBSET RemoteRecord, NEW cp \in Stamp,
                      NEW next \in {"idle", "apply", "upsert", "remove"},
                      rows' \in [Devices -> [Ids -> Row]],
                      outbox' \in [Devices -> SUBSET Entry],
                      checkpoint' \in [Devices -> Stamp],
                      discarded' \in SUBSET Discarded,
                      skipped' \in SUBSET Skip,
                      pulled' = [pulled EXCEPT ![d] = p],
                      applying' = [applying EXCEPT ![d] = a],
                      newCp' = [newCp EXCEPT ![d] = cp],
                      pc' = [pc EXCEPT ![d] = next],
                      UNCHANGED <<nextSeq, lastHlc, peeked, batch, reply, remote, issued>>
               PROVE  TypeInv'
  <2>1. pulled' \in [Devices -> SUBSET RemoteRecord]
    BY <1>recordStep DEF TypeInv, TypeOK
  <2>2. applying' \in [Devices -> SUBSET RemoteRecord]
    BY <1>recordStep DEF TypeInv, TypeOK
  <2>3. newCp' \in [Devices -> Stamp]
    BY <1>recordStep DEF TypeInv, TypeOK
  <2>4. pc' \in [Devices -> PCs]
    BY <1>recordStep DEF TypeInv, TypeOK, PCs
  <2>5. LoopShape'
    BY <1>recordStep DEF TypeInv, TypeOK, LoopShape
  <2> QED
    BY <1>recordStep, <2>1, <2>2, <2>3, <2>4, <2>5 DEF TypeInv, TypeOK
<1>unchanged. ASSUME NEW d \in Devices
              PROVE  /\ rows \in [Devices -> [Ids -> Row]]
                     /\ outbox \in [Devices -> SUBSET Entry]
                     /\ checkpoint \in [Devices -> Stamp]
                     /\ discarded \in SUBSET Discarded
                     /\ skipped \in SUBSET Skip
                     /\ pulled = [pulled EXCEPT ![d] = pulled[d]]
                     /\ applying = [applying EXCEPT ![d] = applying[d]]
                     /\ newCp = [newCp EXCEPT ![d] = newCp[d]]
                     /\ pc = [pc EXCEPT ![d] = pc[d]]
  BY DEF TypeInv, TypeOK
<1>advance. ASSUME NEW d \in Devices, NEW r \in RemoteRecord
            PROVE  Advance(newCp[d], r) \in Stamp
  BY DeviceTypes DEF Advance, TypeInv, RemoteRecord
<1>applySkip. ASSUME NEW d \in Devices, NEW r \in pulled[d], ApplySkip(d, r)
              PROVE  TypeInv'
  <2>1. r \in RemoteRecord /\ pulled[d] \ {r} \in SUBSET RemoteRecord
        /\ applying[d] \in SUBSET RemoteRecord
    BY DeviceTypes DEF TypeInv
  <2>2. newCp' = [newCp EXCEPT ![d] = Advance(newCp[d], r)]
    BY <1>applySkip DEF ApplySkip
  <2>3. /\ pulled' = [pulled EXCEPT ![d] = pulled[d] \ {r}]
        /\ applying' = [applying EXCEPT ![d] = applying[d]]
        /\ pc' = [pc EXCEPT ![d] = "apply"]
        /\ UNCHANGED <<dbVars, lastHlc, peeked, batch, reply, remote, history>>
    BY <1>applySkip, <1>unchanged DEF ApplySkip
  <2> QED
    BY <1>recordStep, <1>unchanged, <1>advance, <2>1, <2>2, <2>3
<1>applyGet. ASSUME NEW d \in Devices, NEW r \in pulled[d], ApplyGet(d, r)
             PROVE  TypeInv'
  <2>1. {r} \in SUBSET RemoteRecord /\ pulled[d] \ {r} \in SUBSET RemoteRecord
        /\ newCp[d] \in Stamp
    BY DeviceTypes DEF TypeInv
  <2> QED
    BY <1>applyGet, <1>recordStep, <1>unchanged, <2>1 DEF ApplyGet
<1>applyUpsert. ASSUME NEW d \in Devices, NEW r \in applying[d], ApplyUpsert(d, r)
                PROVE  TypeInv'
  <2>1. r \in RemoteRecord /\ pulled[d] \in SUBSET RemoteRecord
        /\ applying[d] \in SUBSET RemoteRecord /\ newCp[d] \in Stamp
    BY DeviceTypes DEF TypeInv
  <2>2. UpsertRemote(rows[d], r) \in [Ids -> Row]
    BY <2>1, DeviceTypes, UpsertRemoteType DEF TypeInv
  <2>3. rows' \in [Devices -> [Ids -> Row]]
    BY <1>applyUpsert, <2>2 DEF ApplyUpsert, TypeInv, TypeOK
  <2>4. /\ pulled' = [pulled EXCEPT ![d] = pulled[d]]
        /\ applying' = [applying EXCEPT ![d] = applying[d]]
        /\ newCp' = [newCp EXCEPT ![d] = newCp[d]]
        /\ pc' = [pc EXCEPT ![d] = "remove"]
        /\ UNCHANGED <<outbox, nextSeq, checkpoint, lastHlc, peeked, batch, reply, remote,
                       history>>
    BY <1>applyUpsert, <1>unchanged DEF ApplyUpsert
  <2> QED
    BY <1>recordStep, <1>unchanged, <2>1, <2>3, <2>4
<1>applyRemove. ASSUME NEW d \in Devices, NEW r \in applying[d], ApplyRemove(d, r)
                PROVE  TypeInv'
  <2> DEFINE lost == Discard(d, {e \in outbox[d] \ RemoveForRecord(outbox[d], r.coll, r.id) :
                                    Less(r.hlc, e.hlc)}, "overtaken")
  <2>1. r \in RemoteRecord /\ pulled[d] \in SUBSET RemoteRecord
    BY DeviceTypes DEF TypeInv
  <2>2. outbox' \in [Devices -> SUBSET Entry]
    BY <1>applyRemove DEF ApplyRemove, RemoveForRecord, TypeInv, TypeOK
  <2>3. lost \in SUBSET Discarded
    BY DeviceTypes DEF Discard, Discarded, TypeInv, Entry
  <2>4. discarded' \in SUBSET Discarded
    BY <1>applyRemove, <2>3 DEF ApplyRemove, TypeInv, TypeOK
  <2>5. newCp' = [newCp EXCEPT ![d] = Advance(newCp[d], r)]
    BY <1>applyRemove DEF ApplyRemove
  <2>6. /\ applying' = [applying EXCEPT ![d] = {}] /\ pc' = [pc EXCEPT ![d] = "apply"]
        /\ UNCHANGED <<rows, nextSeq, checkpoint, lastHlc, peeked, batch, reply, pulled, remote,
                       issued, skipped>>
    BY <1>applyRemove DEF ApplyRemove
  <2> QED
    BY <1>recordStep, <1>unchanged, <1>advance, <2>1, <2>2, <2>4, <2>5, <2>6
<1>applyFails. ASSUME NEW d \in Devices, NEW r \in pulled[d] \cup applying[d], ApplyFails(d, r)
               PROVE  TypeInv'
  <2>1. pulled[d] \ {r} \in SUBSET RemoteRecord /\ newCp[d] \in Stamp
    BY DeviceTypes DEF TypeInv
  <2>2. r \in RemoteRecord
    BY DeviceTypes DEF TypeInv
  <2>3. skipped' \in SUBSET Skip
    BY <1>applyFails, <2>2 DEF ApplyFails, Skip, RemoteRecord, TypeInv, TypeOK
  <2> QED
    BY <1>applyFails, <1>recordStep, <1>unchanged, <2>1, <2>3 DEF ApplyFails
<1>finishPull. ASSUME NEW d \in Devices, FinishPull(d)
               PROVE  TypeInv'
  <2>1. pulled[d] \in SUBSET RemoteRecord /\ applying[d] \in SUBSET RemoteRecord
        /\ newCp[d] \in Stamp
    BY DeviceTypes DEF TypeInv
  <2>2. checkpoint' \in [Devices -> Stamp]
    BY <1>finishPull, <2>1 DEF FinishPull, TypeInv, TypeOK
  <2> QED
    BY <1>finishPull, <1>recordStep, <1>unchanged, <2>1, <2>2, StampTypes DEF FinishPull
<1>stutter. CASE UNCHANGED vars
  BY <1>stutter DEF vars, TypeInv, TypeOK, LoopShape
<1>actor. ASSUME NEW d \in Devices, Actor(d)
          PROVE  TypeInv'
  BY <1>actor, <1>put, <1>delete, <1>clear DEF Actor
<1>push. ASSUME NEW d \in Devices, PushStep(d)
         PROVE  TypeInv'
  BY <1>push, <1>peek, <1>build, <1>pushAnswered, <1>settleOk, <1>settleMark,
     <1>settleConflict, <1>settleTransient, <1>settleOpenFails DEF PushStep
<1>pullStep. ASSUME NEW d \in Devices, PullStep(d)
             PROVE  TypeInv'
  BY <1>pullStep, <1>pull, <1>pullFails, <1>applySkip, <1>applyGet, <1>applyUpsert,
     <1>applyRemove, <1>applyFails, <1>finishPull DEF PullStep
<1> QED
  BY <1>actor, <1>reopen, <1>backoff, <1>push, <1>pullStep, <1>stutter DEF Next, SyncLoop

\* Every reachable state has its types, for any number of devices, records and
\* collections, under every fault.
THEOREM TypeCorrect == Spec => []TypeOK
<1>1. TypeInv => TypeOK
  BY DEF TypeInv
<1> QED
  BY <1>1, InitTypeInv, StepTypeInv, PTL DEF Spec

-----------------------------------------------------------------------------
(***************************************************************************)
(* The inductive invariant is IInv; its parts say what the local copies of the *)
(* sync loop (peeked, batch, pulled, applying) have to do with the tables and *)
(* the store they were read from.                                           *)
(***************************************************************************)

\* Every copy the device has of an outbox entry: in the table, or read by the loop.
Entries(d) == outbox[d] \cup peeked[d] \cup batch[d]

\* i is the history entry of the write that queued e on device d.
WriteOf(i, d, e) ==
    /\ i.dev = d /\ i.id = e.id /\ i.coll = e.coll /\ i.hlc = e.hlc
    /\ i.deleted = (e.op = "delete")

\* A seq stands for one write of the device, and is never handed out twice.
EntriesAreWrites ==
    \A d \in Devices : \A e \in Entries(d) :
        /\ e.seq < nextSeq[d]
        /\ \E i \in issued : WriteOf(i, d, e)
        /\ \A f \in Entries(d) : e.seq = f.seq => SameWrite(e, f)

\* An answer that makes the loop delete an entry is true of the store.
AnswersHold ==
    \A d \in Devices :
        pc[d] \in {"settle", "mark"} /\ reply[d] \in {"ok", "conflict"} =>
            Covered(First(batch[d]).id, First(batch[d]).coll, First(batch[d]).hlc)

\* What a device is about to apply has been in the store.
PulledIsCovered ==
    \A d \in Devices : \A r \in pulled[d] \cup applying[d] : Covered(r.id, r.coll, r.hlc)

\* ... and is a version some device has stamped.
PulledIsStamped ==
    \A d \in Devices : \A r \in pulled[d] \cup applying[d] :
        Stamped(r.id, r.coll, r.hlc, r.deleted)

\* The inductive invariant.  NothingForgotten is not inductive alone: an entry
\* leaves the outbox on an answer of the store (AnswersHold), for a seq (which
\* EntriesAreWrites makes one write's), or because a newer version was pulled
\* (PulledIsCovered).
IInv ==
    /\ TypeInv
    /\ EntriesAreWrites
    /\ AnswersHold
    /\ PulledIsCovered
    /\ PulledIsStamped
    /\ NothingInvented
    /\ NothingForgotten

-----------------------------------------------------------------------------
(***************************************************************************)
(* Who changes what                                                         *)
(***************************************************************************)

\* The store changes by push_one of the first entry of a batch, alone.
LEMMA StoreSteps ==
    ASSUME TypeInv, [Next]_vars
    PROVE  \/ UNCHANGED remote
           \/ \E d \in Devices : /\ pc[d] = "push"
                                 /\ First(batch[d]) \in batch[d]
                                 /\ remote' = PushOne(remote, First(batch[d]))
<1> USE DEF history
<1>1. ASSUME NEW d \in Devices, Actor(d)
      PROVE  UNCHANGED remote
  BY <1>1 DEF Actor, Put, Delete, ClearError
<1>2. ASSUME NEW d \in Devices, PullStep(d)
      PROVE  UNCHANGED remote
  BY <1>2 DEF PullStep, Pull, PullFails, FinishPull, ApplySkip, ApplyGet, ApplyUpsert,
              ApplyRemove, ApplyFails
<1>3. ASSUME NEW d \in Devices, PushStep(d)
      PROVE  \/ UNCHANGED remote
             \/ /\ pc[d] = "push"
                /\ First(batch[d]) \in batch[d]
                /\ remote' = PushOne(remote, First(batch[d]))
  <2>1. pc[d] = "push" => First(batch[d]) \in batch[d]
    BY FirstExists, DeviceTypes DEF TypeInv, LoopShape
  <2>2. CASE PushAnswered(d) \/ PushUnanswered(d)
    BY <2>1, <2>2 DEF PushAnswered, PushUnanswered
  <2>3. CASE ~(PushAnswered(d) \/ PushUnanswered(d))
    BY <1>3, <2>3 DEF PushStep, PeekOutbox, BuildEntry, SettleOk, SettleMark,
                      SettleConflict, SettleTransient, SettleOpenFails
  <2> QED
    BY <2>2, <2>3
<1>4. ASSUME NEW d \in Devices
      PROVE  /\ \A wall \in Wall : Reopen(d, wall) => UNCHANGED remote
             /\ \A e \in outbox[d] : BackoffPasses(d, e) => UNCHANGED remote
  BY DEF Reopen, BackoffPasses
<1>5. UNCHANGED vars => UNCHANGED remote
  BY DEF vars
<1> QED
  BY <1>1, <1>2, <1>3, <1>4, <1>5 DEF Next, SyncLoop

\* No step moves a record of the store back to an older version.
LEMMA StoreAdvances ==
    ASSUME TypeInv, [Next]_vars
    PROVE  /\ \A k \in Keys : AtLeast(remote'[k].hlc, remote[k].hlc)
           /\ \A id \in Ids, c \in Colls, h \in Stamp : Covered(id, c, h) => Covered(id, c, h)'
<1>1. remote \in [Keys -> Version] /\ TypeInv'
  BY StepTypeInv DEF TypeInv, TypeOK
<1>2. \A k \in Keys : remote[k].hlc \in Stamp /\ remote'[k].hlc \in Stamp
  BY <1>1 DEF TypeInv, TypeOK, Version
<1>3. \A k \in Keys : AtLeast(remote'[k].hlc, remote[k].hlc)
  <2>1. CASE UNCHANGED remote
    BY <1>2, <2>1, AtLeastTransitive
  <2>2. ASSUME NEW d \in Devices, First(batch[d]) \in batch[d],
               remote' = PushOne(remote, First(batch[d]))
        PROVE  \A k \in Keys : AtLeast(remote'[k].hlc, remote[k].hlc)
    BY <1>1, <2>2, PushOneFacts, DeviceTypes DEF TypeInv
  <2> QED
    BY <2>1, <2>2, StoreSteps
<1>4. ASSUME NEW id \in Ids, NEW c \in Colls, NEW h \in Stamp, Covered(id, c, h)
      PROVE  Covered(id, c, h)'
  <2>1. <<id, c>> \in Keys
    BY DEF Keys
  <2> QED
    BY <1>2, <1>3, <1>4, <2>1, AtLeastTransitive DEF Covered
<1> QED
  BY <1>3, <1>4

\* An entry that d's outbox, or the memory of its loop, holds after a step was
\* there before, rescheduled at most, or is the one a put or delete of d has
\* just queued.
LEMMA EntrySources ==
    ASSUME TypeInv, [Next]_vars, NEW d \in Devices
    PROVE  /\ issued \subseteq issued'
           /\ \/ /\ nextSeq'[d] = nextSeq[d]
                 /\ \A f \in Entries(d)' : \E e \in Entries(d) : SameWrite(e, f)
              \/ \E new \in outbox'[d] :
                 /\ nextSeq'[d] = nextSeq[d] + 1 /\ new.seq = nextSeq[d]
                 /\ \E i \in issued' : WriteOf(i, d, new)
                 /\ Entries(d)' = Entries(d) \cup {new}
<1> DEFINE Old(a) == /\ issued \subseteq issued'
                     /\ nextSeq'[a] = nextSeq[a]
                     /\ \A f \in Entries(a)' : \E e \in Entries(a) : SameWrite(e, f)
           New(a) == /\ issued \subseteq issued'
                     /\ \E new \in outbox'[a] :
                          /\ nextSeq'[a] = nextSeq[a] + 1 /\ new.seq = nextSeq[a]
                          /\ \E i \in issued' : WriteOf(i, a, new)
                          /\ Entries(a)' = Entries(a) \cup {new}
<1> USE DEF dbVars, loopVars, history
<1>1. \A e : SameWrite(e, e)
  BY DEF SameWrite
<1>2. ASSUME UNCHANGED <<outbox, peeked, batch, nextSeq, issued>>
      PROVE  Old(d)
  BY <1>1, <1>2 DEF Entries
<1>3. ASSUME NEW a \in Devices, Actor(a)
      PROVE  Old(d) \/ New(d)
  <2>1. ASSUME NEW c \in Colls, NEW id \in Ids, NEW op \in Ops, NEW h, NEW v, NEW x \in BOOLEAN,
               x = (op = "delete"),
               outbox' = [outbox EXCEPT ![a] = @ \cup {NewEntry(nextSeq[a], c, id, op, h, v)}],
               nextSeq' = [nextSeq EXCEPT ![a] = @ + 1],
               issued' = issued \cup {[dev |-> a, id |-> id, coll |-> c, hlc |-> h, deleted |-> x]},
               UNCHANGED <<peeked, batch>>
        PROVE  Old(d) \/ New(d)
    <3> DEFINE e == NewEntry(nextSeq[a], c, id, op, h, v)
               i == [dev |-> a, id |-> id, coll |-> c, hlc |-> h, deleted |-> x]
    <3>1. e.seq = nextSeq[a] /\ WriteOf(i, a, e)
      BY <2>1 DEF NewEntry, WriteOf
    <3> HIDE DEF e, i
    <3>2. outbox' = [outbox EXCEPT ![a] = @ \cup {e}] /\ issued' = issued \cup {i}
      BY <2>1 DEF e, i
    <3>3. CASE a = d
      <4>1. outbox'[d] = outbox[d] \cup {e} /\ nextSeq'[d] = nextSeq[d] + 1
        BY <2>1, <3>2, <3>3 DEF TypeInv, TypeOK
      <4>2. Entries(d)' = Entries(d) \cup {e}
        BY <2>1, <4>1 DEF Entries
      <4> QED
        BY <3>1, <3>2, <3>3, <4>1, <4>2
    <3>4. CASE a # d
      <4>1. outbox'[d] = outbox[d] /\ nextSeq'[d] = nextSeq[d]
        BY <2>1, <3>2, <3>4 DEF TypeInv, TypeOK
      <4>2. Entries(d)' = Entries(d)
        BY <2>1, <4>1 DEF Entries
      <4> QED
        BY <1>1, <3>2, <4>1, <4>2
    <3> QED
      BY <3>3, <3>4
  <2>2. ASSUME NEW c \in Colls, NEW id \in Ids, NEW wall \in Wall,
               Put(a, c, id, wall) \/ Delete(a, c, id, wall)
        PROVE  Old(d) \/ New(d)
    <3> DEFINE h == Tick(lastHlc[a], wall)
               v == [dev |-> a, n |-> nextSeq[a]]
    <3>1. CASE Put(a, c, id, wall)
      <4>1. /\ outbox' = [outbox EXCEPT ![a] = @ \cup {NewEntry(nextSeq[a], c, id, "upsert", h, v)}]
            /\ nextSeq' = [nextSeq EXCEPT ![a] = @ + 1]
            /\ issued' = issued \cup
                  {[dev |-> a, id |-> id, coll |-> c, hlc |-> h, deleted |-> FALSE]}
            /\ UNCHANGED <<peeked, batch>>
        BY <3>1 DEF Put
      <4>2. "upsert" \in Ops /\ FALSE = ("upsert" = "delete") /\ FALSE \in BOOLEAN
        BY DEF Ops
      <4> HIDE DEF h, v
      <4> QED
        BY <2>1, <4>1, <4>2
    <3>2. CASE Delete(a, c, id, wall)
      <4>1. /\ outbox' = [outbox EXCEPT ![a] =
                             @ \cup {NewEntry(nextSeq[a], c, id, "delete", h, NoData)}]
            /\ nextSeq' = [nextSeq EXCEPT ![a] = @ + 1]
            /\ issued' = issued \cup
                  {[dev |-> a, id |-> id, coll |-> c, hlc |-> h, deleted |-> TRUE]}
            /\ UNCHANGED <<peeked, batch>>
        BY <3>2 DEF Delete
      <4>2. "delete" \in Ops /\ TRUE = ("delete" = "delete") /\ TRUE \in BOOLEAN
        BY DEF Ops
      <4> HIDE DEF h, v
      <4> QED
        BY <2>1, <4>1, <4>2
    <3> QED
      BY <2>2, <3>1, <3>2
  <2>3. ASSUME NEW e \in outbox[a], ClearError(a, e)
        PROVE  Old(d)
    <3>1. outbox'[d] \subseteq outbox[d]
      BY <2>3 DEF ClearError, DeleteSeq, TypeInv, TypeOK
    <3>2. Entries(d)' \subseteq Entries(d)
      BY <2>3, <3>1 DEF ClearError, Entries
    <3> QED
      BY <1>1, <2>3, <3>2 DEF ClearError
  <2> QED
    BY <1>3, <2>2, <2>3 DEF Actor
<1>4. ASSUME NEW a \in Devices, NEW o \in SUBSET Entry,
             \A f \in o : \E e \in outbox[a] : SameWrite(e, f),
             outbox' \in {outbox, [outbox EXCEPT ![a] = o]},
             \A b \in Devices : peeked'[b] \subseteq peeked[b] /\ batch'[b] \subseteq batch[b],
             UNCHANGED <<nextSeq, issued>>
      PROVE  Old(d)
  <2>1. \A f \in outbox'[d] : \E e \in outbox[d] : SameWrite(e, f)
    BY <1>1, <1>4 DEF TypeInv, TypeOK
  <2> QED
    BY <1>1, <1>4, <2>1 DEF Entries
<1>5. ASSUME NEW a \in Devices, NEW wall \in Wall, Reopen(a, wall)
      PROVE  Old(d)
  <2>1. \A b \in Devices : peeked'[b] \subseteq peeked[b] /\ batch'[b] \subseteq batch[b]
    BY <1>5 DEF Reopen, TypeInv, TypeOK
  <2> QED
    BY <1>1, <1>5, <2>1 DEF Reopen, Entries
<1>6. ASSUME NEW a \in Devices, NEW e \in outbox[a], BackoffPasses(a, e)
      PROVE  Old(d)
  <2>1. outbox[a] \in SUBSET Entry /\ e.seq \in Nat
    BY DeviceTypes DEF TypeInv, Entry
  <2>2. /\ MakeDue(outbox[a], e.seq) \in SUBSET Entry
        /\ \A f \in MakeDue(outbox[a], e.seq) : \E g \in outbox[a] : SameWrite(g, f)
    BY <2>1, OutboxTypes, RescheduledEntries
  <2> QED
    BY <1>4, <1>6, <2>2 DEF BackoffPasses
<1>7. ASSUME NEW a \in Devices, PullStep(a)
      PROVE  Old(d)
  <2>1. CASE UNCHANGED <<outbox, peeked, batch, nextSeq, issued>>
    BY <1>2, <2>1
  <2>2. ASSUME NEW r \in applying[a], ApplyRemove(a, r)
        PROVE  Old(d)
    <3>1. RemoveForRecord(outbox[a], r.coll, r.id) \subseteq outbox[a]
      BY DEF RemoveForRecord
    <3>2. outbox[a] \in SUBSET Entry
      BY DeviceTypes DEF TypeInv
    <3> QED
      BY <1>1, <1>4, <2>2, <3>1, <3>2 DEF ApplyRemove
  <2>3. \/ UNCHANGED <<outbox, peeked, batch, nextSeq, issued>>
        \/ \E r \in applying[a] : ApplyRemove(a, r)
    BY <1>7 DEF PullStep, Pull, PullFails, FinishPull, ApplySkip, ApplyGet, ApplyUpsert,
                ApplyFails
  <2> QED
    BY <2>1, <2>2, <2>3
<1>8. ASSUME NEW a \in Devices, PeekOutbox(a)
      PROVE  Old(d)
  <2>1. peeked'[d] \subseteq outbox[d] \cup peeked[d]
    <3>1. PeekBatch(outbox[a]) \subseteq outbox[a]
      BY DEF PeekBatch
    <3>2. PICK entries \in {PeekBatch(outbox[a]), {}} :
             peeked' = [peeked EXCEPT ![a] = entries]
      BY <1>8 DEF PeekOutbox
    <3>3. peeked'[d] = IF a = d THEN entries ELSE peeked[d]
      BY <3>2 DEF TypeInv, TypeOK
    <3> QED
      BY <3>1, <3>2, <3>3
  <2>2. Entries(d)' \subseteq Entries(d)
    BY <1>8, <2>1 DEF PeekOutbox, Entries
  <2> QED
    BY <1>1, <1>8, <2>2 DEF PeekOutbox
<1>9. ASSUME NEW a \in Devices, BuildEntry(a)
      PROVE  Old(d)
  <2> DEFINE e == First(peeked[a])
             row == Get(rows[a], e.coll, e.id)
             built == IF e.op = "delete" THEN {[e EXCEPT !.data = NoData]}
                      ELSE IF Present(row) THEN {[e EXCEPT !.data = row.data]}
                      ELSE {}
  <2>1. e \in peeked[a] /\ e \in Entry
    BY <1>9, FirstExists, DeviceTypes DEF BuildEntry, TypeInv, LoopShape
  <2>2. \A v : SameWrite(e, [e EXCEPT !.data = v])
    BY <2>1 DEF SameWrite, Entry
  <2>3. \A f \in built : SameWrite(e, f)
    BY <2>2
  <2>4. \A f \in batch'[a] : f \in batch[a] \/ f \in built
    BY <1>9 DEF BuildEntry, TypeInv, TypeOK
  <2>5. /\ \A b \in Devices : peeked'[b] \subseteq peeked[b]
        /\ \A b \in Devices : b # a => batch'[b] = batch[b]
        /\ UNCHANGED <<outbox, nextSeq, issued>>
    BY <1>9 DEF BuildEntry, TypeInv, TypeOK
  <2> HIDE DEF e, built
  <2>6. \A f \in Entries(d)' : \E g \in Entries(d) : SameWrite(g, f)
    BY <1>1, <2>1, <2>3, <2>4, <2>5 DEF Entries
  <2> QED
    BY <2>5, <2>6
<1>10. ASSUME NEW a \in Devices, SettleTransient(a)
       PROVE  Old(d)
  <2> DEFINE e == First(batch[a])
  <2>1. e \in Entry
    BY <1>10, FirstExists, DeviceTypes DEF SettleTransient, TypeInv, LoopShape
  <2>2. outbox[a] \in SUBSET Entry /\ e.seq \in Nat
    BY <2>1, DeviceTypes DEF TypeInv, Entry
  <2>3. /\ MarkRetry(outbox[a], e.seq) \in SUBSET Entry
        /\ \A f \in MarkRetry(outbox[a], e.seq) : \E g \in outbox[a] : SameWrite(g, f)
    BY <2>2, OutboxTypes, RescheduledEntries
  <2>4. \A b \in Devices : peeked'[b] \subseteq peeked[b] /\ batch'[b] \subseteq batch[b]
    BY <1>10 DEF SettleTransient, TypeInv, TypeOK
  <2>5. /\ outbox' \in {outbox, [outbox EXCEPT ![a] = MarkRetry(outbox[a], e.seq)]}
        /\ UNCHANGED <<nextSeq, issued>>
    BY <1>10 DEF SettleTransient
  <2> DEFINE o == MarkRetry(outbox[a], e.seq)
  <2> HIDE DEF o, e
  <2>6. o \in SUBSET Entry /\ \A f \in o : \E g \in outbox[a] : SameWrite(g, f)
    BY <2>3 DEF o
  <2>7. outbox' \in {outbox, [outbox EXCEPT ![a] = o]}
    BY <2>5 DEF o
  <2> QED
    BY <1>4, <2>4, <2>5, <2>6, <2>7
<1>11. ASSUME NEW a \in Devices,
              PushAnswered(a) \/ PushUnanswered(a) \/ SettleOk(a) \/ SettleMark(a)
                 \/ SettleConflict(a) \/ SettleOpenFails(a)
       PROVE  Old(d)
  <2>1. \A b \in Devices : peeked'[b] \subseteq peeked[b] /\ batch'[b] \subseteq batch[b]
    BY <1>11 DEF PushAnswered, PushUnanswered, SettleOk, SettleMark, SettleConflict,
                 SettleOpenFails, TypeInv, TypeOK
  <2>2. \/ UNCHANGED outbox
        \/ outbox' = [outbox EXCEPT ![a] = DeleteSeq(outbox[a], First(batch[a]).seq)]
    BY <1>11 DEF PushAnswered, PushUnanswered, SettleOk, SettleMark, SettleConflict,
                 SettleOpenFails
  <2>3. DeleteSeq(outbox[a], First(batch[a]).seq) \subseteq outbox[a]
    BY DEF DeleteSeq
  <2>4. UNCHANGED <<nextSeq, issued>>
    BY <1>11 DEF PushAnswered, PushUnanswered, SettleOk, SettleMark, SettleConflict,
                 SettleOpenFails
  <2>5. outbox[a] \in SUBSET Entry
    BY DeviceTypes DEF TypeInv
  <2>6. CASE UNCHANGED outbox
    BY <1>1, <1>4, <2>1, <2>4, <2>5, <2>6
  <2>7. CASE outbox' = [outbox EXCEPT ![a] = DeleteSeq(outbox[a], First(batch[a]).seq)]
    BY <1>1, <1>4, <2>1, <2>3, <2>4, <2>5, <2>7
  <2> QED
    BY <2>2, <2>6, <2>7
<1>12. ASSUME NEW a \in Devices, PushStep(a)
       PROVE  Old(d)
  BY <1>8, <1>9, <1>10, <1>11, <1>12 DEF PushStep
<1>13. UNCHANGED vars => Old(d)
  BY <1>2 DEF vars
<1>14. Old(d) \/ New(d)
  BY <1>3, <1>5, <1>6, <1>7, <1>12, <1>13 DEF Next, SyncLoop
<1> QED
  BY <1>14

\* What a device has pulled, or is applying, it pulled before this step or
\* reads from the store in this one.
LEMMA PulledSources ==
    ASSUME TypeInv, [Next]_vars, NEW d \in Devices
    PROVE  \A r \in (pulled[d] \cup applying[d])' :
              \/ r \in pulled[d] \cup applying[d]
              \/ r \in PullSince(remote, checkpoint[d])
<1> USE DEF dbVars, loopVars, history
<1> DEFINE Known == \A r \in (pulled[d] \cup applying[d])' :
                       \/ r \in pulled[d] \cup applying[d]
                       \/ r \in PullSince(remote, checkpoint[d])
<1>1. ASSUME UNCHANGED <<pulled, applying>> PROVE Known
  BY <1>1
<1>2. ASSUME NEW a \in Devices, Actor(a) \/ PushStep(a) \/ PullFails(a) \/ FinishPull(a)
      PROVE  Known
  BY <1>2 DEF Actor, Put, Delete, ClearError, PushStep, PeekOutbox, BuildEntry, PushAnswered,
              PushUnanswered, SettleOk, SettleMark, SettleConflict, SettleTransient,
              SettleOpenFails, PullFails, FinishPull
<1>3. ASSUME NEW a \in Devices, NEW wall \in Wall, Reopen(a, wall)
      PROVE  Known
  BY <1>3 DEF Reopen, TypeInv, TypeOK
<1>4. ASSUME NEW a \in Devices, NEW e \in outbox[a], BackoffPasses(a, e)
      PROVE  Known
  BY <1>4 DEF BackoffPasses
<1>5. ASSUME NEW a \in Devices, Pull(a)
      PROVE  Known
  BY <1>5 DEF Pull, TypeInv, TypeOK
<1>6. ASSUME NEW a \in Devices, NEW r \in pulled[a], ApplySkip(a, r) \/ ApplyGet(a, r)
      PROVE  Known
  <2>1. CASE ApplySkip(a, r)
    BY <2>1 DEF ApplySkip, TypeInv, TypeOK
  <2>2. CASE ApplyGet(a, r)
    <3>1. pulled' = [pulled EXCEPT ![a] = @ \ {r}] /\ applying' = [applying EXCEPT ![a] = {r}]
      BY <2>2 DEF ApplyGet
    <3>2. pulled'[d] \subseteq pulled[d]
      BY <3>1 DEF TypeInv, TypeOK
    <3>3. applying'[d] \subseteq applying[d] \cup pulled[d]
      BY <1>6, <3>1 DEF TypeInv, TypeOK
    <3> QED
      BY <3>2, <3>3
  <2> QED
    BY <1>6, <2>1, <2>2
<1>7. ASSUME NEW a \in Devices, NEW r \in applying[a], ApplyUpsert(a, r) \/ ApplyRemove(a, r)
      PROVE  Known
  BY <1>7 DEF ApplyUpsert, ApplyRemove, TypeInv, TypeOK
<1>8. ASSUME NEW a \in Devices, NEW r \in pulled[a] \cup applying[a], ApplyFails(a, r)
      PROVE  Known
  BY <1>8 DEF ApplyFails, TypeInv, TypeOK
<1>9. UNCHANGED vars => Known
  BY DEF vars
<1>10. Known
  BY <1>2, <1>3, <1>4, <1>5, <1>6, <1>7, <1>8, <1>9 DEF Next, SyncLoop, PullStep
<1> QED
  BY <1>10

\* Some version of the set is the one the row shows.
StampedIn(versions, id, row) ==
    \E i \in versions : /\ i.id = id /\ i.coll = row.coll /\ i.hlc = row.hlc
                        /\ i.deleted = row.deleted

\* A row is rewritten by a put or delete that stamps it in the same step, or
\* by the version being applied; every other step changes its synced flag at
\* most.
LEMMA RowSources ==
    ASSUME TypeInv, [Next]_vars, NEW d \in Devices, NEW id \in Ids
    PROVE  LET new == rows'[d][id]
               old == rows[d][id]
           IN  \/ new.coll = old.coll /\ new.hlc = old.hlc /\ new.deleted = old.deleted
               \/ StampedIn(issued', id, new)
               \/ \E r \in applying[d] :
                     id = r.id /\ new.coll = r.coll /\ new.hlc = r.hlc /\ new.deleted = r.deleted
<1> DEFINE new == rows'[d][id]
           old == rows[d][id]
           Same == new.coll = old.coll /\ new.hlc = old.hlc /\ new.deleted = old.deleted
           Explained == \/ Same
                        \/ StampedIn(issued', id, new)
                        \/ \E r \in applying[d] : id = r.id /\ new.coll = r.coll
                              /\ new.hlc = r.hlc /\ new.deleted = r.deleted
<1> USE DEF dbVars, loopVars, history
<1>1. ASSUME NEW a \in Devices, NEW c \in Colls, NEW x \in Ids, NEW wall \in Wall,
             Put(a, c, x, wall)
      PROVE  Explained
  <2>1. CASE a = d /\ x = id
    <3>1. /\ new.coll = c /\ new.hlc = Tick(lastHlc[d], wall) /\ new.deleted = FALSE
      BY <1>1, <2>1 DEF Put, Upsert, TypeInv, TypeOK
    <3>2. [dev |-> d, id |-> id, coll |-> c, hlc |-> Tick(lastHlc[d], wall), deleted |-> FALSE]
             \in issued'
      BY <1>1, <2>1 DEF Put
    <3> QED
      BY <3>1, <3>2 DEF StampedIn
  <2>2. CASE ~(a = d /\ x = id)
    <3>1. new = old
      BY <1>1, <2>2 DEF Put, Upsert, TypeInv, TypeOK
    <3> QED
      BY <3>1
  <2> QED
    BY <2>1, <2>2
<1>2. ASSUME NEW a \in Devices, NEW c \in Colls, NEW x \in Ids, NEW wall \in Wall,
             Delete(a, c, x, wall)
      PROVE  Explained
  <2>1. CASE a = d /\ x = id /\ Present(Get(rows[a], c, x))
    <3>1. rows[d][id].coll = c
      BY <2>1 DEF Present, Get, NoRow
    <3>2. /\ new.coll = c /\ new.hlc = Tick(lastHlc[d], wall) /\ new.deleted = TRUE
      BY <1>2, <2>1, <3>1 DEF Delete, SoftDelete, TypeInv, TypeOK, Row
    <3>3. [dev |-> d, id |-> id, coll |-> c, hlc |-> Tick(lastHlc[d], wall), deleted |-> TRUE]
             \in issued'
      BY <1>2, <2>1 DEF Delete
    <3> QED
      BY <3>2, <3>3 DEF StampedIn
  <2>2. CASE ~(a = d /\ x = id /\ Present(Get(rows[a], c, x)))
    <3>1. new = old
      BY <1>2, <2>2 DEF Delete, SoftDelete, TypeInv, TypeOK
    <3> QED
      BY <3>1
  <2> QED
    BY <2>1, <2>2
<1>3. ASSUME NEW a \in Devices, SettleMark(a)
      PROVE  Same
  <2> DEFINE e == First(batch[a])
  <2>1. rows' = rows \/ rows' = [rows EXCEPT ![a] = MarkSynced(rows[a], e.coll, e.id)]
    BY <1>3 DEF SettleMark
  <2> HIDE DEF e
  <2>2. CASE rows' = rows
    BY <2>2
  <2>3. CASE rows' = [rows EXCEPT ![a] = MarkSynced(rows[a], e.coll, e.id)]
    <3>1. \A t \in [Ids -> Row] :
             LET m == MarkSynced(t, e.coll, e.id)
             IN  m[id].coll = t[id].coll /\ m[id].hlc = t[id].hlc /\ m[id].deleted = t[id].deleted
      BY DEF MarkSynced, Row
    <3> QED
      BY <2>3, <3>1 DEF TypeInv, TypeOK
  <2> QED
    BY <2>1, <2>2, <2>3
<1>4. ASSUME NEW a \in Devices, NEW r \in applying[a], ApplyUpsert(a, r)
      PROVE  Explained
  <2>1. CASE a = d /\ r.id = id
    <3>1. /\ new.coll = r.coll /\ new.hlc = r.hlc /\ new.deleted = r.deleted
      BY <1>4, <2>1 DEF ApplyUpsert, UpsertRemote, TypeInv, TypeOK
    <3> QED
      BY <2>1, <3>1
  <2>2. CASE ~(a = d /\ r.id = id)
    <3>1. new = old
      BY <1>4, <2>2 DEF ApplyUpsert, UpsertRemote, TypeInv, TypeOK
    <3> QED
      BY <3>1
  <2> QED
    BY <2>1, <2>2
<1>5. ASSUME UNCHANGED rows PROVE Same
  BY <1>5
<1>6. ASSUME NEW a \in Devices, PushStep(a)
      PROVE  Explained
  <2>1. UNCHANGED rows \/ SettleMark(a)
    BY <1>6 DEF PushStep, PeekOutbox, BuildEntry, PushAnswered, PushUnanswered, SettleOk,
                SettleConflict, SettleTransient, SettleOpenFails
  <2> QED
    BY <1>3, <1>5, <2>1
<1>7. ASSUME NEW a \in Devices, PullStep(a)
      PROVE  Explained
  <2>1. UNCHANGED rows \/ \E r \in applying[a] : ApplyUpsert(a, r)
    BY <1>7 DEF PullStep, Pull, PullFails, FinishPull, ApplySkip, ApplyGet, ApplyRemove,
                ApplyFails
  <2> QED
    BY <1>4, <1>5, <2>1
<1>8. ASSUME NEW a \in Devices, Actor(a)
      PROVE  Explained
  <2>1. \A e \in outbox[a] : ClearError(a, e) => UNCHANGED rows
    BY DEF ClearError
  <2> QED
    BY <1>1, <1>2, <1>5, <1>8, <2>1 DEF Actor
<1>9. ASSUME NEW a \in Devices
      PROVE  /\ \A wall \in Wall : Reopen(a, wall) => UNCHANGED rows
             /\ \A e \in outbox[a] : BackoffPasses(a, e) => UNCHANGED rows
  BY DEF Reopen, BackoffPasses
<1>10. UNCHANGED vars => UNCHANGED rows
  BY DEF vars
<1>11. Explained
  BY <1>5, <1>6, <1>7, <1>8, <1>9, <1>10 DEF Next, SyncLoop
<1> QED
  BY <1>11

\* Whatever a step does, an entry of the outbox stays, rescheduled at most, or
\* its version (or a later one) is in the store, or its loss is on record.
LEMMA EntryFate ==
    ASSUME TypeInv, EntriesAreWrites, AnswersHold, PulledIsCovered, [Next]_vars,
           NEW d \in Devices, NEW e \in outbox[d]
    PROVE  \/ \E f \in outbox'[d] : SameWrite(e, f)
           \/ Covered(e.id, e.coll, e.hlc)
           \/ GivenUp(d, e.id, e.coll, e.hlc)'
<1> DEFINE Fine == \/ \E f \in outbox'[d] : SameWrite(e, f)
                   \/ Covered(e.id, e.coll, e.hlc)
                   \/ GivenUp(d, e.id, e.coll, e.hlc)'
<1> USE DEF dbVars, loopVars, history
<1>e. e \in Entry /\ SameWrite(e, e) /\ e \in Entries(d)
  BY DeviceTypes DEF TypeInv, SameWrite, Entries
<1>1. ASSUME e \in outbox'[d] PROVE Fine
  BY <1>1, <1>e
<1>2. ASSUME NEW a \in Devices, NEW s, outbox' = [outbox EXCEPT ![a] = DeleteSeq(@, s)],
             e \notin outbox'[d]
      PROVE  a = d /\ e.seq = s
  BY <1>2 DEF DeleteSeq, TypeInv, TypeOK
<1>3. ASSUME NEW a \in Devices, Actor(a)
      PROVE  Fine
  <2>1. ASSUME NEW c \in Colls, NEW id \in Ids, NEW wall \in Wall,
               Put(a, c, id, wall) \/ Delete(a, c, id, wall)
        PROVE  e \in outbox'[d]
    BY <2>1 DEF Put, Delete, TypeInv, TypeOK
  <2>2. ASSUME NEW g \in outbox[a], ClearError(a, g)
        PROVE  Fine
    <3>1. CASE e \in outbox'[d]
      BY <1>1, <3>1
    <3>2. CASE e \notin outbox'[d]
      <4>1. a = d /\ e.seq = g.seq
        BY <1>2, <2>2, <3>2 DEF ClearError
      <4>2. SameWrite(e, g)
        BY <1>e, <4>1 DEF EntriesAreWrites, Entries
      <4>3. [dev |-> d, id |-> e.id, coll |-> e.coll, hlc |-> e.hlc, why |-> "cleared"]
               \in discarded'
        BY <2>2, <4>1, <4>2 DEF ClearError, Discard, SameWrite
      <4> QED
        BY <4>3 DEF GivenUp
    <3> QED
      BY <3>1, <3>2
  <2> QED
    BY <1>1, <1>3, <2>1, <2>2 DEF Actor
<1>4. ASSUME NEW a \in Devices, NEW s \in Nat, NEW o,
             o \in {MarkRetry(outbox[a], s), MakeDue(outbox[a], s)},
             outbox' = [outbox EXCEPT ![a] = o]
      PROVE  Fine
  <2>1. outbox[a] \in SUBSET Entry
    BY DeviceTypes DEF TypeInv
  <2>2. \A f \in outbox[a] : \E g \in o : SameWrite(f, g)
    BY <1>4, <2>1, RescheduledEntries
  <2>3. outbox'[d] = IF a = d THEN o ELSE outbox[d]
    BY <1>4 DEF TypeInv, TypeOK
  <2> QED
    BY <1>e, <2>2, <2>3
<1>5. ASSUME NEW a \in Devices, NEW g \in outbox[a], BackoffPasses(a, g)
      PROVE  Fine
  <2>1. g.seq \in Nat
    BY DeviceTypes DEF TypeInv, Entry
  <2> QED
    BY <1>4, <1>5, <2>1 DEF BackoffPasses
<1>6. ASSUME NEW a \in Devices, SettleOk(a) \/ SettleConflict(a)
      PROVE  Fine
  <2> DEFINE b == First(batch[a])
  <2>1. CASE e \in outbox'[d]
    BY <1>1, <2>1
  <2>2. CASE e \notin outbox'[d]
    <3>1. outbox' = [outbox EXCEPT ![a] = DeleteSeq(@, b.seq)]
      BY <1>6, <2>2 DEF SettleOk, SettleConflict
    <3>2. a = d /\ e.seq = b.seq
      BY <1>2, <2>2, <3>1
    <3>3. b \in Entries(a)
      BY <1>6, FirstExists, DeviceTypes
      DEF SettleOk, SettleConflict, TypeInv, LoopShape, Entries
    <3>4. SameWrite(e, b)
      BY <1>e, <3>2, <3>3 DEF EntriesAreWrites
    <3>5. Covered(b.id, b.coll, b.hlc)
      BY <1>6 DEF SettleOk, SettleConflict, AnswersHold
    <3> QED
      BY <3>4, <3>5 DEF SameWrite
  <2> QED
    BY <2>1, <2>2
<1>7. ASSUME NEW a \in Devices, SettleTransient(a)
      PROVE  Fine
  <2> DEFINE b == First(batch[a])
  <2>1. b.seq \in Nat
    BY <1>7, FirstExists, DeviceTypes DEF SettleTransient, TypeInv, LoopShape, Entry
  <2>2. UNCHANGED outbox \/ outbox' = [outbox EXCEPT ![a] = MarkRetry(outbox[a], b.seq)]
    BY <1>7 DEF SettleTransient
  <2> HIDE DEF b
  <2> QED
    BY <1>1, <1>4, <2>1, <2>2
<1>8. ASSUME NEW a \in Devices, NEW r \in applying[a], ApplyRemove(a, r)
      PROVE  Fine
  <2>1. CASE e \in outbox'[d]
    BY <1>1, <2>1
  <2>2. CASE e \notin outbox'[d]
    <3>1. a = d /\ e.id = r.id /\ e.coll = r.coll
      BY <1>8, <2>2 DEF ApplyRemove, RemoveForRecord, TypeInv, TypeOK
    <3>2. CASE Less(r.hlc, e.hlc)
      <4>1. e \in outbox[a] \ RemoveForRecord(outbox[a], r.coll, r.id)
        BY <3>1 DEF RemoveForRecord
      <4>2. [dev |-> d, id |-> e.id, coll |-> e.coll, hlc |-> e.hlc, why |-> "overtaken"]
               \in discarded'
        BY <1>8, <3>1, <3>2, <4>1 DEF ApplyRemove, Discard
      <4> QED
        BY <4>2 DEF GivenUp
    <3>3. CASE ~Less(r.hlc, e.hlc)
      <4>1. Covered(r.id, r.coll, r.hlc)
        BY <3>1 DEF PulledIsCovered
      <4>2. r.hlc \in Stamp /\ e.hlc \in Stamp /\ remote[<<e.id, e.coll>>].hlc \in Stamp
        BY <1>e, DeviceTypes DEF TypeInv, TypeOK, RemoteRecord, Entry, Keys, Version
      <4> QED
        BY <3>1, <3>3, <4>1, <4>2, AtLeastTransitive DEF Covered, AtLeast
    <3> QED
      BY <3>2, <3>3
  <2> QED
    BY <2>1, <2>2
<1>9. ASSUME UNCHANGED outbox PROVE Fine
  BY <1>1, <1>9
<1>10. ASSUME NEW a \in Devices, PushStep(a)
       PROVE  Fine
  <2>1. UNCHANGED outbox \/ SettleOk(a) \/ SettleConflict(a) \/ SettleTransient(a)
    BY <1>10 DEF PushStep, PeekOutbox, BuildEntry, PushAnswered, PushUnanswered, SettleMark,
                 SettleOpenFails
  <2> QED
    BY <1>6, <1>7, <1>9, <2>1
<1>11. ASSUME NEW a \in Devices, PullStep(a)
       PROVE  Fine
  <2>1. UNCHANGED outbox \/ \E r \in applying[a] : ApplyRemove(a, r)
    BY <1>11 DEF PullStep, Pull, PullFails, FinishPull, ApplySkip, ApplyGet, ApplyUpsert,
                 ApplyFails
  <2> QED
    BY <1>8, <1>9, <2>1
<1>12. \A a \in Devices, wall \in Wall : Reopen(a, wall) => UNCHANGED outbox
  BY DEF Reopen
<1>13. UNCHANGED vars => UNCHANGED outbox
  BY DEF vars
<1>14. Fine
  BY <1>3, <1>5, <1>9, <1>10, <1>11, <1>12, <1>13 DEF Next, SyncLoop
<1> QED
  BY <1>14

\* A version enters the history together with the entry that carries it, and
\* nothing leaves the history.
LEMMA IssuedSources ==
    ASSUME TypeInv, [Next]_vars
    PROVE  /\ issued \subseteq issued' /\ discarded \subseteq discarded'
           /\ \A i \in issued' : i \in issued \/ Queued(i.dev, i.id, i.coll, i.hlc)'
<1> USE DEF dbVars, loopVars, history
<1>1. ASSUME NEW a \in Devices, NEW c \in Colls, NEW id \in Ids, NEW wall \in Wall,
             Put(a, c, id, wall) \/ Delete(a, c, id, wall), NEW i \in issued', i \notin issued
      PROVE  Queued(i.dev, i.id, i.coll, i.hlc)'
  <2> DEFINE h == Tick(lastHlc[a], wall)
  <2>1. i.dev = a /\ i.id = id /\ i.coll = c /\ i.hlc = h
    BY <1>1 DEF Put, Delete
  <2>2. \E e \in outbox'[a] : e.id = id /\ e.coll = c /\ e.hlc = h
    <3>1. \E op \in Ops, v \in {NoData, [dev |-> a, n |-> nextSeq[a]]} :
             outbox' = [outbox EXCEPT ![a] = @ \cup {NewEntry(nextSeq[a], c, id, op, h, v)}]
      BY <1>1 DEF Put, Delete, Ops
    <3>2. PICK op \in Ops, v \in {NoData, [dev |-> a, n |-> nextSeq[a]]} :
             NewEntry(nextSeq[a], c, id, op, h, v) \in outbox'[a]
      BY <3>1 DEF TypeInv, TypeOK
    <3> QED
      BY <3>2 DEF NewEntry
  <2> QED
    BY <2>1, <2>2 DEF Queued
<1>2. ASSUME NEW a \in Devices, Actor(a)
      PROVE  /\ issued \subseteq issued' /\ discarded \subseteq discarded'
             /\ \A i \in issued' : i \in issued \/ Queued(i.dev, i.id, i.coll, i.hlc)'
  <2>1. \A e \in outbox[a] : ClearError(a, e) => issued' = issued /\ discarded \subseteq discarded'
    BY DEF ClearError
  <2>2. \A c \in Colls, id \in Ids, wall \in Wall :
           Put(a, c, id, wall) \/ Delete(a, c, id, wall) =>
              UNCHANGED discarded /\ issued \subseteq issued'
    BY DEF Put, Delete
  <2> QED
    BY <1>1, <1>2, <2>1, <2>2 DEF Actor
<1>3. ASSUME NEW a \in Devices, SyncLoop(a)
      PROVE  issued' = issued /\ discarded \subseteq discarded'
  BY <1>3 DEF SyncLoop, PushStep, PullStep, PeekOutbox, BuildEntry, PushAnswered,
              PushUnanswered, SettleOk, SettleMark, SettleConflict, SettleTransient,
              SettleOpenFails, Pull, PullFails, FinishPull, ApplySkip, ApplyGet, ApplyUpsert,
              ApplyRemove, ApplyFails
<1>4. ASSUME NEW a \in Devices
      PROVE  /\ \A wall \in Wall : Reopen(a, wall) => UNCHANGED history
             /\ \A e \in outbox[a] : BackoffPasses(a, e) => UNCHANGED history
  BY DEF Reopen, BackoffPasses
<1>5. UNCHANGED vars => UNCHANGED history
  BY DEF vars
<1> QED
  BY <1>2, <1>3, <1>4, <1>5 DEF Next

-----------------------------------------------------------------------------
(***************************************************************************)
(* The invariant is inductive                                               *)
(***************************************************************************)

\* The invariant holds before any device has written.
LEMMA InitIInv == Init => IInv
<1> SUFFICES ASSUME Init PROVE IInv
  OBVIOUS
<1>1. EntriesAreWrites
  BY DEF Init, EntriesAreWrites, Entries
<1>2. AnswersHold
  BY DEF Init, AnswersHold
<1>3. PulledIsCovered /\ PulledIsStamped
  BY DEF Init, PulledIsCovered, PulledIsStamped
<1>4. NothingInvented
  BY DEF Init, NothingInvented, EmptyStore, Present, NoRow
<1>5. NothingForgotten
  BY DEF Init, NothingForgotten
<1> QED
  BY <1>1, <1>2, <1>3, <1>4, <1>5, InitTypeInv DEF IInv

\* A write queues one entry under a fresh seq, and the loop only copies entries.
LEMMA StepEntriesAreWrites == IInv /\ [Next]_vars => EntriesAreWrites'
<1> SUFFICES ASSUME IInv, [Next]_vars, NEW d \in Devices, NEW e \in Entries(d)'
             PROVE  /\ e.seq < nextSeq'[d]
                    /\ \E i \in issued' : WriteOf(i, d, e)
                    /\ \A f \in Entries(d)' : e.seq = f.seq => SameWrite(e, f)
  BY DEF EntriesAreWrites
<1>1. TypeInv /\ EntriesAreWrites
  BY DEF IInv
<1>2. /\ nextSeq[d] \in Nat
      /\ \A f \in Entries(d) : f.seq \in Nat
  BY <1>1, DeviceTypes DEF TypeInv, Entries, Entry
<1>3. /\ \A f, g, h : SameWrite(g, f) /\ SameWrite(g, h) => SameWrite(f, h)
      /\ \A i, f, g : SameWrite(f, g) /\ WriteOf(i, d, f) => WriteOf(i, d, g)
      /\ \A f : SameWrite(f, f)
      /\ \A f, g : SameWrite(f, g) => f.seq = g.seq
  BY DEF SameWrite, WriteOf
<1>4. issued \subseteq issued'
  BY <1>1, EntrySources
<1>5. CASE /\ nextSeq'[d] = nextSeq[d]
           /\ \A f \in Entries(d)' : \E g \in Entries(d) : SameWrite(g, f)
  <2>1. PICK g \in Entries(d) : SameWrite(g, e)
    BY <1>5
  <2>2. e.seq < nextSeq'[d] /\ \E i \in issued' : WriteOf(i, d, e)
    BY <1>1, <1>3, <1>4, <1>5, <2>1 DEF EntriesAreWrites
  <2>3. ASSUME NEW f \in Entries(d)', e.seq = f.seq
        PROVE  SameWrite(e, f)
    <3>1. PICK k \in Entries(d) : SameWrite(k, f)
      BY <1>5
    <3>2. SameWrite(k, g)
      BY <1>1, <1>3, <2>1, <2>3, <3>1 DEF EntriesAreWrites
    <3> QED
      BY <2>1, <3>1, <3>2 DEF SameWrite
  <2> QED
    BY <2>2, <2>3
<1>6. ASSUME NEW new \in outbox'[d],
             nextSeq'[d] = nextSeq[d] + 1, new.seq = nextSeq[d],
             \E i \in issued' : WriteOf(i, d, new),
             Entries(d)' = Entries(d) \cup {new}
      PROVE  /\ e.seq < nextSeq'[d]
             /\ \E i \in issued' : WriteOf(i, d, e)
             /\ \A f \in Entries(d)' : e.seq = f.seq => SameWrite(e, f)
  <2>1. \A f \in Entries(d) : f.seq < nextSeq[d] /\ f.seq # new.seq
    BY <1>1, <1>2, <1>6 DEF EntriesAreWrites
  <2>2. e.seq < nextSeq'[d]
    BY <1>2, <1>6, <2>1
  <2>3. \E i \in issued' : WriteOf(i, d, e)
    BY <1>1, <1>4, <1>6 DEF EntriesAreWrites
  <2>4. \A f \in Entries(d)' : e.seq = f.seq => SameWrite(e, f)
    BY <1>1, <1>3, <1>6, <2>1 DEF EntriesAreWrites
  <2> QED
    BY <2>2, <2>3, <2>4
<1> QED
  BY <1>1, <1>5, <1>6, EntrySources

\* An ok leaves the pushed stamp in the store, a conflict found a later one
\* there, and the store's stamps only grow.
LEMMA StepAnswersHold == IInv /\ [Next]_vars => AnswersHold'
<1> SUFFICES ASSUME IInv, [Next]_vars, NEW d \in Devices,
                    pc'[d] \in {"settle", "mark"}, reply'[d] \in {"ok", "conflict"}
             PROVE  Covered(First(batch[d]).id, First(batch[d]).coll, First(batch[d]).hlc)'
  BY DEF AnswersHold
<1> USE DEF dbVars, loopVars, history
<1> DEFINE e == First(batch[d])
<1>t. TypeInv /\ TypeInv'
  BY StepTypeInv DEF IInv
<1>1. CASE batch'[d] = batch[d] /\ reply'[d] = reply[d] /\ pc[d] \in {"settle", "mark"}
  <2>1. e \in Entry
    BY <1>1, <1>t, FirstExists, DeviceTypes DEF TypeInv, LoopShape
  <2>2. Covered(e.id, e.coll, e.hlc)
    BY <1>1 DEF IInv, AnswersHold
  <2>3. e.id \in Ids /\ e.coll \in Colls /\ e.hlc \in Stamp
    BY <2>1 DEF Entry
  <2>4. remote'[<<e.id, e.coll>>].hlc \in Stamp
    BY <1>t, <2>3 DEF TypeInv, TypeOK, Keys, Version
  <2>5. AtLeast(remote'[<<e.id, e.coll>>].hlc, e.hlc)
    BY <1>t, <2>2, <2>3, StoreAdvances DEF Covered
  <2> QED
    BY <1>1, <2>5 DEF Covered
<1>2. CASE PushAnswered(d)
  <2>1. e \in Entry
    BY <1>2, <1>t, FirstExists, DeviceTypes DEF PushAnswered, TypeInv, LoopShape
  <2>2. remote' = PushOne(remote, e) /\ remote \in [Keys -> Version]
    BY <1>2, <1>t DEF PushAnswered, TypeInv, TypeOK
  <2>3. AtLeast(remote'[<<e.id, e.coll>>].hlc, e.hlc)
    BY <2>1, <2>2, PushOneFacts
  <2> QED
    BY <1>2, <2>3 DEF PushAnswered, Covered
<1>3. CASE SettleOk(d)
  BY <1>1, <1>3 DEF SettleOk
<1>4. ASSUME UNCHANGED <<pc, reply, batch>>
      PROVE  batch'[d] = batch[d] /\ reply'[d] = reply[d] /\ pc[d] \in {"settle", "mark"}
  BY <1>4
<1>5. ASSUME NEW a \in Devices, Actor(a)
      PROVE  UNCHANGED <<pc, reply, batch>>
  BY <1>5 DEF Actor, Put, Delete, ClearError
<1>6. ASSUME NEW a \in Devices, NEW e0 \in outbox[a], BackoffPasses(a, e0)
      PROVE  UNCHANGED <<pc, reply, batch>>
  BY <1>6 DEF BackoffPasses
<1>7. ASSUME NEW a \in Devices, NEW wall \in Wall, Reopen(a, wall)
      PROVE  batch'[d] = batch[d] /\ reply'[d] = reply[d] /\ pc[d] \in {"settle", "mark"}
  BY <1>t, <1>7 DEF Reopen, TypeInv, TypeOK
<1>8. ASSUME NEW a \in Devices, PullStep(a)
      PROVE  batch'[d] = batch[d] /\ reply'[d] = reply[d] /\ pc[d] \in {"settle", "mark"}
  <2>1. UNCHANGED <<reply, batch>>
    BY <1>8 DEF PullStep, Pull, PullFails, FinishPull, ApplySkip, ApplyGet, ApplyUpsert,
                ApplyRemove, ApplyFails
  <2>2. \E x \in {"idle", "apply", "upsert", "remove"} :
           pc' = [pc EXCEPT ![a] = x] \/ UNCHANGED pc
    BY <1>8 DEF PullStep, Pull, PullFails, FinishPull, ApplySkip, ApplyGet, ApplyUpsert,
                ApplyRemove, ApplyFails
  <2> QED
    BY <1>t, <2>1, <2>2 DEF TypeInv, TypeOK
<1>9. ASSUME NEW a \in Devices, PushStep(a), a # d
      PROVE  batch'[d] = batch[d] /\ reply'[d] = reply[d] /\ pc[d] \in {"settle", "mark"}
  BY <1>t, <1>9 DEF PushStep, PeekOutbox, BuildEntry, PushAnswered, PushUnanswered, SettleOk,
                    SettleMark, SettleConflict, SettleTransient, SettleOpenFails, TypeInv, TypeOK
<1>10. ASSUME PushStep(d)
       PROVE  PushAnswered(d) \/ SettleOk(d)
  <2>1. ~PushUnanswered(d)
    BY <1>t DEF PushUnanswered, TypeInv, TypeOK
  <2>2. ~PeekOutbox(d)
    BY <1>t DEF PeekOutbox, TypeInv, TypeOK
  <2>3. ~BuildEntry(d)
    <3>1. ASSUME BuildEntry(d)
          PROVE  \E x \in {"build", "push", "pull"} : pc' = [pc EXCEPT ![d] = x]
      <4>1. \E b : pc' = [pc EXCEPT ![d] =
                     IF peeked[d] \ {First(peeked[d])} # {} THEN "build" ELSE NextPush(b)]
        BY <3>1 DEF BuildEntry
      <4> QED
        BY <4>1, NextPushType
    <3> QED
      BY <1>t, <3>1 DEF TypeInv, TypeOK
  <2>4. ~SettleMark(d) /\ ~SettleConflict(d)
    BY <1>t, NextPushType DEF SettleMark, SettleConflict, TypeInv, TypeOK
  <2>5. ~SettleTransient(d) /\ ~SettleOpenFails(d)
    BY <1>t DEF SettleTransient, SettleOpenFails, TypeInv, TypeOK
  <2> QED
    BY <1>10, <2>1, <2>2, <2>3, <2>4, <2>5 DEF PushStep
<1>11. UNCHANGED vars => UNCHANGED <<pc, reply, batch>>
  BY DEF vars
<1> QED
  BY <1>1, <1>2, <1>3, <1>4, <1>5, <1>6, <1>7, <1>8, <1>9, <1>10, <1>11 DEF Next, SyncLoop

\* What pull_since returns is in the store, and stays covered by it.
LEMMA StepPulled == IInv /\ [Next]_vars => PulledIsCovered' /\ PulledIsStamped'
<1> SUFFICES ASSUME IInv, [Next]_vars, NEW d \in Devices,
                    NEW r \in (pulled[d] \cup applying[d])'
             PROVE  Covered(r.id, r.coll, r.hlc)' /\ Stamped(r.id, r.coll, r.hlc, r.deleted)'
  BY DEF PulledIsCovered, PulledIsStamped
<1>t. TypeInv /\ TypeInv' /\ issued \subseteq issued'
  BY StepTypeInv, IssuedSources DEF IInv
<1>1. r \in RemoteRecord
  BY <1>t, DeviceTypes DEF TypeInv, TypeOK
<1>2. Covered(r.id, r.coll, r.hlc) /\ Stamped(r.id, r.coll, r.hlc, r.deleted)
  <2>1. CASE r \in pulled[d] \cup applying[d]
    BY <2>1 DEF IInv, PulledIsCovered, PulledIsStamped
  <2>2. CASE r \in PullSince(remote, checkpoint[d])
    <3>1. remote \in [Keys -> Version] /\ checkpoint[d] \in Stamp
      BY <1>t DEF TypeInv, TypeOK
    <3> DEFINE k == <<r.id, r.coll>>
    <3>2. /\ k \in Keys /\ k[1] = r.id /\ k[2] = r.coll
          /\ r.hlc = remote[k].hlc /\ r.deleted = remote[k].deleted
          /\ Less(checkpoint[d], r.hlc)
      BY <2>2, <3>1, PullSinceFacts
    <3>3. r.hlc \in Stamp /\ r.hlc # Never
      <4>1. AtLeast(checkpoint[d], Never)
        BY <3>1, NeverIsLeast
      <4> QED
        BY <1>1, <3>2, <4>1 DEF RemoteRecord, AtLeast
    <3>4. Stamped(k[1], k[2], remote[k].hlc, remote[k].deleted)
      BY <3>2, <3>3 DEF IInv, NothingInvented
    <3> QED
      BY <3>2, <3>3, <3>4, AtLeastTransitive DEF Covered
  <2> QED
    BY <1>t, <2>1, <2>2, PulledSources
<1>3. Covered(r.id, r.coll, r.hlc)'
  BY <1>t, <1>1, <1>2, StoreAdvances DEF RemoteRecord
<1> QED
  BY <1>t, <1>2, <1>3 DEF Stamped

\* Rows and stored records come from a put, a delete, a push or a pull; none of
\* them makes up a version.
LEMMA StepNothingInvented == IInv /\ [Next]_vars => NothingInvented'
<1> SUFFICES ASSUME IInv, [Next]_vars PROVE NothingInvented'
  OBVIOUS
<1>t. TypeInv /\ issued \subseteq issued' /\ NothingInvented
  BY IssuedSources DEF IInv
<1>1. ASSUME NEW k \in Keys, remote'[k].hlc # Never
      PROVE  \E i \in issued' : /\ i.id = k[1] /\ i.coll = k[2] /\ i.hlc = remote'[k].hlc
                                /\ i.deleted = remote'[k].deleted
  <2>1. CASE remote'[k] = remote[k]
    <3>1. Stamped(k[1], k[2], remote[k].hlc, remote[k].deleted)
      BY <1>1, <1>t, <2>1 DEF NothingInvented
    <3> QED
      BY <1>t, <2>1, <3>1 DEF Stamped
  <2>2. CASE remote'[k] # remote[k]
    <3>1. PICK d \in Devices : First(batch[d]) \in batch[d]
                               /\ remote' = PushOne(remote, First(batch[d]))
      BY <1>t, <2>2, StoreSteps
    <3> DEFINE e == First(batch[d])
               key == <<e.id, e.coll>>
               w == [hlc |-> e.hlc, data |-> e.data, deleted |-> e.op = "delete"]
    <3>2. remote' = [remote EXCEPT ![key] = w]
      BY <2>2, <3>1 DEF PushOne
    <3>3. k = key /\ remote'[k] = w
      <4>1. remote \in [Keys -> Version]
        BY <1>t DEF TypeInv, TypeOK
      <4> HIDE DEF key, w
      <4> QED
        BY <2>2, <3>2, <4>1
    <3>4. PICK i \in issued : WriteOf(i, d, e)
      BY <3>1 DEF IInv, EntriesAreWrites, Entries
    <3> QED
      BY <1>t, <3>3, <3>4 DEF WriteOf
  <2> QED
    BY <2>1, <2>2
<1>2. ASSUME NEW d \in Devices, NEW id \in Ids, Present(rows'[d][id])
      PROVE  StampedIn(issued', id, rows'[d][id])
  <2> DEFINE new == rows'[d][id]
             old == rows[d][id]
  <2>1. CASE new.coll = old.coll /\ new.hlc = old.hlc /\ new.deleted = old.deleted
    <3>1. Present(old)
      BY <1>2, <2>1 DEF Present
    <3>2. Stamped(id, old.coll, old.hlc, old.deleted)
      BY <1>t, <3>1 DEF NothingInvented
    <3> QED
      BY <1>t, <2>1, <3>2 DEF Stamped, StampedIn
  <2>2. ASSUME NEW r \in applying[d],
               id = r.id, new.coll = r.coll, new.hlc = r.hlc, new.deleted = r.deleted
        PROVE  StampedIn(issued', id, new)
    <3>1. Stamped(r.id, r.coll, r.hlc, r.deleted)
      BY DEF IInv, PulledIsStamped
    <3> QED
      BY <1>t, <2>2, <3>1 DEF Stamped, StampedIn
  <2> QED
    BY <1>t, <2>1, <2>2, RowSources
<1> QED
  BY <1>1, <1>2 DEF NothingInvented, Stamped, StampedIn, Present

\* No step takes away the last trace of a write: delete_seqs, the removal of
\* overtaken entries, clear_error, and a push that replaces a stored record.
LEMMA StepNothingForgotten == IInv /\ [Next]_vars => NothingForgotten'
<1> SUFFICES ASSUME IInv, [Next]_vars, NEW i \in issued'
             PROVE  \/ Covered(i.id, i.coll, i.hlc)'
                    \/ Queued(i.dev, i.id, i.coll, i.hlc)'
                    \/ GivenUp(i.dev, i.id, i.coll, i.hlc)'
  BY DEF NothingForgotten
<1>t. /\ TypeInv /\ TypeInv' /\ EntriesAreWrites /\ AnswersHold /\ PulledIsCovered
      /\ discarded \subseteq discarded'
  BY StepTypeInv, IssuedSources DEF IInv
<1>1. i.dev \in Devices /\ i.id \in Ids /\ i.coll \in Colls /\ i.hlc \in Stamp
  BY <1>t DEF TypeInv, TypeOK, Issue
<1>2. CASE Queued(i.dev, i.id, i.coll, i.hlc)'
  BY <1>2
<1>3. CASE i \in issued
  <2>1. CASE Covered(i.id, i.coll, i.hlc)
    BY <1>t, <1>1, <2>1, StoreAdvances
  <2>2. CASE GivenUp(i.dev, i.id, i.coll, i.hlc)
    BY <1>t, <2>2 DEF GivenUp
  <2>3. CASE Queued(i.dev, i.id, i.coll, i.hlc)
    <3>1. PICK e \in outbox[i.dev] : e.id = i.id /\ e.coll = i.coll /\ e.hlc = i.hlc
      BY <2>3 DEF Queued
    <3>2. CASE \E f \in outbox'[i.dev] : SameWrite(e, f)
      BY <3>1, <3>2 DEF SameWrite, Queued
    <3>3. CASE Covered(e.id, e.coll, e.hlc)
      BY <1>t, <1>1, <3>1, <3>3, StoreAdvances
    <3>4. CASE GivenUp(i.dev, e.id, e.coll, e.hlc)'
      BY <3>1, <3>4 DEF GivenUp
    <3> QED
      BY <1>t, <1>1, <3>2, <3>3, <3>4, EntryFate
  <2> QED
    BY <1>3, <2>1, <2>2, <2>3 DEF IInv, NothingForgotten
<1> QED
  BY <1>t, <1>2, <1>3, IssuedSources

\* IInv holds in every reachable state.
LEMMA Invariance == Spec => []IInv
<1>1. IInv /\ [Next]_vars => IInv'
  BY StepTypeInv, StepEntriesAreWrites, StepAnswersHold, StepPulled, StepNothingInvented,
     StepNothingForgotten DEF IInv
<1> QED
  BY <1>1, InitIInv, PTL DEF Spec

-----------------------------------------------------------------------------
(***************************************************************************)
(* Theorems                                                                 *)
(***************************************************************************)

\* No write is forgotten: whatever the actor and the sync loop interleave,
\* whatever crashes, lost answers and failed statements do, a version a device
\* has stamped is in the remote store (or a later one is), or still queued, or
\* its loss is on record in discarded.  For any number of devices, records,
\* collections and writes.
THEOREM NothingIsForgotten == Spec => []NothingForgotten
<1>1. IInv => NothingForgotten
  BY DEF IInv
<1> QED
  BY <1>1, Invariance, PTL

\* What the store and the devices show of a record was put or deleted by a
\* device: no mixture of versions is ever shown or stored.
THEOREM NothingIsInvented == Spec => []NothingInvented
<1>1. IInv => NothingInvented
  BY DEF IInv
<1> QED
  BY <1>1, Invariance, PTL

\* The remote version of a record never goes back: the conditional put, retried
\* after a lost answer or raced by another device, only moves it forward.
THEOREM RemoteOnlyAdvances ==
    Spec => [][\A k \in Keys : AtLeast(remote'[k].hlc, remote[k].hlc)]_vars
<1>1. TypeInv /\ [Next]_vars =>
         [\A k \in Keys : AtLeast(remote'[k].hlc, remote[k].hlc)]_vars
  BY StoreAdvances
<1>2. Spec => []TypeInv
  BY InitTypeInv, StepTypeInv, PTL DEF Spec
<1> QED
  BY <1>1, <1>2, PTL DEF Spec

\* An answer that lets the sync loop delete an outbox entry is still true when
\* it acts on it: the store holds that version or a later one.
THEOREM AnswersStayTrue == Spec => []AnswersHold
<1>1. IInv => AnswersHold
  BY DEF IInv
<1> QED
  BY <1>1, Invariance, PTL

-----------------------------------------------------------------------------
(***************************************************************************)
(* When no write loses its entry.  remove_outbox_for_record takes away every *)
(* entry of the record, so NothingForgotten has to allow for losses.  Two    *)
(* kinds of call open that window, a write of the record that is being       *)
(* applied and a delete of a record without a row; while an application      *)
(* makes neither, and keeps a record in its collection, nothing is lost.     *)
(***************************************************************************)

\* The application writes a record in one collection (of the state: whether it does
\* is up to the calls that are made).
KeepCollections == \A i, j \in issued : i.id = j.id => i.coll = j.coll

\* No call writes a record between the SELECT of apply_remote_record and the
\* removal of its entries, and none deletes a record that has no row.
WritesAside ==
    \A d \in Devices, c \in Colls, id \in Ids, wall \in Wall :
        /\ Put(d, c, id, wall) \/ Delete(d, c, id, wall) => \A r \in applying[d] : r.id # id
        /\ Delete(d, c, id, wall) => Present(Get(rows[d], c, id))

\* Only the user discards entries, by clear_error.
NothingOvertaken ==
    \A x \in discarded : x.why = "cleared" /\ "clear" \in Faults[x.dev]

\* A queued version is not above the row, the clock and what is being applied.
EntryLow(d, e) ==
    /\ AtLeast(rows[d][e.id].hlc, e.hlc)
    /\ AtLeast(lastHlc[d], e.hlc)
    /\ \A r \in applying[d] : r.id = e.id => AtLeast(r.hlc, e.hlc)

RowsLead == \A d \in Devices : \A e \in outbox[d] : EntryLow(d, e)

\* The inductive invariant: removal finds only entries as old as the version it
\* follows, because the row led them when that version was found to be newer.
AsideInv == IInv /\ KeepCollections /\ RowsLead /\ NothingOvertaken

\* This put or delete of d is the step.
Writes(d, c, id, wall) == Put(d, c, id, wall) \/ Delete(d, c, id, wall)

\* A write touches the outbox, the row and the clock of its own device.
LEMMA WriteStep ==
    ASSUME TypeInv, NEW d \in Devices, NEW a \in Devices, NEW c \in Colls, NEW x \in Ids,
           NEW wall \in Wall, Writes(a, c, x, wall)
    PROVE  /\ UNCHANGED <<applying, pulled, discarded>>
           /\ a # d => /\ outbox'[d] = outbox[d]
                       /\ rows'[d] = rows[d]
                       /\ lastHlc'[d] = lastHlc[d]
           /\ a = d =>
                 /\ lastHlc'[d] = Tick(lastHlc[d], wall)
                 /\ \A f \in outbox'[d] : \/ f \in outbox[d]
                                          \/ f.id = x /\ f.hlc = Tick(lastHlc[d], wall)
                 /\ \A id \in Ids : \/ rows'[d][id].hlc = rows[d][id].hlc
                                    \/ id = x /\ rows'[d][id].hlc = Tick(lastHlc[d], wall)
                 /\ Put(a, c, x, wall) \/ Present(Get(rows[d], c, x)) =>
                       rows'[d][x].hlc = Tick(lastHlc[d], wall)
<1> USE DEF loopVars, history
<1> DEFINE h == Tick(lastHlc[a], wall)
           v == [dev |-> a, n |-> nextSeq[a]]
<1>1. h \in Stamp /\ rows[a] \in [Ids -> Row]
  BY StampTypes, RecordSyncAssumption DEF TypeInv, TypeOK
<1> HIDE DEF h
<1>2. CASE Put(a, c, x, wall)
  <2>1. /\ UNCHANGED <<applying, pulled, discarded>>
        /\ rows' = [rows EXCEPT ![a] = Upsert(@, c, x, h, v)]
        /\ outbox' = [outbox EXCEPT ![a] = @ \cup {NewEntry(nextSeq[a], c, x, "upsert", h, v)}]
        /\ lastHlc' = [lastHlc EXCEPT ![a] = h]
    BY <1>2 DEF Put, h
  <2>2. \A id \in Ids : Upsert(rows[a], c, x, h, v)[id].hlc = IF id = x THEN h ELSE rows[a][id].hlc
    BY <1>1 DEF Upsert
  <2>3. NewEntry(nextSeq[a], c, x, "upsert", h, v).id = x
        /\ NewEntry(nextSeq[a], c, x, "upsert", h, v).hlc = h
    BY DEF NewEntry
  <2> HIDE DEF v
  <2>4. a = d => outbox'[d] = outbox[d] \cup {NewEntry(nextSeq[a], c, x, "upsert", h, v)}
                 /\ rows'[d] = Upsert(rows[a], c, x, h, v) /\ lastHlc'[d] = h
    BY <2>1 DEF TypeInv, TypeOK
  <2>5. a # d => outbox'[d] = outbox[d] /\ rows'[d] = rows[d] /\ lastHlc'[d] = lastHlc[d]
    BY <2>1 DEF TypeInv, TypeOK
  <2> QED
    BY <2>1, <2>2, <2>3, <2>4, <2>5 DEF h
<1>3. CASE Delete(a, c, x, wall) /\ ~Put(a, c, x, wall)
  <2> DEFINE e == NewEntry(nextSeq[a], c, x, "delete", h, NoData)
  <2>1. /\ UNCHANGED <<applying, pulled, discarded>>
        /\ rows' = [rows EXCEPT ![a] = SoftDelete(@, c, x, h)]
        /\ outbox' = [outbox EXCEPT ![a] = @ \cup {e}]
        /\ lastHlc' = [lastHlc EXCEPT ![a] = h]
    BY <1>3 DEF Delete, h
  <2>2. \A id \in Ids : SoftDelete(rows[a], c, x, h)[id].hlc =
                           IF id = x /\ Present(Get(rows[a], c, x)) THEN h ELSE rows[a][id].hlc
    BY <1>1 DEF SoftDelete, Row
  <2>3. e.id = x /\ e.hlc = h
    BY DEF NewEntry
  <2> HIDE DEF e
  <2>4. a = d => outbox'[d] = outbox[d] \cup {e}
                 /\ rows'[d] = SoftDelete(rows[a], c, x, h) /\ lastHlc'[d] = h
    BY <2>1 DEF TypeInv, TypeOK
  <2>5. a # d => outbox'[d] = outbox[d] /\ rows'[d] = rows[d] /\ lastHlc'[d] = lastHlc[d]
    BY <2>1 DEF TypeInv, TypeOK
  <2> QED
    BY <1>3, <2>1, <2>2, <2>3, <2>4, <2>5 DEF h
<1> QED
  BY <1>2, <1>3 DEF Writes

\* Any other step only reschedules or removes entries, and moves a row only to
\* the version being applied; the clock stays, or is rebuilt from the rows.
LEMMA OtherSteps ==
    ASSUME TypeInv, [Next]_vars, NEW d \in Devices,
           \A c \in Colls, id \in Ids, wall \in Wall, a \in Devices : ~Writes(a, c, id, wall)
    PROVE  /\ \A f \in outbox'[d] : \E e \in outbox[d] : SameWrite(e, f)
           /\ \A id \in Ids : \/ rows'[d][id].hlc = rows[d][id].hlc
                              \/ \E r \in applying[d] : r.id = id /\ rows'[d][id].hlc = r.hlc
           /\ lastHlc'[d] = lastHlc[d] \/ IsMaxHlc(rows[d], lastHlc'[d])
           /\ \A r \in applying'[d] :
                 \/ r \in applying[d]
                 \/ r \in pulled[d] /\ Less(Get(rows[d], r.coll, r.id).hlc, r.hlc)
<1> USE DEF dbVars, loopVars, history
<1> DEFINE Box(o)  == \A f \in o : \E e \in outbox[d] : SameWrite(e, f)
           Tab(t)  == \A id \in Ids : \/ t[id].hlc = rows[d][id].hlc
                                      \/ \E r \in applying[d] : r.id = id /\ t[id].hlc = r.hlc
           Clk(h)  == h = lastHlc[d] \/ IsMaxHlc(rows[d], h)
           Hand(s) == \A r \in s : \/ r \in applying[d]
                                   \/ r \in pulled[d] /\ Less(Get(rows[d], r.coll, r.id).hlc, r.hlc)
           Good == Box(outbox'[d]) /\ Tab(rows'[d]) /\ Clk(lastHlc'[d]) /\ Hand(applying'[d])
<1>t. /\ outbox \in [Devices -> SUBSET Entry] /\ rows \in [Devices -> [Ids -> Row]]
      /\ applying \in [Devices -> SUBSET RemoteRecord] /\ pulled \in [Devices -> SUBSET RemoteRecord]
      /\ lastHlc \in [Devices -> Stamp] /\ outbox[d] \in SUBSET Entry /\ rows[d] \in [Ids -> Row]
  BY DEF TypeInv, TypeOK
<1>b. \A o : o \subseteq outbox[d] => Box(o)
  BY DEF SameWrite
<1>u. Box(outbox[d]) /\ Tab(rows[d]) /\ Clk(lastHlc[d]) /\ Hand(applying[d]) /\ Hand({})
  BY <1>b
<1>1. ASSUME UNCHANGED <<outbox, rows, lastHlc>>,
             applying'[d] = applying[d] \/ applying'[d] = {}
      PROVE  Good
  BY <1>1, <1>u
<1>2. ASSUME UNCHANGED <<rows, lastHlc>>, outbox'[d] \subseteq outbox[d],
             applying'[d] = applying[d] \/ applying'[d] = {}
      PROVE  Good
  BY <1>2, <1>u, <1>b
<1>3. ASSUME NEW a \in Devices, NEW e \in outbox[a], ClearError(a, e)
      PROVE  Good
  <2>1. outbox'[d] \subseteq outbox[d]
    BY <1>3, <1>t DEF ClearError, DeleteSeq
  <2>2. UNCHANGED <<rows, lastHlc, applying>>
    BY <1>3 DEF ClearError
  <2> QED
    BY <1>2, <2>1, <2>2
<1>4. ASSUME NEW a \in Devices, NEW wall \in Wall, Reopen(a, wall)
      PROVE  Good
  <2>1. UNCHANGED <<outbox, rows>> /\ applying' = [applying EXCEPT ![a] = {}]
    BY <1>4 DEF Reopen
  <2>2. applying'[d] = applying[d] \/ applying'[d] = {}
    BY <2>1, <1>t
  <2>3. PICK h \in {rows[a][id].hlc : id \in Ids} :
           /\ IsMaxHlc(rows[a], h)
           /\ lastHlc' = [lastHlc EXCEPT ![a] = IF h = Never THEN NewHlc(a, wall) ELSE h]
    BY <1>4 DEF Reopen
  <2>4. CASE a # d
    BY <1>u, <2>1, <2>2, <2>3, <2>4, <1>t
  <2>5. CASE a = d /\ h # Never
    <3>1. lastHlc'[d] = h
      BY <1>t, <2>3, <2>5
    <3>2. Clk(lastHlc'[d])
      BY <2>3, <2>5, <3>1
    <3> QED
      BY <1>u, <2>1, <2>2, <3>2
  <2>6. CASE a = d /\ h = Never
    <3>1. lastHlc'[d] = NewHlc(d, wall) /\ NewHlc(d, wall) \in Stamp
      BY <1>t, <2>3, <2>6, StampTypes, RecordSyncAssumption
    <3>2. \A id \in Ids : rows[d][id].hlc \in Stamp
      BY <1>t DEF Row
    <3>3. \A id \in Ids : AtLeast(NewHlc(d, wall), rows[d][id].hlc)
      BY <2>3, <2>6, <3>1, <3>2, AtLeastTransitive, NeverIsLeast DEF IsMaxHlc
    <3>4. Clk(lastHlc'[d])
      BY <3>1, <3>3 DEF IsMaxHlc
    <3> QED
      BY <1>u, <2>1, <2>2, <3>4
  <2> QED
    BY <2>4, <2>5, <2>6
<1>5. ASSUME NEW a \in Devices, NEW e \in outbox[a], BackoffPasses(a, e)
      PROVE  Good
  <2>1. e.seq \in Nat /\ outbox' = [outbox EXCEPT ![a] = MakeDue(@, e.seq)]
        /\ UNCHANGED <<rows, lastHlc, applying>>
    BY <1>5, <1>t DEF BackoffPasses, Entry
  <2>2. Box(outbox'[d])
    BY <1>t, <1>u, <2>1, RescheduledEntries
  <2> QED
    BY <1>u, <2>1, <2>2
<1>6. ASSUME NEW a \in Devices, PushStep(a)
      PROVE  Good
  <2>1. UNCHANGED <<lastHlc, applying>>
    BY <1>6 DEF PushStep, PeekOutbox, BuildEntry, PushAnswered, PushUnanswered, SettleOk,
                SettleMark, SettleConflict, SettleTransient, SettleOpenFails
  <2>2. Tab(rows'[d])
    <3>1. CASE UNCHANGED rows
      BY <1>u, <3>1
    <3>2. CASE SettleMark(a)
      <4>1. \A t \in [Ids -> Row] : \A c, x : \A id \in Ids : MarkSynced(t, c, x)[id].hlc = t[id].hlc
        BY DEF MarkSynced, Row
      <4>2. rows' = rows \/ \E c, x : rows' = [rows EXCEPT ![a] = MarkSynced(@, c, x)]
        BY <3>2 DEF SettleMark
      <4>3. \A id \in Ids : rows'[d][id].hlc = rows[d][id].hlc
        BY <1>t, <4>1, <4>2
      <4> QED
        BY <4>3
    <3> QED
      BY <1>6, <3>1, <3>2 DEF PushStep, PeekOutbox, BuildEntry, PushAnswered, PushUnanswered,
                SettleOk, SettleConflict, SettleTransient, SettleOpenFails
  <2>3. Box(outbox'[d])
    <3>1. CASE UNCHANGED outbox
      BY <1>u, <3>1
    <3>2. CASE SettleOk(a) \/ SettleConflict(a)
      <4>1. outbox'[d] \subseteq outbox[d]
        BY <1>t, <3>2 DEF SettleOk, SettleConflict, DeleteSeq
      <4> QED
        BY <1>b, <4>1
    <3>3. CASE SettleTransient(a)
      <4> DEFINE s == First(batch[a]).seq
      <4>1. s \in Nat
        <5>1. batch[a] # {} /\ batch[a] \in SUBSET Entry
          BY <3>3, DeviceTypes DEF TypeInv, TypeOK, LoopShape, SettleTransient
        <5>2. First(batch[a]) \in Entry
          BY <5>1, FirstExists
        <5> QED
          BY <5>2 DEF Entry
      <4>2. outbox' = outbox \/ outbox' = [outbox EXCEPT ![a] = MarkRetry(@, s)]
        BY <3>3 DEF SettleTransient
      <4> HIDE DEF s
      <4>3. CASE outbox' = outbox
        BY <1>u, <4>3
      <4>4. CASE outbox' = [outbox EXCEPT ![a] = MarkRetry(@, s)]
        BY <1>t, <1>u, <4>1, <4>4, RescheduledEntries
      <4> QED
        BY <4>2, <4>3, <4>4
    <3> QED
      BY <1>6, <3>1, <3>2, <3>3 DEF PushStep, PeekOutbox, BuildEntry, PushAnswered,
                PushUnanswered, SettleMark, SettleOpenFails
  <2> QED
    BY <1>u, <2>1, <2>2, <2>3
<1>7. ASSUME NEW a \in Devices, PullStep(a)
      PROVE  Good
  <2>1. CASE Pull(a) \/ PullFails(a) \/ FinishPull(a)
    BY <1>1, <2>1 DEF Pull, PullFails, FinishPull
  <2>2. ASSUME NEW r \in pulled[a], ApplySkip(a, r)
        PROVE  Good
    BY <1>1, <2>2 DEF ApplySkip
  <2>3. ASSUME NEW r \in pulled[a], ApplyGet(a, r)
        PROVE  Good
    <3>1. UNCHANGED <<outbox, rows, lastHlc>> /\ applying' = [applying EXCEPT ![a] = {r}]
          /\ Less(Get(rows[a], r.coll, r.id).hlc, r.hlc)
      BY <2>3 DEF ApplyGet
    <3>2. Hand(applying'[d])
      BY <1>t, <1>u, <2>3, <3>1
    <3> QED
      BY <1>u, <3>1, <3>2
  <2>4. ASSUME NEW r \in applying[a], ApplyUpsert(a, r)
        PROVE  Good
    <3>1. UNCHANGED <<outbox, lastHlc, applying>> /\ rows' = [rows EXCEPT ![a] = UpsertRemote(@, r)]
      BY <2>4 DEF ApplyUpsert
    <3>2. Tab(rows'[d])
      BY <1>t, <1>u, <2>4, <3>1 DEF UpsertRemote
    <3> QED
      BY <1>u, <3>1, <3>2
  <2>5. ASSUME NEW r \in applying[a], ApplyRemove(a, r)
        PROVE  Good
    <3>1. UNCHANGED <<rows, lastHlc>> /\ applying' = [applying EXCEPT ![a] = {}]
      BY <2>5 DEF ApplyRemove
    <3>2. outbox'[d] \subseteq outbox[d]
      BY <1>t, <2>5 DEF ApplyRemove, RemoveForRecord
    <3> QED
      BY <1>2, <1>t, <3>1, <3>2
  <2>6. ASSUME NEW r \in pulled[a] \cup applying[a], ApplyFails(a, r)
        PROVE  Good
    BY <1>1, <1>t, <2>6 DEF ApplyFails
  <2> QED
    BY <1>7, <2>1, <2>2, <2>3, <2>4, <2>5, <2>6 DEF PullStep
<1>8. UNCHANGED vars => Good
  BY <1>u DEF vars
<1> QED
  <2>1. Good
    BY <1>3, <1>4, <1>5, <1>6, <1>7, <1>8 DEF Next, Actor, SyncLoop, Writes
  <2> QED
    BY <2>1

\* A record has one collection, so the SELECT that precedes an apply sees the row.
LEMMA RowIsSeen ==
    ASSUME IInv, KeepCollections, NEW d \in Devices, NEW r \in pulled[d],
           Present(rows[d][r.id])
    PROVE  Get(rows[d], r.coll, r.id) = rows[d][r.id]
<1>1. r.id \in Ids
  BY DeviceTypes DEF IInv, TypeInv, RemoteRecord
<1>2. \E i \in issued : i.id = r.id /\ i.coll = r.coll
  BY DEF IInv, PulledIsStamped, Stamped
<1>3. \E i \in issued : i.id = r.id /\ i.coll = rows[d][r.id].coll
  BY <1>1 DEF IInv, NothingInvented, Stamped
<1> QED
  BY <1>2, <1>3 DEF KeepCollections, Get

\* A fresh stamp is not below those of the queued entries.
LEMMA TickIsHigh ==
    ASSUME NEW h \in Stamp, NEW g \in Stamp, NEW wall \in Wall, AtLeast(h, g)
    PROVE  Tick(h, wall) \in Stamp /\ AtLeast(Tick(h, wall), h) /\ AtLeast(Tick(h, wall), g)
<1>1. wall \in Nat /\ Tick(h, wall) \in Stamp
  BY StampTypes, RecordSyncAssumption
<1>2. AtLeast(Tick(h, wall), h)
  BY <1>1, TickAdvances, AtLeastTransitive
<1> QED
  BY <1>1, <1>2, AtLeastTransitive

\* What is queued stays below the row, the clock and what is being applied.
LEMMA StepRowsLead == AsideInv /\ [Next]_vars /\ WritesAside => RowsLead'
<1> SUFFICES ASSUME AsideInv, [Next]_vars, WritesAside, NEW d \in Devices, NEW f \in outbox'[d]
             PROVE  EntryLow(d, f)'
  BY DEF RowsLead
<1>t. /\ IInv /\ KeepCollections /\ TypeInv /\ TypeInv'
  BY StepTypeInv DEF AsideInv, IInv
<1>1. /\ lastHlc[d] \in Stamp /\ lastHlc'[d] \in Stamp
      /\ \A id \in Ids : rows[d][id].hlc \in Stamp /\ rows'[d][id].hlc \in Stamp
      /\ \A e \in outbox[d] : e.id \in Ids /\ e.hlc \in Stamp
      /\ \A r \in applying[d] \cup pulled[d] : r.id \in Ids /\ r.hlc \in Stamp
      /\ f.id \in Ids /\ f.hlc \in Stamp
  BY <1>t DEF TypeInv, TypeOK, Row, Entry, RemoteRecord
<1>2. ASSUME NEW e \in outbox[d] PROVE EntryLow(d, e)
  BY DEF AsideInv, RowsLead
<1>3. ASSUME NEW a \in Devices, NEW c \in Colls, NEW x \in Ids, NEW wall \in Wall,
             Writes(a, c, x, wall)
      PROVE  EntryLow(d, f)'
  <2> DEFINE h == Tick(lastHlc[d], wall)
  <2>1. UNCHANGED <<applying, pulled, discarded>>
    BY <1>t, <1>3, WriteStep
  <2>2. CASE a # d
    <3>1. outbox'[d] = outbox[d] /\ rows'[d] = rows[d] /\ lastHlc'[d] = lastHlc[d]
      BY <1>t, <1>3, <2>2, WriteStep
    <3> QED
      BY <1>2, <2>1, <3>1 DEF EntryLow
  <2>3. CASE a = d
    <3>1. Put(d, c, x, wall) \/ Delete(d, c, x, wall)
      BY <1>3, <2>3 DEF Writes
    <3>2. /\ \A r \in applying[d] : r.id # x
          /\ Put(d, c, x, wall) \/ Present(Get(rows[d], c, x))
      BY <3>1 DEF WritesAside
    <3>3. /\ lastHlc'[d] = h
          /\ f \in outbox[d] \/ (f.id = x /\ f.hlc = h)
          /\ rows'[d][f.id].hlc = rows[d][f.id].hlc \/ (f.id = x /\ rows'[d][f.id].hlc = h)
          /\ rows'[d][x].hlc = h
      BY <1>t, <1>1, <1>3, <2>3, <3>2, WriteStep
    <3>4. h \in Stamp /\ AtLeast(h, h)
      BY <1>1, AtLeastTransitive, TickIsHigh
    <3>5. f \in outbox[d] => AtLeast(h, f.hlc)
      BY <1>1, <1>2, TickIsHigh DEF EntryLow
    <3> HIDE DEF h
    <3>6. CASE f \in outbox[d]
      BY <1>2, <2>1, <3>3, <3>5, <3>6 DEF EntryLow
    <3>7. CASE f.id = x /\ f.hlc = h
      BY <2>1, <3>2, <3>3, <3>4, <3>7 DEF EntryLow
    <3> QED
      BY <3>3, <3>6, <3>7
  <2> QED
    BY <2>2, <2>3
<1>4. ASSUME \A c \in Colls, id \in Ids, wall \in Wall, a \in Devices : ~Writes(a, c, id, wall)
      PROVE  EntryLow(d, f)'
  <2>1. PICK e \in outbox[d] : SameWrite(e, f)
    BY <1>t, <1>4, OtherSteps
  <2>2. e.id = f.id /\ e.hlc = f.hlc /\ EntryLow(d, e)
    BY <1>2, <2>1 DEF SameWrite
  <2>3. AtLeast(rows'[d][f.id].hlc, f.hlc)
    <3>1. \/ rows'[d][f.id].hlc = rows[d][f.id].hlc
          \/ \E r \in applying[d] : r.id = f.id /\ rows'[d][f.id].hlc = r.hlc
      BY <1>t, <1>1, <1>4, OtherSteps
    <3> QED
      BY <2>2, <3>1 DEF EntryLow
  <2>4. AtLeast(lastHlc'[d], f.hlc)
    <3>1. lastHlc'[d] = lastHlc[d] \/ IsMaxHlc(rows[d], lastHlc'[d])
      BY <1>t, <1>4, OtherSteps
    <3>2. CASE lastHlc'[d] = lastHlc[d]
      BY <2>2, <3>2 DEF EntryLow
    <3>3. CASE IsMaxHlc(rows[d], lastHlc'[d])
      <4>1. AtLeast(lastHlc'[d], rows[d][f.id].hlc) /\ AtLeast(rows[d][f.id].hlc, f.hlc)
        BY <1>1, <2>2, <3>3 DEF IsMaxHlc, EntryLow
      <4> QED
        BY <1>1, <4>1, AtLeastTransitive
    <3> QED
      BY <3>1, <3>2, <3>3
  <2>5. ASSUME NEW r \in applying'[d], r.id = f.id
        PROVE  AtLeast(r.hlc, f.hlc)
    <3>1. \/ r \in applying[d]
          \/ r \in pulled[d] /\ Less(Get(rows[d], r.coll, r.id).hlc, r.hlc)
      BY <1>t, <1>4, OtherSteps
    <3>2. CASE r \in applying[d]
      BY <2>2, <2>5, <3>2 DEF EntryLow
    <3>3. CASE r \in pulled[d] /\ Less(Get(rows[d], r.coll, r.id).hlc, r.hlc)
      <4>1. AtLeast(rows[d][r.id].hlc, f.hlc) /\ r.hlc \in Stamp /\ rows[d][r.id].hlc \in Stamp
        BY <1>1, <2>2, <2>5, <3>3 DEF EntryLow
      <4>2. CASE Present(rows[d][r.id])
        <5>1. Less(rows[d][r.id].hlc, r.hlc)
          BY <1>t, <3>3, <4>2, RowIsSeen
        <5> QED
          BY <1>1, <4>1, <5>1, AtLeastTransitive
      <4>3. CASE rows[d][r.id].hlc = Never
        BY <1>1, <4>1, <4>3, NeverIsLeast, AtLeastTransitive
      <4> QED
        BY <4>2, <4>3 DEF Present
    <3> QED
      BY <3>1, <3>2, <3>3
  <2> QED
    BY <2>3, <2>4, <2>5 DEF EntryLow
<1> QED
  BY <1>3, <1>4

\* remove_outbox_for_record takes away nothing newer than what it follows.
LEMMA StepNothingOvertaken == AsideInv /\ [Next]_vars => NothingOvertaken'
<1> SUFFICES ASSUME AsideInv, [Next]_vars PROVE NothingOvertaken'
  OBVIOUS
<1> USE DEF history
<1>t. TypeInv /\ NothingOvertaken
  BY DEF AsideInv, IInv
<1>1. ASSUME UNCHANGED discarded PROVE NothingOvertaken'
  BY <1>1, <1>t DEF NothingOvertaken
<1>2. ASSUME NEW a \in Devices, NEW e \in outbox[a], ClearError(a, e)
      PROVE  NothingOvertaken'
  BY <1>2, <1>t DEF ClearError, Discard, NothingOvertaken
<1>3. ASSUME NEW a \in Devices, NEW r \in applying[a], ApplyRemove(a, r)
      PROVE  UNCHANGED discarded
  <2> DEFINE gone == outbox[a] \ RemoveForRecord(outbox[a], r.coll, r.id)
             late == {e \in gone : Less(r.hlc, e.hlc)}
  <2>1. ASSUME NEW e \in late PROVE FALSE
    <3>1. e \in outbox[a] /\ e.id = r.id /\ Less(r.hlc, e.hlc)
      BY <2>1 DEF RemoveForRecord
    <3>2. AtLeast(r.hlc, e.hlc)
      BY <1>3, <3>1 DEF AsideInv, RowsLead, EntryLow
    <3>3. r.hlc \in Stamp /\ e.hlc \in Stamp
      BY <1>t, <1>3, <3>1 DEF TypeInv, TypeOK, RemoteRecord, Entry
    <3> QED
      BY <3>1, <3>2, <3>3, LessIsTotalOrder DEF AtLeast
  <2>2. discarded' = discarded \cup Discard(a, late, "overtaken")
    BY <1>3 DEF ApplyRemove
  <2>3. Discard(a, late, "overtaken") = {}
    BY <2>1 DEF Discard
  <2> QED
    BY <2>2, <2>3
<1>4. ASSUME NEW a \in Devices, NEW c \in Colls, NEW x \in Ids, NEW wall \in Wall,
             Put(a, c, x, wall) \/ Delete(a, c, x, wall)
      PROVE  UNCHANGED discarded
  BY <1>4 DEF Put, Delete
<1>5. ASSUME NEW a \in Devices, PushStep(a)
      PROVE  UNCHANGED discarded
  BY <1>5 DEF PushStep, PeekOutbox, BuildEntry, PushAnswered, PushUnanswered, SettleOk,
              SettleMark, SettleConflict, SettleTransient, SettleOpenFails
<1>6. ASSUME NEW a \in Devices, PullStep(a)
      PROVE  UNCHANGED discarded
  BY <1>3, <1>6 DEF PullStep, Pull, PullFails, FinishPull, ApplySkip, ApplyGet, ApplyUpsert,
                    ApplyFails
<1>7. ASSUME NEW a \in Devices
      PROVE  /\ \A wall \in Wall : Reopen(a, wall) => UNCHANGED discarded
             /\ \A e \in outbox[a] : BackoffPasses(a, e) => UNCHANGED discarded
  BY DEF Reopen, BackoffPasses
<1>8. UNCHANGED vars => UNCHANGED discarded
  BY DEF vars
<1> QED
  BY <1>1, <1>2, <1>4, <1>5, <1>6, <1>7, <1>8 DEF Next, Actor, SyncLoop

\* While calls keep aside, an entry leaves the outbox for good only because the
\* store has its version or a later one, or because the user discards it: the
\* removal in apply_remote_record, which looks at no stamp, finds only entries as
\* old as the version it follows.  On every device and under every fault.
THEOREM NothingIsOvertaken ==
    Spec /\ [][WritesAside]_vars /\ []KeepCollections => []NothingOvertaken
<1>1. Init /\ KeepCollections => AsideInv
  BY InitIInv DEF Init, AsideInv, RowsLead, NothingOvertaken
<1>2. AsideInv /\ [Next]_vars /\ [WritesAside]_vars /\ IInv' /\ KeepCollections' => AsideInv'
  <2> SUFFICES ASSUME AsideInv, [Next]_vars, [WritesAside]_vars, IInv', KeepCollections'
               PROVE  AsideInv'
    OBVIOUS
  <2>1. CASE WritesAside
    BY <2>1, StepRowsLead, StepNothingOvertaken DEF AsideInv
  <2>2. CASE UNCHANGED vars
    <3>1. UNCHANGED <<outbox, rows, lastHlc, applying>>
      BY <2>2 DEF vars, dbVars, loopVars
    <3>2. RowsLead'
      BY <3>1 DEF AsideInv, RowsLead, EntryLow
    <3> QED
      BY <3>2, StepNothingOvertaken DEF AsideInv
  <2> QED
    BY <2>1, <2>2
<1>3. AsideInv => NothingOvertaken
  BY DEF AsideInv
<1> QED
  BY <1>1, <1>2, <1>3, Invariance, PTL DEF Spec

\* The promise of README.md, "There is no window where data is written locally
\* but not tracked for sync", is true of an application that makes neither kind of
\* call, keeps its records in their collections and does not discard entries.
THEOREM WritesStayTracked ==
    ASSUME \A d \in Devices : "clear" \notin Faults[d]
    PROVE  Spec /\ [][WritesAside]_vars /\ []KeepCollections => []EveryWriteTracked
<1>1. IInv /\ NothingOvertaken => EveryWriteTracked
  <2> SUFFICES ASSUME IInv, NothingOvertaken, NEW i \in issued
               PROVE  Covered(i.id, i.coll, i.hlc) \/ Queued(i.dev, i.id, i.coll, i.hlc)
    BY DEF EveryWriteTracked
  <2>1. ~GivenUp(i.dev, i.id, i.coll, i.hlc)
    <3>1. \A x \in discarded : x.dev \in Devices
      BY DEF IInv, TypeInv, TypeOK, Discarded
    <3> QED
      BY <3>1 DEF NothingOvertaken, GivenUp
  <2> QED
    BY <2>1 DEF IInv, NothingForgotten
<1> QED
  BY <1>1, Invariance, NothingIsOvertaken, PTL
=============================================================================

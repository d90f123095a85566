-------------------------- MODULE RecordSyncStamps --------------------------
(***************************************************************************)
(* One version per stamp: for any number of devices, records and writes, as  *)
(* long as no device that writes restarts and no counter is used up, whatever *)
(* the network and the database do, two copies of a record with the same      *)
(* stamp have the same content, although a push sends the payload of the      *)
(* moment under the stamp of an older entry.                                *)
(***************************************************************************)
EXTENDS RecordSyncProofs

Writers == {d \in Devices : MaxWrites[d] > 0}

\* No restart of a device that writes: it may hand the device the node id of another.
WritersStay == \A d \in Writers : "crash" \notin Faults[d]

\* ... and a counter that lasts for all its writes, should they fall into one millisecond.
CountersLast == WritersStay /\ \A d \in Writers : MaxWrites[d] <= LogicalMax

\* A writer stamps under its own node id, and its clock has passed all it stamped.
ClocksOwn ==
    /\ \A d \in Writers : lastHlc[d].node = d /\ lastHlc[d].ctr < nextSeq[d]
    /\ \A i \in issued :
          i.dev \in Writers /\ i.hlc.node = i.dev /\ AtLeast(lastHlc[i.dev], i.hlc)

\* A stamp was given once.
StampedOnce == \A i, j \in issued : i.hlc = j.hlc => i = j

\* No row is replaced by a pulled record while a batch is on its way.
PullsAlone ==
    \A d \in Devices :
        pc[d] \in {"idle", "pull", "apply", "upsert", "remove"} => batch[d] = {}

\* A batch holds the payload of the row, as long as the row has the stamp of the entry.
BatchIsRow ==
    \A d \in Devices : \A e \in batch[d] :
        LET row == rows[d][e.id]
        IN  e.op = "upsert" /\ row.coll = e.coll /\ row.hlc = e.hlc => e.data = row.data

\* What a device shows of others has been in the store.
ForeignIsCovered ==
    \A d \in Devices, id \in Ids :
        LET row == rows[d][id]
        IN  Present(row) /\ row.hlc.node # d => Covered(id, row.coll, row.hlc)

\* The copies of record k: nothing at all, the store's, rows, and what was pulled.
Content(x) == [hlc |-> x.hlc, data |-> x.data, deleted |-> x.deleted]
RowCopy(d, k, v) == rows[d][k[1]].coll = k[2] /\ v = Content(rows[d][k[1]])
PulledCopy(d, k, v) ==
    \E r \in pulled[d] \cup applying[d] : r.id = k[1] /\ r.coll = k[2] /\ v = Content(r)
Copy(k, v) ==
    \/ v = Content(NoRow)
    \/ v = Content(remote[k])
    \/ \E d \in Devices : RowCopy(d, k, v) \/ PulledCopy(d, k, v)

Agree(v, w) == v.hlc = w.hlc => v.deleted = w.deleted /\ (v.deleted \/ v.data = w.data)

CopiesAgree == \A k \in Keys : \A v, w \in Version : Copy(k, v) /\ Copy(k, w) => Agree(v, w)

StampInv ==
    /\ IInv
    /\ ClocksOwn /\ StampedOnce
    /\ PullsAlone /\ BatchIsRow /\ ForeignIsCovered
    /\ CopiesAgree

-----------------------------------------------------------------------------
(***************************************************************************)
(* Who writes what                                                          *)
(***************************************************************************)

\* A put or delete of d that stamps i.
Wrote(d, wall, i) ==
    /\ nextSeq[d] <= MaxWrites[d]
    /\ i.dev = d /\ i.hlc = Tick(lastHlc[d], wall)
    /\ issued' = issued \cup {i}
    /\ lastHlc' = [lastHlc EXCEPT ![d] = i.hlc]
    /\ nextSeq' = [nextSeq EXCEPT ![d] = @ + 1]
    /\ UNCHANGED <<loopVars, remote>>

\* A put and a delete stamp a version.
LEMMA WriteStamps ==
    ASSUME NEW d \in Devices, NEW c \in Colls, NEW id \in Ids, NEW wall \in Wall,
           Put(d, c, id, wall) \/ Delete(d, c, id, wall)
    PROVE  \E i \in issued' : Wrote(d, wall, i)
<1> USE DEF dbVars, loopVars, history
<1>1. PICK x \in BOOLEAN :
         issued' = issued \cup {[dev |-> d, id |-> id, coll |-> c,
                                 hlc |-> Tick(lastHlc[d], wall), deleted |-> x]}
  BY DEF Put, Delete
<1> DEFINE i == [dev |-> d, id |-> id, coll |-> c, hlc |-> Tick(lastHlc[d], wall),
                 deleted |-> x]
<1>2. i \in issued' /\ i.dev = d /\ i.hlc = Tick(lastHlc[d], wall) /\ issued' = issued \cup {i}
  BY <1>1
<1> HIDE DEF i
<1>3. Wrote(d, wall, i)
  BY <1>2 DEF Wrote, Put, Delete
<1> QED
  BY <1>2, <1>3

\* Nothing else touches the clocks of writers, seqs and what was issued.
ClocksStay == UNCHANGED <<issued, nextSeq>> /\ \A d \in Writers : lastHlc'[d] = lastHlc[d]

LEMMA WriteSteps ==
    ASSUME TypeInv, WritersStay, [Next]_vars
    PROVE  \/ ClocksStay
           \/ \E d \in Devices, wall \in Wall, i \in issued' : Wrote(d, wall, i)
<1> USE DEF dbVars, loopVars, history
<1> DEFINE Fine == \/ ClocksStay
                   \/ \E d \in Devices, wall \in Wall, i \in issued' : Wrote(d, wall, i)
<1>1. ASSUME NEW d \in Devices, NEW c \in Colls, NEW id \in Ids, NEW wall \in Wall,
             Put(d, c, id, wall) \/ Delete(d, c, id, wall)
      PROVE  Fine
  BY <1>1, WriteStamps
<1>2. ASSUME NEW d \in Devices, Actor(d)
      PROVE  Fine
  BY <1>1, <1>2 DEF Actor, ClearError, ClocksStay
<1>3. ASSUME NEW d \in Devices, SyncLoop(d)
      PROVE  UNCHANGED <<issued, lastHlc, nextSeq>>
  BY <1>3 DEF SyncLoop, PushStep, PullStep, PeekOutbox, BuildEntry, PushAnswered,
              PushUnanswered, SettleOk, SettleMark, SettleConflict, SettleTransient,
              SettleOpenFails, Pull, PullFails, FinishPull, ApplySkip, ApplyGet, ApplyUpsert,
              ApplyRemove, ApplyFails
<1>4. ASSUME NEW d \in Devices, NEW wall \in Wall, Reopen(d, wall)
      PROVE  ClocksStay
  <2>1. d \notin Writers /\ UNCHANGED <<issued, nextSeq>>
    BY <1>4 DEF WritersStay, Reopen
  <2>2. PICK h : lastHlc' = [lastHlc EXCEPT ![d] = h]
    BY <1>4 DEF Reopen
  <2> QED
    BY <2>1, <2>2 DEF ClocksStay, TypeInv, TypeOK, Writers
<1>5. ASSUME NEW d \in Devices, NEW e \in outbox[d], BackoffPasses(d, e)
      PROVE  UNCHANGED <<issued, lastHlc, nextSeq>>
  BY <1>5 DEF BackoffPasses
<1>6. UNCHANGED vars => UNCHANGED <<issued, lastHlc, nextSeq>>
  BY DEF vars
<1>7. UNCHANGED <<issued, lastHlc, nextSeq>> => ClocksStay
  BY DEF ClocksStay
<1> HIDE DEF Fine
<1>8. ClocksStay => Fine
  BY DEF Fine
<1>9. Fine
  BY <1>2, <1>3, <1>4, <1>5, <1>6, <1>7, <1>8 DEF Next
<1> QED
  BY <1>9 DEF Fine

SameContent(r, s) == r.coll = s.coll /\ r.hlc = s.hlc /\ r.data = s.data /\ r.deleted = s.deleted

\* The new row is what was just written, or what is being applied.
RowWritten(d, id) ==
    \E wall \in Wall, i \in issued' :
        /\ Wrote(d, wall, i)
        /\ i.id = id /\ i.coll = rows'[d][id].coll /\ i.hlc = rows'[d][id].hlc
        /\ \A e \in Devices, x \in Ids : ~(e = d /\ x = id) => rows'[e][x] = rows[e][x]
RowApplied(d, id) ==
    \E r \in applying[d] :
        /\ pc[d] = "upsert" /\ pc'[d] = "remove" /\ r.id = id /\ SameContent(rows'[d][id], r)
        /\ UNCHANGED <<batch, remote, issued>>

LEMMA RowContents ==
    ASSUME TypeInv, CountersLast, [Next]_vars, NEW d \in Devices, NEW id \in Ids
    PROVE  SameContent(rows'[d][id], rows[d][id]) \/ RowWritten(d, id) \/ RowApplied(d, id)
<1> DEFINE new == rows'[d][id]
           old == rows[d][id]
           Same == SameContent(new, old)
           Explained == Same \/ RowWritten(d, id) \/ RowApplied(d, id)
           Replaced(a, c, x, wall) ==
              \E row : /\ rows' = [rows EXCEPT ![a] = [rows[a] EXCEPT ![x] = row]]
                       /\ row.coll = c /\ row.hlc = Tick(lastHlc[a], wall)
<1> USE DEF dbVars, loopVars, history
<1>0. rows \in [Devices -> [Ids -> Row]]
  BY DEF TypeInv, TypeOK
<1>1. ASSUME UNCHANGED rows PROVE Same
  BY <1>1 DEF SameContent
<1>2. ASSUME NEW a \in Devices, NEW c \in Colls, NEW x \in Ids, NEW wall \in Wall,
             NEW i \in issued', Wrote(a, wall, i), i.id = x, i.coll = c,
             Replaced(a, c, x, wall)
      PROVE  Explained
  <2>1. PICK row : /\ rows' = [rows EXCEPT ![a] = [rows[a] EXCEPT ![x] = row]]
                   /\ row.coll = c /\ row.hlc = Tick(lastHlc[a], wall)
    BY <1>2
  <2>2. \A e \in Devices, y \in Ids :
           rows'[e][y] = IF e = a /\ y = x THEN row ELSE rows[e][y]
    BY <1>0, <2>1
  <2>3. CASE a = d /\ x = id
    <3>1. i.hlc = row.hlc /\ new = row
      BY <1>2, <2>1, <2>2, <2>3 DEF Wrote
    <3>2. RowWritten(d, id)
      BY <1>2, <2>1, <2>2, <2>3, <3>1 DEF RowWritten
    <3> QED
      BY <3>2
  <2>4. CASE ~(a = d /\ x = id)
    BY <2>2, <2>4 DEF SameContent
  <2> QED
    BY <2>3, <2>4
<1>3. ASSUME NEW a \in Devices, NEW c \in Colls, NEW x \in Ids, NEW wall \in Wall,
             Put(a, c, x, wall)
      PROVE  Explained
  <2> DEFINE h == Tick(lastHlc[a], wall)
             i == [dev |-> a, id |-> x, coll |-> c, hlc |-> h, deleted |-> FALSE]
             row == [coll |-> c, hlc |-> h, data |-> [dev |-> a, n |-> nextSeq[a]],
                     deleted |-> FALSE, synced |-> FALSE]
  <2>1. /\ issued' = issued \cup {i} /\ i.dev = a /\ i.hlc = h /\ i.id = x /\ i.coll = c
        /\ rows' = [rows EXCEPT ![a] = [rows[a] EXCEPT ![x] = row]]
        /\ row.coll = c /\ row.hlc = h
    BY <1>0, <1>3 DEF Put, Upsert
  <2> HIDE DEF i, row
  <2>2. Wrote(a, wall, i)
    BY <1>3, <2>1 DEF Wrote, Put
  <2>3. i \in issued' /\ Replaced(a, c, x, wall)
    BY <2>1
  <2> HIDE DEF h, Replaced, Explained
  <2> QED
    BY <1>2, <2>1, <2>2, <2>3
<1>4. ASSUME NEW a \in Devices, NEW c \in Colls, NEW x \in Ids, NEW wall \in Wall,
             Delete(a, c, x, wall)
      PROVE  Explained
  <2> DEFINE h == Tick(lastHlc[a], wall)
             i == [dev |-> a, id |-> x, coll |-> c, hlc |-> h, deleted |-> TRUE]
             row == [rows[a][x] EXCEPT !.deleted = TRUE, !.hlc = h, !.synced = FALSE]
  <2>1. CASE Present(Get(rows[a], c, x))
    <3>1. rows[a][x].coll = c /\ rows[a][x] \in Row
      BY <1>0, <2>1 DEF Present, Get, NoRow
    <3>2. SoftDelete(rows[a], c, x, h) = [rows[a] EXCEPT ![x] = row]
      BY <1>0, <2>1 DEF SoftDelete
    <3>3. rows' = [rows EXCEPT ![a] = [rows[a] EXCEPT ![x] = row]]
      BY <1>0, <1>4, <3>2 DEF Delete
    <3>4. row.coll = c /\ row.hlc = h
      BY <3>1 DEF Row
    <3>5. /\ issued' = issued \cup {i} /\ i.dev = a /\ i.hlc = h /\ i.id = x /\ i.coll = c
      BY <1>4 DEF Delete
    <3> HIDE DEF i, row
    <3>6. Wrote(a, wall, i)
      BY <1>4, <3>5 DEF Wrote, Delete
    <3>7. i \in issued' /\ Replaced(a, c, x, wall)
      BY <3>3, <3>4, <3>5
    <3> HIDE DEF h, Replaced, Explained
    <3> QED
      BY <1>2, <3>5, <3>6, <3>7
  <2>2. CASE ~Present(Get(rows[a], c, x))
    <3>1. rows' = rows
      BY <1>0, <1>4, <2>2 DEF Delete, SoftDelete
    <3> QED
      BY <1>1, <3>1
  <2> QED
    BY <2>1, <2>2
<1>5. ASSUME NEW a \in Devices, SettleMark(a)
      PROVE  Same
  <2> DEFINE e == First(batch[a])
  <2>1. rows' = rows \/ rows' = [rows EXCEPT ![a] = MarkSynced(rows[a], e.coll, e.id)]
    BY <1>5 DEF SettleMark
  <2> HIDE DEF e
  <2>2. CASE rows' = [rows EXCEPT ![a] = MarkSynced(rows[a], e.coll, e.id)]
    <3>1. \A t \in [Ids -> Row] : SameContent(MarkSynced(t, e.coll, e.id)[id], t[id])
      BY DEF MarkSynced, Row, SameContent
    <3> QED
      BY <1>0, <2>2, <3>1 DEF SameContent
  <2> QED
    BY <1>1, <2>1, <2>2
<1>6. ASSUME NEW a \in Devices, NEW r \in applying[a], ApplyUpsert(a, r)
      PROVE  Explained
  <2>1. CASE a = d /\ r.id = id
    <3>1. SameContent(new, r)
      BY <1>0, <1>6, <2>1 DEF ApplyUpsert, UpsertRemote, SameContent
    <3>2. RowApplied(d, id)
      BY <1>6, <2>1, <3>1 DEF ApplyUpsert, RowApplied, TypeInv, TypeOK
    <3> QED
      BY <3>2
  <2>2. CASE ~(a = d /\ r.id = id)
    <3>1. new = old
      BY <1>0, <1>6, <2>2 DEF ApplyUpsert, UpsertRemote
    <3> QED
      BY <3>1 DEF SameContent
  <2> QED
    BY <2>1, <2>2
<1>7. ASSUME NEW a \in Devices, PushStep(a)
      PROVE  Explained
  <2>1. UNCHANGED rows \/ SettleMark(a)
    BY <1>7 DEF PushStep, PeekOutbox, BuildEntry, PushAnswered, PushUnanswered, SettleOk,
                SettleConflict, SettleTransient, SettleOpenFails
  <2> QED
    BY <1>1, <1>5, <2>1
<1>8. ASSUME NEW a \in Devices, PullStep(a)
      PROVE  Explained
  <2>1. UNCHANGED rows \/ \E r \in applying[a] : ApplyUpsert(a, r)
    BY <1>8 DEF PullStep, Pull, PullFails, FinishPull, ApplySkip, ApplyGet, ApplyRemove,
                ApplyFails
  <2> QED
    BY <1>1, <1>6, <2>1
<1>9. ASSUME NEW a \in Devices, Actor(a)
      PROVE  Explained
  <2>1. \A e \in outbox[a] : ClearError(a, e) => UNCHANGED rows
    BY DEF ClearError
  <2> QED
    BY <1>1, <1>3, <1>4, <1>9, <2>1 DEF Actor
<1>10. ASSUME NEW a \in Devices
       PROVE  /\ \A wall \in Wall : Reopen(a, wall) => UNCHANGED rows
              /\ \A e \in outbox[a] : BackoffPasses(a, e) => UNCHANGED rows
  BY DEF Reopen, BackoffPasses
<1>11. UNCHANGED vars => UNCHANGED rows
  BY DEF vars
<1>12. Explained
  BY <1>1, <1>7, <1>8, <1>9, <1>10, <1>11 DEF Next, SyncLoop
<1> QED
  BY <1>12

\* An entry of a batch was there before, or has just been given the payload of
\* its row.
BuiltFrom(d, f) ==
    /\ UNCHANGED rows
    /\ f.op = "upsert" /\ rows[d][f.id].coll = f.coll => f.data = rows[d][f.id].data

LEMMA BatchContents ==
    ASSUME TypeInv, [Next]_vars, NEW d \in Devices, NEW f \in batch'[d]
    PROVE  f \in batch[d] \/ BuiltFrom(d, f)
<1> DEFINE Explained == f \in batch[d] \/ BuiltFrom(d, f)
<1> USE DEF dbVars, loopVars, history
<1>0. batch \in [Devices -> SUBSET Entry]
  BY DEF TypeInv, TypeOK
<1>1. ASSUME NEW a \in Devices, BuildEntry(a)
      PROVE  Explained
  <2> DEFINE e == First(peeked[a])
             row == Get(rows[a], e.coll, e.id)
  <2>1. e \in Entry
    BY <1>1, FirstExists, DeviceTypes DEF BuildEntry, TypeInv, LoopShape
  <2>2. CASE a = d /\ f \notin batch[d]
    <3>1. \/ e.op = "delete" /\ f = [e EXCEPT !.data = NoData]
          \/ e.op # "delete" /\ Present(row) /\ f = [e EXCEPT !.data = row.data]
      BY <1>0, <1>1, <2>2 DEF BuildEntry
    <3>2. CASE e.op = "delete" /\ f = [e EXCEPT !.data = NoData]
      BY <1>1, <2>1, <3>2 DEF BuildEntry, BuiltFrom, Entry
    <3>3. CASE e.op # "delete" /\ Present(row) /\ f = [e EXCEPT !.data = row.data]
      <4>1. f.id = e.id /\ f.coll = e.coll /\ f.data = row.data
        BY <2>1, <3>3 DEF Entry
      <4>2. row = rows[a][e.id]
        BY <3>3 DEF Present, Get, NoRow
      <4> QED
        BY <1>1, <2>2, <4>1, <4>2 DEF BuildEntry, BuiltFrom
    <3> QED
      BY <3>1, <3>2, <3>3
  <2>3. CASE a # d
    BY <1>0, <1>1, <2>3 DEF BuildEntry
  <2> QED
    BY <2>2, <2>3
<1>2. ASSUME NEW a \in Devices, PushStep(a)
      PROVE  Explained
  <2>1. BuildEntry(a) \/ \A b \in Devices : batch'[b] \subseteq batch[b]
    BY <1>0, <1>2 DEF PushStep, PeekOutbox, PushAnswered, PushUnanswered, SettleOk, SettleMark,
                      SettleConflict, SettleTransient, SettleOpenFails
  <2> QED
    BY <1>1, <2>1
<1>3. ASSUME NEW a \in Devices, Actor(a) \/ PullStep(a)
      PROVE  UNCHANGED batch
  BY <1>3 DEF Actor, Put, Delete, ClearError, PullStep, Pull, PullFails, FinishPull, ApplySkip,
              ApplyGet, ApplyUpsert, ApplyRemove, ApplyFails
<1>4. ASSUME NEW a \in Devices
      PROVE  /\ \A wall \in Wall : Reopen(a, wall) => batch'[d] \subseteq batch[d]
             /\ \A e \in outbox[a] : BackoffPasses(a, e) => UNCHANGED batch
  BY <1>0 DEF Reopen, BackoffPasses
<1>5. UNCHANGED vars => UNCHANGED batch
  BY DEF vars
<1>6. Explained
  BY <1>2, <1>3, <1>4, <1>5 DEF Next, SyncLoop
<1> QED
  BY <1>6

\* A write stamps its version later than all the others of the device, and
\* unlike any other in the system.
LEMMA WriteIsFresh ==
    ASSUME TypeInv, CountersLast, ClocksOwn, NEW d \in Devices, NEW wall \in Wall, NEW i,
           Wrote(d, wall, i)
    PROVE  /\ i.hlc \in Stamp /\ i.hlc # Never
           /\ i.hlc.node = d /\ i.hlc.ctr < nextSeq'[d]
           /\ d \in Writers /\ Less(lastHlc[d], i.hlc)
           /\ \A j \in issued : j.hlc # i.hlc
<1> DEFINE h == lastHlc[d]
<1>1. /\ h \in Stamp /\ nextSeq[d] \in Nat /\ nextSeq'[d] = nextSeq[d] + 1
      /\ wall \in Nat /\ d \in Nat \ {0} /\ MaxWrites[d] \in Nat
  BY RecordSyncAssumption DEF TypeInv, TypeOK, Wrote
<1>w. nextSeq[d] <= MaxWrites[d] /\ d \in Writers
  <2>1. nextSeq[d] # 0 /\ nextSeq[d] <= MaxWrites[d]
    BY DEF TypeInv, TypeOK, Wrote
  <2> QED
    BY <1>1, <2>1 DEF Writers
<1>2. h.node = d /\ h.ctr < nextSeq[d] /\ nextSeq[d] <= MaxWrites[d] /\ i.hlc = Tick(h, wall)
  BY <1>w DEF ClocksOwn, Wrote
<1>3. MaxWrites[d] <= LogicalMax /\ LogicalMax \in Nat
  BY <1>w, LogicalMaxAssumption DEF CountersLast
<1> HIDE DEF h
<1>4. h.ctr \in Nat /\ h.ctr < LogicalMax
  <2>1. h.ctr \in 0..LogicalMax
    BY <1>1 DEF Stamp
  <2> QED
    BY <1>1, <1>2, <1>3, <2>1
<1>5. i.hlc \in Stamp
  BY <1>1, <1>2, StampTypes
<1>6. Less(h, i.hlc)
  BY <1>1, <1>2, <1>4, TickAdvances
<1>7. i.hlc.node = d /\ i.hlc.ctr <= h.ctr + 1 /\ i.hlc.ctr \in Nat
  BY <1>2, <1>3, <1>4 DEF Tick, SaturatingInc
<1>8. i.hlc.ctr < nextSeq'[d] /\ i.hlc # Never
  BY <1>1, <1>2, <1>4, <1>7 DEF Never
<1>9. ASSUME NEW j \in issued, j.hlc = i.hlc
      PROVE  FALSE
  <2>1. j.dev \in Devices /\ j.hlc \in Stamp
    BY DEF TypeInv, TypeOK, Issue
  <2>2. j.hlc.node = j.dev /\ AtLeast(lastHlc[j.dev], j.hlc)
    BY <2>1 DEF ClocksOwn
  <2>3. j.dev = d
    BY <1>7, <1>9, <2>2
  <2> QED
    BY <1>6, <1>9, <2>2, <2>3 DEF AtLeast, h
<1> QED
  BY <1>w, <1>5, <1>6, <1>7, <1>8, <1>9 DEF h


-----------------------------------------------------------------------------
(***************************************************************************)
(* The invariant                                                            *)
(***************************************************************************)

LEMMA InitStampInv == Init => StampInv
<1> SUFFICES ASSUME Init PROVE StampInv
  OBVIOUS
<1>1. ClocksOwn
  <2>1. PICK wall \in [Devices -> Wall] : lastHlc = [d \in Devices |-> NewHlc(d, wall[d])]
    BY DEF Init
  <2> QED
    BY <2>1 DEF Init, ClocksOwn, NewHlc, Writers
<1>2. StampedOnce /\ PullsAlone /\ BatchIsRow /\ ForeignIsCovered
  BY DEF Init, StampedOnce, PullsAlone, BatchIsRow, ForeignIsCovered, Present, NoRow
<1>3. ASSUME NEW k \in Keys, NEW v, Copy(k, v)
      PROVE  v = Content(NoRow)
  <2>1. k[1] \in Ids /\ Content(remote[k]) = Content(NoRow)
    BY DEF Init, Keys, EmptyStore, Content, NoRow
  <2>2. ASSUME NEW d \in Devices
        PROVE  RowCopy(d, k, v) \/ PulledCopy(d, k, v) => v = Content(NoRow)
    BY <2>1 DEF Init, RowCopy, PulledCopy
  <2> QED
    BY <1>3, <2>1, <2>2 DEF Copy
<1>4. CopiesAgree
  BY <1>3 DEF CopiesAgree, Agree
<1> QED
  BY <1>1, <1>2, <1>4, InitIInv DEF StampInv

\* A clock runs ahead of what it stamped.
LEMMA StepClocks ==
    ASSUME CountersLast, StampInv, [Next]_vars
    PROVE  ClocksOwn' /\ StampedOnce'
<1>t. TypeInv /\ TypeInv' /\ ClocksOwn /\ StampedOnce
  BY StepTypeInv DEF StampInv, IInv
<1>1. CASE ClocksStay
  BY <1>t, <1>1 DEF ClocksOwn, StampedOnce, ClocksStay
<1>2. ASSUME NEW d \in Devices, NEW wall \in Wall, NEW i \in issued', Wrote(d, wall, i)
      PROVE  ClocksOwn' /\ StampedOnce'
  <2>1. /\ i.hlc \in Stamp /\ i.hlc.node = d /\ i.hlc.ctr < nextSeq'[d] /\ d \in Writers
        /\ Less(lastHlc[d], i.hlc) /\ \A j \in issued : j.hlc # i.hlc
    BY <1>t, <1>2, WriteIsFresh
  <2>2. issued' = issued \cup {i} /\ i.dev = d /\ lastHlc'[d] = i.hlc
    BY <1>t, <1>2 DEF Wrote, TypeInv, TypeOK
  <2>3. \A e \in Devices : e # d => lastHlc'[e] = lastHlc[e] /\ nextSeq'[e] = nextSeq[e]
    BY <1>t, <1>2 DEF Wrote, TypeInv, TypeOK
  <2>4. ASSUME NEW j \in issued, j.dev = d
        PROVE  AtLeast(i.hlc, j.hlc)
    <3>1. j.hlc \in Stamp /\ lastHlc[d] \in Stamp
      BY <1>t DEF TypeInv, TypeOK, Issue
    <3> QED
      BY <1>t, <2>1, <2>4, <3>1, AtLeastTransitive DEF ClocksOwn
  <2>5. StampedOnce'
    BY <1>t, <2>1, <2>2 DEF StampedOnce
  <2>6. AtLeast(i.hlc, i.hlc)
    BY <2>1, AtLeastTransitive
  <2>7. ASSUME NEW e \in Writers
        PROVE  lastHlc'[e].node = e /\ lastHlc'[e].ctr < nextSeq'[e]
    BY <1>t, <2>1, <2>2, <2>3 DEF ClocksOwn, Writers
  <2>8. ASSUME NEW j \in issued'
        PROVE  j.dev \in Writers /\ j.hlc.node = j.dev /\ AtLeast(lastHlc'[j.dev], j.hlc)
    <3>1. CASE j = i
      BY <2>1, <2>2, <2>6, <3>1
    <3>2. CASE j \in issued /\ j.dev = d
      BY <1>t, <2>2, <2>4, <3>2 DEF ClocksOwn
    <3>3. CASE j \in issued /\ j.dev # d
      BY <1>t, <2>3, <3>3 DEF ClocksOwn, Writers
    <3> QED
      BY <2>2, <3>1, <3>2, <3>3
  <2> QED
    BY <2>5, <2>7, <2>8 DEF ClocksOwn
<1> QED
  BY <1>t, <1>1, <1>2, WriteSteps DEF CountersLast

\* The push phase leaves nothing behind when it makes way for the pull.
LEMMA StepPullsAlone ==
    ASSUME CountersLast, StampInv, [Next]_vars
    PROVE  PullsAlone'
<1> SUFFICES ASSUME NEW d \in Devices,
                    pc'[d] \in {"idle", "pull", "apply", "upsert", "remove"}
             PROVE  batch'[d] = {}
  BY DEF PullsAlone
<1> USE DEF dbVars, loopVars, history
<1>t. /\ pc \in [Devices -> PCs] /\ batch \in [Devices -> SUBSET Entry]
      /\ pc[d] \in {"idle", "pull", "apply", "upsert", "remove"} => batch[d] = {}
  BY DEF StampInv, IInv, TypeInv, TypeOK, PullsAlone
<1>1. CASE pc'[d] = pc[d] /\ batch'[d] = batch[d]
  BY <1>t, <1>1
<1>2. ASSUME NEW a \in Devices, Actor(a)
      PROVE  UNCHANGED <<pc, batch>>
  BY <1>2 DEF Actor, Put, Delete, ClearError
<1>3. ASSUME NEW a \in Devices
      PROVE  /\ \A wall \in Wall : Reopen(a, wall) => batch'[d] = {} \/ UNCHANGED <<pc[d], batch[d]>>
             /\ \A e \in outbox[a] : BackoffPasses(a, e) => UNCHANGED <<pc, batch>>
  BY <1>t DEF Reopen, BackoffPasses
<1>4. ASSUME NEW a \in Devices, a # d, SyncLoop(a)
      PROVE  pc'[d] = pc[d] /\ batch'[d] = batch[d]
  <2>1. CASE PushStep(a)
    BY <1>t, <1>4, <2>1 DEF PushStep, PeekOutbox, BuildEntry, PushAnswered, PushUnanswered,
            SettleOk, SettleMark, SettleConflict, SettleTransient, SettleOpenFails
  <2>2. CASE PullStep(a)
    BY <1>t, <1>4, <2>2 DEF PullStep, Pull, PullFails, FinishPull, ApplySkip, ApplyGet,
            ApplyUpsert, ApplyRemove, ApplyFails
  <2> QED
    BY <1>4, <2>1, <2>2 DEF SyncLoop
<1>5. CASE PullStep(d)
  BY <1>t, <1>5 DEF PullStep, Pull, PullFails, FinishPull, ApplySkip, ApplyGet, ApplyUpsert,
          ApplyRemove, ApplyFails
<1>6. CASE PushStep(d)
  <2>1. CASE PeekOutbox(d)
    BY <1>t, <2>1 DEF PeekOutbox
  <2>2. CASE BuildEntry(d)
    <3>1. PICK b : /\ batch' = [batch EXCEPT ![d] = b]
                   /\ pc' = [pc EXCEPT ![d] =
                        IF peeked[d] \ {First(peeked[d])} # {} THEN "build" ELSE NextPush(b)]
      BY <2>2 DEF BuildEntry
    <3>2. batch'[d] = b /\ (pc'[d] = "build" \/ pc'[d] = NextPush(b))
      BY <1>t, <3>1
    <3> QED
      BY <3>2, NextPushType
  <2>3. CASE PushAnswered(d) \/ PushUnanswered(d) \/ SettleOk(d)
    BY <1>t, <2>3 DEF PushAnswered, PushUnanswered, SettleOk
  <2>4. CASE SettleMark(d) \/ SettleConflict(d)
    <3> DEFINE b == batch[d] \ {First(batch[d])}
    <3>1. batch'[d] = b /\ pc'[d] = NextPush(b)
      BY <1>t, <2>4 DEF SettleMark, SettleConflict
    <3> HIDE DEF b
    <3> QED
      BY <3>1, NextPushType
  <2>5. CASE SettleTransient(d) \/ SettleOpenFails(d)
    BY <1>t, <2>5 DEF SettleTransient, SettleOpenFails
  <2> QED
    BY <1>6, <2>1, <2>2, <2>3, <2>4, <2>5 DEF PushStep
<1>7. UNCHANGED vars => UNCHANGED <<pc, batch>>
  BY DEF vars
<1> QED
  BY <1>1, <1>2, <1>3, <1>4, <1>5, <1>6, <1>7 DEF Next, SyncLoop


\* A batch keeps the payload of the row it was built from: no other version has
\* the stamp of the entry, and no pull replaces the row meanwhile.
LEMMA StepBatchIsRow ==
    ASSUME CountersLast, StampInv, [Next]_vars
    PROVE  BatchIsRow'
<1> SUFFICES ASSUME NEW d \in Devices, NEW e \in batch'[d], e.op = "upsert",
                    rows'[d][e.id].coll = e.coll, rows'[d][e.id].hlc = e.hlc
             PROVE  e.data = rows'[d][e.id].data
  BY DEF BatchIsRow
<1>t. /\ TypeInv /\ TypeInv' /\ EntriesAreWrites /\ ClocksOwn /\ PullsAlone /\ BatchIsRow
      /\ e \in Entry /\ e.id \in Ids
  <2>1. TypeInv /\ TypeInv' /\ EntriesAreWrites /\ ClocksOwn /\ PullsAlone /\ BatchIsRow
    BY StepTypeInv DEF StampInv, IInv
  <2>2. e \in Entry
    BY <2>1 DEF TypeInv, TypeOK
  <2> QED
    BY <2>1, <2>2 DEF Entry
<1>1. CASE BuiltFrom(d, e)
  BY <1>1 DEF BuiltFrom
<1>2. CASE e \in batch[d]
  <2>1. CASE SameContent(rows'[d][e.id], rows[d][e.id])
    BY <1>t, <1>2, <2>1 DEF SameContent, BatchIsRow
  <2>2. CASE RowWritten(d, e.id)
    <3>1. PICK wall \in Wall, i \in issued' : Wrote(d, wall, i) /\ i.hlc = e.hlc
      BY <2>2 DEF RowWritten
    <3>2. PICK j \in issued : j.hlc = e.hlc
      BY <1>t, <1>2 DEF EntriesAreWrites, Entries, WriteOf
    <3> QED
      BY <1>t, <3>1, <3>2, WriteIsFresh
  <2>3. CASE RowApplied(d, e.id)
    BY <1>t, <1>2, <2>3 DEF RowApplied, PullsAlone
  <2> QED
    BY <1>t, <2>1, <2>2, <2>3, RowContents
<1> QED
  BY <1>t, <1>1, <1>2, BatchContents

\* A foreign version in a row came from the store, which does not go back.
LEMMA StepForeign ==
    ASSUME CountersLast, StampInv, [Next]_vars
    PROVE  ForeignIsCovered'
<1> SUFFICES ASSUME NEW d \in Devices, NEW id \in Ids, Present(rows'[d][id]),
                    rows'[d][id].hlc.node # d
             PROVE  AtLeast(remote'[<<id, rows'[d][id].coll>>].hlc, rows'[d][id].hlc)
  BY DEF ForeignIsCovered, Covered, Present
<1> DEFINE new == rows'[d][id]
           old == rows[d][id]
<1>t. TypeInv /\ ClocksOwn /\ ForeignIsCovered /\ PulledIsCovered /\ new \in Row
  <2>1. TypeInv /\ TypeInv' /\ ClocksOwn /\ ForeignIsCovered /\ PulledIsCovered
    BY StepTypeInv DEF StampInv, IInv
  <2>2. rows'[d] \in [Ids -> Row]
    BY <2>1 DEF TypeInv, TypeOK
  <2> QED
    BY <2>1, <2>2
<1>1. Covered(id, new.coll, new.hlc)
  <2>1. CASE SameContent(new, old)
    BY <1>t, <2>1 DEF SameContent, ForeignIsCovered, Present
  <2>2. CASE RowWritten(d, id)
    <3>1. PICK wall \in Wall, i \in issued' : Wrote(d, wall, i) /\ i.hlc = new.hlc
      BY <2>2 DEF RowWritten
    <3>2. i.hlc.node = d
      BY <1>t, <3>1, WriteIsFresh
    <3> QED
      BY <3>1, <3>2
  <2>3. CASE RowApplied(d, id)
    <3>1. PICK r \in applying[d] : r.id = id /\ SameContent(new, r)
      BY <2>3 DEF RowApplied
    <3> QED
      BY <1>t, <3>1 DEF SameContent, PulledIsCovered
  <2> QED
    BY <1>t, <2>1, <2>2, <2>3, RowContents
<1>2. new.coll \in Colls /\ new.hlc \in Stamp
  BY <1>t DEF Row
<1>3. \A c \in Colls, h \in Stamp : Covered(id, c, h) => AtLeast(remote'[<<id, c>>].hlc, h)
  BY <1>t, StoreAdvances DEF Covered
<1> QED
  BY <1>1, <1>2, <1>3

-----------------------------------------------------------------------------
(***************************************************************************)
(* Copies                                                                   *)
(***************************************************************************)

\* A copy of a record, unless it stands for nothing, was stamped.
LEMMA CopyStamped ==
    ASSUME IInv, NEW k \in Keys, NEW w, Copy(k, w), w.hlc # Never
    PROVE  \E j \in issued : j.hlc = w.hlc
<1>1. CASE w = Content(NoRow)
  BY <1>1 DEF Content, NoRow
<1>2. CASE w = Content(remote[k])
  BY <1>2 DEF Content, IInv, NothingInvented, Stamped
<1>3. ASSUME NEW d \in Devices, RowCopy(d, k, w)
      PROVE  \E j \in issued : j.hlc = w.hlc
  BY <1>3 DEF RowCopy, Content, Keys, IInv, NothingInvented, Stamped, Present
<1>4. ASSUME NEW d \in Devices, PulledCopy(d, k, w)
      PROVE  \E j \in issued : j.hlc = w.hlc
  BY <1>4 DEF PulledCopy, Content, IInv, PulledIsStamped, Stamped
<1> QED
  BY <1>1, <1>2, <1>3, <1>4 DEF Copy

\* A new copy of record k is the version just written, or the entry just pushed.
CopyWritten(k, v) ==
    \E d \in Devices, wall \in Wall, i \in issued' :
        Wrote(d, wall, i) /\ v.hlc = i.hlc /\ v = Content(rows'[d][k[1]])
CopyPushed(k, v) ==
    \E d \in Devices :
        LET e == First(batch[d])
        IN  /\ e \in batch[d] /\ k = <<e.id, e.coll>> /\ Accepts(remote, e)
            /\ v = Content(remote'[k])
            /\ v = [hlc |-> e.hlc, data |-> e.data, deleted |-> e.op = "delete"]

LEMMA CopySources ==
    ASSUME CountersLast, TypeInv, [Next]_vars, NEW k \in Keys, NEW v, Copy(k, v)'
    PROVE  Copy(k, v) \/ CopyWritten(k, v) \/ CopyPushed(k, v)
<1> DEFINE Explained == Copy(k, v) \/ CopyWritten(k, v) \/ CopyPushed(k, v)
<1>k. k[1] \in Ids /\ k[2] \in Colls /\ k = <<k[1], k[2]>>
  BY DEF Keys
<1>1. CASE v = Content(NoRow)
  BY <1>1 DEF Copy
<1>2. CASE v = Content(remote'[k])
  <2>1. CASE remote'[k] = remote[k]
    BY <1>2, <2>1 DEF Copy
  <2>2. CASE remote'[k] # remote[k]
    <3>1. PICK d \in Devices : First(batch[d]) \in batch[d]
                               /\ remote' = PushOne(remote, First(batch[d]))
      BY <2>2, StoreSteps
    <3> DEFINE e == First(batch[d])
               w == [hlc |-> e.hlc, data |-> e.data, deleted |-> e.op = "delete"]
    <3>2. Accepts(remote, e) /\ remote' = [remote EXCEPT ![<<e.id, e.coll>>] = w]
      BY <2>2, <3>1 DEF PushOne
    <3>3. remote \in [Keys -> Version] /\ Content(w) = w
      BY DEF TypeInv, TypeOK, Content
    <3> HIDE DEF w
    <3>4. k = <<e.id, e.coll>> /\ remote'[k] = w
      BY <2>2, <3>2, <3>3
    <3>5. CopyPushed(k, v)
      BY <1>2, <3>1, <3>2, <3>3, <3>4 DEF CopyPushed, w
    <3> QED
      BY <3>5
  <2> QED
    BY <2>1, <2>2
<1>3. ASSUME NEW d \in Devices, RowCopy(d, k, v)'
      PROVE  Explained
  <2> DEFINE new == rows'[d][k[1]]
             old == rows[d][k[1]]
  <2>1. new.coll = k[2] /\ v = Content(new)
    BY <1>3 DEF RowCopy, Content
  <2>2. CASE SameContent(new, old)
    BY <2>1, <2>2 DEF SameContent, Content, Copy, RowCopy
  <2>3. CASE RowWritten(d, k[1])
    <3>1. PICK wall \in Wall, i \in issued' : Wrote(d, wall, i) /\ i.hlc = new.hlc
      BY <2>3 DEF RowWritten
    <3>2. v.hlc = i.hlc
      BY <2>1, <3>1 DEF Content
    <3>3. CopyWritten(k, v)
      BY <2>1, <3>1, <3>2 DEF CopyWritten
    <3> QED
      BY <3>3
  <2>4. CASE RowApplied(d, k[1])
    <3>1. PICK r \in applying[d] : r.id = k[1] /\ SameContent(new, r)
      BY <2>4 DEF RowApplied
    <3>2. r.coll = k[2] /\ v = Content(r)
      BY <2>1, <3>1 DEF SameContent, Content
    <3> QED
      BY <3>1, <3>2 DEF Copy, PulledCopy
  <2> QED
    BY <1>k, <2>2, <2>3, <2>4, RowContents
<1>4. ASSUME NEW d \in Devices, PulledCopy(d, k, v)'
      PROVE  Explained
  <2>1. PICK r \in (pulled[d] \cup applying[d])' :
           r.id = k[1] /\ r.coll = k[2] /\ v = Content(r)
    BY <1>4 DEF PulledCopy, Content
  <2>2. CASE r \in pulled[d] \cup applying[d]
    BY <2>1, <2>2 DEF Copy, PulledCopy
  <2>3. CASE r \in PullSince(remote, checkpoint[d])
    <3>1. remote \in [Keys -> Version] /\ checkpoint[d] \in Stamp
      BY DEF TypeInv, TypeOK
    <3>2. /\ r.hlc = remote[k].hlc /\ r.data = remote[k].data
          /\ r.deleted = remote[k].deleted
      BY <1>k, <2>1, <2>3, <3>1, PullSinceFacts
    <3> QED
      BY <2>1, <3>2 DEF Copy, Content
  <2> QED
    BY <2>2, <2>3, PulledSources
<1>5. Explained
  BY <1>1, <1>2, <1>3, <1>4 DEF Copy, Content
<1> QED
  BY <1>5


\* No step makes two copies with one stamp differ.
LEMMA StepCopiesAgree ==
    ASSUME CountersLast, StampInv, [Next]_vars
    PROVE  CopiesAgree'
<1>t. /\ IInv /\ TypeInv /\ ClocksOwn /\ StampedOnce /\ BatchIsRow /\ ForeignIsCovered
      /\ CopiesAgree /\ EntriesAreWrites /\ NothingInvented /\ PulledIsCovered
  BY DEF StampInv, IInv
<1> SUFFICES ASSUME NEW k \in Keys, NEW v \in Version, NEW w \in Version,
                    Copy(k, v)', Copy(k, w)'
             PROVE  Agree(v, w)
  BY DEF CopiesAgree, Agree
<1>k. k[1] \in Ids /\ k[2] \in Colls
  BY DEF Keys
<1>1. ASSUME NEW x \in Version, NEW y \in Version, CopyWritten(k, x), Copy(k, y)
      PROVE  x.hlc # y.hlc
  <2>1. PICK d \in Devices, wall \in Wall, i \in issued' : Wrote(d, wall, i) /\ x.hlc = i.hlc
    BY <1>1 DEF CopyWritten
  <2>2. i.hlc # Never /\ \A j \in issued : j.hlc # i.hlc
    BY <1>t, <2>1, WriteIsFresh
  <2> QED
    BY <1>t, <1>1, <2>1, <2>2, CopyStamped
<1>2. ASSUME NEW x \in Version, NEW y \in Version, CopyWritten(k, x), CopyWritten(k, y)
      PROVE  x = y
  <2>1. PICK d \in Devices, wall \in Wall, i \in issued' :
           Wrote(d, wall, i) /\ x = Content(rows'[d][k[1]])
    BY <1>2 DEF CopyWritten
  <2>2. PICK d2 \in Devices, wall2 \in Wall, i2 \in issued' :
           Wrote(d2, wall2, i2) /\ y = Content(rows'[d2][k[1]])
    BY <1>2 DEF CopyWritten
  <2>3. i2 \notin issued
    BY <1>t, <2>2, WriteIsFresh
  <2>4. i2 = i
    BY <2>1, <2>2, <2>3 DEF Wrote
  <2> QED
    BY <2>1, <2>2, <2>4 DEF Wrote
<1>3. ASSUME NEW x \in Version, NEW y \in Version, CopyPushed(k, x), Copy(k, y), x.hlc = y.hlc
      PROVE  x.deleted = y.deleted /\ (x.deleted \/ x.data = y.data)
  <2>1. PICK d \in Devices :
           LET e == First(batch[d])
           IN  /\ e \in batch[d] /\ k = <<e.id, e.coll>> /\ Accepts(remote, e)
               /\ x = [hlc |-> e.hlc, data |-> e.data, deleted |-> e.op = "delete"]
    BY <1>3 DEF CopyPushed
  <2> DEFINE e == First(batch[d])
  <2>2. /\ e \in batch[d] /\ k[1] = e.id /\ k[2] = e.coll /\ Less(remote[k].hlc, e.hlc)
        /\ x.hlc = e.hlc /\ x.data = e.data /\ x.deleted = (e.op = "delete")
    BY <2>1 DEF Accepts
  <2> HIDE DEF e
  <2>3. e \in Entry /\ e.hlc \in Stamp /\ remote[k].hlc \in Stamp
    <3>1. e \in Entry
      BY <1>t, <2>2, DeviceTypes DEF TypeInv
    <3> QED
      BY <1>t, <3>1 DEF Entry, TypeInv, TypeOK, Version
  <2>4. e.hlc # Never /\ ~AtLeast(remote[k].hlc, e.hlc)
    BY <2>2, <2>3, NeverIsLeast DEF AtLeast
  <2>5. PICK i \in issued : WriteOf(i, d, e)
    BY <1>t, <2>2 DEF EntriesAreWrites, Entries
  <2>6. e.hlc.node = d
    BY <1>t, <2>5 DEF WriteOf, ClocksOwn
  <2>7. y.hlc = e.hlc
    BY <1>3, <2>2
  <2>8. y # Content(NoRow) /\ y # Content(remote[k])
    BY <2>2, <2>3, <2>4, <2>7, LessIsTotalOrder DEF Content, NoRow
  <2>9. ASSUME NEW b \in Devices PROVE ~PulledCopy(b, k, y)
    <3> SUFFICES ASSUME NEW r \in pulled[b] \cup applying[b], r.id = k[1], r.coll = k[2],
                        y = Content(r)
                 PROVE  FALSE
      BY DEF PulledCopy
    <3>1. Covered(k[1], k[2], e.hlc)
      BY <1>t, <2>7 DEF PulledIsCovered, Content
    <3>2. k = <<k[1], k[2]>>
      BY DEF Keys
    <3> QED
      BY <2>4, <3>1, <3>2 DEF Covered
  <2>10. PICK b \in Devices : RowCopy(b, k, y)
    BY <1>3, <2>8, <2>9 DEF Copy
  <2> DEFINE row == rows[b][k[1]]
  <2>11. /\ row.coll = k[2] /\ row.hlc = e.hlc /\ y.deleted = row.deleted /\ y.data = row.data
         /\ Present(row)
    BY <2>4, <2>7, <2>10 DEF RowCopy, Content, Present
  <2>12. b = d
    <3>1. CASE row.hlc.node # b
      <4>1. Covered(k[1], k[2], e.hlc)
        BY <1>t, <1>k, <2>11, <3>1 DEF ForeignIsCovered
      <4>2. k = <<k[1], k[2]>>
        BY DEF Keys
      <4> QED
        BY <2>4, <4>1, <4>2 DEF Covered
    <3> QED
      BY <2>6, <2>11, <3>1
  <2>13. row.deleted = (e.op = "delete")
    <3>1. PICK j \in issued : j.hlc = row.hlc /\ j.deleted = row.deleted
      BY <1>t, <1>k, <2>11 DEF NothingInvented, Stamped
    <3>2. j = i
      BY <1>t, <2>5, <2>11, <3>1 DEF StampedOnce, WriteOf
    <3> QED
      BY <2>5, <3>1, <3>2 DEF WriteOf
  <2>14. e.op = "upsert" => e.data = row.data
    BY <1>t, <2>2, <2>11, <2>12 DEF BatchIsRow
  <2>15. e.op \in {"upsert", "delete"}
    BY <2>3 DEF Entry
  <2> QED
    BY <2>2, <2>11, <2>13, <2>14, <2>15
<1>4. ASSUME NEW x \in Version, NEW y \in Version, CopyPushed(k, x), CopyWritten(k, y)
      PROVE  FALSE
  <2>1. UNCHANGED remote
    BY <1>4 DEF CopyWritten, Wrote
  <2>2. PICK d \in Devices :
           LET e == First(batch[d])
           IN  /\ e \in batch[d] /\ k = <<e.id, e.coll>> /\ Accepts(remote, e)
               /\ x = Content(remote'[k]) /\ x.hlc = e.hlc
    BY <1>4 DEF CopyPushed
  <2>3. Less(remote[k].hlc, remote[k].hlc)
    BY <2>1, <2>2 DEF Accepts, Content
  <2>4. remote[k].hlc \in Stamp
    BY <1>t DEF TypeInv, TypeOK, Version
  <2> QED
    BY <2>3, <2>4, LessIsTotalOrder
<1>5. ASSUME CopyPushed(k, v), CopyPushed(k, w) PROVE v = w
  BY <1>5 DEF CopyPushed
<1>6. Copy(k, v) /\ Copy(k, w) => Agree(v, w)
  BY <1>t DEF CopiesAgree
<1>7. /\ Copy(k, v) \/ CopyWritten(k, v) \/ CopyPushed(k, v)
      /\ Copy(k, w) \/ CopyWritten(k, w) \/ CopyPushed(k, w)
  BY <1>t, CopySources
<1>8. CASE Copy(k, v)
  BY <1>1, <1>3, <1>6, <1>7, <1>8 DEF Agree
<1>9. CASE CopyWritten(k, v)
  BY <1>1, <1>2, <1>4, <1>7, <1>9 DEF Agree
<1>10. CASE CopyPushed(k, v)
  BY <1>3, <1>4, <1>5, <1>7, <1>10 DEF Agree
<1> QED
  BY <1>7, <1>8, <1>9, <1>10

LEMMA StepStampInv == CountersLast /\ StampInv /\ [Next]_vars => StampInv'
<1> SUFFICES ASSUME CountersLast, StampInv, [Next]_vars PROVE StampInv'
  OBVIOUS
<1>1. IInv'
  BY StepTypeInv, StepEntriesAreWrites, StepAnswersHold, StepPulled, StepNothingInvented,
     StepNothingForgotten DEF StampInv, IInv
<1> QED
  BY <1>1, StepClocks, StepPullsAlone, StepBatchIsRow, StepForeign, StepCopiesAgree
     DEF StampInv

\* The inductive invariant of StampsAreUnique: every writer keeps its own node id.
NodesOwn ==
    /\ \A d \in Writers : lastHlc[d].node = d
    /\ \A i \in issued : i.hlc.node = i.dev

LEMMA StepNodesOwn ==
    ASSUME WritersStay, TypeInv, NodesOwn, [Next]_vars
    PROVE  NodesOwn'
<1>1. CASE ClocksStay
  BY <1>1 DEF ClocksStay, NodesOwn, Writers
<1>2. ASSUME NEW d \in Devices, NEW wall \in Wall, NEW i \in issued', Wrote(d, wall, i)
      PROVE  NodesOwn'
  <2>1. d \in Writers
    <3>1. nextSeq[d] \in Nat \ {0} /\ MaxWrites[d] \in Nat
      BY RecordSyncAssumption DEF TypeInv, TypeOK
    <3>2. nextSeq[d] <= MaxWrites[d]
      BY <1>2 DEF Wrote
    <3> QED
      BY <3>1, <3>2 DEF Writers
  <2>2. i.hlc.node = lastHlc[d].node /\ i.dev = d
    BY <1>2 DEF Wrote, Tick
  <2>3. /\ lastHlc' = [lastHlc EXCEPT ![d] = i.hlc]
        /\ DOMAIN lastHlc = Devices /\ issued' = issued \cup {i}
    BY <1>2 DEF Wrote, TypeInv, TypeOK
  <2> QED
    BY <2>1, <2>2, <2>3 DEF NodesOwn, Writers
<1> QED
  BY <1>1, <1>2, WriteSteps

\* Stamps are unique.  What the node id is in a stamp for ("prevents HLC collisions
\* between devices that write in the same millisecond") holds, for any number of devices
\* that write at once under clocks that stand still or go back and counters that are used
\* up, as long as none of them restarts: stamps_after_restart shows what a restart does.
THEOREM StampsAreUnique ==
    ASSUME WritersStay
    PROVE  Spec => []StampsUnique
<1>1. Init => NodesOwn
  BY DEF Init, NodesOwn, NewHlc, Writers
<1>2. NodesOwn => StampsUnique
  BY DEF NodesOwn, StampsUnique
<1>3. Spec => []TypeInv
  BY InitTypeInv, StepTypeInv, PTL DEF Spec
<1> QED
  BY <1>1, <1>2, <1>3, StepNodesOwn, PTL DEF Spec

\* One version per stamp.  Without restarts of a device that writes, and with counters
\* that last for its writes: for any number of devices, records and collections,
\* and whatever the network and the database do, two copies of a record that
\* carry the same stamp, on two devices or in the store, have the same content.
\* A push that is built while the user writes again, and sends the newer payload
\* under the older stamp, does not break it: no other copy has that stamp by then.
THEOREM StampsNameVersions ==
    ASSUME CountersLast
    PROVE  Spec => []OneVersionPerStamp
<1>1. StampInv => OneVersionPerStamp
  <2> SUFFICES ASSUME StampInv, NEW k \in Keys,
                      NEW v \in {remote[k]} \cup {Get(rows[d], k[2], k[1]) : d \in Devices},
                      NEW w \in {remote[k]} \cup {Get(rows[d], k[2], k[1]) : d \in Devices},
                      v.hlc = w.hlc
               PROVE  v.deleted = w.deleted /\ (v.deleted \/ v.data = w.data)
    BY DEF OneVersionPerStamp
  <2>1. ASSUME NEW x \in {remote[k]} \cup {Get(rows[d], k[2], k[1]) : d \in Devices}
        PROVE  Copy(k, Content(x)) /\ Content(x) \in Version
    <3>t. TypeOK /\ k[1] \in Ids /\ k[2] \in Colls
      BY DEF StampInv, IInv, TypeInv, Keys
    <3>1. CASE x = remote[k]
      BY <3>t, <3>1 DEF Copy, Content, TypeOK, Version
    <3>2. ASSUME NEW d \in Devices, x = Get(rows[d], k[2], k[1])
          PROVE  Copy(k, Content(x)) /\ Content(x) \in Version
      <4>1. x \in Row
        BY <3>t, <3>2, TableTypes, DeviceTypes
      <4>2. Copy(k, Content(x))
        BY <3>2 DEF Get, Copy, RowCopy
      <4> QED
        BY <4>1, <4>2 DEF Content, Row, Version
    <3> QED
      BY <3>1, <3>2
  <2>2. Agree(Content(v), Content(w))
    BY <2>1 DEF StampInv, CopiesAgree
  <2> QED
    BY <2>2 DEF Agree, Content
<1> QED
  BY <1>1, InitStampInv, StepStampInv, PTL DEF Spec
=============================================================================

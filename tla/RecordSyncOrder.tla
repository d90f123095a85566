-------------------------- MODULE RecordSyncOrder --------------------------
(***************************************************************************)
(* Where stamps reach the store in order, the checkpoint is complete and all *)
(* devices come to show the same.  The first half is about any number of     *)
(* devices that write, restart, lose requests and have statements fail: it   *)
(* takes that order, and that no write is stamped below the row it replaces,  *)
(* as a hypothesis on the steps, and shows that a pull misses nothing of what  *)
(* the store had when it began, but for the records on which a statement      *)
(* failed.  The second half shows that one writer whose pushes are answered   *)
(* keeps that order: what is still to be pushed is later than all the store   *)
(* has.                                                                    *)
(***************************************************************************)
EXTENDS RecordSyncStamps, FiniteSetTheorems

\* What reaches the store is stamped later than all it has.
InStampOrder ==
    \A k \in Keys : remote'[k].hlc # remote[k].hlc =>
        \A j \in Keys : Less(remote[j].hlc, remote'[k].hlc)

\* A put or a delete is stamped no earlier than the row it replaces: a device whose
\* clock is behind needs what Hlc::merge is for (it has no caller) to write so.
NoWriteGoesBack ==
    \A d \in Devices, c \in Colls, id \in Ids, wall \in Wall :
        Writes(d, c, id, wall) => AtLeast(rows'[d][id].hlc, rows[d][id].hlc)

Orderly == InStampOrder /\ NoWriteGoesBack

-----------------------------------------------------------------------------
(***************************************************************************)
(* The pull cycle of a device                                               *)
(***************************************************************************)

Pulling(d) == pc[d] \in {"apply", "upsert", "remove"}
InPull(d) == pulled[d] \cup applying[d]

\* The store has come that far.
Had(h) == h = Never \/ \E k \in Keys : AtLeast(remote[k].hlc, h)

\* The row of k on d is as recent as the store, or could not be written.
Reached(d, k) == AtLeast(rows[d][k[1]].hlc, remote[k].hlc)
Done(d, k) == Reached(d, k) \/ Skipped(d, k[1], k[2], remote[k].hlc)

\* The store has this version since the pull took its records, or later still.
Late(d, k) ==
    /\ Less(newCp[d], remote[k].hlc)
    /\ \A r \in InPull(d) : Less(r.hlc, remote[k].hlc)

\* One record is applied at a time.
OneApplied(d) ==
    /\ \A r, q \in applying[d] : r = q
    /\ pc[d] \notin {"upsert", "remove"} => applying[d] = {}
    /\ pc[d] = "remove" => \A r \in applying[d] : AtLeast(rows[d][r.id].hlc, r.hlc)

\* What is pulled is what the store has, unless that has come since: so the upsert of
\* a row that was written meanwhile puts it back to what the store has, or behind
\* what the checkpoint of this pull will not pass.
PullsFresh(d) ==
    Pulling(d) => \A r \in InPull(d) :
        \/ AtLeast(r.hlc, remote[<<r.id, r.coll>>].hlc)
        \/ Late(d, <<r.id, r.coll>>)

\* A record of the store has reached d, or is later than all the pull has seen,
\* or is still to be applied.
PullGoesOn(d) ==
    Pulling(d) =>
        \A k \in Keys :
            \/ Done(d, k)
            \/ Late(d, k)
            \/ \E r \in InPull(d) : k = <<r.id, r.coll>> /\ r.hlc = remote[k].hlc

Complete(d) == \A k \in Keys : AtLeast(checkpoint[d], remote[k].hlc) => Done(d, k)

CpGoesOn(d) ==
    /\ Had(checkpoint[d]) /\ Had(newCp[d])
    /\ Pulling(d) => AtLeast(newCp[d], checkpoint[d])

PullInv(d) ==
    /\ OneApplied(d) /\ PullsFresh(d) /\ PullGoesOn(d) /\ Complete(d) /\ CpGoesOn(d)

\* The inductive invariant of orderly steps.
FlowInv == IInv /\ KeepCollections /\ \A d \in Devices : PullInv(d)

-----------------------------------------------------------------------------
(***************************************************************************)
(* The steps, seen from one device                                          *)
(***************************************************************************)

\* The types of all the stamps that are compared.
LEMMA OrderTypes ==
    ASSUME IInv, NEW d \in Devices
    PROVE  /\ \A k \in Keys : k[1] \in Ids /\ k[2] \in Colls /\ k = <<k[1], k[2]>>
           /\ \A k \in Keys : remote[k].hlc \in Stamp
           /\ \A id \in Ids : rows[d][id].hlc \in Stamp /\ rows[d][id].coll \in Colls
           /\ checkpoint[d] \in Stamp /\ newCp[d] \in Stamp
           /\ \A r \in InPull(d) : /\ r.hlc \in Stamp /\ r.id \in Ids /\ r.coll \in Colls
                                   /\ <<r.id, r.coll>> \in Keys
                                   /\ AtLeast(remote[<<r.id, r.coll>>].hlc, r.hlc)
<1>1. TypeOK /\ PulledIsCovered
  BY DEF IInv, TypeInv
<1>2. /\ rows[d] \in [Ids -> Row] /\ checkpoint[d] \in Stamp /\ newCp[d] \in Stamp
      /\ pulled[d] \in SUBSET RemoteRecord /\ applying[d] \in SUBSET RemoteRecord
  BY <1>1, DeviceTypes
<1>3. \A k \in Keys : k[1] \in Ids /\ k[2] \in Colls /\ k = <<k[1], k[2]>>
  BY DEF Keys
<1>4. \A k \in Keys : remote[k].hlc \in Stamp
  BY <1>1 DEF TypeOK, Version
<1>5. \A id \in Ids : rows[d][id].hlc \in Stamp /\ rows[d][id].coll \in Colls
  BY <1>2 DEF Row
<1>6. ASSUME NEW r \in InPull(d)
      PROVE  /\ r.hlc \in Stamp /\ r.id \in Ids /\ r.coll \in Colls
             /\ <<r.id, r.coll>> \in Keys
             /\ AtLeast(remote[<<r.id, r.coll>>].hlc, r.hlc)
  BY <1>1, <1>2 DEF InPull, RemoteRecord, Keys, PulledIsCovered, Covered
<1> QED
  BY <1>2, <1>3, <1>4, <1>5, <1>6

\* A stored version, a row, a record of a pull: each was issued for its record, in the
\* one collection of the record.
LEMMA OneCollection ==
    ASSUME IInv, KeepCollections, NEW c \in Colls, NEW id \in Ids,
           NEW i \in issued, i.id = id, i.coll = c
    PROVE  /\ \A k \in Keys : k[1] = id /\ remote[k].hlc # Never => k = <<id, c>>
           /\ \A d \in Devices : Present(rows[d][id]) => rows[d][id].coll = c
           /\ \A d \in Devices : Get(rows[d], c, id).hlc = rows[d][id].hlc
<1>1. NothingInvented
  BY DEF IInv
<1>2. ASSUME NEW k \in Keys, k[1] = id, remote[k].hlc # Never
      PROVE  k = <<id, c>>
  BY <1>1, <1>2 DEF NothingInvented, Stamped, KeepCollections, Keys
<1>3. ASSUME NEW d \in Devices, Present(rows[d][id])
      PROVE  rows[d][id].coll = c
  BY <1>1, <1>3 DEF NothingInvented, Stamped, KeepCollections
<1>4. \A d \in Devices : Get(rows[d], c, id).hlc = rows[d][id].hlc
  BY <1>3 DEF Get, Present, NoRow
<1> QED
  BY <1>2, <1>3, <1>4

\* What a device has to know to compare its row with a pulled record.
LEMMA PulledRecord ==
    ASSUME IInv, KeepCollections, NEW d \in Devices, NEW r \in InPull(d)
    PROVE  /\ Get(rows[d], r.coll, r.id).hlc = rows[d][r.id].hlc
           /\ \A k \in Keys : k[1] = r.id /\ remote[k].hlc # Never => k = <<r.id, r.coll>>
           /\ Had(r.hlc)
<1>1. PICK i \in issued : i.id = r.id /\ i.coll = r.coll
  BY DEF IInv, PulledIsStamped, Stamped, InPull
<1>2. r.id \in Ids /\ r.coll \in Colls
  BY OrderTypes
<1>3. Had(r.hlc)
  BY OrderTypes DEF Had
<1> QED
  BY <1>1, <1>2, <1>3, OneCollection

\* Rows of d only move forward.
RowsForward(d) == \A id \in Ids : AtLeast(rows'[d][id].hlc, rows[d][id].hlc)

\* The pull cycle of d does not move.
Quiet(d) ==
    /\ UNCHANGED remote /\ skipped \subseteq skipped'
    /\ pulled'[d] = pulled[d] /\ applying'[d] = applying[d]
    /\ newCp'[d] = newCp[d] /\ checkpoint'[d] = checkpoint[d]
    /\ pc'[d] = pc[d] \/ (~Pulling(d) /\ pc'[d] \notin {"apply", "upsert", "remove"})

\* One exchange or statement of the pull cycle of d, or its end by a restart.
Pulls(d) ==
    \/ Pull(d) \/ FinishPull(d)
    \/ \E r \in pulled[d] : ApplySkip(d, r) \/ ApplyGet(d, r)
    \/ \E r \in applying[d] : ApplyUpsert(d, r) \/ ApplyRemove(d, r)
    \/ \E r \in pulled[d] \cup applying[d] : ApplyFails(d, r)
    \/ \E wall \in Wall : Reopen(d, wall)

\* Some device pushes.
Pushes == \E a \in Devices : PushAnswered(a) \/ PushUnanswered(a)

LEMMA SeenFrom ==
    ASSUME TypeInv, [Next]_vars, NEW d \in Devices
    PROVE  Pushes \/ Quiet(d) \/ Pulls(d)
<1> USE DEF dbVars, loopVars, history
<1>t. TypeOK
  BY DEF TypeInv
<1>1. ASSUME NEW a \in Devices, Actor(a) \/ \E e \in outbox[a] : BackoffPasses(a, e)
      PROVE  Quiet(d)
  BY <1>1 DEF Actor, Put, Delete, ClearError, BackoffPasses, Quiet
<1>2. ASSUME NEW a \in Devices, PeekOutbox(a) \/ BuildEntry(a)
      PROVE  Quiet(d)
  <2>1. CASE PeekOutbox(a)
    BY <1>t, <2>1 DEF PeekOutbox, Quiet, Pulling, TypeOK
  <2>2. CASE BuildEntry(a)
    <3>1. /\ UNCHANGED <<remote, pulled, applying, newCp, checkpoint, skipped>>
          /\ pc[a] = "build" /\ pc'[a] \in {"build", "push", "pull"} /\ (d # a => pc'[d] = pc[d])
      BY <1>t, <2>2, NextPushType DEF BuildEntry, TypeOK
    <3> QED
      BY <3>1 DEF Quiet, Pulling
  <2> QED
    BY <1>2, <2>1, <2>2
<1>3. ASSUME NEW a \in Devices,
             SettleOk(a) \/ SettleMark(a) \/ SettleConflict(a) \/ SettleTransient(a) \/ SettleOpenFails(a)
      PROVE  Quiet(d)
  <2>1. UNCHANGED <<remote, pulled, applying, newCp, checkpoint, skipped>>
    BY <1>3 DEF SettleOk, SettleMark, SettleConflict, SettleTransient, SettleOpenFails
  <2>2. pc[a] \in {"settle", "mark"} /\ pc'[a] \in {"mark", "push", "pull"} /\ (d # a => pc'[d] = pc[d])
    BY <1>t, <1>3, NextPushType DEF SettleOk, SettleMark, SettleConflict, SettleTransient,
                                    SettleOpenFails, TypeOK
  <2> QED
    BY <2>1, <2>2 DEF Quiet, Pulling
<1>4. ASSUME NEW a \in Devices, PullFails(a)
      PROVE  Quiet(d)
  BY <1>t, <1>4 DEF PullFails, Quiet, Pulling, TypeOK
<1>5. ASSUME NEW a \in Devices, a # d, Pulls(a)
      PROVE  Quiet(d)
  <2>1. CASE Pull(a) \/ FinishPull(a)
    BY <1>t, <1>5, <2>1 DEF Pull, FinishPull, Quiet, TypeOK
  <2>2. ASSUME NEW r \in pulled[a], ApplySkip(a, r) \/ ApplyGet(a, r)
        PROVE  Quiet(d)
    BY <1>t, <1>5, <2>2 DEF ApplySkip, ApplyGet, Quiet, TypeOK
  <2>3. ASSUME NEW r \in applying[a], ApplyUpsert(a, r) \/ ApplyRemove(a, r)
        PROVE  Quiet(d)
    BY <1>t, <1>5, <2>3 DEF ApplyUpsert, ApplyRemove, Quiet, TypeOK
  <2>4. ASSUME NEW r \in pulled[a] \cup applying[a], ApplyFails(a, r)
        PROVE  Quiet(d)
    BY <1>t, <1>5, <2>4 DEF ApplyFails, Quiet, TypeOK
  <2>5. ASSUME NEW wall \in Wall, Reopen(a, wall)
        PROVE  Quiet(d)
    BY <1>t, <1>5, <2>5 DEF Reopen, Quiet, TypeOK
  <2> QED
    BY <1>5, <2>1, <2>2, <2>3, <2>4, <2>5 DEF Pulls
<1>6. ASSUME UNCHANGED vars PROVE Quiet(d)
  BY <1>6 DEF vars, Quiet
<1>7. ASSUME NEW a \in Devices, PushStep(a)
      PROVE  Pushes \/ Quiet(d)
  BY <1>2, <1>3, <1>7 DEF PushStep, Pushes
<1>8. ASSUME NEW a \in Devices, PullStep(a) \/ \E wall \in Wall : Reopen(a, wall)
      PROVE  PullFails(a) \/ Pulls(a)
  BY <1>8 DEF PullStep, Pulls
<1>9. ASSUME NEW a \in Devices, PullStep(a) \/ \E wall \in Wall : Reopen(a, wall)
      PROVE  Quiet(d) \/ Pulls(d)
  BY <1>4, <1>5, <1>8, <1>9
<1> QED
  BY <1>1, <1>6, <1>7, <1>9 DEF Next, SyncLoop

\* Writes and pulled records apart, no step changes the stamp of a row.
LEMMA RowsElsewhere ==
    ASSUME TypeInv, [Next]_vars, NEW d \in Devices, NEW id \in Ids,
           \A c \in Colls, x \in Ids, wall \in Wall, a \in Devices : ~Writes(a, c, x, wall),
           ~\E r \in applying[d] : ApplyUpsert(d, r)
    PROVE  rows'[d][id].hlc = rows[d][id].hlc
<1> USE DEF dbVars
<1>t. rows \in [Devices -> [Ids -> Row]]
  BY DEF TypeInv, TypeOK
<1>1. ASSUME NEW a \in Devices, SettleMark(a)
      PROVE  rows'[d][id].hlc = rows[d][id].hlc
  <2>1. \A t \in [Ids -> Row] : \A c, x : MarkSynced(t, c, x)[id].hlc = t[id].hlc
    BY DEF MarkSynced, Row
  <2>2. rows' = rows \/ \E c, x : rows' = [rows EXCEPT ![a] = MarkSynced(@, c, x)]
    BY <1>1 DEF SettleMark
  <2> QED
    BY <1>t, <2>1, <2>2
<1>2. ASSUME NEW a \in Devices, NEW r \in applying[a], ApplyUpsert(a, r)
      PROVE  rows'[d][id].hlc = rows[d][id].hlc
  BY <1>t, <1>2 DEF ApplyUpsert
<1>3. ASSUME NEW a \in Devices, PushStep(a)
      PROVE  rows'[d][id].hlc = rows[d][id].hlc
  BY <1>1, <1>3 DEF PushStep, PeekOutbox, BuildEntry, PushAnswered, PushUnanswered, SettleOk,
                    SettleConflict, SettleTransient, SettleOpenFails
<1>4. ASSUME NEW a \in Devices, PullStep(a)
      PROVE  rows'[d][id].hlc = rows[d][id].hlc
  BY <1>2, <1>4 DEF PullStep, Pull, PullFails, FinishPull, ApplySkip, ApplyGet, ApplyRemove,
                    ApplyFails
<1>5. ASSUME NEW a \in Devices, NEW e \in outbox[a], ClearError(a, e) \/ BackoffPasses(a, e)
      PROVE  UNCHANGED rows
  BY <1>5 DEF ClearError, BackoffPasses
<1>6. ASSUME NEW a \in Devices, NEW wall \in Wall, Reopen(a, wall)
      PROVE  UNCHANGED rows
  BY <1>6 DEF Reopen
<1>7. UNCHANGED vars => UNCHANGED rows
  BY DEF vars
<1> QED
  BY <1>3, <1>4, <1>5, <1>6, <1>7 DEF Next, Actor, SyncLoop, Writes

\* The rows of d move forward, unless a pulled record is written.
LEMMA RowMoves ==
    ASSUME IInv, [Next]_vars, NoWriteGoesBack, NEW d \in Devices,
           ~\E r \in applying[d] : ApplyUpsert(d, r)
    PROVE  RowsForward(d)
<1>t. TypeInv
  BY DEF IInv
<1> SUFFICES ASSUME NEW id \in Ids
             PROVE  AtLeast(rows'[d][id].hlc, rows[d][id].hlc)
  BY DEF RowsForward
<1>0. rows[d][id].hlc \in Stamp
  BY OrderTypes
<1>1. CASE rows'[d][id].hlc = rows[d][id].hlc
  BY <1>0, <1>1, AtLeastTransitive
<1>2. ASSUME NEW a \in Devices, NEW c \in Colls, NEW x \in Ids, NEW wall \in Wall,
             Writes(a, c, x, wall)
      PROVE  AtLeast(rows'[d][id].hlc, rows[d][id].hlc)
  <2>1. CASE a = d /\ x = id
    BY <1>2, <2>1 DEF NoWriteGoesBack
  <2>2. CASE ~(a = d /\ x = id)
    <3>1. rows'[d][id].hlc = rows[d][id].hlc
      BY <1>t, <1>2, <2>2, WriteStep
    <3> QED
      BY <1>1, <3>1
  <2> QED
    BY <2>1, <2>2
<1>3. CASE \A c \in Colls, x \in Ids, wall \in Wall, a \in Devices : ~Writes(a, c, x, wall)
  BY <1>t, <1>1, <1>3, RowsElsewhere
<1> QED
  BY <1>2, <1>3

\* What the store gets is later than all it had, and than all that was pulled
\* or noted in a checkpoint.
LEMMA StoreGrows ==
    ASSUME IInv, [Next]_vars, InStampOrder, ~UNCHANGED remote
    PROVE  \E h \in Stamp :
              /\ \A k \in Keys : remote'[k].hlc \in {remote[k].hlc, h}
              /\ \A g \in Stamp : Had(g) => Less(g, h)
<1>t. TypeInv /\ TypeInv'
  BY StepTypeInv DEF IInv
<1>1. PICK e \in Entry : remote' = PushOne(remote, e)
  BY <1>t, StoreSteps, DeviceTypes DEF TypeInv
<1> DEFINE v == [hlc |-> e.hlc, data |-> e.data, deleted |-> e.op = "delete"]
           at == <<e.id, e.coll>>
<1>2. remote' = [remote EXCEPT ![at] = v] /\ Less(remote[at].hlc, e.hlc)
  BY <1>1 DEF PushOne, Accepts
<1>3. v.hlc = e.hlc /\ e.hlc \in Stamp /\ at \in Keys
  BY DEF Entry, Keys
<1>4. remote \in [Keys -> Version] /\ \A k \in Keys : remote[k].hlc \in Stamp
  BY <1>t DEF TypeInv, TypeOK, Version
<1> HIDE DEF v, at
<1>5. \A k \in Keys : remote'[k].hlc \in {remote[k].hlc, e.hlc}
  BY <1>2, <1>3, <1>4
<1>6. remote'[at].hlc = e.hlc /\ e.hlc # remote[at].hlc
  <2>1. remote'[at] = v
    BY <1>2, <1>3, <1>4
  <2>2. ~Less(e.hlc, e.hlc)
    BY <1>3, LessIsTotalOrder
  <2> QED
    BY <1>2, <1>3, <2>1, <2>2
<1>7. \A k \in Keys : Less(remote[k].hlc, e.hlc)
  BY <1>3, <1>6 DEF InStampOrder
<1>8. ASSUME NEW g \in Stamp, Had(g) PROVE Less(g, e.hlc)
  <2>1. CASE g = Never
    <3>1. e.hlc # Never
      BY <1>3, <1>4, <1>7, NeverIsLeast DEF AtLeast
    <3> QED
      BY <1>3, <2>1, <3>1, NeverIsLeast
  <2>2. CASE \E k \in Keys : AtLeast(remote[k].hlc, g)
    <3>1. PICK k \in Keys : AtLeast(remote[k].hlc, g)
      BY <2>2
    <3>2. Less(remote[k].hlc, e.hlc) /\ remote[k].hlc \in Stamp
      BY <1>4, <1>7
    <3> QED
      BY <1>3, <3>1, <3>2 DEF AtLeast, Less, Stamp
  <2> QED
    BY <1>8, <2>1, <2>2 DEF Had
<1> QED
  BY <1>3, <1>5, <1>8

LEMMA HadStays ==
    ASSUME IInv, [Next]_vars, NEW h \in Stamp, Had(h)
    PROVE  Had(h)'
<1>1. TypeInv
  BY DEF IInv
<1>2. \A k \in Keys : AtLeast(remote[k].hlc, h) => AtLeast(remote'[k].hlc, h)
  BY <1>1, StoreAdvances DEF Covered, Keys
<1> QED
  BY <1>2 DEF Had

-----------------------------------------------------------------------------
(***************************************************************************)
(* Each step keeps the invariant of a device                                *)
(***************************************************************************)

\* A push, by whatever device: what it adds to the store is later than what d has seen.
LEMMA OnPush ==
    ASSUME FlowInv, [Next]_vars, InStampOrder, Pushes, NEW d \in Devices
    PROVE  PullInv(d)'
<1> USE DEF dbVars, loopVars, history
<1>t. TypeOK /\ PullInv(d) /\ IInv
  BY DEF FlowInv, IInv, TypeInv
<1>1. /\ UNCHANGED <<rows, checkpoint, newCp, pulled, applying, skipped>>
      /\ pc'[d] = pc[d] \/ {pc[d], pc'[d]} \subseteq {"push", "settle"}
  BY <1>t DEF Pushes, PushAnswered, PushUnanswered, TypeOK
<1>2. PICK h \in Stamp : /\ \A k \in Keys : remote'[k].hlc \in {remote[k].hlc, h}
                         /\ UNCHANGED remote \/ \A g \in Stamp : Had(g) => Less(g, h)
  <2>1. CASE UNCHANGED remote
    BY <2>1, StampTypes
  <2>2. CASE ~UNCHANGED remote
    BY <1>t, <2>2, StoreGrows
  <2> QED
    BY <2>1, <2>2
<1>3. OneApplied(d)'
  BY <1>t, <1>1 DEF PullInv, OneApplied
<1>4. ASSUME NEW k \in Keys
      PROVE  \/ remote'[k].hlc = remote[k].hlc
             \/ /\ Less(checkpoint[d], remote'[k].hlc) /\ Late(d, k)'
  <2>1. CASE remote'[k].hlc = remote[k].hlc
    BY <2>1
  <2>2. CASE remote'[k].hlc = h /\ h # remote[k].hlc
    <3>1. \A g \in Stamp : Had(g) => Less(g, h)
      BY <1>2, <2>2
    <3>2. Had(checkpoint[d]) /\ Had(newCp[d]) /\ \A r \in InPull(d) : Had(r.hlc)
      BY <1>t, OrderTypes DEF PullInv, CpGoesOn, Had
    <3>3. Less(checkpoint[d], h) /\ Less(newCp[d], h) /\ \A r \in InPull(d) : Less(r.hlc, h)
      BY <1>t, <3>1, <3>2, OrderTypes
    <3> QED
      BY <1>1, <2>2, <3>3 DEF Late, InPull
  <2> QED
    BY <1>2, <2>1, <2>2
<1>5. ASSUME NEW k \in Keys, remote'[k].hlc = remote[k].hlc
      PROVE  (Done(d, k) => Done(d, k)') /\ (Late(d, k) => Late(d, k)')
  BY <1>1, <1>5 DEF Done, Reached, Skipped, Late, InPull
<1>6. Complete(d)'
  BY <1>t, <1>1, <1>4, <1>5 DEF PullInv, Complete, AtLeast
<1>7. Pulling(d)' => Pulling(d)
  BY <1>1 DEF Pulling
<1>8. PullGoesOn(d)'
  <2> SUFFICES ASSUME Pulling(d), NEW k \in Keys, remote'[k].hlc = remote[k].hlc
               PROVE  \/ Done(d, k)' \/ Late(d, k)'
                      \/ \E r \in InPull(d) : k = <<r.id, r.coll>> /\ r.hlc = remote'[k].hlc
    BY <1>1, <1>4, <1>7 DEF PullGoesOn, InPull
  <2> QED
    BY <1>t, <1>5 DEF PullInv, PullGoesOn
<1>9. PullsFresh(d)'
  <2> SUFFICES ASSUME Pulling(d), NEW r \in InPull(d)
               PROVE  \/ AtLeast(r.hlc, remote'[<<r.id, r.coll>>].hlc)
                      \/ Late(d, <<r.id, r.coll>>)'
    BY <1>1, <1>7 DEF PullsFresh, InPull
  <2>1. <<r.id, r.coll>> \in Keys
    BY <1>t, OrderTypes
  <2> QED
    BY <1>t, <1>4, <1>5, <2>1 DEF PullInv, PullsFresh
<1>10. CpGoesOn(d)'
  <2>1. Had(checkpoint[d])' /\ Had(newCp[d])'
    <3>1. Had(checkpoint[d]) /\ Had(newCp[d]) /\ checkpoint[d] \in Stamp /\ newCp[d] \in Stamp
      BY <1>t, OrderTypes DEF PullInv, CpGoesOn
    <3>2. \A g \in Stamp : Had(g) => g = Never \/ \E k \in Keys : AtLeast(remote'[k].hlc, g)
      BY <1>t, HadStays DEF Had
    <3> QED
      BY <1>1, <3>1, <3>2 DEF Had
  <2> QED
    BY <1>t, <1>1, <1>7, <2>1 DEF PullInv, CpGoesOn
<1> QED
  BY <1>3, <1>6, <1>8, <1>9, <1>10 DEF PullInv

\* A step that is not of the pull of d: only its rows move, and forward.
LEMMA OnQuiet ==
    ASSUME FlowInv, [Next]_vars, NoWriteGoesBack, NEW d \in Devices, Quiet(d),
           ~\E r \in applying[d] : ApplyUpsert(d, r)
    PROVE  PullInv(d)'
<1>t. PullInv(d) /\ IInv /\ TypeInv /\ TypeInv'
  BY StepTypeInv DEF FlowInv, IInv
<1>0. \A id \in Ids : rows'[d][id].hlc \in Stamp
  <2>1. rows'[d] \in [Ids -> Row]
    BY <1>t DEF TypeInv, TypeOK
  <2> QED
    BY <2>1 DEF Row
<1>1. RowsForward(d)
  BY <1>t, RowMoves
<1>2. ASSUME NEW k \in Keys, Done(d, k)
      PROVE  Done(d, k)'
  <2>1. Reached(d, k) => Reached(d, k)'
    BY <1>t, <1>0, <1>1, OrderTypes, AtLeastTransitive DEF Reached, RowsForward, Quiet
  <2> QED
    BY <1>2, <2>1 DEF Done, Skipped, Quiet
<1>3. Pulling(d)' => Pulling(d) /\ pc'[d] = pc[d]
  BY DEF Quiet, Pulling
<1>4. OneApplied(d)'
  <2>1. \A r \in applying[d] : r.id \in Ids /\ r.hlc \in Stamp
    BY <1>t, OrderTypes DEF InPull
  <2>2. pc'[d] = "remove" => \A r \in applying[d] : AtLeast(rows'[d][r.id].hlc, r.hlc)
    <3> SUFFICES ASSUME pc'[d] = "remove", NEW r \in applying[d]
                 PROVE  AtLeast(rows'[d][r.id].hlc, r.hlc)
      OBVIOUS
    <3>1. AtLeast(rows[d][r.id].hlc, r.hlc) /\ AtLeast(rows'[d][r.id].hlc, rows[d][r.id].hlc)
      BY <1>t, <1>1, <1>3, <2>1 DEF PullInv, OneApplied, RowsForward, Pulling
    <3>2. rows[d][r.id].hlc \in Stamp
      BY <1>t, <2>1, OrderTypes
    <3> QED
      BY <1>0, <2>1, <3>1, <3>2, AtLeastTransitive
  <2>3. pc'[d] \notin {"upsert", "remove"} => applying[d] = {}
    BY <1>t DEF PullInv, OneApplied, Quiet, Pulling
  <2> QED
    BY <1>t, <2>2, <2>3 DEF PullInv, OneApplied, Quiet
<1>5. PullGoesOn(d)'
  BY <1>t, <1>2, <1>3 DEF PullInv, PullGoesOn, Quiet, InPull, Late
<1>6. PullsFresh(d)'
  BY <1>t, <1>3 DEF PullInv, PullsFresh, Quiet, InPull, Late
<1>7. Complete(d)'
  BY <1>t, <1>2 DEF PullInv, Complete, Quiet
<1>8. CpGoesOn(d)'
  BY <1>t, <1>3 DEF PullInv, CpGoesOn, Had, Quiet
<1> QED
  BY <1>4, <1>5, <1>6, <1>7, <1>8 DEF PullInv

\* A pull takes all that is later than the checkpoint.
LEMMA OnPull ==
    ASSUME FlowInv, NEW d \in Devices, Pull(d)
    PROVE  PullInv(d)'
<1> USE DEF dbVars, loopVars, history
<1>t. TypeOK /\ PullInv(d) /\ IInv
  BY DEF FlowInv, IInv, TypeInv
<1> DEFINE records == PullSince(remote, checkpoint[d])
<1>1. /\ UNCHANGED <<rows, remote, checkpoint, applying, skipped>>
      /\ pulled'[d] = records /\ applying[d] = {}
      /\ newCp'[d] = IF records = {} THEN Never ELSE checkpoint[d]
      /\ pc'[d] = IF records = {} THEN "idle" ELSE "apply"
  BY <1>t DEF Pull, TypeOK, PullInv, OneApplied
<1>2. OneApplied(d)' /\ Complete(d)'
  BY <1>t, <1>1 DEF PullInv, OneApplied, Complete, Done, Reached, Skipped
<1>3. CpGoesOn(d)'
  <2>1. Had(checkpoint[d])' /\ Had(newCp[d])'
    BY <1>t, <1>1 DEF PullInv, CpGoesOn, Had
  <2>2. Pulling(d)' => newCp'[d] = checkpoint'[d]
    BY <1>1 DEF Pulling
  <2>3. AtLeast(checkpoint[d], checkpoint[d])
    BY <1>t, OrderTypes, AtLeastTransitive
  <2> QED
    BY <1>1, <2>1, <2>2, <2>3 DEF CpGoesOn
<1>4. ASSUME NEW k \in Keys, Less(checkpoint[d], remote[k].hlc)
      PROVE  \E r \in records : k = <<r.id, r.coll>> /\ r.hlc = remote[k].hlc
  <2> DEFINE r == [id |-> k[1], coll |-> k[2], hlc |-> remote[k].hlc,
                   data |-> remote[k].data, deleted |-> remote[k].deleted]
  <2>1. r \in records /\ k = <<r.id, r.coll>> /\ r.hlc = remote[k].hlc
    BY <1>t, <1>4, OrderTypes DEF PullSince
  <2> QED
    BY <2>1
<1>5. \A k \in Keys : Done(d, k) => Done(d, k)'
  BY <1>1 DEF Done, Reached, Skipped
<1>6. PullGoesOn(d)'
  <2> SUFFICES ASSUME NEW k \in Keys
               PROVE  \/ Done(d, k)'
                      \/ \E r \in InPull(d)' : k = <<r.id, r.coll>> /\ r.hlc = remote'[k].hlc
    BY DEF PullGoesOn
  <2> HIDE DEF records
  <2>1. CASE Less(checkpoint[d], remote[k].hlc)
    BY <1>1, <1>4, <2>1 DEF InPull
  <2>2. CASE AtLeast(checkpoint[d], remote[k].hlc)
    BY <1>t, <1>5, <2>2 DEF PullInv, Complete
  <2> QED
    BY <2>1, <2>2 DEF AtLeast
<1>7. PullsFresh(d)'
  <2>1. remote \in [Keys -> Version] /\ checkpoint[d] \in Stamp
    BY <1>t DEF TypeOK
  <2>2. \A r \in records : r.hlc = remote[<<r.id, r.coll>>].hlc /\ <<r.id, r.coll>> \in Keys
    BY <2>1, PullSinceFacts
  <2>3. \A r \in records : AtLeast(r.hlc, remote[<<r.id, r.coll>>].hlc)
    BY <1>t, <2>2, OrderTypes, AtLeastTransitive
  <2> HIDE DEF records
  <2> QED
    BY <1>1, <2>3 DEF PullsFresh, InPull
<1> QED
  BY <1>2, <1>3, <1>6, <1>7 DEF PullInv

\* What the pull has passed is done when its checkpoint is noted.
LEMMA OnFinish ==
    ASSUME FlowInv, NEW d \in Devices, FinishPull(d)
    PROVE  PullInv(d)'
<1> USE DEF dbVars, loopVars, history
<1>t. TypeOK /\ PullInv(d)
  BY DEF FlowInv, IInv, TypeInv
<1>1. /\ UNCHANGED <<rows, remote, pulled, applying, skipped>>
      /\ pc[d] = "apply" /\ pulled[d] = {} /\ applying[d] = {}
      /\ checkpoint'[d] \in {newCp[d], checkpoint[d]} /\ newCp'[d] = Never /\ pc'[d] = "idle"
  BY <1>t DEF FinishPull, TypeOK, PullInv, OneApplied
<1>2. OneApplied(d)' /\ PullGoesOn(d)' /\ PullsFresh(d)'
  BY <1>t, <1>1 DEF PullInv, OneApplied, PullGoesOn, PullsFresh, Pulling
<1>3. CpGoesOn(d)'
  BY <1>t, <1>1 DEF PullInv, CpGoesOn, Had, Pulling
<1>4. Complete(d)'
  <2> SUFFICES ASSUME NEW k \in Keys,
                      AtLeast(newCp[d], remote[k].hlc) \/ AtLeast(checkpoint[d], remote[k].hlc)
               PROVE  Done(d, k)
    BY <1>1 DEF Complete, Done, Reached, Skipped
  <2>1. CASE AtLeast(checkpoint[d], remote[k].hlc)
    BY <1>t, <2>1 DEF PullInv, Complete
  <2>2. CASE AtLeast(newCp[d], remote[k].hlc)
    BY <1>t, <1>1, <2>2 DEF PullInv, PullGoesOn, Pulling, InPull, Late, AtLeast
  <2> QED
    BY <2>1, <2>2
<1> QED
  BY <1>2, <1>3, <1>4 DEF PullInv

\* A record is done with: its row is as recent, or could not be written.
LEMMA OnDone ==
    ASSUME FlowInv, NEW d \in Devices, NEW r \in InPull(d),
           UNCHANGED <<rows, remote, checkpoint>>, skipped \subseteq skipped', Pulling(d),
           AtLeast(rows[d][r.id].hlc, r.hlc) \/ Skipped(d, r.id, r.coll, r.hlc)',
           newCp'[d] \in {newCp[d], Advance(newCp[d], r)},
           \A q \in InPull(d) : q \in InPull(d)' \/ q = r,
           InPull(d)' \subseteq InPull(d)
    PROVE  PullGoesOn(d)' /\ PullsFresh(d)' /\ Complete(d)' /\ CpGoesOn(d)'
<1>t. PullInv(d) /\ IInv /\ KeepCollections
  BY DEF FlowInv
<1>1. \A k \in Keys : Done(d, k) => Done(d, k)'
  BY DEF Done, Reached, Skipped
<1>2. Complete(d)'
  BY <1>t, <1>1 DEF PullInv, Complete
<1>3. newCp'[d] \in {newCp[d], r.hlc} /\ AtLeast(newCp'[d], newCp[d])
  <2>1. newCp[d] \in Stamp /\ r.hlc \in Stamp
    BY <1>t, OrderTypes
  <2>2. AtLeast(Advance(newCp[d], r), newCp[d]) /\ Advance(newCp[d], r) \in {newCp[d], r.hlc}
    BY <2>1, AtLeastTransitive DEF Advance
  <2>3. AtLeast(newCp[d], newCp[d])
    BY <2>1, AtLeastTransitive
  <2> QED
    BY <2>2, <2>3
<1>4. CpGoesOn(d)'
  <2>1. Had(r.hlc)
    BY <1>t, PulledRecord
  <2>2. Had(checkpoint[d])' /\ Had(newCp[d])'
    BY <1>t, <1>3, <2>1 DEF PullInv, CpGoesOn, Had
  <2>3. AtLeast(newCp'[d], checkpoint[d])
    <3>1. checkpoint[d] \in Stamp /\ newCp[d] \in Stamp /\ newCp'[d] \in Stamp
      BY <1>t, <1>3, OrderTypes
    <3> QED
      BY <1>t, <1>3, <3>1, AtLeastTransitive DEF PullInv, CpGoesOn
  <2> QED
    BY <2>2, <2>3 DEF CpGoesOn
<1>5. \A k \in Keys : Late(d, k) => Late(d, k)'
  BY <1>3 DEF Late
<1>6. PullsFresh(d)'
  <2>1. \A q \in InPull(d) : <<q.id, q.coll>> \in Keys
    BY <1>t, OrderTypes
  <2> QED
    BY <1>t, <1>5, <2>1 DEF PullInv, PullsFresh
<1>7. PullGoesOn(d)'
  <2> SUFFICES ASSUME NEW k \in Keys
               PROVE  \/ Done(d, k)' \/ Late(d, k)'
                      \/ \E q \in InPull(d)' : k = <<q.id, q.coll>> /\ q.hlc = remote'[k].hlc
    BY DEF PullGoesOn
  <2>1. ASSUME NEW q \in InPull(d), k = <<q.id, q.coll>>, q.hlc = remote[k].hlc
        PROVE  Done(d, k)' \/ \E x \in InPull(d)' : k = <<x.id, x.coll>> /\ x.hlc = remote'[k].hlc
    <3>1. CASE q = r
      BY <2>1, <3>1 DEF Done, Reached, Skipped
    <3>2. CASE q \in InPull(d)'
      BY <2>1, <3>2
    <3> QED
      BY <3>1, <3>2
  <2> QED
    BY <1>t, <1>1, <1>5, <2>1 DEF PullInv, PullGoesOn
<1> QED
  BY <1>2, <1>4, <1>6, <1>7

LEMMA OnSkip ==
    ASSUME FlowInv, NEW d \in Devices, NEW r \in pulled[d], ApplySkip(d, r)
    PROVE  PullInv(d)'
<1> USE DEF dbVars, loopVars, history
<1>t. TypeOK /\ PullInv(d) /\ IInv /\ KeepCollections
  BY DEF FlowInv, IInv, TypeInv
<1>1. /\ UNCHANGED <<rows, remote, checkpoint, applying, pc, skipped>>
      /\ pc[d] = "apply" /\ pulled'[d] = pulled[d] \ {r}
      /\ newCp'[d] = Advance(newCp[d], r)
      /\ AtLeast(Get(rows[d], r.coll, r.id).hlc, r.hlc)
  BY <1>t DEF ApplySkip, TypeOK
<1>2. r \in InPull(d)
  BY DEF InPull
<1>3. AtLeast(rows[d][r.id].hlc, r.hlc)
  BY <1>t, <1>1, <1>2, PulledRecord
<1>4. OneApplied(d)'
  BY <1>t, <1>1 DEF PullInv, OneApplied
<1>5. PullGoesOn(d)' /\ PullsFresh(d)' /\ Complete(d)' /\ CpGoesOn(d)'
  <2>1. \A q \in InPull(d) : q \in InPull(d)' \/ q = r
    BY <1>1 DEF InPull
  <2>2. InPull(d)' \subseteq InPull(d) /\ Pulling(d)
    BY <1>1 DEF InPull, Pulling
  <2> QED
    BY <1>1, <1>2, <1>3, <2>1, <2>2, OnDone
<1> QED
  BY <1>4, <1>5 DEF PullInv

\* A statement fails: the record is passed over, whatever it had come to.
LEMMA OnFails ==
    ASSUME FlowInv, NEW d \in Devices, NEW r \in pulled[d] \cup applying[d], ApplyFails(d, r)
    PROVE  PullInv(d)'
<1> USE DEF dbVars, loopVars, history
<1>t. TypeOK /\ PullInv(d)
  BY DEF FlowInv, IInv, TypeInv
<1>1. /\ UNCHANGED <<rows, remote, checkpoint, newCp>>
      /\ pc[d] \in {"apply", "upsert", "remove"} /\ pc'[d] = "apply"
      /\ pulled'[d] = pulled[d] \ {r} /\ applying'[d] = {}
      /\ skipped' = skipped \cup {[dev |-> d, id |-> r.id, coll |-> r.coll, hlc |-> r.hlc]}
  BY <1>t DEF ApplyFails, TypeOK
<1>2. OneApplied(d)'
  BY <1>1 DEF OneApplied
<1>3. \A q \in applying[d] : q = r
  BY <1>t DEF ApplyFails, PullInv, OneApplied
<1>4. PullGoesOn(d)' /\ PullsFresh(d)' /\ Complete(d)' /\ CpGoesOn(d)'
  <2>1. r \in InPull(d) /\ \A q \in InPull(d) : q \in InPull(d)' \/ q = r
    BY <1>1, <1>3 DEF InPull
  <2>2. InPull(d)' \subseteq InPull(d) /\ Pulling(d)
    BY <1>1 DEF InPull, Pulling
  <2>3. Skipped(d, r.id, r.coll, r.hlc)'
    BY <1>1 DEF Skipped
  <2> QED
    BY <1>1, <2>1, <2>2, <2>3, OnDone
<1> QED
  BY <1>2, <1>4 DEF PullInv

\* A restart drops the pull; the rows and the checkpoint survive.
LEMMA OnReopen ==
    ASSUME FlowInv, NEW d \in Devices, NEW wall \in Wall, Reopen(d, wall)
    PROVE  PullInv(d)'
<1> USE DEF dbVars, loopVars, history
<1>t. TypeOK /\ PullInv(d)
  BY DEF FlowInv, IInv, TypeInv
<1>1. /\ UNCHANGED <<rows, remote, checkpoint, skipped>>
      /\ pc'[d] = "idle" /\ applying'[d] = {} /\ newCp'[d] = Never
  BY <1>t DEF Reopen, TypeOK
<1>2. OneApplied(d)' /\ PullGoesOn(d)' /\ PullsFresh(d)'
  BY <1>1 DEF OneApplied, PullGoesOn, PullsFresh, Pulling
<1>3. Complete(d)' /\ CpGoesOn(d)'
  BY <1>t, <1>1 DEF PullInv, Complete, Done, Reached, Skipped, CpGoesOn, Had, Pulling
<1> QED
  BY <1>2, <1>3 DEF PullInv

LEMMA OnGet ==
    ASSUME FlowInv, NEW d \in Devices, NEW r \in pulled[d], ApplyGet(d, r)
    PROVE  PullInv(d)'
<1> USE DEF dbVars, loopVars, history
<1>t. TypeOK /\ PullInv(d)
  BY DEF FlowInv, IInv, TypeInv
<1>1. /\ UNCHANGED <<rows, remote, checkpoint, newCp, skipped>>
      /\ pc[d] = "apply" /\ pc'[d] = "upsert"
      /\ pulled'[d] = pulled[d] \ {r} /\ applying[d] = {} /\ applying'[d] = {r}
  BY <1>t DEF ApplyGet, TypeOK, PullInv, OneApplied
<1>2. OneApplied(d)'
  BY <1>1 DEF OneApplied
<1>3. InPull(d)' = InPull(d) /\ Pulling(d)
  BY <1>1 DEF InPull, Pulling
<1>4. PullGoesOn(d)' /\ PullsFresh(d)'
  BY <1>t, <1>1, <1>3 DEF PullInv, PullGoesOn, PullsFresh, Done, Reached, Skipped, Late
<1>5. Complete(d)' /\ CpGoesOn(d)'
  BY <1>t, <1>1, <1>3 DEF PullInv, Complete, Done, Reached, Skipped, CpGoesOn, Had
<1> QED
  BY <1>2, <1>4, <1>5 DEF PullInv

\* The row is put to what was pulled.  If it was written meanwhile it may fall back, but
\* then the store has more by now than the checkpoint of this pull will pass.
LEMMA OnUpsert ==
    ASSUME FlowInv, NEW d \in Devices, NEW r \in applying[d], ApplyUpsert(d, r)
    PROVE  PullInv(d)'
<1> USE DEF dbVars, loopVars, history
<1>t. TypeOK /\ PullInv(d) /\ IInv /\ KeepCollections
  BY DEF FlowInv, IInv, TypeInv
<1>0. r \in InPull(d)
  BY DEF InPull
<1>1. /\ UNCHANGED <<remote, checkpoint, newCp, pulled, applying, skipped>>
      /\ pc[d] = "upsert" /\ pc'[d] = "remove"
      /\ \A id \in Ids : rows'[d][id].hlc = IF id = r.id THEN r.hlc ELSE rows[d][id].hlc
  BY <1>t DEF ApplyUpsert, UpsertRemote, TypeOK
<1>2. OneApplied(d)'
  BY <1>t, <1>0, <1>1, OrderTypes, AtLeastTransitive DEF PullInv, OneApplied
<1>3. ASSUME NEW k \in Keys, Reached(d, k)
      PROVE  Reached(d, k)' \/ Late(d, k)
  <2>0. CASE remote[k].hlc = Never
    <3>1. rows'[d][k[1]].hlc \in Stamp
      BY <1>t, <1>0, <1>1, OrderTypes
    <3> QED
      BY <1>1, <2>0, <3>1, NeverIsLeast DEF Reached
  <2>1. CASE k[1] # r.id
    BY <1>t, <1>1, <1>3, <2>1, OrderTypes DEF Reached
  <2>2. CASE k[1] = r.id /\ remote[k].hlc # Never
    <3>1. k = <<r.id, r.coll>> /\ rows'[d][k[1]].hlc = r.hlc
      BY <1>t, <1>0, <1>1, <2>2, PulledRecord, OrderTypes
    <3>2. AtLeast(r.hlc, remote[k].hlc) \/ Late(d, k)
      BY <1>t, <1>0, <1>1, <3>1 DEF PullInv, PullsFresh, Pulling
    <3> QED
      BY <1>1, <3>1, <3>2 DEF Reached
  <2> QED
    BY <2>0, <2>1, <2>2
<1>4. ASSUME NEW k \in Keys, Done(d, k)
      PROVE  Done(d, k)' \/ Late(d, k)
  BY <1>1, <1>3, <1>4 DEF Done, Skipped
<1>5. \A k \in Keys : Late(d, k)' <=> Late(d, k)
  BY <1>1 DEF Late, InPull
<1>6. PullGoesOn(d)'
  <2> SUFFICES ASSUME NEW k \in Keys
               PROVE  \/ Done(d, k)' \/ Late(d, k)
                      \/ \E q \in InPull(d)' : k = <<q.id, q.coll>> /\ q.hlc = remote'[k].hlc
    BY <1>5 DEF PullGoesOn
  <2>1. \/ Done(d, k) \/ Late(d, k)
        \/ \E q \in InPull(d) : k = <<q.id, q.coll>> /\ q.hlc = remote[k].hlc
    BY <1>t, <1>1 DEF PullInv, PullGoesOn, Pulling
  <2> QED
    BY <1>1, <1>4, <2>1 DEF InPull
<1>7. PullsFresh(d)'
  <2>1. \A q \in InPull(d) : <<q.id, q.coll>> \in Keys
    BY <1>t, OrderTypes
  <2> QED
    BY <1>t, <1>1, <1>5, <2>1 DEF PullInv, PullsFresh, Pulling, InPull
<1>8. Complete(d)'
  <2> SUFFICES ASSUME NEW k \in Keys, AtLeast(checkpoint[d], remote[k].hlc)
               PROVE  Done(d, k)'
    BY <1>1 DEF Complete
  <2>1. Done(d, k)
    BY <1>t DEF PullInv, Complete
  <2>2. ~Late(d, k)
    <3>1. AtLeast(newCp[d], remote[k].hlc)
      <4>1. AtLeast(newCp[d], checkpoint[d])
        BY <1>t, <1>1 DEF PullInv, CpGoesOn, Pulling
      <4>2. {newCp[d], checkpoint[d], remote[k].hlc} \subseteq Stamp
        BY <1>t, OrderTypes
      <4> QED
        BY <4>1, <4>2, AtLeastTransitive
    <3> QED
      BY <3>1 DEF Late, AtLeast
  <2> QED
    BY <1>4, <2>1, <2>2
<1>9. CpGoesOn(d)'
  BY <1>t, <1>1 DEF PullInv, CpGoesOn, Had, Pulling
<1> QED
  BY <1>2, <1>6, <1>7, <1>8, <1>9 DEF PullInv

LEMMA OnRemove ==
    ASSUME FlowInv, NEW d \in Devices, NEW r \in applying[d], ApplyRemove(d, r)
    PROVE  PullInv(d)'
<1> USE DEF dbVars, loopVars, history
<1>t. TypeOK /\ PullInv(d)
  BY DEF FlowInv, IInv, TypeInv
<1>1. /\ UNCHANGED <<rows, remote, checkpoint, pulled, skipped>>
      /\ pc[d] = "remove" /\ pc'[d] = "apply" /\ applying'[d] = {}
      /\ newCp'[d] = Advance(newCp[d], r)
  BY <1>t DEF ApplyRemove, TypeOK
<1>2. AtLeast(rows[d][r.id].hlc, r.hlc) /\ \A q \in applying[d] : q = r
  BY <1>t, <1>1 DEF PullInv, OneApplied
<1>3. OneApplied(d)'
  BY <1>1 DEF OneApplied
<1>4. PullGoesOn(d)' /\ PullsFresh(d)' /\ Complete(d)' /\ CpGoesOn(d)'
  <2>1. r \in InPull(d) /\ \A q \in InPull(d) : q \in InPull(d)' \/ q = r
    BY <1>1, <1>2 DEF InPull
  <2>2. InPull(d)' \subseteq InPull(d) /\ Pulling(d)
    BY <1>1 DEF InPull, Pulling
  <2> QED
    BY <1>1, <1>2, <2>1, <2>2, OnDone
<1> QED
  BY <1>3, <1>4 DEF PullInv

-----------------------------------------------------------------------------
(***************************************************************************)
(* Orderly steps: the invariant and the theorems                            *)
(***************************************************************************)

LEMMA InitFlowInv == Init => FlowInv
<1> SUFFICES ASSUME Init PROVE FlowInv
  OBVIOUS
<1>1. IInv /\ KeepCollections
  BY InitIInv DEF Init, KeepCollections
<1>2. ASSUME NEW d \in Devices PROVE PullInv(d)
  <2>1. \A k \in Keys : remote[k].hlc = Never /\ k[1] \in Ids
    BY DEF Init, EmptyStore, Keys
  <2>2. \A id \in Ids : rows[d][id].hlc = Never
    BY DEF Init, NoRow
  <2>3. \A k \in Keys : Done(d, k)
    BY <2>1, <2>2, StampTypes, NeverIsLeast DEF Done, Reached
  <2>4. pc[d] = "idle" /\ applying[d] = {} /\ checkpoint[d] = Never /\ newCp[d] = Never
    BY DEF Init
  <2> QED
    BY <2>3, <2>4 DEF PullInv, OneApplied, PullsFresh, PullGoesOn, Pulling, Complete, CpGoesOn, Had
<1> QED
  BY <1>1, <1>2 DEF FlowInv

LEMMA StepFlowInv ==
    FlowInv /\ [Next]_vars /\ [Orderly]_vars /\ IInv' /\ KeepCollections' => FlowInv'
<1> SUFFICES ASSUME FlowInv, [Next]_vars, [Orderly]_vars, IInv', KeepCollections'
             PROVE  FlowInv'
  OBVIOUS
<1>1. InStampOrder /\ NoWriteGoesBack
  <2>1. CASE UNCHANGED vars
    <3>1. UNCHANGED <<rows, remote>>
      BY <2>1 DEF vars, dbVars
    <3>2. \A d \in Devices, id \in Ids : AtLeast(rows[d][id].hlc, rows[d][id].hlc)
      BY OrderTypes, AtLeastTransitive DEF FlowInv
    <3> QED
      BY <3>1, <3>2 DEF InStampOrder, NoWriteGoesBack
  <2> QED
    BY <2>1 DEF Orderly
<1>2. ASSUME NEW d \in Devices PROVE PullInv(d)'
  <2>1. CASE Pulls(d)
    BY <2>1, OnPull, OnFinish, OnSkip, OnGet, OnUpsert, OnRemove, OnFails, OnReopen DEF Pulls
  <2>2. CASE Pushes
    BY <1>1, <2>2, OnPush
  <2>3. CASE Quiet(d) /\ ~Pulls(d)
    <3>1. ~\E r \in applying[d] : ApplyUpsert(d, r)
      BY <2>3 DEF Pulls
    <3> QED
      BY <1>1, <2>3, <3>1, OnQuiet
  <2>4. Pushes \/ Quiet(d) \/ Pulls(d)
    BY SeenFrom DEF FlowInv, IInv
  <2> QED
    BY <2>1, <2>2, <2>3, <2>4
<1> QED
  BY <1>2 DEF FlowInv

LEMMA FlowInvariance == Spec /\ [][Orderly]_vars /\ []KeepCollections => []FlowInv
  BY InitFlowInv, StepFlowInv, Invariance, PTL DEF Spec

\* What the checkpoint has passed is on the device.  Any number of devices write,
\* restart, lose requests and answers and have statements fail, the user clears
\* entries; but as long as what reaches the store is later than all it has, a device
\* never writes below the row it replaces, and every record stays in one collection, a
\* device has every record the store holds up to its checkpoint, but for those a
\* statement failed on.  Without that order it need not: run retry_overtaken.
THEOREM CompleteInOrder ==
    Spec /\ [][Orderly]_vars /\ []KeepCollections => []CheckpointIsComplete
<1>1. FlowInv => CheckpointIsComplete
  <2> SUFFICES ASSUME FlowInv, NEW d \in Devices, NEW k \in Keys,
                      remote[k].hlc # Never, AtLeast(checkpoint[d], remote[k].hlc)
               PROVE  \/ AtLeast(Get(rows[d], k[2], k[1]).hlc, remote[k].hlc)
                      \/ Skipped(d, k[1], k[2], remote[k].hlc)
    BY DEF CheckpointIsComplete
  <2>t. IInv /\ KeepCollections
    BY DEF FlowInv
  <2>1. Done(d, k)
    BY DEF FlowInv, PullInv, Complete
  <2>2. PICK i \in issued : i.id = k[1] /\ i.coll = k[2]
    BY <2>t DEF IInv, NothingInvented, Stamped
  <2>3. Get(rows[d], k[2], k[1]).hlc = rows[d][k[1]].hlc
    BY <2>t, <2>2, OneCollection, OrderTypes
  <2> QED
    BY <2>1, <2>3 DEF Done, Reached
<1> QED
  BY <1>1, FlowInvariance, PTL

\* With nothing left to push or pull, a row has the stamp of the store.
LEMMA SettledRow ==
    ASSUME FlowInv, Settled, discarded = {}, skipped = {},
           NEW d \in Devices, NEW id \in Ids, NEW c \in Colls,
           NEW i \in issued, i.id = id, i.coll = c
    PROVE  rows[d][id].hlc = remote[<<id, c>>].hlc
<1>t. TypeOK /\ NothingInvented /\ NothingForgotten /\ IInv
  BY DEF FlowInv, IInv, TypeInv
<1> DEFINE k == <<id, c>>
<1>k. k \in Keys /\ k[1] = id
  BY DEF Keys
<1> HIDE DEF k
<1>1. rows[d][id].hlc \in Stamp /\ remote[k].hlc \in Stamp
  BY <1>t, <1>k, OrderTypes
<1>2. AtLeast(rows[d][id].hlc, remote[k].hlc)
  <2>1. PullSince(remote, checkpoint[d]) = {}
    BY DEF Settled
  <2>2. AtLeast(checkpoint[d], remote[k].hlc)
    BY <1>k, <2>1 DEF PullSince, AtLeast
  <2>3. Done(d, k)
    BY <1>k, <2>2 DEF FlowInv, PullInv, Complete
  <2> QED
    BY <1>k, <2>3 DEF Done, Skipped, Reached
<1>3. AtLeast(remote[k].hlc, rows[d][id].hlc)
  <2>1. CASE rows[d][id].hlc = Never
    BY <1>1, <2>1, NeverIsLeast
  <2>2. CASE rows[d][id].hlc # Never
    <3>1. PICK j \in issued : j.id = id /\ j.coll = rows[d][id].coll /\ j.hlc = rows[d][id].hlc
      BY <1>t, <2>2 DEF NothingInvented, Present, Stamped
    <3>2. j.coll = c
      BY <3>1 DEF FlowInv, KeepCollections
    <3>3. j.dev \in Devices
      BY <1>t DEF TypeOK, Issue
    <3>4. Covered(j.id, j.coll, j.hlc)
      BY <1>t, <3>3 DEF NothingForgotten, Settled, Queued, GivenUp
    <3> QED
      BY <3>1, <3>2, <3>4 DEF Covered, k
  <2> QED
    BY <2>1, <2>2
<1>4. rows[d][id].hlc = remote[k].hlc
  BY <1>1, <1>2, <1>3, AtLeastTransitive
<1> QED
  BY <1>4 DEF k

\* ... and what the devices show is the last write.  Under the same hypotheses, once
\* nothing is left to push or pull, and if no entry was discarded and no record passed
\* over, every device has, of every record, the version with the highest stamp it was
\* ever given by any of them, whether that is a put or a delete.
THEOREM LastWriteInOrder ==
    Spec /\ [][Orderly]_vars /\ []KeepCollections => []LastWriteWins
<1>1. FlowInv => LastWriteWins
  <2> SUFFICES ASSUME FlowInv, Settled, discarded = {}, skipped = {},
                      NEW d \in Devices, NEW i \in issued
               PROVE  AtLeast(rows[d][i.id].hlc, i.hlc)
    BY DEF LastWriteWins
  <2>1. i.dev \in Devices /\ i.id \in Ids /\ i.coll \in Colls
    BY DEF FlowInv, IInv, TypeInv, TypeOK, Issue
  <2>2. Covered(i.id, i.coll, i.hlc)
    BY <2>1 DEF FlowInv, IInv, NothingForgotten, Settled, Queued, GivenUp
  <2>3. rows[d][i.id].hlc = remote[<<i.id, i.coll>>].hlc
    BY <2>1, SettledRow
  <2> QED
    BY <2>2, <2>3 DEF Covered
<1> QED
  BY <1>1, FlowInvariance, PTL

\* A pulled record has a stamp.
LEMMA PulledStamp ==
    ASSUME TypeInv, PulledIsStamped, ClocksOwn, NEW d \in Devices, NEW r \in applying[d]
    PROVE  r.hlc # Never
<1>1. PICK i \in issued : i.hlc = r.hlc
  BY DEF PulledIsStamped, Stamped
<1>2. i.hlc.node = i.dev /\ i.dev \in Nat \ {0}
  BY RecordSyncAssumption DEF ClocksOwn, TypeInv, TypeOK, Issue
<1> QED
  BY <1>1, <1>2 DEF Never

\* A new row has a stamp.
LEMMA WrittenStamp ==
    ASSUME CountersLast, StampInv, NEW d \in Devices, NEW id \in Ids,
           RowWritten(d, id) \/ RowApplied(d, id)
    PROVE  Present(rows'[d][id])
<1>t. TypeInv /\ ClocksOwn /\ PulledIsStamped
  BY DEF StampInv, IInv
<1>1. CASE RowWritten(d, id)
  BY <1>t, <1>1, WriteIsFresh DEF RowWritten, Present
<1>2. CASE RowApplied(d, id)
  BY <1>t, <1>2, PulledStamp DEF RowApplied, SameContent, Present
<1> QED
  BY <1>1, <1>2

\* No row goes away.
LEMMA PresentStays ==
    ASSUME CountersLast, StampInv, [Next]_vars, NEW d \in Devices, NEW id \in Ids,
           Present(rows[d][id])
    PROVE  Present(rows'[d][id])
<1>1. CASE SameContent(rows'[d][id], rows[d][id])
  BY <1>1 DEF SameContent, Present
<1>2. CASE RowWritten(d, id) \/ RowApplied(d, id)
  BY <1>2, WrittenStamp
<1> QED
  BY <1>1, <1>2, RowContents DEF StampInv, IInv

\* A record that was never written or pulled has the empty row.
AbsentRows == \A d \in Devices, id \in Ids : ~Present(rows[d][id]) => rows[d][id].coll = NoRow.coll

LEMMA StepAbsentRows ==
    ASSUME CountersLast
    PROVE  AbsentRows /\ StampInv /\ [Next]_vars => AbsentRows'
<1> SUFFICES ASSUME AbsentRows, StampInv, [Next]_vars,
                    NEW d \in Devices, NEW id \in Ids, ~Present(rows'[d][id])
             PROVE  rows'[d][id].coll = NoRow.coll
  BY DEF AbsentRows, NoRow, Present
<1>1. ~Present(rows[d][id]) /\ rows[d][id].coll = NoRow.coll
  BY PresentStays DEF AbsentRows
<1>2. CASE SameContent(rows'[d][id], rows[d][id])
  BY <1>1, <1>2 DEF SameContent
<1> QED
  BY <1>2, WrittenStamp, RowContents DEF StampInv, IInv

\* The devices converge.  Under the same hypotheses, and if no device that writes is
\* restarted (so that a stamp names one version), once nothing is left to push or pull,
\* and if no entry was discarded and no record passed over, all devices show the same
\* version of every record: a row is as recent as the store (its checkpoint has passed
\* it), the store as recent as the row (nothing is forgotten).
THEOREM ConvergedInOrder ==
    ASSUME CountersLast
    PROVE  Spec /\ [][Orderly]_vars /\ []KeepCollections => []Converged
<1>1. FlowInv /\ StampInv /\ AbsentRows => Converged
  <2> SUFFICES ASSUME FlowInv, StampInv, AbsentRows, Settled, discarded = {}, skipped = {},
                      NEW d1 \in Devices, NEW d2 \in Devices, NEW id \in Ids
               PROVE  SameVersion(rows[d1][id], rows[d2][id])
    BY DEF Converged, AllTheSame
  <2>t. TypeOK /\ NothingInvented /\ CopiesAgree /\ IInv /\ KeepCollections
    BY DEF StampInv, IInv, TypeInv, FlowInv
  <2> DEFINE Alike == rows[d1][id].coll = rows[d2][id].coll /\ rows[d1][id].hlc = rows[d2][id].hlc
  <2>1. ASSUME NEW d \in Devices, Present(rows[d][id])
        PROVE  Alike
    <3>1. PICK i \in issued : i.id = id /\ i.coll = rows[d][id].coll
      BY <2>t, <2>1 DEF NothingInvented, Stamped
    <3>2. i.coll \in Colls
      BY <2>t DEF TypeOK, Issue
    <3>3. \A e \in Devices : rows[e][id].hlc = remote[<<id, i.coll>>].hlc
      BY <3>1, <3>2, SettledRow
    <3>4. \A e \in Devices : Present(rows[e][id])
      BY <2>1, <3>3 DEF Present
    <3>5. \A e \in Devices : rows[e][id].coll = i.coll
      BY <2>t, <3>1, <3>2, <3>4, OneCollection
    <3> QED
      BY <3>3, <3>5
  <2>2. ASSUME \A d \in Devices : ~Present(rows[d][id])
        PROVE  Alike
    BY <2>t, <2>2 DEF AbsentRows, Present
  <2>3. Alike
    BY <2>1, <2>2
  <2> DEFINE k == <<id, rows[d1][id].coll>>
  <2>4. k \in Keys /\ k[1] = id /\ k[2] = rows[d1][id].coll /\ k[2] = rows[d2][id].coll
    BY <2>t, <2>3, OrderTypes DEF Keys
  <2> HIDE DEF k
  <2>5. ASSUME NEW d \in Devices, rows[d][id].coll = k[2]
        PROVE  Copy(k, Content(rows[d][id])) /\ Content(rows[d][id]) \in Version
    <3>1. rows[d] \in [Ids -> Row]
      BY <2>t, DeviceTypes
    <3>2. Content(rows[d][id]) \in Version
      BY <3>1 DEF Content, Row, Version
    <3>3. Copy(k, Content(rows[d][id]))
      BY <2>4, <2>5 DEF Copy, RowCopy
    <3> QED
      BY <3>2, <3>3
  <2>6. Agree(Content(rows[d1][id]), Content(rows[d2][id]))
    BY <2>t, <2>4, <2>5 DEF CopiesAgree
  <2> QED
    BY <2>3, <2>6 DEF Agree, Content, SameVersion
<1>2. Init => StampInv /\ AbsentRows
  BY InitStampInv DEF Init, AbsentRows
<1>3. StampInv /\ AbsentRows /\ [Next]_vars => StampInv' /\ AbsentRows'
  BY StepStampInv, StepAbsentRows
<1> QED
  BY <1>1, <1>2, <1>3, FlowInvariance, PTL DEF Spec

-----------------------------------------------------------------------------
(***************************************************************************)
(* One writer whose pushes are answered                                     *)
(***************************************************************************)

\* One writer, that is not restarted, whose pushes are answered and whose statements
\* do not fail; readers are under every fault.
InOrder(w) ==
    /\ CountersLast
    /\ \A d \in Devices \ {w} : MaxWrites[d] = 0
    /\ Faults[w] \subseteq {"clear"}

\* What a push cycle of d holds, and what is left to be answered.
InHand(d) == peeked[d] \cup batch[d]
Answered(d, e) == pc[d] \in {"settle", "mark"} /\ e.seq = First(batch[d]).seq
Unsent(d) == {e \in Entries(d) : ~Answered(d, e)}

\* Only w writes, and what it has put is still there.
WritesHere(w) ==
    /\ \A i \in issued : i.dev = w
    /\ \A i \in issued : ~i.deleted => Present(rows[w][i.id])

\* No entry waits for a retry, and each is held once.
NoRetries(w) ==
    /\ IsFiniteSet(outbox[w]) /\ \A e \in outbox[w] : e.ready
    /\ reply[w] # "transient"
    /\ pc[w] # "build" => peeked[w] = {}
    /\ pc[w] = "mark" => \A e \in outbox[w] : ~Answered(w, e)
    /\ \A e, f \in outbox[w] : e.seq = f.seq => e = f
    /\ \A e, f \in InHand(w) : e.seq = f.seq => e = f
    /\ \A e \in peeked[w], f \in batch[w] : e.seq # f.seq

\* A batch comes before the rest of the outbox, and seqs and stamps agree.
InFront(w) ==
    /\ \A e, f \in Entries(w) : e.seq < f.seq => Less(e.hlc, f.hlc)
    /\ \A b \in InHand(w), f \in outbox[w] :
          (\A c \in InHand(w) : c.seq # f.seq) => b.seq < f.seq

\* What is left to be pushed is later than all the store has.
Ahead(w) == \A e \in Unsent(w), k \in Keys : Less(remote[k].hlc, e.hlc)

WriterInv(w) == WritesHere(w) /\ NoRetries(w) /\ InFront(w) /\ Ahead(w)

\* The inductive invariant.
OrderInv(w) == StampInv /\ KeepCollections /\ WriterInv(w)

-----------------------------------------------------------------------------
(***************************************************************************)
(* Who does what                                                            *)
(***************************************************************************)

\* The steps of a pull that does not fail in the middle.
PullMove(d) ==
    \/ Pull(d) \/ PullFails(d) \/ FinishPull(d)
    \/ \E r \in pulled[d] : ApplySkip(d, r) \/ ApplyGet(d, r)
    \/ \E r \in applying[d] : ApplyUpsert(d, r) \/ ApplyRemove(d, r)

\* What else a device does that only reads: a cycle begins, a record is not written, a
\* restart.
ReaderMove(d) ==
    \/ PeekOutbox(d)
    \/ \E r \in pulled[d] \cup applying[d] : ApplyFails(d, r)
    \/ \E wall \in Wall : Reopen(d, wall)

LEMMA WriterIsFine ==
    ASSUME NEW w \in Devices, InOrder(w)
    PROVE  /\ ~Db(w) /\ "network" \notin Faults[w] /\ "crash" \notin Faults[w]
           /\ \A d \in Devices : d # w => MaxWrites[d] = 0
  BY DEF InOrder, Db

\* Devices other than the writer have nothing to push.
LEMMA ReadersSilent ==
    ASSUME NEW w \in Devices, OrderInv(w), NEW d \in Devices, d # w
    PROVE  Entries(d) = {}
  BY DEF OrderInv, WriterInv, WritesHere, StampInv, IInv, EntriesAreWrites, WriteOf

LEMMA OrderSteps ==
    ASSUME NEW w \in Devices, InOrder(w), OrderInv(w), [Next]_vars
    PROVE  \/ UNCHANGED vars
           \/ \E c \in Colls, id \in Ids, wall \in Wall : Put(w, c, id, wall) \/ Delete(w, c, id, wall)
           \/ \E e \in outbox[w] : ClearError(w, e)
           \/ PeekOutbox(w) \/ BuildEntry(w) \/ PushAnswered(w)
           \/ SettleOk(w) \/ SettleMark(w) \/ SettleConflict(w)
           \/ \E d \in Devices : PullMove(d)
           \/ \E d \in Devices \ {w} : ReaderMove(d)
<1> DEFINE Fine == \/ UNCHANGED vars
                   \/ \E c \in Colls, id \in Ids, wall \in Wall :
                         Put(w, c, id, wall) \/ Delete(w, c, id, wall)
                   \/ \E e \in outbox[w] : ClearError(w, e)
                   \/ PeekOutbox(w) \/ BuildEntry(w) \/ PushAnswered(w)
                   \/ SettleOk(w) \/ SettleMark(w) \/ SettleConflict(w)
                   \/ \E d \in Devices : PullMove(d)
                   \/ \E d \in Devices \ {w} : ReaderMove(d)
<1>t. TypeInv /\ reply[w] # "transient" /\ \A e \in outbox[w] : e.ready
  BY DEF OrderInv, StampInv, IInv, WriterInv, NoRetries
<1>1. ASSUME NEW d \in Devices, PullStep(d)
      PROVE  PullMove(d) \/ (d # w /\ ReaderMove(d))
  <2>1. ASSUME NEW r \in pulled[d] \cup applying[d], ApplyFails(d, r)
        PROVE  d # w /\ ReaderMove(d)
    BY <2>1, WriterIsFine DEF ApplyFails, ReaderMove
  <2> QED
    BY <1>1, <2>1 DEF PullStep, PullMove
<1>2. ASSUME NEW d \in Devices, NEW wall \in Wall, Reopen(d, wall)
      PROVE  d # w /\ ReaderMove(d)
  BY <1>2, WriterIsFine DEF Reopen, ReaderMove
<1>3. /\ ~PushUnanswered(w) /\ ~SettleTransient(w) /\ ~SettleOpenFails(w)
      /\ \A e \in outbox[w] : ~BackoffPasses(w, e)
  BY <1>t, WriterIsFine DEF PushUnanswered, SettleTransient, SettleOpenFails, BackoffPasses
<1>4. ASSUME NEW d \in Devices, d # w
      PROVE  /\ outbox[d] = {} /\ pc[d] \notin {"build", "push", "settle", "mark"}
             /\ \A c \in Colls, id \in Ids, wall \in Wall :
                   ~Put(d, c, id, wall) /\ ~Delete(d, c, id, wall)
  <2>1. outbox[d] = {} /\ peeked[d] = {} /\ batch[d] = {}
    BY <1>4, ReadersSilent DEF Entries
  <2>2. ~(nextSeq[d] <= MaxWrites[d])
    BY <1>t, <1>4, WriterIsFine DEF TypeInv, TypeOK
  <2>3. pc[d] \notin {"build", "push", "settle", "mark"}
    BY <1>t, <2>1 DEF TypeInv, LoopShape
  <2>4. \A c \in Colls, id \in Ids, wall \in Wall :
           ~Put(d, c, id, wall) /\ ~Delete(d, c, id, wall)
    BY <2>2 DEF Put, Delete
  <2> QED
    BY <2>1, <2>3, <2>4
<1>5. ASSUME NEW d \in Devices, d # w, PushStep(d)
      PROVE  PeekOutbox(d)
  BY <1>4, <1>5 DEF PushStep, BuildEntry, PushAnswered, PushUnanswered, SettleOk,
                    SettleMark, SettleConflict, SettleTransient, SettleOpenFails
<1>6. CASE UNCHANGED vars
  BY <1>6
<1>7. ASSUME NEW d \in Devices, Actor(d)
      PROVE  Fine
  BY <1>4, <1>7 DEF Actor
<1>8. ASSUME NEW d \in Devices, SyncLoop(d)
      PROVE  Fine
  <2>1. CASE d = w /\ PushStep(d)
    BY <1>3, <2>1 DEF PushStep
  <2>2. CASE d # w /\ PushStep(d)
    BY <1>5, <2>2 DEF ReaderMove
  <2> QED
    BY <1>1, <1>8, <2>1, <2>2 DEF SyncLoop
<1>9. ASSUME NEW d \in Devices, NEW e \in outbox[d], BackoffPasses(d, e)
      PROVE  FALSE
  BY <1>3, <1>4, <1>9
<1>10. Fine
  BY <1>2, <1>6, <1>7, <1>8, <1>9 DEF Next
<1> QED
  BY <1>10

-----------------------------------------------------------------------------
(***************************************************************************)
(* Steps of the writer                                                     *)
(***************************************************************************)

\* An entry that is due, and is not among those that were peeked, comes later.
LEMMA PeekLowest ==
    ASSUME NEW o \in SUBSET Entry, IsFiniteSet(o), NEW b \in PeekBatch(o), NEW f \in o,
           f.ready, f \notin PeekBatch(o)
    PROVE  b.seq < f.seq
<1> DEFINE due == {e \in o : e.ready}
           Below(n) == {e \in due : e.seq < n}
<1>1. b \in due /\ f \in due /\ b.seq \in Nat /\ f.seq \in Nat
  BY DEF PeekBatch, Entry
<1>2. Cardinality(Below(b.seq)) < PushBatch /\ ~(Cardinality(Below(f.seq)) < PushBatch)
  BY <1>1 DEF PeekBatch
<1>3. SUFFICES ASSUME f.seq <= b.seq PROVE FALSE
  BY <1>1
<1>4. Below(f.seq) \in SUBSET Below(b.seq)
  BY <1>1, <1>3 DEF Entry
<1>5. IsFiniteSet(Below(b.seq))
  BY FS_Subset
<1> HIDE DEF Below
<1>6. /\ Cardinality(Below(f.seq)) <= Cardinality(Below(b.seq))
      /\ Cardinality(Below(f.seq)) \in Nat /\ Cardinality(Below(b.seq)) \in Nat
  <2>1. IsFiniteSet(Below(f.seq)) /\ Cardinality(Below(f.seq)) <= Cardinality(Below(b.seq))
    BY <1>4, <1>5, FS_Subset
  <2> QED
    BY <1>5, <2>1, FS_CardinalityType
<1> QED
  BY <1>2, <1>6, RecordDbAssumption

\* A stamp of the store was given by the writer; so was that of an entry.
LEMMA StampsGiven ==
    ASSUME NEW w \in Devices, OrderInv(w)
    PROVE  /\ \A i \in issued : i.dev = w /\ i.hlc \in Stamp /\ AtLeast(lastHlc[w], i.hlc)
           /\ \A k \in Keys : remote[k].hlc \in Stamp /\ (remote[k].hlc = Never
                                 \/ \E i \in issued : i.hlc = remote[k].hlc)
           /\ \A e \in Entries(w) : \E i \in issued : i.hlc = e.hlc
<1>1. /\ TypeOK /\ ClocksOwn /\ NothingInvented /\ EntriesAreWrites /\ WritesHere(w)
  BY DEF OrderInv, StampInv, IInv, TypeInv, WriterInv
<1>2. \A i \in issued : i.dev = w /\ i.hlc \in Stamp /\ AtLeast(lastHlc[w], i.hlc)
  BY <1>1 DEF TypeOK, Issue, ClocksOwn, WritesHere
<1>3. \A k \in Keys : remote[k].hlc \in Stamp
  BY <1>1 DEF TypeOK, Version
<1>4. \A k \in Keys : remote[k].hlc = Never \/ \E i \in issued : i.hlc = remote[k].hlc
  BY <1>1 DEF NothingInvented, Stamped
<1>5. \A e \in Entries(w) : \E i \in issued : i.hlc = e.hlc
  BY <1>1 DEF EntriesAreWrites, WriteOf
<1> QED
  BY <1>2, <1>3, <1>4, <1>5

\* A new version is later than all the others.
LEMMA WriteIsLatest ==
    ASSUME NEW w \in Devices, InOrder(w), OrderInv(w), NEW d \in Devices, NEW wall \in Wall,
           NEW i, Wrote(d, wall, i)
    PROVE  /\ d = w /\ i.hlc \in Stamp /\ i.hlc # Never
           /\ \A j \in issued : Less(j.hlc, i.hlc)
           /\ \A k \in Keys : Less(remote[k].hlc, i.hlc)
<1>1. d = w
  BY WriterIsFine DEF Wrote, OrderInv, StampInv, IInv, TypeInv, TypeOK
<1>2. /\ i.hlc \in Stamp /\ i.hlc # Never /\ Less(lastHlc[w], i.hlc)
      /\ \A j \in issued : j.hlc # i.hlc
  BY <1>1, WriteIsFresh DEF OrderInv, StampInv, IInv, InOrder
<1>3. lastHlc[w] \in Stamp
  BY DEF OrderInv, StampInv, IInv, TypeInv, TypeOK
<1>4. \A j \in issued : Less(j.hlc, i.hlc)
  BY <1>2, <1>3, StampsGiven, AtLeastTransitive, LessIsTotalOrder
<1>5. \A k \in Keys : Less(remote[k].hlc, i.hlc)
  BY <1>2, <1>4, StampsGiven, NeverIsLeast
<1> QED
  BY <1>1, <1>2, <1>4, <1>5

LEMMA StepWritesHere ==
    ASSUME NEW w \in Devices, InOrder(w), OrderInv(w), [Next]_vars
    PROVE  WritesHere(w)'
<1> USE DEF dbVars, loopVars, history
<1>t. TypeInv /\ WritesHere(w) /\ StampInv /\ CountersLast
  BY DEF OrderInv, StampInv, IInv, WriterInv, InOrder
<1>1. ASSUME NEW i \in issued
      PROVE  i.dev = w /\ (~i.deleted => Present(rows'[w][i.id]))
  BY <1>t, PresentStays DEF WritesHere, TypeInv, TypeOK, Issue
<1>2. CASE UNCHANGED issued
  BY <1>1, <1>2 DEF WritesHere, Present
<1>3. ASSUME NEW c \in Colls, NEW id \in Ids, NEW wall \in Wall,
             Put(w, c, id, wall) \/ Delete(w, c, id, wall)
      PROVE  WritesHere(w)'
  <2> DEFINE h == Tick(lastHlc[w], wall)
  <2>1. PICK x \in BOOLEAN :
           /\ issued' = issued \cup {[dev |-> w, id |-> id, coll |-> c, hlc |-> h, deleted |-> x]}
           /\ x \/ Put(w, c, id, wall)
    BY <1>3 DEF Put, Delete
  <2>2. PICK j \in issued' : Wrote(w, wall, j)
    BY <1>3, WriteStamps
  <2>3. h # Never
    BY <2>2, WriteIsLatest DEF Wrote
  <2>4. Put(w, c, id, wall) => Present(rows'[w][id])
    BY <1>t, <2>3 DEF Put, Upsert, Present, TypeInv, TypeOK
  <2> HIDE DEF h
  <2>5. \A i \in issued' : i.dev = w /\ (~i.deleted => Present(rows'[w][i.id]))
    BY <1>1, <2>1, <2>4
  <2> QED
    BY <2>5 DEF WritesHere, Present
<1>4. ASSUME NEW d \in Devices, PullMove(d) PROVE UNCHANGED issued
  BY <1>4 DEF PullMove, Pull, PullFails, FinishPull, ApplySkip, ApplyGet, ApplyUpsert, ApplyRemove
<1>5. UNCHANGED vars => UNCHANGED issued
  BY DEF vars
<1>6. \A e \in outbox[w] : ClearError(w, e) => UNCHANGED issued
  BY DEF ClearError
<1>7. ASSUME NEW d \in Devices,
             PeekOutbox(d) \/ BuildEntry(d) \/ PushAnswered(d) \/ SettleOk(d) \/ SettleMark(d)
                \/ SettleConflict(d) \/ ReaderMove(d)
      PROVE  UNCHANGED issued
  BY <1>7 DEF PeekOutbox, BuildEntry, PushAnswered, SettleOk, SettleMark, SettleConflict,
              ReaderMove, ApplyFails, Reopen
<1> QED
  BY <1>2, <1>3, <1>4, <1>5, <1>6, <1>7, OrderSteps

\* A step that adds no entry, and does not move the push cycle.
LEMMA WriterShrinks ==
    ASSUME NEW w \in Devices, OrderInv(w), outbox'[w] \subseteq outbox[w],
           peeked'[w] = peeked[w], batch'[w] = batch[w], reply'[w] = reply[w], remote' = remote,
           \/ pc'[w] = pc[w]
           \/ {pc[w], pc'[w]} \subseteq {"idle", "pull", "apply", "upsert", "remove"}
    PROVE  NoRetries(w)' /\ InFront(w)' /\ Ahead(w)'
<1>t. NoRetries(w) /\ InFront(w) /\ Ahead(w)
  BY DEF OrderInv, WriterInv
<1>1. IsFiniteSet(outbox'[w])
  BY <1>t, FS_Subset DEF NoRetries
<1>2. NoRetries(w)'
  BY <1>t, <1>1 DEF NoRetries, Answered, InHand
<1>3. InFront(w)'
  BY <1>t DEF InFront, Entries, InHand
<1>4. Ahead(w)'
  BY <1>t DEF Ahead, Unsent, Answered, Entries
<1> QED
  BY <1>2, <1>3, <1>4

\* The write that is queued last comes last.
LEMMA WriterAdds ==
    ASSUME NEW w \in Devices, InOrder(w), OrderInv(w),
           NEW c \in Colls, NEW id \in Ids, NEW wall \in Wall,
           Put(w, c, id, wall) \/ Delete(w, c, id, wall)
    PROVE  NoRetries(w)' /\ InFront(w)' /\ Ahead(w)'
<1> USE DEF dbVars, loopVars, history
<1>t. TypeInv /\ EntriesAreWrites /\ NoRetries(w) /\ InFront(w) /\ Ahead(w)
  BY DEF OrderInv, StampInv, IInv, WriterInv
<1>1. PICK i : Wrote(w, wall, i)
  BY WriteStamps
<1>2. PICK n : /\ outbox'[w] = outbox[w] \cup {n} /\ n.seq = nextSeq[w] /\ n.hlc = i.hlc /\ n.ready
  <2> DEFINE new(op, v) == NewEntry(nextSeq[w], c, id, op, Tick(lastHlc[w], wall), v)
  <2>1. \A op, v : /\ new(op, v).seq = nextSeq[w] /\ new(op, v).hlc = Tick(lastHlc[w], wall)
                   /\ new(op, v).ready
    BY DEF NewEntry
  <2>2. \E op, v : outbox'[w] = outbox[w] \cup {new(op, v)}
    <3>1. outbox \in [Devices -> SUBSET Entry]
      BY <1>t DEF TypeInv, TypeOK
    <3> DEFINE put == new("upsert", [dev |-> w, n |-> nextSeq[w]])
               del == new("delete", NoData)
    <3>2. \/ outbox' = [outbox EXCEPT ![w] = outbox[w] \cup {put}]
          \/ outbox' = [outbox EXCEPT ![w] = outbox[w] \cup {del}]
      BY DEF Put, Delete
    <3> HIDE DEF new
    <3> QED
      BY <3>1, <3>2
  <2>3. i.hlc = Tick(lastHlc[w], wall)
    BY <1>1 DEF Wrote
  <2> HIDE DEF new
  <2> QED
    BY <2>1, <2>2, <2>3
<1>3. UNCHANGED <<pc, peeked, batch, reply, remote>>
  BY DEF Put, Delete
<1>4. /\ \A e \in Entries(w) : e.seq < n.seq /\ Less(e.hlc, n.hlc)
      /\ \A k \in Keys : Less(remote[k].hlc, n.hlc)
  <2>1. /\ \A j \in issued : Less(j.hlc, i.hlc)
        /\ \A k \in Keys : Less(remote[k].hlc, i.hlc)
    BY <1>1, WriteIsLatest
  <2> QED
    BY <1>t, <1>2, <2>1, StampsGiven DEF EntriesAreWrites
<1>5. n.seq \in Nat /\ \A e \in Entries(w) : e.seq \in Nat
  BY <1>t, <1>2 DEF TypeInv, TypeOK, Entries, Entry
<1>6. IsFiniteSet(outbox'[w])
  BY <1>t, <1>2, FS_AddElement DEF NoRetries
<1>7. pc[w] = "mark" => First(batch[w]).seq < n.seq
  BY <1>t, <1>4, FirstExists, DeviceTypes DEF TypeInv, LoopShape, Entries
<1>8. pc[w] = "mark" => First(batch[w]).seq # n.seq
  <2>1. pc[w] = "mark" => First(batch[w]).seq \in Nat
    BY <1>t, FirstExists, DeviceTypes DEF TypeInv, LoopShape, Entry
  <2> QED
    BY <1>5, <1>7, <2>1
<1>9. \A e \in Entries(w) : e.seq # n.seq /\ ~(n.seq < e.seq)
  BY <1>4, <1>5
<1>10. NoRetries(w)'
  BY <1>t, <1>2, <1>3, <1>6, <1>8, <1>9 DEF NoRetries, Answered, InHand, Entries
<1>11. InFront(w)'
  <2>1. \A e, f \in Entries(w)' : e.seq < f.seq => Less(e.hlc, f.hlc)
    BY <1>t, <1>2, <1>3, <1>4, <1>5, <1>9 DEF InFront, Entries
  <2>2. \A b \in InHand(w) : b.seq < n.seq
    BY <1>4 DEF InHand, Entries
  <2> QED
    BY <1>t, <1>2, <1>3, <2>1, <2>2 DEF InFront, InHand
<1>12. Ahead(w)'
  BY <1>t, <1>2, <1>3, <1>4 DEF Ahead, Unsent, Answered, Entries
<1> QED
  BY <1>10, <1>11, <1>12

\* The lowest seqs are peeked.
LEMMA WriterPeeks ==
    ASSUME NEW w \in Devices, InOrder(w), OrderInv(w), PeekOutbox(w)
    PROVE  NoRetries(w)' /\ InFront(w)' /\ Ahead(w)'
<1> USE DEF dbVars, loopVars, history
<1>t. TypeInv /\ NoRetries(w) /\ InFront(w) /\ Ahead(w)
  BY DEF OrderInv, StampInv, IInv, WriterInv
<1> DEFINE entries == PeekBatch(outbox[w])
<1>1. /\ pc[w] = "idle" /\ peeked'[w] = entries
      /\ pc'[w] = IF entries = {} THEN "pull" ELSE "build"
      /\ outbox' = outbox /\ batch' = batch /\ reply' = reply /\ remote' = remote
  BY <1>t, WriterIsFine DEF PeekOutbox, TypeInv, TypeOK
<1>2. peeked[w] = {} /\ batch[w] = {}
  BY <1>t, <1>1 DEF NoRetries, OrderInv, StampInv, PullsAlone
<1>3. entries \subseteq outbox[w] /\ outbox[w] \in SUBSET Entry
  BY <1>t, DeviceTypes DEF PeekBatch, TypeInv
<1>4. \A b \in entries, f \in outbox[w] : f \notin entries => b.seq < f.seq
  BY <1>t, <1>3, PeekLowest DEF NoRetries
<1> HIDE DEF entries
<1>5. NoRetries(w)'
  BY <1>t, <1>1, <1>2, <1>3 DEF NoRetries, Answered, InHand
<1>6. InFront(w)'
  BY <1>t, <1>1, <1>2, <1>3, <1>4 DEF InFront, InHand, Entries
<1>7. Ahead(w)'
  BY <1>t, <1>1, <1>2, <1>3 DEF Ahead, Unsent, Answered, Entries
<1> QED
  BY <1>5, <1>6, <1>7

\* Every peeked entry is sent: the row of a put is there.
LEMMA WriterBuilds ==
    ASSUME NEW w \in Devices, InOrder(w), OrderInv(w), BuildEntry(w)
    PROVE  NoRetries(w)' /\ InFront(w)' /\ Ahead(w)'
<1> USE DEF dbVars, loopVars, history
<1>t. /\ TypeInv /\ EntriesAreWrites /\ WritesHere(w)
      /\ NoRetries(w) /\ InFront(w) /\ Ahead(w)
  BY DEF OrderInv, StampInv, IInv, WriterInv
<1> DEFINE e == First(peeked[w])
           row == Get(rows[w], e.coll, e.id)
<1>1. e \in peeked[w] /\ e \in Entry
  BY <1>t, FirstExists, DeviceTypes DEF BuildEntry, TypeInv, LoopShape
<1>2. e.op = "delete" \/ Present(row)
  <2>1. PICK i \in issued : WriteOf(i, w, e)
    BY <1>t, <1>1 DEF EntriesAreWrites, Entries
  <2>2. e.op # "delete" => Present(rows[w][e.id])
    BY <1>t, <2>1 DEF WritesHere, WriteOf
  <2>3. row.hlc = rows[w][e.id].hlc
    BY <1>1, <2>1, OneCollection DEF WriteOf, Entry, OrderInv, StampInv
  <2> QED
    BY <2>2, <2>3 DEF Present
<1>3. PICK f : /\ SameWrite(e, f)
               /\ batch'[w] = batch[w] \cup {f} /\ peeked'[w] = peeked[w] \ {e}
               /\ pc'[w] = IF peeked[w] \ {e} # {} THEN "build" ELSE NextPush(batch'[w])
  <2> DEFINE v == IF e.op = "delete" THEN NoData ELSE row.data
             g == [e EXCEPT !.data = v]
  <2>1. SameWrite(e, g)
    BY <1>1 DEF SameWrite, Entry
  <2>2. /\ batch' = [batch EXCEPT ![w] = batch[w] \cup {g}]
        /\ pc' = [pc EXCEPT ![w] = IF peeked[w] \ {e} # {} THEN "build"
                                   ELSE NextPush(batch[w] \cup {g})]
        /\ peeked' = [peeked EXCEPT ![w] = peeked[w] \ {e}]
    BY <1>2, WriterIsFine DEF BuildEntry
  <2> HIDE DEF g
  <2>3. /\ batch'[w] = batch[w] \cup {g} /\ peeked'[w] = peeked[w] \ {e}
        /\ pc'[w] = IF peeked[w] \ {e} # {} THEN "build" ELSE NextPush(batch'[w])
    BY <1>t, <2>2 DEF TypeInv, TypeOK
  <2> QED
    BY <2>1, <2>3
<1>4. pc[w] = "build" /\ outbox' = outbox /\ reply' = reply /\ remote' = remote
  BY DEF BuildEntry
<1>5. pc'[w] = "build" \/ (pc'[w] = "push" /\ peeked'[w] = {})
  BY <1>3, NextPushType
<1>6. f.seq = e.seq /\ f.hlc = e.hlc
  BY <1>3 DEF SameWrite
<1> HIDE DEF e
<1>7. NoRetries(w)'
  BY <1>t, <1>1, <1>3, <1>4, <1>5, <1>6 DEF NoRetries, Answered, InHand
<1>8. InFront(w)'
  <2>1. \A x, y \in Entries(w)' : x.seq < y.seq => Less(x.hlc, y.hlc)
    BY <1>t, <1>1, <1>3, <1>4, <1>6 DEF InFront, Entries
  <2>2. \A b \in InHand(w)', x \in outbox[w] :
           (\A c \in InHand(w)' : c.seq # x.seq) => b.seq < x.seq
    BY <1>t, <1>1, <1>3, <1>6 DEF InFront, InHand
  <2> QED
    BY <1>4, <2>1, <2>2 DEF InFront
<1>9. Ahead(w)'
  BY <1>t, <1>1, <1>3, <1>4, <1>5, <1>6 DEF Ahead, Unsent, Answered, Entries
<1> QED
  BY <1>7, <1>8, <1>9

\* The store gets the next stamp.
LEMMA WriterPushes ==
    ASSUME NEW w \in Devices, InOrder(w), OrderInv(w), PushAnswered(w)
    PROVE  NoRetries(w)' /\ InFront(w)' /\ Ahead(w)'
<1> USE DEF dbVars, loopVars, history
<1>t. TypeInv /\ NoRetries(w) /\ InFront(w) /\ Ahead(w)
  BY DEF OrderInv, StampInv, IInv, WriterInv
<1> DEFINE e == First(batch[w])
<1>1. /\ pc[w] = "push" /\ pc'[w] = "settle" /\ reply'[w] \in {"ok", "conflict"}
      /\ remote' = PushOne(remote, e)
      /\ outbox' = outbox /\ batch' = batch /\ peeked' = peeked /\ peeked[w] = {}
  BY <1>t DEF PushAnswered, TypeInv, TypeOK, NoRetries
<1>2. e \in batch[w] /\ e \in Entry /\ \A f \in batch[w] : e.seq <= f.seq
  BY <1>t, <1>1, FirstExists, DeviceTypes DEF TypeInv, LoopShape
<1>3. NoRetries(w)' /\ InFront(w)'
  BY <1>t, <1>1 DEF NoRetries, InFront, Answered, InHand, Entries
<1>4. ASSUME NEW f \in Unsent(w)'
      PROVE  f \in Unsent(w) /\ Less(e.hlc, f.hlc)
  <2>1. f \in Entries(w) /\ f.seq # e.seq /\ f \in Unsent(w) /\ f.seq \in Nat /\ e.seq \in Nat
    BY <1>t, <1>1, <1>2 DEF Unsent, Answered, Entries, TypeInv, TypeOK, Entry
  <2>2. e.seq < f.seq
    <3>1. CASE \E c \in batch[w] : c.seq = f.seq
      BY <1>2, <2>1, <3>1
    <3>2. CASE \A c \in batch[w] : c.seq # f.seq
      BY <1>t, <1>1, <1>2, <2>1, <3>2 DEF InFront, InHand, Entries
    <3> QED
      BY <3>1, <3>2
  <2> QED
    BY <1>t, <1>2, <2>1, <2>2 DEF InFront, Entries
<1>5. ASSUME NEW k \in Keys PROVE remote'[k].hlc \in {remote[k].hlc, e.hlc}
  <2>1. remote \in [Keys -> Version]
    BY <1>t DEF TypeInv, TypeOK
  <2> HIDE DEF e
  <2> DEFINE v == [hlc |-> e.hlc, data |-> e.data, deleted |-> e.op = "delete"]
  <2>2. remote' = remote \/ remote' = [remote EXCEPT ![<<e.id, e.coll>>] = v]
    BY <1>1 DEF PushOne
  <2>3. v.hlc = e.hlc
    OBVIOUS
  <2> HIDE DEF v
  <2> QED
    BY <2>1, <2>2, <2>3
<1>6. Ahead(w)'
  BY <1>t, <1>4, <1>5 DEF Ahead
<1> QED
  BY <1>3, <1>6

\* An answered entry leaves the outbox, and then the batch.
LEMMA WriterSettles ==
    ASSUME NEW w \in Devices, InOrder(w), OrderInv(w),
           SettleOk(w) \/ SettleMark(w) \/ SettleConflict(w)
    PROVE  NoRetries(w)' /\ InFront(w)' /\ Ahead(w)'
<1> USE DEF dbVars, loopVars, history
<1>t. TypeInv /\ NoRetries(w) /\ InFront(w) /\ Ahead(w)
  BY DEF OrderInv, StampInv, IInv, WriterInv
<1> DEFINE e == First(batch[w])
<1>1. pc[w] \in {"settle", "mark"} /\ peeked[w] = {} /\ peeked' = peeked /\ remote' = remote
  BY <1>t DEF SettleOk, SettleMark, SettleConflict, NoRetries
<1>2. e \in batch[w]
  BY <1>t, <1>1, FirstExists, DeviceTypes DEF TypeInv, LoopShape
<1>3. outbox'[w] = IF SettleMark(w) THEN outbox[w] ELSE {f \in outbox[w] : f.seq # e.seq}
  BY <1>t, WriterIsFine DEF SettleOk, SettleMark, SettleConflict, DeleteSeq, TypeInv, TypeOK
<1>4. /\ outbox'[w] \subseteq outbox[w] /\ \A f \in outbox'[w] : f.seq # e.seq
      /\ IsFiniteSet(outbox'[w])
  <2>1. outbox'[w] \subseteq outbox[w] /\ \A f \in outbox'[w] : f.seq # e.seq
    BY <1>t, <1>3 DEF SettleMark, NoRetries, Answered
  <2> QED
    BY <1>t, <2>1, FS_Subset DEF NoRetries
<1>5. CASE SettleOk(w)
  <2>1. pc'[w] = "mark" /\ batch' = batch /\ reply' = reply
    BY <1>t, <1>5 DEF SettleOk, TypeInv, TypeOK
  <2>2. NoRetries(w)'
    BY <1>t, <1>1, <1>4, <2>1 DEF NoRetries, Answered, InHand
  <2>3. InFront(w)'
    BY <1>t, <1>1, <1>4, <2>1 DEF InFront, InHand, Entries
  <2>4. Ahead(w)'
    BY <1>t, <1>1, <1>4, <2>1 DEF Ahead, Unsent, Answered, Entries
  <2> QED
    BY <2>2, <2>3, <2>4
<1>6. CASE SettleMark(w) \/ SettleConflict(w)
  <2>1. batch'[w] = batch[w] \ {e} /\ reply'[w] = "none" /\ pc'[w] \in {"push", "pull"}
    BY <1>t, <1>6, NextPushType DEF SettleMark, SettleConflict, TypeInv, TypeOK
  <2> HIDE DEF e
  <2>2. NoRetries(w)'
    BY <1>t, <1>1, <1>4, <2>1 DEF NoRetries, InHand
  <2>3. InFront(w)'
    BY <1>t, <1>1, <1>2, <1>4, <2>1 DEF InFront, InHand, Entries
  <2>4. \A f \in batch'[w] : f.seq # e.seq
    BY <1>t, <1>2, <2>1 DEF NoRetries, InHand
  <2>5. Ahead(w)'
    BY <1>t, <1>1, <1>4, <2>1, <2>4 DEF Ahead, Unsent, Answered, Entries, e
  <2> QED
    BY <2>2, <2>3, <2>5
<1> QED
  BY <1>5, <1>6

LEMMA StepWriter ==
    ASSUME NEW w \in Devices, InOrder(w), OrderInv(w), [Next]_vars
    PROVE  WriterInv(w)'
<1> USE DEF dbVars, loopVars, history
<1> DEFINE Moved == NoRetries(w)' /\ InFront(w)' /\ Ahead(w)'
<1>t. TypeOK
  BY DEF OrderInv, StampInv, IInv, TypeInv
<1>1. ASSUME outbox'[w] \subseteq outbox[w], UNCHANGED <<peeked, batch, reply, remote>>,
             \/ pc'[w] = pc[w]
             \/ {pc[w], pc'[w]} \subseteq {"idle", "pull", "apply", "upsert", "remove"}
      PROVE  Moved
  BY <1>1, WriterShrinks
<1>2. ASSUME UNCHANGED vars PROVE Moved
  BY <1>1, <1>2 DEF vars
<1>3. ASSUME NEW e \in outbox[w], ClearError(w, e)
      PROVE  Moved
  <2>1. outbox'[w] \subseteq outbox[w]
    BY <1>t, <1>3 DEF ClearError, DeleteSeq, TypeOK
  <2> QED
    BY <1>1, <1>3, <2>1 DEF ClearError
<1>4. ASSUME NEW d \in Devices, PullMove(d)
      PROVE  Moved
  <2>1. UNCHANGED <<peeked, batch, reply, remote>>
    BY <1>4 DEF PullMove, Pull, PullFails, FinishPull, ApplySkip, ApplyGet, ApplyUpsert,
                ApplyRemove
  <2>2. outbox'[w] \subseteq outbox[w]
    <3>1. UNCHANGED outbox \/ \E r \in applying[d] : ApplyRemove(d, r)
      BY <1>4 DEF PullMove, Pull, PullFails, FinishPull, ApplySkip, ApplyGet, ApplyUpsert
    <3>2. ASSUME NEW r \in applying[d], ApplyRemove(d, r)
          PROVE  outbox'[w] \subseteq outbox[w]
      <4>1. outbox' = [outbox EXCEPT ![d] = RemoveForRecord(outbox[d], r.coll, r.id)]
        BY <1>t, <3>2 DEF ApplyRemove, TypeOK
      <4>2. RemoveForRecord(outbox[d], r.coll, r.id) \subseteq outbox[d]
        BY DEF RemoveForRecord
      <4> QED
        BY <1>t, <4>1, <4>2 DEF TypeOK
    <3> QED
      BY <3>1, <3>2
  <2>3. \/ pc'[w] = pc[w]
        \/ {pc[w], pc'[w]} \subseteq {"idle", "pull", "apply", "upsert", "remove"}
    <3>1. CASE Pull(d) \/ PullFails(d) \/ FinishPull(d)
      BY <1>t, <3>1 DEF Pull, PullFails, FinishPull, TypeOK
    <3>2. ASSUME NEW r \in pulled[d], ApplySkip(d, r) \/ ApplyGet(d, r)
          PROVE  \/ pc'[w] = pc[w]
                 \/ {pc[w], pc'[w]} \subseteq {"idle", "pull", "apply", "upsert", "remove"}
      BY <1>t, <3>2 DEF ApplySkip, ApplyGet, TypeOK
    <3>3. ASSUME NEW r \in applying[d], ApplyUpsert(d, r) \/ ApplyRemove(d, r)
          PROVE  \/ pc'[w] = pc[w]
                 \/ {pc[w], pc'[w]} \subseteq {"idle", "pull", "apply", "upsert", "remove"}
      BY <1>t, <3>3 DEF ApplyUpsert, ApplyRemove, TypeOK
    <3> QED
      BY <1>4, <3>1, <3>2, <3>3 DEF PullMove
  <2> QED
    BY <1>1, <2>1, <2>2, <2>3
<1>5. ASSUME NEW d \in Devices \ {w}, ReaderMove(d)
      PROVE  Moved
  <2> DEFINE Apart == /\ peeked'[w] = peeked[w] /\ pc'[w] = pc[w] /\ batch'[w] = batch[w]
                      /\ reply'[w] = reply[w] /\ UNCHANGED <<outbox, remote>>
  <2>1. Apart
    <3>1. CASE PeekOutbox(d)
      BY <1>t, <3>1 DEF PeekOutbox, TypeOK
    <3>2. ASSUME NEW r \in pulled[d] \cup applying[d], ApplyFails(d, r)
          PROVE  Apart
      BY <1>t, <3>2 DEF ApplyFails, TypeOK
    <3>3. ASSUME NEW wall \in Wall, Reopen(d, wall)
          PROVE  Apart
      BY <1>t, <3>3 DEF Reopen, TypeOK
    <3> QED
      BY <1>5, <3>1, <3>2, <3>3 DEF ReaderMove
  <2> QED
    BY <2>1, WriterShrinks
<1> HIDE DEF Moved
<1>6. ASSUME NEW c \in Colls, NEW id \in Ids, NEW wall \in Wall,
             Put(w, c, id, wall) \/ Delete(w, c, id, wall)
      PROVE  Moved
  BY <1>6, WriterAdds DEF Moved
<1>7. ASSUME \/ PeekOutbox(w) \/ BuildEntry(w) \/ PushAnswered(w)
             \/ SettleOk(w) \/ SettleMark(w) \/ SettleConflict(w)
      PROVE  Moved
  BY <1>7, WriterPeeks, WriterBuilds, WriterPushes, WriterSettles DEF Moved
<1>8. Moved
  BY <1>2, <1>3, <1>4, <1>5, <1>6, <1>7, OrderSteps
<1> QED
  BY <1>8, StepWritesHere DEF WriterInv, Moved

-----------------------------------------------------------------------------
(***************************************************************************)
(* The writer keeps the order                                               *)
(***************************************************************************)

LEMMA InitOrderInv ==
    ASSUME NEW w \in Devices, Init
    PROVE  OrderInv(w)
<1>1. WriterInv(w)
  BY FS_EmptySet DEF Init, WriterInv, WritesHere, NoRetries, InFront, Ahead, Unsent, Entries,
                     InHand
<1>2. KeepCollections
  BY DEF Init, KeepCollections
<1> QED
  BY <1>1, <1>2, InitStampInv DEF OrderInv

LEMMA StepOrderInv ==
    ASSUME NEW w \in Devices, InOrder(w)
    PROVE  OrderInv(w) /\ [Next]_vars /\ KeepCollections' => OrderInv(w)'
<1> SUFFICES ASSUME OrderInv(w), [Next]_vars, KeepCollections' PROVE OrderInv(w)'
  OBVIOUS
<1>1. StampInv'
  BY StepStampInv DEF OrderInv, InOrder
<1> QED
  BY <1>1, StepWriter DEF OrderInv

\* What is pushed is what is ahead of the store.
LEMMA PushesInOrder ==
    ASSUME NEW w \in Devices, OrderInv(w), [Next]_vars
    PROVE  InStampOrder
<1>t. TypeInv /\ Ahead(w)
  BY DEF OrderInv, StampInv, IInv, WriterInv
<1>1. CASE UNCHANGED remote
  BY <1>1 DEF InStampOrder
<1>2. ASSUME NEW d \in Devices, pc[d] = "push", First(batch[d]) \in batch[d],
             remote' = PushOne(remote, First(batch[d]))
      PROVE  InStampOrder
  <2> DEFINE e == First(batch[d])
  <2>1. e \in Entries(d)
    BY <1>2 DEF Entries
  <2>2. d = w
    BY <2>1, ReadersSilent
  <2>3. \A k \in Keys : Less(remote[k].hlc, e.hlc)
    BY <1>t, <1>2, <2>1, <2>2 DEF Ahead, Unsent, Answered
  <2>4. \A k \in Keys : remote'[k].hlc \in {remote[k].hlc, e.hlc}
    <3> DEFINE v == [hlc |-> e.hlc, data |-> e.data, deleted |-> e.op = "delete"]
    <3>1. remote \in [Keys -> Version]
      BY <1>t DEF TypeInv, TypeOK
    <3>2. remote' = remote \/ remote' = [remote EXCEPT ![<<e.id, e.coll>>] = v]
      BY <1>2 DEF PushOne
    <3>3. v.hlc = e.hlc
      OBVIOUS
    <3> HIDE DEF e, v
    <3> QED
      BY <3>1, <3>2, <3>3
  <2> HIDE DEF e
  <2> QED
    BY <2>3, <2>4 DEF InStampOrder
<1> QED
  BY <1>t, <1>1, <1>2, StoreSteps

\* A write is later than the row it replaces.
LEMMA WritesInOrder ==
    ASSUME NEW w \in Devices, InOrder(w), OrderInv(w)
    PROVE  NoWriteGoesBack
<1>t. TypeInv /\ NothingInvented /\ IInv
  BY DEF OrderInv, StampInv, IInv
<1> SUFFICES ASSUME NEW d \in Devices, NEW c \in Colls, NEW id \in Ids, NEW wall \in Wall,
                    Writes(d, c, id, wall)
             PROVE  AtLeast(rows'[d][id].hlc, rows[d][id].hlc)
  BY DEF NoWriteGoesBack
<1>1. PICK i \in issued' : Wrote(d, wall, i)
  BY WriteStamps DEF Writes
<1>2. i.hlc \in Stamp /\ i.hlc # Never /\ \A j \in issued : Less(j.hlc, i.hlc)
  BY <1>1, WriteIsLatest
<1>3. rows[d][id].hlc \in Stamp
  BY <1>t, OrderTypes
<1>4. rows'[d][id].hlc \in {rows[d][id].hlc, i.hlc}
  BY <1>t, <1>1, WriteStep DEF Wrote
<1>5. AtLeast(i.hlc, rows[d][id].hlc)
  <2>1. CASE rows[d][id].hlc = Never
    BY <1>2, <2>1, NeverIsLeast
  <2>2. CASE rows[d][id].hlc # Never
    <3>1. PICK j \in issued : j.hlc = rows[d][id].hlc
      BY <1>t, <2>2 DEF NothingInvented, Stamped, Present
    <3> QED
      BY <1>2, <1>3, <3>1, AtLeastTransitive
  <2> QED
    BY <2>1, <2>2
<1> QED
  BY <1>3, <1>4, <1>5, AtLeastTransitive

\* One writer keeps the order that the theorems above ask for: if one device writes, is
\* not restarted, has its pushes answered and no statement of it fails, and every
\* record stays in one collection, then what it pushes is later than all the store has,
\* and what it writes later than the row it replaces, whatever the readers go through
\* and whenever the user writes or clears an entry.
THEOREM OneWriterInOrder ==
    ASSUME NEW w \in Devices, InOrder(w)
    PROVE  Spec /\ []KeepCollections => [][Orderly]_vars
<1>1. OrderInv(w) /\ [Next]_vars => [Orderly]_vars
  BY PushesInOrder, WritesInOrder DEF Orderly
<1> QED
  BY <1>1, InitOrderInv, StepOrderInv, PTL DEF Spec

\* So, with one writer, what the checkpoint has passed is on the device: however often
\* readers restart, lose requests or fail to write a record, a device has every record
\* the store holds up to its checkpoint, but for those a statement failed on.  When a
\* push goes unanswered it need not: run retry_overtaken.
THEOREM CheckpointsComplete ==
    ASSUME NEW w \in Devices, InOrder(w)
    PROVE  Spec /\ []KeepCollections => []CheckpointIsComplete
  BY OneWriterInOrder, CompleteInOrder, PTL

\* ... the devices converge: once nothing is left to push or pull, and if no entry was
\* discarded and no record passed over, all show the same version of every record.
THEOREM DevicesConverge ==
    ASSUME NEW w \in Devices, InOrder(w)
    PROVE  Spec /\ []KeepCollections => []Converged
<1>1. CountersLast
  BY DEF InOrder
<1> QED
  BY <1>1, OneWriterInOrder, ConvergedInOrder, PTL

\* ... and what they show is the last write: every device has, of every record, the
\* version with the highest stamp it was ever given, whether that is a put or a delete.
THEOREM LastWriteIsShown ==
    ASSUME NEW w \in Devices, InOrder(w)
    PROVE  Spec /\ []KeepCollections => []LastWriteWins
  BY OneWriterInOrder, LastWriteInOrder, PTL
=============================================================================

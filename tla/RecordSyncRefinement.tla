------------------------ MODULE RecordSyncRefinement ------------------------
(***************************************************************************)
(* RecordSync implements LwwReplication, for every value of the constants:  *)
(* the initial states map to an initial state, and under the invariant of   *)
(* RecordSyncProofs every step maps to a step of LwwReplication or to a     *)
(* stutter.                                                                 *)
(***************************************************************************)
EXTENDS RecordSyncProofs

\* The refinement mapping of RecordSync!Lww.
ShownRow(row) == [coll |-> row.coll, mark |-> [hlc |-> row.hlc, deleted |-> row.deleted]]

\* What the abstract store holds: the stored versions without their data.
AbsStore == [k \in Keys |-> [hlc |-> remote[k].hlc, deleted |-> remote[k].deleted]]
AbsView  == [d \in Devices |-> [id \in Ids |-> ShownRow(rows[d][id])]]

\* The initial condition, the variables and the actions of LwwReplication, in
\* terms of the mapping.
LEMMA InitMapped ==
    Lww!AbsInit <=> /\ issued = {}
                    /\ AbsStore = [k \in Ids \X Colls |-> Lww!Blank]
                    /\ \A d \in Devices, id \in Ids : AbsView[d][id].mark = Lww!Blank
  BY DEF Lww!AbsInit, AbsStore, AbsView, ShownRow

\* A step that leaves the mapped state alone is a stutter.
LEMMA StutterMapped ==
    ASSUME UNCHANGED <<issued, AbsStore, AbsView>>
    PROVE  UNCHANGED Lww!absVars
  BY DEF Lww!absVars, AbsStore, AbsView, ShownRow

\* A step that stamps v and shows it (or deletes what the device does not show)
\* is a Write.
LEMMA WriteMapped ==
    ASSUME NEW v \in issued', v \in Issue, issued' = issued \cup {v}, UNCHANGED AbsStore,
           \/ AbsView' = [AbsView EXCEPT ![v.dev] = [@ EXCEPT ![v.id] = Lww!Shown(v)]]
           \/ /\ v.deleted
              /\ AbsView[v.dev][v.id].mark.hlc = Never \/ AbsView[v.dev][v.id].coll # v.coll
              /\ UNCHANGED AbsView
    PROVE  Lww!AbsNext
<1>1. v \in Lww!Stamping
  BY DEF Issue, Lww!Stamping, Lww!Stamp, Stamp
<1>2. Lww!Write(v)
  BY <1>1 DEF Lww!Write, AbsStore, AbsView, ShownRow, Lww!Never, Never
<1> QED
  BY <1>2 DEF Lww!AbsNext

\* A step that stores a later, stamped version is an Accept.
LEMMA AcceptMapped ==
    ASSUME NEW v \in issued, Less(AbsStore[<<v.id, v.coll>>].hlc, v.hlc),
           AbsStore' = [AbsStore EXCEPT ![<<v.id, v.coll>>] = Lww!Mark(v)],
           UNCHANGED <<issued, AbsView>>
    PROVE  Lww!AbsNext
<1>1. Lww!Accept(v)
  BY DEF Lww!Accept, AbsStore, AbsView, ShownRow, Lww!Less, Less
<1> QED
  BY <1>1 DEF Lww!AbsNext

\* A step that shows a version the store covers is an Adopt.
LEMMA AdoptMapped ==
    ASSUME NEW v \in issued, NEW d \in Devices,
           AtLeast(AbsStore[<<v.id, v.coll>>].hlc, v.hlc),
           AbsView' = [AbsView EXCEPT ![d] = [@ EXCEPT ![v.id] = Lww!Shown(v)]],
           UNCHANGED <<issued, AbsStore>>
    PROVE  Lww!AbsNext
<1>1. Lww!Adopt(d, v)
  BY DEF Lww!Adopt, AbsStore, AbsView, ShownRow, Lww!Less, Less, Lww!AtLeast, AtLeast
<1> QED
  BY <1>1 DEF Lww!AbsNext

\* Initial states map to initial states.
LEMMA InitRefines == Init => Lww!AbsInit
<1> SUFFICES ASSUME Init PROVE Lww!AbsInit
  OBVIOUS
<1>1. issued = {}
  BY DEF Init
<1>2. AbsStore = [k \in Ids \X Colls |-> Lww!Blank]
  BY DEF Init, AbsStore, EmptyStore, Keys, Lww!Blank, Lww!Never, Never
<1>3. \A d \in Devices, id \in Ids : AbsView[d][id].mark = Lww!Blank
  BY DEF Init, AbsView, ShownRow, NoRow, Lww!Blank, Lww!Never, Never
<1> QED
  BY <1>1, <1>2, <1>3, InitMapped

\* What devices show depends on the collection, stamp and deleted flag of their
\* rows only, and one rewritten row changes it in one place.
LEMMA ViewUpdate ==
    ASSUME rows \in [Devices -> [Ids -> Row]], NEW d \in Devices, NEW id \in Ids, NEW row,
           rows' = [rows EXCEPT ![d] = [@ EXCEPT ![id] = row]]
    PROVE  AbsView' = [AbsView EXCEPT ![d] = [@ EXCEPT ![id] = ShownRow(row)]]
<1>1. \A a \in Devices, x \in Ids :
         rows'[a][x] = IF a = d /\ x = id THEN row ELSE rows[a][x]
  OBVIOUS
<1> DEFINE V == [AbsView EXCEPT ![d] = [@ EXCEPT ![id] = ShownRow(row)]]
<1>2. \A a \in Devices : AbsView[a] = [x \in Ids |-> ShownRow(rows[a][x])]
  BY DEF AbsView
<1>v. V = [AbsView EXCEPT ![d] = [AbsView[d] EXCEPT ![id] = ShownRow(row)]]
  OBVIOUS
<1>4. V = [a \in Devices |-> V[a]]
  BY DEF AbsView
<1> HIDE DEF V
<1>3. ASSUME NEW a \in Devices
      PROVE  V[a] = [x \in Ids |-> ShownRow(rows'[a][x])]
  <2>1. CASE a = d
    <3>1. V[d] = [AbsView[d] EXCEPT ![id] = ShownRow(row)]
      BY <1>v DEF AbsView
    <3> DEFINE F == AbsView[d]
               G == [x \in Ids |-> ShownRow(rows'[d][x])]
    <3>2. F = [x \in Ids |-> ShownRow(rows[d][x])]
      BY <1>2
    <3>3. \A x \in Ids : G[x] = IF x = id THEN ShownRow(row) ELSE ShownRow(rows[d][x])
      BY <1>1
    <3>4. G = [x \in Ids |-> G[x]]
      OBVIOUS
    <3> HIDE DEF F, G
    <3>5. [F EXCEPT ![id] = ShownRow(row)] = G
      BY <3>2, <3>3, <3>4
    <3> QED
      BY <2>1, <3>1, <3>5 DEF F, G
  <2>2. CASE a # d
    <3>1. V[a] = AbsView[a]
      BY <1>v, <2>2 DEF AbsView
    <3> QED
      BY <1>1, <1>2, <2>2, <3>1
  <2> QED
    BY <2>1, <2>2
<1>5. AbsView' = [a \in Devices |-> [x \in Ids |-> ShownRow(rows'[a][x])]]
  BY DEF AbsView
<1>6. AbsView' = V
  BY <1>3, <1>4, <1>5
<1> QED
  BY <1>6 DEF V

\* What is shown depends on the coll, hlc and deleted columns alone.
LEMMA ViewUnchanged ==
    ASSUME \A d \in Devices, id \in Ids : ShownRow(rows'[d][id]) = ShownRow(rows[d][id])
    PROVE  UNCHANGED AbsView
  BY DEF AbsView

\* The abstract store changes with the store only.
LEMMA StoreUnchanged ==
    ASSUME UNCHANGED remote PROVE UNCHANGED AbsStore
  BY DEF AbsStore

\* The typing facts the steps need, from IInv.
LEMMA Types ==
    ASSUME IInv
    PROVE  /\ rows \in [Devices -> [Ids -> Row]] /\ remote \in [Keys -> Version]
           /\ issued \in SUBSET Issue
           /\ \A d \in Devices, wall \in Wall : Tick(lastHlc[d], wall) \in Stamp
<1>1. TypeOK
  BY DEF IInv, TypeInv
<1>2. \A d \in Devices : lastHlc[d] \in Stamp
  BY <1>1, DeviceTypes
<1>3. \A d \in Devices, wall \in Wall : Tick(lastHlc[d], wall) \in Stamp
  BY <1>2, StampTypes, RecordSyncAssumption
<1> QED
  BY <1>1, <1>3 DEF TypeOK

\* handle_put is a Write.
LEMMA PutRefines ==
    ASSUME IInv, NEW d \in Devices, NEW c \in Colls, NEW id \in Ids, NEW wall \in Wall,
           Put(d, c, id, wall)
    PROVE  Lww!AbsNext
<1> DEFINE v == [dev |-> d, id |-> id, coll |-> c, hlc |-> Tick(lastHlc[d], wall),
                 deleted |-> FALSE]
           row == [coll |-> c, hlc |-> v.hlc, data |-> [dev |-> d, n |-> nextSeq[d]],
                   deleted |-> FALSE, synced |-> FALSE]
<1>1. issued' = issued \cup {v} /\ UNCHANGED remote
  BY DEF Put
<1>2. v \in Issue /\ v \in issued'
  BY <1>1, Types DEF Issue
<1>3. rows' = [rows EXCEPT ![d] = [@ EXCEPT ![id] = row]]
  BY DEF Put, Upsert
<1>4. ShownRow(row) = Lww!Shown(v) /\ v.dev = d /\ v.id = id
  BY DEF ShownRow, Lww!Shown, Lww!Mark
<1> HIDE DEF v, row
<1>5. AbsView' = [AbsView EXCEPT ![v.dev] = [@ EXCEPT ![v.id] = Lww!Shown(v)]]
  BY <1>3, <1>4, Types, ViewUpdate
<1> QED
  BY <1>1, <1>2, <1>5, StoreUnchanged, WriteMapped

\* handle_delete is a Write, of an id the device has in the collection or not.
LEMMA DeleteRefines ==
    ASSUME IInv, NEW d \in Devices, NEW c \in Colls, NEW id \in Ids, NEW wall \in Wall,
           Delete(d, c, id, wall)
    PROVE  Lww!AbsNext
<1> DEFINE v == [dev |-> d, id |-> id, coll |-> c, hlc |-> Tick(lastHlc[d], wall),
                 deleted |-> TRUE]
<1>1. issued' = issued \cup {v} /\ UNCHANGED remote
  BY DEF Delete
<1>2. v \in Issue /\ v \in issued'
  BY <1>1, Types DEF Issue
<1>3. v.dev = d /\ v.id = id /\ v.coll = c /\ v.deleted = TRUE /\ v.hlc = Tick(lastHlc[d], wall)
  OBVIOUS
<1>4. rows' = [rows EXCEPT ![d] = SoftDelete(@, c, id, v.hlc)]
  BY DEF Delete
<1> HIDE DEF v
<1>5. CASE Present(Get(rows[d], c, id))
  <2> DEFINE row == [rows[d][id] EXCEPT !.deleted = TRUE, !.hlc = v.hlc, !.synced = FALSE]
  <2>1. rows[d][id].coll = c /\ rows[d][id] \in Row
    BY <1>5, Types DEF Get, Present, NoRow
  <2>2. row.coll = c /\ row.deleted = TRUE /\ row.hlc = v.hlc
    BY <2>1 DEF Row
  <2>3. rows' = [rows EXCEPT ![d] = [@ EXCEPT ![id] = row]]
    BY <1>4, <1>5, Types DEF SoftDelete
  <2>4. ShownRow(row) = Lww!Shown(v)
    BY <1>3, <2>2 DEF ShownRow, Lww!Shown, Lww!Mark
  <2> HIDE DEF row
  <2>5. AbsView' = [AbsView EXCEPT ![v.dev] = [@ EXCEPT ![v.id] = Lww!Shown(v)]]
    BY <1>3, <2>3, <2>4, Types, ViewUpdate, ZenonT(60)
  <2> QED
    BY <1>1, <1>2, <2>5, StoreUnchanged, WriteMapped
<1>6. CASE ~Present(Get(rows[d], c, id))
  <2>1. rows' = rows
    BY <1>4, <1>6, Types DEF SoftDelete
  <2>2. AbsView' = AbsView
    BY <2>1 DEF AbsView
  <2>3. AbsView[d][id].mark.hlc = Never \/ AbsView[d][id].coll # c
    BY <1>6 DEF Present, Get, AbsView, ShownRow
  <2> QED
    BY <1>1, <1>2, <1>3, <2>2, <2>3, StoreUnchanged, WriteMapped
<1> QED
  BY <1>5, <1>6

\* push_one is an Accept, or a stutter when it answers with a conflict.
LEMMA PushRefines ==
    ASSUME IInv, NEW d \in Devices, First(batch[d]) \in batch[d],
           remote' = PushOne(remote, First(batch[d])), UNCHANGED <<issued, rows>>
    PROVE  Lww!AbsNext \/ UNCHANGED Lww!absVars
<1> DEFINE e == First(batch[d])
           key == <<e.id, e.coll>>
           w == [hlc |-> e.hlc, data |-> e.data, deleted |-> e.op = "delete"]
<1>1. UNCHANGED AbsView
  BY ViewUnchanged
<1>2. CASE Accepts(remote, e)
  <2>1. remote' = [remote EXCEPT ![key] = w] /\ Less(remote[key].hlc, e.hlc)
    BY <1>2 DEF PushOne, Accepts
  <2>2. e \in Entry
    BY DeviceTypes DEF IInv, TypeInv
  <2>3. key \in Keys
    BY <2>2 DEF Keys, Entry
  <2>4. PICK v \in issued : WriteOf(v, d, e)
    BY DEF IInv, EntriesAreWrites, Entries
  <2>5. <<v.id, v.coll>> = key /\ v.hlc = e.hlc
        /\ Lww!Mark(v) = [hlc |-> w.hlc, deleted |-> w.deleted]
    BY <2>4 DEF WriteOf, Lww!Mark
  <2> HIDE DEF w, key, e
  <2>6. \A k \in Keys : remote'[k] = IF k = key THEN w ELSE remote[k]
    BY <2>1, Types
  <2>7. AbsStore' = [AbsStore EXCEPT ![key] = [hlc |-> w.hlc, deleted |-> w.deleted]]
    BY <2>3, <2>6 DEF AbsStore
  <2>8. AbsStore[key].hlc = remote[key].hlc
    BY <2>3 DEF AbsStore
  <2> QED
    BY <1>1, <2>1, <2>5, <2>7, <2>8, AcceptMapped
<1>3. CASE ~Accepts(remote, e)
  <2>1. UNCHANGED remote
    BY <1>3 DEF PushOne
  <2> QED
    BY <1>1, <2>1, StoreUnchanged, StutterMapped
<1> QED
  BY <1>2, <1>3

\* apply_remote_record, at its upsert, is an Adopt.
LEMMA ApplyRefines ==
    ASSUME IInv, NEW d \in Devices, NEW r \in applying[d], ApplyUpsert(d, r)
    PROVE  Lww!AbsNext
<1> DEFINE row == [coll |-> r.coll, hlc |-> r.hlc, data |-> r.data, deleted |-> r.deleted,
                   synced |-> TRUE]
<1>1. r \in RemoteRecord
  BY DeviceTypes DEF IInv, TypeInv
<1>2. rows' = [rows EXCEPT ![d] = [@ EXCEPT ![r.id] = row]] /\ UNCHANGED <<issued, remote>>
  BY DEF ApplyUpsert, UpsertRemote, history
<1>3. PICK v \in issued : /\ v.id = r.id /\ v.coll = r.coll /\ v.hlc = r.hlc
                          /\ v.deleted = r.deleted
  BY DEF IInv, PulledIsStamped, Stamped
<1>4. r.id \in Ids /\ <<r.id, r.coll>> \in Keys
  BY <1>1 DEF RemoteRecord, Keys
<1>5. AtLeast(AbsStore[<<v.id, v.coll>>].hlc, v.hlc)
  BY <1>3, <1>4 DEF IInv, PulledIsCovered, Covered, AbsStore
<1>6. ShownRow(row) = Lww!Shown(v)
  BY <1>3 DEF ShownRow, Lww!Shown, Lww!Mark
<1> HIDE DEF row
<1>7. AbsView' = [AbsView EXCEPT ![d] = [@ EXCEPT ![v.id] = Lww!Shown(v)]]
  BY <1>2, <1>3, <1>4, <1>6, Types, ViewUpdate
<1> QED
  BY <1>2, <1>5, <1>7, StoreUnchanged, AdoptMapped

\* mark_synced shows in the abstract view of no device.
LEMMA MarkRefines ==
    ASSUME IInv, NEW d \in Devices, SettleMark(d)
    PROVE  UNCHANGED Lww!absVars
<1> DEFINE e == First(batch[d])
<1>1. UNCHANGED <<issued, remote>>
  BY DEF SettleMark, history
<1>2. rows' = rows \/ rows' = [rows EXCEPT ![d] = MarkSynced(rows[d], e.coll, e.id)]
  BY DEF SettleMark
<1> HIDE DEF e
<1>3. \A t \in [Ids -> Row], id \in Ids :
         ShownRow(MarkSynced(t, e.coll, e.id)[id]) = ShownRow(t[id])
  BY DEF MarkSynced, Row, ShownRow
<1>4. \A a \in Devices, id \in Ids : ShownRow(rows'[a][id]) = ShownRow(rows[a][id])
  <2>1. CASE rows' = rows
    BY <2>1
  <2>2. CASE rows' = [rows EXCEPT ![d] = MarkSynced(rows[d], e.coll, e.id)]
    <3>1. rows[d] \in [Ids -> Row]
      BY Types
    <3>2. \A a \in Devices : rows'[a] = IF a = d THEN MarkSynced(rows[d], e.coll, e.id)
                                        ELSE rows[a]
      BY <2>2, Types
    <3> QED
      BY <1>3, <3>1, <3>2
  <2> QED
    BY <1>2, <2>1, <2>2
<1> QED
  BY <1>1, <1>4, ViewUnchanged, StoreUnchanged, StutterMapped

\* Every step of RecordSync maps to a step of LwwReplication or to a stutter.
LEMMA StepRefines == IInv /\ [Next]_vars => [Lww!AbsNext]_(Lww!absVars)
<1> SUFFICES ASSUME IInv, [Next]_vars
             PROVE  Lww!AbsNext \/ UNCHANGED Lww!absVars
  OBVIOUS
<1> USE DEF dbVars, history
<1>1. ASSUME UNCHANGED <<rows, remote, issued>>
      PROVE  UNCHANGED Lww!absVars
  <2>1. UNCHANGED AbsView
    BY <1>1, ViewUnchanged
  <2> QED
    BY <1>1, <2>1, StoreUnchanged, StutterMapped
<1>2. ASSUME NEW d \in Devices, Actor(d)
      PROVE  Lww!AbsNext \/ UNCHANGED Lww!absVars
  <2>1. \A e \in outbox[d] : ClearError(d, e) => UNCHANGED <<rows, remote, issued>>
    BY DEF ClearError
  <2> QED
    BY <1>1, <1>2, <2>1, PutRefines, DeleteRefines DEF Actor
<1>3. ASSUME NEW d \in Devices, PushStep(d)
      PROVE  Lww!AbsNext \/ UNCHANGED Lww!absVars
  <2>1. CASE PushAnswered(d) \/ PushUnanswered(d)
    <3>1. First(batch[d]) \in batch[d]
      BY <2>1, FirstExists, DeviceTypes
      DEF PushAnswered, PushUnanswered, IInv, TypeInv, LoopShape
    <3>2. remote' = remote \/ remote' = PushOne(remote, First(batch[d]))
      BY <2>1 DEF PushAnswered, PushUnanswered
    <3>3. UNCHANGED <<rows, issued>>
      BY <2>1 DEF PushAnswered, PushUnanswered
    <3> QED
      BY <1>1, <3>1, <3>2, <3>3, PushRefines
  <2>2. CASE SettleMark(d)
    BY <2>2, MarkRefines
  <2>3. CASE UNCHANGED <<rows, remote, issued>>
    BY <1>1, <2>3
  <2>4. \/ PushAnswered(d) \/ PushUnanswered(d) \/ SettleMark(d)
        \/ UNCHANGED <<rows, remote, issued>>
    BY <1>3 DEF PushStep, PeekOutbox, BuildEntry, SettleOk, SettleConflict, SettleTransient,
                SettleOpenFails
  <2> QED
    BY <2>1, <2>2, <2>3, <2>4
<1>4. ASSUME NEW d \in Devices, PullStep(d)
      PROVE  Lww!AbsNext \/ UNCHANGED Lww!absVars
  <2>1. \/ \E r \in applying[d] : ApplyUpsert(d, r)
        \/ UNCHANGED <<rows, remote, issued>>
    BY <1>4 DEF PullStep, Pull, PullFails, FinishPull, ApplySkip, ApplyGet, ApplyRemove,
                ApplyFails
  <2> QED
    BY <1>1, <2>1, ApplyRefines
<1>5. ASSUME NEW d \in Devices
      PROVE  /\ \A wall \in Wall : Reopen(d, wall) => UNCHANGED <<rows, remote, issued>>
             /\ \A e \in outbox[d] : BackoffPasses(d, e) => UNCHANGED <<rows, remote, issued>>
  BY DEF Reopen, BackoffPasses
<1>6. UNCHANGED vars => UNCHANGED <<rows, remote, issued>>
  BY DEF vars
<1> QED
  BY <1>1, <1>2, <1>3, <1>4, <1>5, <1>6 DEF Next, SyncLoop

\* squirreld's actors, sync loops and store, with every fault modelled, are a
\* last-writer-wins replicated register as LwwReplication specifies it.
THEOREM RefinesLww == Spec => ImplementsLww
<1>1. Spec => []IInv
  BY Invariance
<1> QED
  BY <1>1, InitRefines, StepRefines, PTL DEF Spec, ImplementsLww, Lww!AbsSpec
=============================================================================

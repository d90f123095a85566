--------------------------- MODULE LwwReplication ---------------------------
(***************************************************************************)
(* What squirreld promises of a replicated record, with the outbox, the two  *)
(* tasks, their statements and every fault abstracted away:                 *)
(*   - a device stamps a version and may show it at once,                   *)
(*   - the remote store moves from one stamped version of a record to a     *)
(*     version stamped later, and never back,                               *)
(*   - a device shows nothing else than its own writes and versions the     *)
(*     store has reached.                                                   *)
(* RecordSync implements it (RecordSync!Lww).  It does not say that a       *)
(* device only adopts a version later than its own: the code does not       *)
(* guarantee it.                                                            *)
(***************************************************************************)
EXTENDS Hlc

CONSTANTS Devices, Ids, Colls

VARIABLES
    stamped,        \* every version put or deleted by a device
    store,          \* the store: for each <<id, collection>> a mark
    view            \* what each device holds under each id

\* The whole state.
absVars == <<stamped, store, view>>

\* No version yet.
Blank == [hlc |-> Never, deleted |-> FALSE]

\* A version, with the device that stamped it.
Stamping == [dev : Devices, id : Ids, coll : Colls, hlc : Stamp, deleted : BOOLEAN]

\* What is kept of v where it is stored.
Mark(v) == [hlc |-> v.hlc, deleted |-> v.deleted]

\* The view of v.dev's user, or of any device, once v is what it shows.
Shown(v) == [coll |-> v.coll, mark |-> Mark(v)]

\* Nothing is stamped, stored or shown.
AbsInit ==
    /\ stamped = {}
    /\ store = [k \in Ids \X Colls |-> Blank]
    /\ \A d \in Devices, id \in Ids : view[d][id].mark = Blank

\* The device shows what it wrote, except when it deletes a record it does
\* not have.
Write(v) ==
    /\ v \in Stamping
    /\ stamped' = stamped \cup {v}
    /\ \/ view' = [view EXCEPT ![v.dev] = [@ EXCEPT ![v.id] = Shown(v)]]
       \/ /\ v.deleted
          /\ view[v.dev][v.id].mark.hlc = Never \/ view[v.dev][v.id].coll # v.coll
          /\ UNCHANGED view
    /\ UNCHANGED store

\* The store takes a version stamped later than the one it has.
Accept(v) ==
    /\ Less(store[<<v.id, v.coll>>].hlc, v.hlc)
    /\ store' = [store EXCEPT ![<<v.id, v.coll>>] = Mark(v)]
    /\ UNCHANGED <<stamped, view>>

\* A device shows a version the store has, or has had.
Adopt(d, v) ==
    /\ AtLeast(store[<<v.id, v.coll>>].hlc, v.hlc)
    /\ view' = [view EXCEPT ![d] = [@ EXCEPT ![v.id] = Shown(v)]]
    /\ UNCHANGED <<stamped, store>>

AbsNext ==
    \/ \E v \in stamped' : Write(v)
    \/ \E v \in stamped : Accept(v) \/ \E d \in Devices : Adopt(d, v)

AbsSpec == AbsInit /\ [][AbsNext]_absVars
=============================================================================

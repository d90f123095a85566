--------------------------- MODULE RecordBackend ---------------------------
(***************************************************************************)
(* The remote record store behind the RecordBackend trait                   *)
(* (src/src/backend/mod.rs), as src/src/backend/in_memory.rs and             *)
(* src/src/backend/dynamodb.rs implement it: a map from (record id,          *)
(* collection) to the last accepted version, a conditional put and a range  *)
(* query on the stamp.                                                      *)
(***************************************************************************)
EXTENDS RecordDb

Keys == Ids \X Colls

\* Bug variants: an unconditional put; a condition that lets the same stamp
\* through a second time.
AcceptsAlways(remote, e) == TRUE
AcceptsEqual(remote, e) == AtLeast(e.hlc, remote[<<e.id, e.coll>>].hlc)

\* The condition of the put: "attribute_not_exists(hlc) OR hlc < :local_hlc".
Accepts(remote, e) == Less(remote[<<e.id, e.coll>>].hlc, e.hlc)

EmptyStore == [k \in Keys |-> [hlc |-> Never, data |-> NoData, deleted |-> FALSE]]

\* Bug variant: a delete is stored like an upsert.
PushOneAsLive(remote, e) ==
    IF Accepts(remote, e)
    THEN [remote EXCEPT ![<<e.id, e.coll>>] =
            [hlc |-> e.hlc, data |-> e.data, deleted |-> FALSE]]
    ELSE remote

\* The store after push_one(e) has been evaluated there.
PushOne(remote, e) ==
    IF Accepts(remote, e)
    THEN [remote EXCEPT ![<<e.id, e.coll>>] =
            [hlc |-> e.hlc, data |-> e.data, deleted |-> e.op = "delete"]]
    ELSE remote

\* Bug variant: the query leaves tombstones out.
PullLiveSince(remote, checkpoint) ==
    { [id |-> k[1], coll |-> k[2], hlc |-> remote[k].hlc,
       data |-> remote[k].data, deleted |-> remote[k].deleted] :
       k \in {j \in Keys : Less(checkpoint, remote[j].hlc) /\ ~remote[j].deleted} }

\* pull_since(checkpoint): every version stamped after it.  The caller takes
\* them in ascending order of stamp.
PullSince(remote, checkpoint) ==
    { [id |-> k[1], coll |-> k[2], hlc |-> remote[k].hlc,
       data |-> remote[k].data, deleted |-> remote[k].deleted] :
       k \in {j \in Keys : Less(checkpoint, remote[j].hlc)} }
=============================================================================

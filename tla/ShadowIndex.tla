------------------------------ MODULE ShadowIndex ------------------------------
(***************************************************************************)
(* The shadow index of one device: the tables sidx_<collection> and          *)
(* fts_<collection> that the actor keeps beside the table records, the map   *)
(* of registered definitions that lives only in memory, rebuild_indexes, and *)
(* the sync loop, which changes records and knows nothing of any index.      *)
(*                                                                         *)
(* A version of a record is a number, and so is every value taken from it:   *)
(* an index column that holds v was filled from version v, and 0 stands for  *)
(* NULL in a scalar column and for the empty string in a text column.        *)
(***************************************************************************)
EXTENDS Naturals

CONSTANTS
    Ids, Colls,     \* record ids and collections
    Fields,         \* names of indexed fields
    Defs,           \* the definitions the application registers, by collection
    Supplied,       \* the sets of fields whose values a put comes with
    Kinds,          \* what the data of a version may be (below)
    MaxVer,         \* bound: versions written or pulled in a behaviour
    Faults          \* subset of {"crash", "db"}

\* IndexDef: the scalar fields, and the fields of the full text index.
IndexDef == [fields : SUBSET Fields, text : SUBSET Fields]

\* What rebuild_indexes can make of the data: a JSON object with all the fields,
\* other bytes, or a record encrypted under a key this device does not have.
DataKinds == {"json", "opaque", "sealed"}

ASSUME IndexAssumption ==
    /\ Colls # {}
    /\ Defs \in [Colls -> SUBSET IndexDef]
    /\ Supplied \subseteq SUBSET Fields
    /\ Kinds \subseteq DataKinds
    /\ MaxVer \in Nat

VARIABLES
    rec,        \* table records, by id
    ver,        \* the last version number in use
    data,       \* what the data of each version is
    table,      \* columns of sidx_c and fts_c; none: there is no such table
    shadow,     \* rows of sidx_c
    fts,        \* rows of fts_c
    indexes,    \* ActorState::indexes: the registered definitions
    scan        \* where the actor is in handle_rebuild_indexes

records == <<rec, ver, data>>
tables == <<table, shadow, fts>>
vars == <<records, tables, indexes, scan>>

\* Not registered; and no columns, which is no table.
Nothing == [fields |-> {}, text |-> {}]

\* A row of records.  by is history: the fields whose values the actor put into
\* the index rows with this version (or, for a tombstone, took out of them).
Record == [coll : Colls, ver : 0..MaxVer, live : BOOLEAN, by : IndexDef]
NoRecord ==
    [coll |-> CHOOSE c \in Colls : TRUE, ver |-> 0, live |-> FALSE, by |-> Nothing]
Has(c, i) == rec[i].ver > 0 /\ rec[i].coll = c
Live(c, i) == Has(c, i) /\ rec[i].live

\* A row of an index table; an absent row has no values.
IndexRow == [there : BOOLEAN, val : [Fields -> 0..MaxVer]]
NoIndexRow == [there |-> FALSE, val |-> [f \in Fields |-> 0]]

\* colls: collections to come; at: the one at hand; left: its records to come;
\* read: their versions when listed; cur: the record whose full text row is
\* between its DELETE (to do in "clear") and its INSERT (to do in "insert").
Scan ==
    [pc : {"idle", "row", "clear", "insert"}, colls : SUBSET Colls, at : Colls,
     left : SUBSET Ids, cur : SUBSET Ids, read : [Ids -> 0..MaxVer]]
Scan0 ==
    [pc |-> "idle", colls |-> {}, at |-> CHOOSE c \in Colls : TRUE, left |-> {},
     cur |-> {}, read |-> [i \in Ids |-> 0]]
Idle == scan.pc = "idle"

Init ==
    /\ rec = [i \in Ids |-> NoRecord]
    /\ ver = 0
    /\ data = [v \in 1..MaxVer |-> "json"]
    /\ table = [c \in Colls |-> Nothing]
    /\ shadow = [c \in Colls |-> [i \in Ids |-> NoIndexRow]]
    /\ fts = [c \in Colls |-> [i \in Ids |-> NoIndexRow]]
    /\ indexes = [c \in Colls |-> Nothing]
    /\ scan = Scan0

-----------------------------------------------------------------------------
(***************************************************************************)
(* The statements of db::index                                              *)
(***************************************************************************)

\* create_shadow_table, create_fts_table: CREATE TABLE IF NOT EXISTS leaves a
\* table with other columns as it is.
Created(cols, wanted) == IF cols = {} THEN wanted ELSE cols

\* Bug variant: ON CONFLICT DO NOTHING.
InsertsOnly(rows, i, fields, value) ==
    IF fields = {} \/ rows[i].there THEN rows
    ELSE [rows EXCEPT ![i] =
            [there |-> TRUE, val |-> [f \in Fields |-> IF f \in fields THEN value[f] ELSE 0]]]

\* upsert_index_row: the columns of the definition, the others as they were.
WithIndexRow(rows, i, fields, value) ==
    IF fields = {} THEN rows
    ELSE [rows EXCEPT ![i] =
            [there |-> TRUE,
             val |-> [f \in Fields |-> IF f \in fields THEN value[f] ELSE rows[i].val[f]]]]

\* upsert_fts_row after its DELETE: a row with the fields of the definition.
WithTextRow(rows, i, text, value) ==
    IF text = {} THEN rows
    ELSE [rows EXCEPT ![i] =
            [there |-> TRUE, val |-> [f \in Fields |-> IF f \in text THEN value[f] ELSE 0]]]

\* DELETE ... WHERE record_id = i, from a table the definition knows of.
WithoutRow(rows, i, columns) ==
    IF columns = {} THEN rows ELSE [rows EXCEPT ![i] = NoIndexRow]

\* Every column that the statements for a definition name is in its table.
Fits(c, def) == def.fields \subseteq table[c].fields /\ def.text \subseteq table[c].text

\* index_fields of a put: the values it came with; to_sql_value of the others is NULL.
FromCaller(given, v) == [f \in Fields |-> IF f \in given THEN v ELSE 0]

\* index_fields of rebuild_indexes: the scalar fields of the definition, read from
\* the data when that is JSON.  The text row gets the same map, hence nothing for
\* a text field that is not a scalar field as well.
FromData(fields, v) ==
    [f \in Fields |-> IF f \in fields /\ v > 0 /\ data[v] = "json" THEN v ELSE 0]

-----------------------------------------------------------------------------
(***************************************************************************)
(* Commands of the actor                                                    *)
(***************************************************************************)

\* handle_register_index: both tables, then the map.
RegisterIndex(c, def) ==
    /\ Idle
    /\ table' = [table EXCEPT ![c] = [fields |-> Created(@.fields, def.fields),
                                      text |-> Created(@.text, def.text)]]
    /\ indexes' = [indexes EXCEPT ![c] = def]
    /\ UNCHANGED <<records, shadow, fts, scan>>

\* Bug variant: the map first, then the tables.
RegisterFailsLate(c, def) ==
    /\ "db" \in Faults /\ Idle
    /\ table' = [table EXCEPT ![c].fields = Created(@, def.fields)]
    /\ indexes' = [indexes EXCEPT ![c] = def]
    /\ UNCHANGED <<records, shadow, fts, scan>>

\* create_fts_table fails: the shadow table stays, the definition is not recorded.
RegisterFails(c, def) ==
    /\ "db" \in Faults /\ Idle
    /\ table' = [table EXCEPT ![c].fields = Created(@, def.fields)]
    /\ UNCHANGED <<records, shadow, fts, indexes, scan>>

\* Bug variant: no new version.
WriteUnstamped(c, i, live, kind, by) ==
    /\ ver < MaxVer
    /\ data' = [data EXCEPT ![ver + 1] = kind]
    /\ rec' = [rec EXCEPT ![i] = [coll |-> c, ver |-> ver + 1, live |-> live, by |-> by]]
    /\ UNCHANGED ver

\* The record, under a new version.
Write(c, i, live, kind, by) ==
    /\ ver < MaxVer
    /\ ver' = ver + 1
    /\ data' = [data EXCEPT ![ver + 1] = kind]
    /\ rec' = [rec EXCEPT ![i] = [coll |-> c, ver |-> ver + 1, live |-> live, by |-> by]]

\* handle_put: record and index rows in one transaction, which fails as a whole
\* when a column of the definition is missing from the table.
Put(c, i, kind, given) ==
    LET def == indexes[c]
        value == FromCaller(given, ver + 1)
    IN  /\ Idle /\ Fits(c, def) /\ kind # "sealed"
        /\ Write(c, i, TRUE, kind, [fields |-> def.fields \cap given,
                                    text |-> def.text \cap given])
        /\ shadow' = [shadow EXCEPT ![c] = WithIndexRow(@, i, def.fields, value)]
        /\ fts' = [fts EXCEPT ![c] = WithTextRow(@, i, def.text, value)]
        /\ UNCHANGED <<table, indexes, scan>>

\* handle_delete: the tombstone if the collection has the record, and its index
\* rows even if it has not.
Delete(c, i) ==
    LET def == indexes[c]
    IN  /\ Idle
        /\ IF Has(c, i) THEN Write(c, i, FALSE, "json", def)
                        ELSE UNCHANGED records
        /\ shadow' = [shadow EXCEPT ![c] = WithoutRow(@, i, def.fields)]
        /\ fts' = [fts EXCEPT ![c] = WithoutRow(@, i, def.text)]
        /\ UNCHANGED <<table, indexes, scan>>

\* The sync loop applies a pulled record, through its own connection and whatever
\* the actor is doing: apply_remote_record touches no index table.
ApplyRemote(c, i, live, kind) ==
    /\ ~live => kind = "json"     \* a tombstone has no data to read
    /\ Write(c, i, live, kind, Nothing)
    /\ UNCHANGED <<tables, indexes, scan>>

-----------------------------------------------------------------------------
(***************************************************************************)
(* handle_rebuild_indexes: one statement per step, and no transaction       *)
(***************************************************************************)

\* Bug variant: the tables are emptied first.
RebuildFromNothing ==
    /\ Idle
    /\ scan' = [Scan0 EXCEPT !.pc = "row",
                             !.colls = {c \in Colls : indexes[c] # Nothing}]
    /\ shadow' = [c \in Colls |-> [i \in Ids |-> NoIndexRow]]
    /\ UNCHANGED <<records, table, fts, indexes>>

\* The collections of the map, in any order.
RebuildIndexes ==
    /\ Idle
    /\ scan' = [Scan0 EXCEPT !.pc = "row",
                             !.colls = {c \in Colls : indexes[c] # Nothing}]
    /\ UNCHANGED <<records, tables, indexes>>

\* Bug variant: tombstones are listed too.
ListTombstones(c) ==
    /\ scan.pc = "row" /\ scan.left = {} /\ c \in scan.colls
    /\ scan' = [scan EXCEPT
                  !.colls = @ \ {c}, !.at = c, !.left = {i \in Ids : Has(c, i)},
                  !.read = [i \in Ids |-> IF Has(c, i) THEN rec[i].ver ELSE @[i]]]
    /\ UNCHANGED <<records, tables, indexes>>

\* SELECT the live records of the next collection.
ListCollection(c) ==
    /\ scan.pc = "row" /\ scan.left = {} /\ c \in scan.colls
    /\ scan' = [scan EXCEPT
                  !.colls = @ \ {c}, !.at = c, !.left = {i \in Ids : Live(c, i)},
                  !.read = [i \in Ids |-> IF Live(c, i) THEN rec[i].ver ELSE @[i]]]
    /\ UNCHANGED <<records, tables, indexes>>

\* maybe_decrypt fails: the record is passed over.
SkipSealed(i) ==
    /\ scan.pc = "row" /\ i \in scan.left
    /\ data[scan.read[i]] = "sealed"
    /\ scan' = [scan EXCEPT !.left = @ \ {i}]
    /\ UNCHANGED <<records, tables, indexes>>

\* Bug variant: only rows that are missing.
RebuildMissing(i) ==
    LET def == indexes[scan.at]
    IN  /\ scan.pc = "row" /\ i \in scan.left
        /\ data[scan.read[i]] # "sealed"
        /\ def.fields \subseteq table[scan.at].fields
        /\ shadow' = [shadow EXCEPT ![scan.at] =
              InsertsOnly(@, i, def.fields, FromData(def.fields, scan.read[i]))]
        /\ scan' = [scan EXCEPT !.left = @ \ {i},
                                !.cur = IF def.text = {} THEN {} ELSE {i},
                                !.pc = IF def.text = {} THEN "row" ELSE "clear"]
        /\ UNCHANGED <<records, table, fts, indexes>>

\* upsert_index_row, with what the data said when it was listed.
RebuildRow(i) ==
    LET def == indexes[scan.at]
    IN  /\ scan.pc = "row" /\ i \in scan.left
        /\ data[scan.read[i]] # "sealed"
        /\ def.fields \subseteq table[scan.at].fields
        /\ shadow' = [shadow EXCEPT ![scan.at] =
                        WithIndexRow(@, i, def.fields, FromData(def.fields, scan.read[i]))]
        /\ scan' = [scan EXCEPT !.left = @ \ {i},
                                !.cur = IF def.text = {} THEN {} ELSE {i},
                                !.pc = IF def.text = {} THEN "row" ELSE "clear"]
        /\ UNCHANGED <<records, table, fts, indexes>>

\* upsert_fts_row: the DELETE ...
ClearText(i) ==
    /\ scan.pc = "clear" /\ scan.cur = {i}
    /\ fts' = [fts EXCEPT ![scan.at] = WithoutRow(@, i, indexes[scan.at].text)]
    /\ scan' = [scan EXCEPT !.pc = "insert"]
    /\ UNCHANGED <<records, table, shadow, indexes>>

\* ... and the INSERT.
InsertText(i) ==
    LET def == indexes[scan.at]
    IN  /\ scan.pc = "insert" /\ scan.cur = {i}
        /\ def.text \subseteq table[scan.at].text
        /\ fts' = [fts EXCEPT ![scan.at] =
                     WithTextRow(@, i, def.text, FromData(def.fields, scan.read[i]))]
        /\ scan' = [scan EXCEPT !.pc = "row", !.cur = {}]
        /\ UNCHANGED <<records, table, shadow, indexes>>

\* A statement fails, for want of a column or otherwise: the command ends with an
\* error, and what was written stays.
RebuildFails ==
    /\ ~Idle
    /\ \/ "db" \in Faults
       \/ scan.pc = "row" /\ scan.left # {} /\ ~Fits(scan.at, [indexes[scan.at] EXCEPT !.text = {}])
       \/ scan.pc = "insert" /\ ~Fits(scan.at, indexes[scan.at])
    /\ scan' = Scan0
    /\ UNCHANGED <<records, tables, indexes>>

\* The count is returned.
RebuildEnds ==
    /\ scan.pc = "row" /\ scan.left = {} /\ scan.colls = {}
    /\ scan' = Scan0
    /\ UNCHANGED <<records, tables, indexes>>

-----------------------------------------------------------------------------
\* A crash (or shutdown) and SquirrelEngine::open: the map starts empty.
Restart ==
    /\ "crash" \in Faults
    /\ indexes' = [c \in Colls |-> Nothing]
    /\ scan' = Scan0
    /\ UNCHANGED <<records, tables>>

Rebuild ==
    \/ RebuildIndexes \/ RebuildFails \/ RebuildEnds
    \/ \E c \in Colls : ListCollection(c)
    \/ \E i \in Ids : SkipSealed(i) \/ RebuildRow(i) \/ ClearText(i) \/ InsertText(i)

Next ==
    \/ \E c \in Colls : \E def \in Defs[c] : RegisterIndex(c, def) \/ RegisterFails(c, def)
    \/ \E c \in Colls, i \in Ids :
          \/ \E kind \in Kinds, given \in Supplied : Put(c, i, kind, given)
          \/ Delete(c, i)
          \/ \E kind \in Kinds, live \in BOOLEAN : ApplyRemote(c, i, live, kind)
    \/ Rebuild
    \/ Restart

Spec == Init /\ [][Next]_vars

-----------------------------------------------------------------------------
(***************************************************************************)
(* Queries                                                                  *)
(***************************************************************************)

\* query joins sidx_c when the collection is registered with scalar fields: a
\* record without an index row is then not found at all.
Joined(c) == indexes[c].fields # {}
Listed(c, include_deleted) ==
    {i \in Ids : /\ Has(c, i) /\ (include_deleted \/ rec[i].live)
                 /\ Joined(c) => shadow[c][i].there}

\* QueryFilter: Eq, Lt, Gt, Le and Ge select rows whose field has one of some
\* values, never NULL; Contains searches the full text rows.
Comparing(c, f, values) == {i \in Listed(c, FALSE) : shadow[c][i].val[f] \in values \ {0}}
Containing(c, v) ==
    {i \in Listed(c, FALSE) : fts[c][i].there /\ \E f \in Fields : fts[c][i].val[f] = v}

-----------------------------------------------------------------------------
(***************************************************************************)
(* Properties                                                               *)
(***************************************************************************)

\* Every variable has its type, and no record has a version that is not given yet.
IndexTypeOK ==
    /\ rec \in [Ids -> Record] /\ ver \in 0..MaxVer /\ data \in [1..MaxVer -> DataKinds]
    /\ \A i \in Ids : rec[i].ver <= ver
    /\ table \in [Colls -> IndexDef] /\ indexes \in [Colls -> IndexDef]
    /\ shadow \in [Colls -> [Ids -> IndexRow]] /\ fts \in [Colls -> [Ids -> IndexRow]]
    /\ scan \in Scan

\* Puts of a registered collection fail for want of a column, and rebuilds are cut
\* off, only because another definition of the collection made the table first: a
\* registration that fails halfway, a restart or a rebuild never leaves a definition
\* in force whose own tables are not there.
MisfitsAreEvolved ==
    \A c \in Colls :
        LET others == Defs[c] \ {indexes[c]}
        IN  /\ \/ indexes[c].fields \subseteq table[c].fields
               \/ \E def \in others : table[c].fields = def.fields
            /\ \/ indexes[c].text \subseteq table[c].text
               \/ \E def \in others : table[c].text = def.text

\* "The shadow table is maintained atomically in the same SQLite transaction as the
\* record write": a record is found by every value its put came with, for as long
\* as that version lasts, through rebuilds that read older versions, failed and
\* interrupted rebuilds, restarts and other definitions of the index.
PutIsFound ==
    \A c \in Colls, i \in Ids : \A f \in rec[i].by.fields :
        Live(c, i) /\ data[rec[i].ver] = "json" /\ Joined(c) =>
            i \in Comparing(c, f, {rec[i].ver})

\* delete_index_rows: nothing of a record that the actor deleted, its text least of
\* all, is left in the index of its collection, or comes back by a rebuild.
DeletedIsForgotten ==
    \A c \in Colls, i \in Ids :
        Has(c, i) /\ ~rec[i].live =>
            /\ rec[i].by.fields # {} => ~shadow[c][i].there
            /\ rec[i].by.text # {} => ~fts[c][i].there

\* rebuild_indexes, "to make them visible to queries": when it answers, every
\* record that has not changed since it was listed is found, by what its data say.
RebuildCatchesUp ==
    scan.pc = "row" /\ scan.left = {} /\ scan.colls = {} =>
        \A c \in Colls, i \in Ids :
            LET v == rec[i].ver def == indexes[c]
            IN  Live(c, i) /\ scan.read[i] = v /\ Joined(c) /\ data[v] # "sealed" =>
                    /\ i \in Listed(c, FALSE)
                    /\ data[v] = "json" =>
                         /\ \A f \in def.fields : i \in Comparing(c, f, {v})
                         /\ def.text \cap def.fields # {} => i \in Containing(c, v)

\* A record that queries of a registered collection return is returned until it is
\* deleted, moved, or the index is registered anew: a pull, a write, a rebuild or a
\* failure of one never hides it.
StaysVisible ==
    [][\A c \in Colls, i \in Ids :
          i \in Listed(c, FALSE) /\ Live(c, i)' /\ indexes' = indexes =>
              (i \in Listed(c, FALSE))']_vars

\* "Full-text search across all FTS-indexed fields": whenever the actor is free to
\* take a query, a record that was put with its text is found by that text, for as
\* long as that version lasts.
TextStaysFound ==
    Idle => \A c \in Colls, i \in Ids :
        Live(c, i) /\ rec[i].by.text # {} /\ indexes[c].text # {} =>
            i \in Containing(c, rec[i].ver)
=============================================================================

-------------------------- MODULE ShadowIndexProofs --------------------------
(***************************************************************************)
(* Safety of ShadowIndex for any ids, collections, fields, definitions and   *)
(* faults, and any number of versions.                                      *)
(***************************************************************************)
EXTENDS ShadowIndex, TLAPS

\* Between rebuilds the scan is empty, no text row is open while records are being
\* taken, and only versions that exist have been read.
ScanShape ==
    /\ Idle => scan.colls = {} /\ scan.left = {} /\ scan.cur = {}
    /\ scan.pc = "row" => scan.cur = {}
    /\ \A i \in Ids : scan.read[i] <= ver

ByActor(i) == rec[i].by.fields # {} \/ rec[i].by.text # {}

\* A record to come that the actor wrote is still the live version that was listed:
\* the actor is busy with the rebuild, and pulls leave no version of the actor's.
Fresh(i) ==
    i \in scan.left \cup scan.cur /\ Has(scan.at, i) /\ ByActor(i) =>
        scan.read[i] = rec[i].ver /\ rec[i].live

\* A version that was listed was listed in its collection.
ReadThere(i) ==
    rec[i].ver > 0 /\ scan.read[i] = rec[i].ver => rec[i].coll \notin scan.colls

\* The values of a put are in the shadow row, registered or not.
Held(c, i) ==
    Live(c, i) /\ data[rec[i].ver] = "json" =>
        \A f \in rec[i].by.fields :
            shadow[c][i].there /\ shadow[c][i].val[f] = rec[i].ver

Forgotten(c, i) ==
    Has(c, i) /\ ~rec[i].live =>
        /\ rec[i].by.fields # {} => ~shadow[c][i].there
        /\ rec[i].by.text # {} => ~fts[c][i].there

\* Both rows of a record say what its listed version says.
RowSays(c, i) ==
    /\ shadow[c][i].there
    /\ data[rec[i].ver] = "json" =>
          \A f \in indexes[c].fields : shadow[c][i].val[f] = rec[i].ver
TextSays(c, i) ==
    data[rec[i].ver] = "json" /\ indexes[c].text \cap indexes[c].fields # {} =>
        fts[c][i].there /\ \E f \in Fields : fts[c][i].val[f] = rec[i].ver

\* A listed version that nobody has replaced is to come, or is done.
CaughtUp(c, i) ==
    /\ ~Idle /\ Live(c, i) /\ scan.read[i] = rec[i].ver
    /\ Joined(c) /\ data[rec[i].ver] # "sealed"
    => \/ c = scan.at /\ i \in scan.left
       \/ RowSays(c, i) /\ ((c = scan.at /\ i \in scan.cur) \/ TextSays(c, i))

IndexInv ==
    /\ IndexTypeOK /\ ScanShape
    /\ \A i \in Ids : Fresh(i) /\ ReadThere(i)
    /\ \A c \in Colls, i \in Ids : Held(c, i) /\ Forgotten(c, i) /\ CaughtUp(c, i)

-----------------------------------------------------------------------------
(***************************************************************************)
(* Types                                                                    *)
(***************************************************************************)

LEMMA NothingTypes == Nothing \in IndexDef /\ NoIndexRow \in IndexRow /\ Scan0 \in Scan
<1>1. (CHOOSE c \in Colls : TRUE) \in Colls
  BY IndexAssumption
<1>2. 0 \in 0..MaxVer
  BY IndexAssumption
<1> QED
  BY <1>1, <1>2 DEF Nothing, IndexDef, NoIndexRow, IndexRow, Scan0, Scan

LEMMA InitIndexInv == Init => IndexInv
<1> SUFFICES ASSUME Init PROVE IndexInv
  OBVIOUS
<1>1. IndexTypeOK
  <2>1. (CHOOSE c \in Colls : TRUE) \in Colls /\ 0 \in 0..MaxVer
    BY IndexAssumption
  <2>2. NoRecord \in Record /\ NoRecord.ver = 0
    BY <2>1, NothingTypes DEF NoRecord, Record
  <2>3. data \in [1..MaxVer -> DataKinds]
    BY DEF Init, DataKinds
  <2>4. shadow \in [Colls -> [Ids -> IndexRow]] /\ fts \in [Colls -> [Ids -> IndexRow]]
    BY NothingTypes DEF Init
  <2> QED
    BY <2>1, <2>2, <2>3, <2>4, NothingTypes DEF Init, IndexTypeOK
<1>2. Idle /\ ScanShape
  BY DEF Init, Idle, Scan0, ScanShape
<1>3. ASSUME NEW i \in Ids
      PROVE  Fresh(i) /\ ReadThere(i)
  BY DEF Init, NoRecord, Fresh, ReadThere, Has
<1>4. ASSUME NEW c \in Colls, NEW i \in Ids
      PROVE  Held(c, i) /\ Forgotten(c, i) /\ CaughtUp(c, i)
  BY <1>2 DEF Init, NoRecord, Held, Forgotten, CaughtUp, Live, Has
<1> QED
  BY <1>1, <1>2, <1>3, <1>4 DEF IndexInv

\* The statements make rows of rows.
LEMMA RowTypes ==
    ASSUME NEW rows \in [Ids -> IndexRow], NEW i \in Ids, NEW cols \in SUBSET Fields,
           NEW value \in [Fields -> 0..MaxVer]
    PROVE  /\ WithIndexRow(rows, i, cols, value) \in [Ids -> IndexRow]
           /\ WithTextRow(rows, i, cols, value) \in [Ids -> IndexRow]
           /\ WithoutRow(rows, i, cols) \in [Ids -> IndexRow]
<1>1. rows[i].val \in [Fields -> 0..MaxVer] /\ 0 \in 0..MaxVer
  BY IndexAssumption DEF IndexRow
<1>2. WithIndexRow(rows, i, cols, value) \in [Ids -> IndexRow]
  BY <1>1 DEF WithIndexRow, IndexRow
<1>3. WithTextRow(rows, i, cols, value) \in [Ids -> IndexRow]
  BY <1>1 DEF WithTextRow, IndexRow
<1>4. WithoutRow(rows, i, cols) \in [Ids -> IndexRow]
  BY NothingTypes DEF WithoutRow
<1> QED
  BY <1>2, <1>3, <1>4

\* ... and touch no row but their own.
LEMMA RowFrames ==
    ASSUME NEW rows \in [Ids -> IndexRow], NEW i \in Ids, NEW j \in Ids \ {i},
           NEW cols, NEW value
    PROVE  /\ WithIndexRow(rows, i, cols, value)[j] = rows[j]
           /\ WithTextRow(rows, i, cols, value)[j] = rows[j]
           /\ WithoutRow(rows, i, cols)[j] = rows[j]
  BY DEF WithIndexRow, WithTextRow, WithoutRow

\* What their own row is.
LEMMA RowValues ==
    ASSUME NEW rows \in [Ids -> IndexRow], NEW i \in Ids, NEW cols \in SUBSET Fields,
           NEW value \in [Fields -> 0..MaxVer]
    PROVE  /\ cols # {} => /\ WithIndexRow(rows, i, cols, value)[i].there
                           /\ WithTextRow(rows, i, cols, value)[i].there
                           /\ ~WithoutRow(rows, i, cols)[i].there
           /\ rows[i].there => WithIndexRow(rows, i, cols, value)[i].there
           /\ \A f \in cols : /\ WithIndexRow(rows, i, cols, value)[i].val[f] = value[f]
                              /\ WithTextRow(rows, i, cols, value)[i].val[f] = value[f]
           /\ \A f \in Fields \ cols :
                 WithIndexRow(rows, i, cols, value)[i].val[f] = rows[i].val[f]
<1>1. CASE cols = {}
  BY <1>1 DEF WithIndexRow
<1>2. CASE cols # {}
  BY <1>2 DEF WithIndexRow, WithTextRow, WithoutRow, NoIndexRow
<1> QED
  BY <1>1, <1>2

LEMMA ValueTypes ==
    ASSUME IndexTypeOK, NEW cols \in SUBSET Fields, NEW v \in 0..MaxVer
    PROVE  /\ FromCaller(cols, v) \in [Fields -> 0..MaxVer]
           /\ FromData(cols, v) \in [Fields -> 0..MaxVer]
  BY IndexAssumption DEF FromCaller, FromData

-----------------------------------------------------------------------------
(***************************************************************************)
(* What a step leaves alone                                                 *)
(***************************************************************************)

SameRecord(j) ==
    /\ rec'[j] = rec[j]
    /\ rec[j].ver > 0 => data'[rec[j].ver] = data[rec[j].ver]
SameRows(c, j) == shadow'[c][j] = shadow[c][j] /\ fts'[c][j] = fts[c][j]

LEMMA SameReading ==
    ASSUME NEW j \in Ids, SameRecord(j), scan' = scan, Fresh(j), ReadThere(j)
    PROVE  Fresh(j)' /\ ReadThere(j)'
  BY DEF SameRecord, Fresh, ReadThere, Has, ByActor

LEMMA SameHolding ==
    ASSUME NEW c \in Colls, NEW j \in Ids, SameRecord(j), SameRows(c, j),
           Held(c, j), Forgotten(c, j)
    PROVE  Held(c, j)' /\ Forgotten(c, j)'
  BY DEF SameRecord, SameRows, Held, Forgotten, Live, Has

LEMMA SameCatching ==
    ASSUME NEW c \in Colls, NEW j \in Ids, SameRecord(j), SameRows(c, j), scan' = scan,
           indexes' = indexes, CaughtUp(c, j)
    PROVE  CaughtUp(c, j)'
  BY DEF SameRecord, SameRows, CaughtUp, RowSays, TextSays, Live, Has, Joined, Idle

\* While the actor is not in a rebuild nothing is to be caught up with.
LEMMA IdleReading ==
    ASSUME ScanShape, Idle, NEW j \in Ids, scan' = scan
    PROVE  Fresh(j)' /\ \A c \in Colls : CaughtUp(c, j)'
  BY DEF ScanShape, Fresh, CaughtUp, Idle

\* The statement that writes a record.
LEMMA WriteEffect ==
    ASSUME IndexTypeOK, ScanShape, NEW c \in Colls, NEW i \in Ids, NEW live \in BOOLEAN,
           NEW kind \in DataKinds, NEW by \in IndexDef, Write(c, i, live, kind, by)
    PROVE  /\ ver \in Nat /\ ver + 1 \in 1..MaxVer /\ ver' = ver + 1
           /\ rec' \in [Ids -> Record] /\ data' \in [1..MaxVer -> DataKinds]
           /\ \A j \in Ids : rec'[j].ver <= ver'
           /\ rec'[i].coll = c /\ rec'[i].ver = ver + 1 /\ rec'[i].by = by
           /\ rec'[i].live = live
           /\ data'[ver + 1] = kind
           /\ \A j \in Ids \ {i} : SameRecord(j)
           /\ \A v \in 0..MaxVer : v <= ver /\ v > 0 => data'[v] = data[v]
<1>1. ver \in Nat /\ ver + 1 \in 1..MaxVer /\ ver' = ver + 1
  BY IndexAssumption DEF IndexTypeOK, Write
<1>2. rec'[i] = [coll |-> c, ver |-> ver + 1, live |-> live, by |-> by]
  BY DEF IndexTypeOK, Write
<1>3. \A j \in Ids \ {i} : rec'[j] = rec[j]
  BY DEF IndexTypeOK, Write
<1>4. data' \in [1..MaxVer -> DataKinds] /\ data'[ver + 1] = kind
  BY <1>1 DEF IndexTypeOK, Write
<1>5. \A v \in 0..MaxVer : v <= ver /\ v > 0 => data'[v] = data[v]
  BY <1>1 DEF IndexTypeOK, Write
<1>6. rec' \in [Ids -> Record]
  BY <1>1 DEF IndexTypeOK, Write, Record
<1>7. \A j \in Ids : rec[j].ver \in 0..MaxVer /\ rec[j].ver <= ver
  BY DEF IndexTypeOK, Record
<1>8. \A j \in Ids : rec'[j].ver <= ver'
  BY <1>1, <1>2, <1>3, <1>7
<1>9. \A j \in Ids \ {i} : SameRecord(j)
  BY <1>3, <1>5, <1>7 DEF SameRecord
<1> QED
  BY <1>1, <1>2, <1>4, <1>5, <1>6, <1>8, <1>9

\* A new version has not been read.
LEMMA NewVersion ==
    ASSUME IndexTypeOK, ScanShape, NEW i \in Ids, ver \in Nat,
           rec'[i].ver = ver + 1, scan' = scan
    PROVE  ReadThere(i)' /\ scan'.read[i] # rec'[i].ver
<1>1. scan.read[i] \in 0..MaxVer /\ scan.read[i] <= ver
  BY DEF IndexTypeOK, Scan, ScanShape
<1>2. scan'.read[i] # rec'[i].ver
  BY <1>1
<1> QED
  BY <1>2 DEF ReadThere

-----------------------------------------------------------------------------
(***************************************************************************)
(* Commands of the actor, and the sync loop                                 *)
(***************************************************************************)

LEMMA RegisterKeeps ==
    ASSUME IndexInv, NEW c \in Colls, NEW def \in Defs[c],
           RegisterIndex(c, def) \/ RegisterFails(c, def)
    PROVE  IndexInv'
<1>1. def \in IndexDef
  BY IndexAssumption
<1>2. Idle /\ scan' = scan /\ UNCHANGED <<records, shadow, fts>>
  BY DEF RegisterIndex, RegisterFails
<1>3. IndexTypeOK'
  <2>1. table' \in [Colls -> IndexDef]
    <3>1. table[c].fields \in SUBSET Fields /\ table[c].text \in SUBSET Fields
      BY DEF IndexInv, IndexTypeOK, IndexDef
    <3>2. \A fields, text \in SUBSET Fields : [fields |-> fields, text |-> text] \in IndexDef
      BY DEF IndexDef
    <3>3. CASE RegisterIndex(c, def)
      BY <1>1, <3>1, <3>2, <3>3 DEF RegisterIndex, Created, IndexInv, IndexTypeOK, IndexDef
    <3>4. CASE RegisterFails(c, def)
      <4>1. [table[c] EXCEPT !.fields = Created(@, def.fields)] \in IndexDef
        BY <1>1, <3>1 DEF Created, IndexInv, IndexTypeOK, IndexDef
      <4> QED
        BY <3>4, <4>1 DEF RegisterFails, IndexInv, IndexTypeOK
    <3> QED
      BY <3>3, <3>4
  <2>2. indexes' \in [Colls -> IndexDef]
    BY <1>1 DEF RegisterIndex, RegisterFails, IndexInv, IndexTypeOK
  <2> QED
    BY <1>2, <2>1, <2>2 DEF IndexInv, IndexTypeOK, records
<1>4. ScanShape'
  BY <1>2 DEF IndexInv, ScanShape, Idle, records
<1>5. ASSUME NEW j \in Ids
      PROVE  /\ Fresh(j)' /\ ReadThere(j)'
             /\ \A d \in Colls : Held(d, j)' /\ Forgotten(d, j)' /\ CaughtUp(d, j)'
  <2>1. SameRecord(j) /\ \A d \in Colls : SameRows(d, j)
    BY <1>2 DEF SameRecord, SameRows, records
  <2> QED
    BY <1>2, <2>1, SameReading, SameHolding, IdleReading DEF IndexInv
<1> QED
  BY <1>3, <1>4, <1>5 DEF IndexInv

LEMMA PutKeeps ==
    ASSUME IndexInv, NEW c \in Colls, NEW i \in Ids, NEW kind \in Kinds, NEW given \in Supplied,
           Put(c, i, kind, given)
    PROVE  IndexInv'
<1> DEFINE def == indexes[c]
           by == [fields |-> def.fields \cap given, text |-> def.text \cap given]
           value == FromCaller(given, ver + 1)
<1>1. def \in IndexDef /\ by \in IndexDef /\ given \in SUBSET Fields /\ kind \in DataKinds
  BY IndexAssumption DEF IndexInv, IndexTypeOK, IndexDef
<1>2. Idle /\ scan' = scan /\ indexes' = indexes /\ table' = table
  BY DEF Put
<1>3. Write(c, i, TRUE, kind, by) /\ TRUE \in BOOLEAN
  BY DEF Put
<1> HIDE DEF by
<1>4. /\ ver \in Nat /\ ver + 1 \in 1..MaxVer /\ ver' = ver + 1
      /\ rec' \in [Ids -> Record] /\ data' \in [1..MaxVer -> DataKinds]
      /\ \A j \in Ids : rec'[j].ver <= ver'
      /\ rec'[i].coll = c /\ rec'[i].ver = ver + 1 /\ rec'[i].by = by /\ rec'[i].live
      /\ \A j \in Ids \ {i} : SameRecord(j)
  <2>1. IndexTypeOK /\ ScanShape
    BY DEF IndexInv
  <2>2. rec'[i].live
    BY <1>3, <2>1 DEF Write, IndexTypeOK
  <2>3. /\ ver \in Nat /\ ver + 1 \in 1..MaxVer /\ ver' = ver + 1
        /\ rec' \in [Ids -> Record] /\ data' \in [1..MaxVer -> DataKinds]
        /\ rec'[i].coll = c /\ rec'[i].ver = ver + 1 /\ rec'[i].by = by
        /\ \A j \in Ids \ {i} : SameRecord(j)
    BY <1>1, <1>3, <2>1, WriteEffect
  <2>4. \A j \in Ids : rec'[j].ver <= ver'
    BY <1>1, <1>3, <2>1, WriteEffect
  <2> QED
    BY <2>2, <2>3, <2>4
<1>5. value \in [Fields -> 0..MaxVer] /\ \A f \in given : value[f] = ver + 1
  <2>1. ver + 1 \in 0..MaxVer
    BY <1>4
  <2> QED
    BY <1>1, <2>1, ValueTypes DEF IndexInv, FromCaller
<1>6. /\ shadow[c] \in [Ids -> IndexRow] /\ fts[c] \in [Ids -> IndexRow]
      /\ def.fields \in SUBSET Fields /\ def.text \in SUBSET Fields
  BY <1>1 DEF IndexInv, IndexTypeOK, IndexDef
<1>7. /\ shadow' = [shadow EXCEPT ![c] = WithIndexRow(shadow[c], i, def.fields, value)]
      /\ fts' = [fts EXCEPT ![c] = WithTextRow(fts[c], i, def.text, value)]
  BY DEF Put
<1> HIDE DEF def, value
<1>8. IndexTypeOK'
  <2>1. /\ WithIndexRow(shadow[c], i, def.fields, value) \in [Ids -> IndexRow]
        /\ WithTextRow(fts[c], i, def.text, value) \in [Ids -> IndexRow]
    BY <1>5, <1>6, RowTypes
  <2>2. shadow' \in [Colls -> [Ids -> IndexRow]] /\ fts' \in [Colls -> [Ids -> IndexRow]]
    BY <1>7, <2>1 DEF IndexInv, IndexTypeOK
  <2>3. ver' \in 0..MaxVer
    BY <1>4
  <2> QED
    BY <1>2, <1>4, <2>2, <2>3 DEF IndexInv, IndexTypeOK
<1>9. ScanShape'
  BY <1>2, <1>4 DEF IndexInv, IndexTypeOK, ScanShape, Idle, Scan
<1>10. ASSUME NEW j \in Ids
       PROVE  /\ Fresh(j)' /\ ReadThere(j)'
              /\ \A d \in Colls : Held(d, j)' /\ Forgotten(d, j)' /\ CaughtUp(d, j)'
  <2>1. Fresh(j)' /\ \A d \in Colls : CaughtUp(d, j)'
    BY <1>2, IdleReading DEF IndexInv
  <2>2. CASE j # i
    <3>1. SameRecord(j)
      BY <1>4, <2>2
    <3>2. ASSUME NEW d \in Colls
          PROVE  SameRows(d, j)
      <4>1. /\ WithIndexRow(shadow[c], i, def.fields, value)[j] = shadow[c][j]
            /\ WithTextRow(fts[c], i, def.text, value)[j] = fts[c][j]
        BY <1>6, <2>2, RowFrames
      <4> QED
        BY <1>7, <4>1 DEF SameRows, IndexInv, IndexTypeOK
    <3> QED
      BY <1>2, <2>1, <3>1, <3>2, SameReading, SameHolding DEF IndexInv
  <2>3. CASE j = i
    <3>1. ReadThere(i)'
      BY <1>2, <1>4, NewVersion DEF IndexInv
    <3>2. \A d \in Colls : Forgotten(d, i)'
      BY <1>4 DEF Forgotten, Has
    <3>3. ASSUME NEW d \in Colls
          PROVE  Held(d, i)'
      <4>1. CASE d # c
        BY <1>4, <4>1 DEF Held, Live, Has
      <4>2. CASE d = c
        <5>1. shadow'[c] = WithIndexRow(shadow[c], i, def.fields, value)
          BY <1>7 DEF IndexInv, IndexTypeOK
        <5>2. \A f \in def.fields \cap given :
                 shadow'[c][i].there /\ shadow'[c][i].val[f] = ver + 1
          <6>1. def.fields # {} => WithIndexRow(shadow[c], i, def.fields, value)[i].there
            BY <1>5, <1>6, RowValues
          <6>2. \A f \in def.fields :
                   WithIndexRow(shadow[c], i, def.fields, value)[i].val[f] = value[f]
            BY <1>5, <1>6 DEF WithIndexRow
          <6> QED
            BY <1>5, <5>1, <6>1, <6>2
        <5>3. rec'[i].by.fields = def.fields \cap given /\ rec'[i].ver = ver + 1
          BY <1>4 DEF by
        <5> QED
          BY <4>2, <5>2, <5>3 DEF Held
      <4> QED
        BY <4>1, <4>2
    <3> QED
      BY <2>1, <2>3, <3>1, <3>2, <3>3
  <2> QED
    BY <2>2, <2>3
<1> QED
  BY <1>8, <1>9, <1>10 DEF IndexInv

LEMMA DeleteKeeps ==
    ASSUME IndexInv, NEW c \in Colls, NEW i \in Ids, Delete(c, i)
    PROVE  IndexInv'
<1> DEFINE def == indexes[c]
<1>1. def \in IndexDef /\ def.fields \in SUBSET Fields /\ def.text \in SUBSET Fields
  BY DEF IndexInv, IndexTypeOK, IndexDef
<1>2. Idle /\ scan' = scan /\ indexes' = indexes /\ table' = table
  BY DEF Delete
<1>3. shadow[c] \in [Ids -> IndexRow] /\ fts[c] \in [Ids -> IndexRow]
  BY DEF IndexInv, IndexTypeOK
<1>4. /\ shadow' = [shadow EXCEPT ![c] = WithoutRow(shadow[c], i, def.fields)]
      /\ fts' = [fts EXCEPT ![c] = WithoutRow(fts[c], i, def.text)]
  BY DEF Delete
<1>5. CASE Has(c, i)
  <2>1. Write(c, i, FALSE, "json", def) /\ "json" \in DataKinds /\ FALSE \in BOOLEAN
    BY <1>5 DEF Delete, DataKinds
  <2> HIDE DEF def
  <2>2. /\ ver \in Nat /\ ver + 1 \in 1..MaxVer /\ ver' = ver + 1
        /\ rec' \in [Ids -> Record] /\ data' \in [1..MaxVer -> DataKinds]
        /\ \A j \in Ids : rec'[j].ver <= ver'
        /\ rec'[i].coll = c /\ rec'[i].ver = ver + 1 /\ rec'[i].by = def /\ ~rec'[i].live
        /\ \A j \in Ids \ {i} : SameRecord(j)
    <3>1. IndexTypeOK /\ ScanShape
      BY DEF IndexInv
    <3> QED
      BY <1>1, <2>1, <3>1, WriteEffect, ZenonT(60)
  <2>3. IndexTypeOK'
    BY <1>1, <1>2, <1>3, <1>4, <2>2, NothingTypes DEF IndexInv, IndexTypeOK, WithoutRow
  <2>4. ScanShape'
    BY <1>2, <2>2 DEF IndexInv, IndexTypeOK, ScanShape, Idle, Scan
  <2>5. ASSUME NEW j \in Ids
        PROVE  /\ Fresh(j)' /\ ReadThere(j)'
               /\ \A d \in Colls : Held(d, j)' /\ Forgotten(d, j)' /\ CaughtUp(d, j)'
    <3>1. Fresh(j)' /\ \A d \in Colls : CaughtUp(d, j)'
      BY <1>2, IdleReading DEF IndexInv
    <3>2. CASE j # i
      <4>1. SameRecord(j)
        BY <2>2, <3>2
      <4>2. \A d \in Colls : SameRows(d, j)
        BY <1>3, <1>4, <3>2 DEF SameRows, IndexInv, IndexTypeOK, WithoutRow
      <4> QED
        BY <1>2, <3>1, <4>1, <4>2, SameReading, SameHolding DEF IndexInv
    <3>3. CASE j = i
      <4>1. ReadThere(i)'
        BY <1>2, <2>2, NewVersion DEF IndexInv
      <4>2. \A d \in Colls : Held(d, i)'
        BY <2>2 DEF Held, Live
      <4>3. ASSUME NEW d \in Colls
            PROVE  Forgotten(d, i)'
        <5>1. CASE d # c
          BY <2>2, <5>1 DEF Forgotten, Has
        <5>2. CASE d = c
          <6>1. /\ def.fields # {} => ~shadow'[c][i].there
                /\ def.text # {} => ~fts'[c][i].there
            BY <1>3, <1>4 DEF IndexInv, IndexTypeOK, WithoutRow, NoIndexRow
          <6> QED
            BY <2>2, <5>2, <6>1 DEF Forgotten
        <5> QED
          BY <5>1, <5>2
      <4> QED
        BY <3>1, <3>3, <4>1, <4>2, <4>3
    <3> QED
      BY <3>2, <3>3
  <2> QED
    BY <2>3, <2>4, <2>5 DEF IndexInv
<1>6. CASE ~Has(c, i)
  <2>1. UNCHANGED records
    BY <1>6 DEF Delete
  <2> HIDE DEF def
  <2>2. IndexTypeOK'
    BY <1>1, <1>2, <1>3, <1>4, <2>1, NothingTypes DEF IndexInv, IndexTypeOK, WithoutRow, records
  <2>3. ScanShape'
    BY <1>2, <2>1 DEF IndexInv, ScanShape, Idle, records
  <2>4. ASSUME NEW j \in Ids
        PROVE  /\ Fresh(j)' /\ ReadThere(j)'
               /\ \A d \in Colls : Held(d, j)' /\ Forgotten(d, j)' /\ CaughtUp(d, j)'
    <3>1. SameRecord(j)
      BY <2>1 DEF SameRecord, records
    <3>2. Fresh(j)' /\ ReadThere(j)' /\ \A d \in Colls : CaughtUp(d, j)'
      BY <1>2, <3>1, IdleReading, SameReading DEF IndexInv
    <3>3. ASSUME NEW d \in Colls
          PROVE  Held(d, j)' /\ Forgotten(d, j)'
      <4>1. CASE j = i /\ d = c
        BY <1>6, <2>1, <4>1 DEF Held, Forgotten, Live, Has, records
      <4>2. CASE ~(j = i /\ d = c)
        <5>1. SameRows(d, j)
          BY <1>3, <1>4, <4>2 DEF SameRows, IndexInv, IndexTypeOK, WithoutRow
        <5> QED
          BY <3>1, <5>1, SameHolding DEF IndexInv
      <4> QED
        BY <4>1, <4>2
    <3> QED
      BY <3>2, <3>3
  <2> QED
    BY <2>2, <2>3, <2>4 DEF IndexInv
<1> QED
  BY <1>5, <1>6

LEMMA ApplyKeeps ==
    ASSUME IndexInv, NEW c \in Colls, NEW i \in Ids, NEW kind \in Kinds, NEW live \in BOOLEAN,
           ApplyRemote(c, i, live, kind)
    PROVE  IndexInv'
<1>1. scan' = scan /\ indexes' = indexes /\ table' = table /\ shadow' = shadow /\ fts' = fts
  BY DEF ApplyRemote, tables
<1>2. Write(c, i, live, kind, Nothing) /\ kind \in DataKinds
  BY IndexAssumption DEF ApplyRemote
<1>3. /\ ver \in Nat /\ ver + 1 \in 1..MaxVer /\ ver' = ver + 1
      /\ rec' \in [Ids -> Record] /\ data' \in [1..MaxVer -> DataKinds]
      /\ \A j \in Ids : rec'[j].ver <= ver'
      /\ rec'[i].coll = c /\ rec'[i].ver = ver + 1 /\ rec'[i].by = Nothing
      /\ \A j \in Ids \ {i} : SameRecord(j)
  BY <1>2, NothingTypes, WriteEffect DEF IndexInv
<1>4. IndexTypeOK'
  BY <1>1, <1>3 DEF IndexInv, IndexTypeOK
<1>5. ScanShape'
  <2>1. \A j \in Ids : scan.read[j] \in Nat /\ scan.read[j] <= ver
    BY DEF IndexInv, IndexTypeOK, Scan, ScanShape
  <2> QED
    BY <1>1, <1>3, <2>1 DEF IndexInv, ScanShape, Idle
<1>6. ASSUME NEW j \in Ids
      PROVE  /\ Fresh(j)' /\ ReadThere(j)'
             /\ \A d \in Colls : Held(d, j)' /\ Forgotten(d, j)' /\ CaughtUp(d, j)'
  <2>1. CASE j # i
    <3>1. SameRecord(j) /\ \A d \in Colls : SameRows(d, j)
      BY <1>1, <1>3, <2>1 DEF SameRows
    <3> QED
      BY <1>1, <3>1, SameReading, SameHolding, SameCatching DEF IndexInv
  <2>2. CASE j = i
    <3>1. ReadThere(i)' /\ scan'.read[i] # rec'[i].ver
      BY <1>1, <1>3, NewVersion DEF IndexInv
    <3>2. rec'[i].by.fields = {} /\ rec'[i].by.text = {}
      BY <1>3 DEF Nothing
    <3> QED
      BY <2>2, <3>1, <3>2 DEF Fresh, ByActor, Held, Forgotten, CaughtUp
  <2> QED
    BY <2>1, <2>2
<1> QED
  BY <1>4, <1>5, <1>6 DEF IndexInv

-----------------------------------------------------------------------------
(***************************************************************************)
(* rebuild_indexes                                                          *)
(***************************************************************************)

\* Its steps that write nothing leave records and rows, hence what holds of them.
LEMMA ScanOnly ==
    ASSUME IndexInv, UNCHANGED <<records, tables>>, NEW c \in Colls, NEW j \in Ids
    PROVE  SameRecord(j) /\ SameRows(c, j) /\ Held(c, j)' /\ Forgotten(c, j)'
<1>1. SameRecord(j) /\ SameRows(c, j)
  BY DEF SameRecord, SameRows, records, tables
<1> QED
  BY <1>1, SameHolding DEF IndexInv

\* A rebuild that begins has listed nothing; one that ended, or died, is forgotten.
LEMMA ScanStarts ==
    ASSUME IndexInv, UNCHANGED <<records, tables>>, indexes' \in [Colls -> IndexDef],
           \/ scan' = Scan0
           \/ /\ scan' = [Scan0 EXCEPT !.pc = "row",
                             !.colls = {c \in Colls : indexes[c] # Nothing}]
              /\ indexes' = indexes
    PROVE  IndexInv'
<1>1. /\ scan' \in Scan /\ scan'.left = {} /\ scan'.cur = {}
      /\ scan'.pc # "row" => scan'.pc = "idle" /\ scan'.colls = {}
      /\ \A i \in Ids : scan'.read[i] = 0
  <2>1. /\ Scan0 \in Scan /\ Scan0.left = {} /\ Scan0.cur = {} /\ Scan0.colls = {}
        /\ Scan0.pc = "idle" /\ \A i \in Ids : Scan0.read[i] = 0
    BY NothingTypes DEF Scan0
  <2>2. {c \in Colls : indexes[c] # Nothing} \in SUBSET Colls
    OBVIOUS
  <2> QED
    BY <2>1, <2>2 DEF Scan
<1>2. IndexTypeOK'
  BY <1>1 DEF IndexInv, IndexTypeOK, records, tables
<1>3. ScanShape'
  <2>1. ver' \in 0..MaxVer
    BY <1>2 DEF IndexTypeOK
  <2> QED
    BY <1>1, <2>1 DEF ScanShape, Idle
<1>4. ASSUME NEW j \in Ids
      PROVE  Fresh(j)' /\ ReadThere(j)' /\ \A c \in Colls : CaughtUp(c, j)'
  BY <1>1, IndexAssumption DEF Fresh, ReadThere, CaughtUp, Live, Has
<1> QED
  BY <1>2, <1>3, <1>4, ScanOnly DEF IndexInv

LEMMA ListKeeps ==
    ASSUME IndexInv, NEW c \in Colls, ListCollection(c)
    PROVE  IndexInv'
<1>1. UNCHANGED <<records, tables>> /\ indexes' = indexes
  BY DEF ListCollection
<1>2. /\ scan \in Scan /\ scan.pc = "row" /\ scan.left = {} /\ scan.cur = {} /\ c \in scan.colls
      /\ \A i \in Ids : scan.read[i] <= ver
  BY DEF ListCollection, IndexInv, IndexTypeOK, ScanShape
<1>3. /\ scan'.pc = "row" /\ scan'.cur = {} /\ scan'.at = c /\ scan'.colls = scan.colls \ {c}
      /\ scan'.left = {i \in Ids : Live(c, i)}
      /\ scan'.read = [i \in Ids |-> IF Live(c, i) THEN rec[i].ver ELSE scan.read[i]]
  BY <1>2 DEF ListCollection, Scan
<1>4. \A i \in Ids : rec[i].ver \in 0..MaxVer /\ rec[i].ver <= ver
  BY DEF IndexInv, IndexTypeOK, Record
<1>5. scan' \in Scan
  BY <1>2, <1>4 DEF ListCollection, Scan
<1>6. IndexTypeOK' /\ ScanShape'
  <2>1. ScanShape'
    BY <1>1, <1>2, <1>3, <1>4 DEF ScanShape, Idle, records
  <2> QED
    BY <1>1, <1>5, <2>1 DEF IndexInv, IndexTypeOK, records, tables
<1>7. ASSUME NEW j \in Ids
      PROVE  Fresh(j)' /\ ReadThere(j)'
  <2>1. rec'[j] = rec[j]
    BY <1>1 DEF records
  <2>2. Fresh(j)'
    BY <1>3, <2>1 DEF Fresh, Live, Has
  <2>3. ReadThere(j)'
    BY <1>3, <2>1 DEF IndexInv, ReadThere, Live, Has
  <2> QED
    BY <2>2, <2>3
<1>8. ASSUME NEW d \in Colls, NEW j \in Ids
      PROVE  CaughtUp(d, j)'
  <2>1. SameRecord(j) /\ SameRows(d, j)
    BY <1>1, ScanOnly
  <2>2. CASE d = c
    BY <1>3, <2>1, <2>2 DEF CaughtUp, SameRecord, Live, Has
  <2>3. CASE d # c
    <3>1. Live(d, j) => scan'.read[j] = scan.read[j]
      BY <1>3, <2>3 DEF Live, Has
    <3> QED
      BY <1>1, <1>2, <1>3, <2>1, <2>3, <3>1
      DEF IndexInv, CaughtUp, SameRecord, SameRows, RowSays, TextSays, Live, Has, Joined, Idle
  <2> QED
    BY <2>2, <2>3
<1> QED
  BY <1>1, <1>6, <1>7, <1>8, ScanOnly DEF IndexInv

LEMMA SkipKeeps ==
    ASSUME IndexInv, NEW i \in Ids, SkipSealed(i)
    PROVE  IndexInv'
<1>1. UNCHANGED <<records, tables>> /\ indexes' = indexes
  BY DEF SkipSealed
<1>2. scan \in Scan /\ scan.pc = "row" /\ i \in scan.left /\ data[scan.read[i]] = "sealed"
  BY DEF SkipSealed, IndexInv, IndexTypeOK
<1>3. /\ scan' \in Scan /\ scan'.left = scan.left \ {i}
      /\ scan'.pc = scan.pc /\ scan'.cur = scan.cur /\ scan'.at = scan.at
      /\ scan'.colls = scan.colls /\ scan'.read = scan.read
  BY <1>2 DEF SkipSealed, Scan
<1>4. IndexTypeOK' /\ ScanShape'
  BY <1>1, <1>2, <1>3 DEF IndexInv, IndexTypeOK, ScanShape, Idle, records, tables
<1>5. ASSUME NEW j \in Ids
      PROVE  Fresh(j)' /\ ReadThere(j)'
  BY <1>1, <1>3 DEF IndexInv, Fresh, ReadThere, Has, ByActor, records
<1>6. ASSUME NEW d \in Colls, NEW j \in Ids
      PROVE  CaughtUp(d, j)'
  <2>1. SameRecord(j) /\ SameRows(d, j)
    BY <1>1, ScanOnly
  <2> QED
    BY <1>1, <1>2, <1>3, <2>1
    DEF IndexInv, CaughtUp, SameRecord, SameRows, RowSays, TextSays, Live, Has, Joined, Idle
<1> QED
  BY <1>1, <1>4, <1>5, <1>6, ScanOnly DEF IndexInv

\* What a rebuild writes is what the listed version says.
LEMMA DataValues ==
    ASSUME IndexTypeOK, NEW i \in Ids, NEW cols \in SUBSET Fields, scan.read[i] = rec[i].ver,
           rec[i].ver > 0, data[rec[i].ver] = "json"
    PROVE  \A f \in cols : FromData(cols, scan.read[i])[f] = rec[i].ver
  BY DEF FromData

LEMMA RowKeeps ==
    ASSUME IndexInv, NEW i \in Ids, RebuildRow(i)
    PROVE  IndexInv'
<1>0. PICK c \in Colls : c = scan.at
  BY DEF IndexInv, IndexTypeOK, Scan
<1> DEFINE def == indexes[c]
           value == FromData(def.fields, scan.read[i])
<1>1. scan \in Scan /\ scan.pc = "row" /\ i \in scan.left /\ scan.cur = {} /\ scan.at = c
  BY <1>0 DEF RebuildRow, IndexInv, IndexTypeOK, ScanShape, Scan
<1>2. /\ UNCHANGED <<records, table, fts, indexes>>
      /\ shadow' = [shadow EXCEPT ![c] = WithIndexRow(shadow[c], i, def.fields, value)]
  BY <1>0 DEF RebuildRow
<1>3. def.fields \in SUBSET Fields /\ shadow[c] \in [Ids -> IndexRow]
  BY <1>1 DEF IndexInv, IndexTypeOK, IndexDef
<1>4. value \in [Fields -> 0..MaxVer]
  <2>1. scan.read[i] \in 0..MaxVer /\ IndexTypeOK
    BY <1>1 DEF Scan, IndexInv
  <2> QED
    BY <1>3, <2>1, ValueTypes
<1>5. /\ scan' \in Scan /\ scan'.left = scan.left \ {i} /\ scan'.at = c
      /\ scan'.cur = (IF def.text = {} THEN {} ELSE {i})
      /\ scan'.pc = (IF def.text = {} THEN "row" ELSE "clear")
      /\ scan'.colls = scan.colls /\ scan'.read = scan.read
  BY <1>1 DEF RebuildRow, Scan
<1>6. \A j \in Ids : SameRecord(j)
  BY <1>2 DEF SameRecord, records
<1>7. /\ shadow'[c] = WithIndexRow(shadow[c], i, def.fields, value)
      /\ \A d \in Colls \ {c} : shadow'[d] = shadow[d]
  BY <1>1, <1>2 DEF IndexInv, IndexTypeOK
<1>8. IndexTypeOK' /\ ScanShape'
  <2>1. shadow' \in [Colls -> [Ids -> IndexRow]]
    BY <1>2, <1>3, <1>4, RowTypes DEF IndexInv, IndexTypeOK
  <2> QED
    BY <1>2, <1>5, <2>1 DEF IndexInv, IndexTypeOK, ScanShape, Idle, records
<1>9. ASSUME NEW j \in Ids
      PROVE  Fresh(j)' /\ ReadThere(j)'
  BY <1>1, <1>2, <1>5 DEF IndexInv, Fresh, ReadThere, Has, ByActor, records
<1>10. ASSUME NEW d \in Colls, NEW j \in Ids, ~(d = c /\ j = i)
       PROVE  Held(d, j)' /\ Forgotten(d, j)' /\ CaughtUp(d, j)'
  <2>1. SameRows(d, j)
    BY <1>2, <1>3, <1>7, <1>10 DEF SameRows, WithIndexRow
  <2>2. CaughtUp(d, j)'
    BY <1>1, <1>2, <1>5, <1>6, <1>10, <2>1
    DEF IndexInv, CaughtUp, SameRecord, SameRows, RowSays, TextSays, Live, Has, Joined, Idle
  <2> QED
    BY <1>6, <2>1, <2>2, SameHolding DEF IndexInv
<1>11. Held(c, i)' /\ Forgotten(c, i)' /\ CaughtUp(c, i)'
  <2>1. Has(c, i) /\ ByActor(i) => scan.read[i] = rec[i].ver /\ rec[i].live
    BY <1>1 DEF IndexInv, Fresh
  <2>2. Live(c, i) /\ scan.read[i] = rec[i].ver /\ data[rec[i].ver] = "json" =>
           \A f \in def.fields : shadow'[c][i].val[f] = rec[i].ver
    <3> SUFFICES ASSUME Live(c, i), scan.read[i] = rec[i].ver, data[rec[i].ver] = "json"
                 PROVE  \A f \in def.fields : shadow'[c][i].val[f] = rec[i].ver
      OBVIOUS
    <3>1. \A f \in def.fields : value[f] = rec[i].ver
      BY <1>3, DataValues DEF IndexInv, Live, Has
    <3> QED
      BY <1>3, <1>4, <1>7, <3>1 DEF WithIndexRow
  <2>3. def.fields # {} => shadow'[c][i].there
    BY <1>3, <1>7 DEF WithIndexRow
  <2>4. shadow[c][i].there => shadow'[c][i].there
    BY <1>3, <1>7 DEF WithIndexRow
  <2>5. \A f \in Fields \ def.fields : shadow'[c][i].val[f] = shadow[c][i].val[f]
    BY <1>3, <1>4, <1>7 DEF WithIndexRow
  <2>6. rec'[i] = rec[i] /\ data' = data /\ fts' = fts /\ indexes' = indexes
    BY <1>2 DEF records
  <2>7. rec[i].by.fields \subseteq Fields
    BY DEF IndexInv, IndexTypeOK, Record, IndexDef
  <2> HIDE DEF value
  <2>8. Held(c, i)'
    BY <1>1, <2>1, <2>2, <2>4, <2>5, <2>6, <2>7 DEF IndexInv, Held, Live, Has, ByActor
  <2>9. Forgotten(c, i)'
    BY <2>1, <2>6 DEF Forgotten, Has, ByActor
  <2>10. CaughtUp(c, i)'
    BY <1>1, <1>5, <2>2, <2>3, <2>6
    DEF CaughtUp, RowSays, TextSays, Live, Has, Joined
  <2> QED
    BY <2>8, <2>9, <2>10
<1> QED
  BY <1>8, <1>9, <1>10, <1>11, <1>1 DEF IndexInv

\* The two statements on the text row of the record at hand.
LEMMA TextKeeps ==
    ASSUME IndexInv, NEW i \in Ids, ClearText(i) \/ InsertText(i)
    PROVE  IndexInv'
<1>0. PICK c \in Colls : c = scan.at
  BY DEF IndexInv, IndexTypeOK, Scan
<1> DEFINE def == indexes[c]
           value == FromData(def.fields, scan.read[i])
<1>1. scan \in Scan /\ ~Idle /\ scan.cur = {i} /\ scan.at = c
  BY <1>0 DEF ClearText, InsertText, IndexInv, IndexTypeOK, Idle, Scan
<1>2. UNCHANGED <<records, table, shadow, indexes>>
  BY DEF ClearText, InsertText
<1>3. def.fields \in SUBSET Fields /\ def.text \in SUBSET Fields /\ fts[c] \in [Ids -> IndexRow]
  BY <1>1 DEF IndexInv, IndexTypeOK, IndexDef
<1>4. value \in [Fields -> 0..MaxVer]
  <2>1. scan.read[i] \in 0..MaxVer /\ IndexTypeOK
    BY <1>1 DEF Scan, IndexInv
  <2> QED
    BY <1>3, <2>1, ValueTypes
<1>5. /\ scan' \in Scan /\ scan'.left = scan.left /\ scan'.at = c /\ scan'.pc # "idle"
      /\ scan'.colls = scan.colls /\ scan'.read = scan.read
      /\ \/ scan'.pc = "insert" /\ scan'.cur = {i} /\ ClearText(i)
         \/ scan'.pc = "row" /\ scan'.cur = {} /\ InsertText(i)
  BY <1>1 DEF ClearText, InsertText, Scan
<1>6. \A j \in Ids : SameRecord(j)
  BY <1>2 DEF SameRecord, records
<1>7. /\ ClearText(i) => fts' = [fts EXCEPT ![c] = WithoutRow(fts[c], i, def.text)]
      /\ InsertText(i) => fts' = [fts EXCEPT ![c] = WithTextRow(fts[c], i, def.text, value)]
  BY <1>0 DEF ClearText, InsertText
<1> HIDE DEF value
<1>8. IndexTypeOK' /\ ScanShape'
  <2>1. /\ WithoutRow(fts[c], i, def.text) \in [Ids -> IndexRow]
        /\ WithTextRow(fts[c], i, def.text, value) \in [Ids -> IndexRow]
    BY <1>3, <1>4, RowTypes
  <2>2. fts' \in [Colls -> [Ids -> IndexRow]]
    BY <1>5, <1>7, <2>1 DEF IndexInv, IndexTypeOK
  <2> QED
    BY <1>2, <1>5, <2>2 DEF IndexInv, IndexTypeOK, ScanShape, Idle, records
<1>9. ASSUME NEW j \in Ids
      PROVE  Fresh(j)' /\ ReadThere(j)'
  BY <1>1, <1>2, <1>5 DEF IndexInv, Fresh, ReadThere, Has, ByActor, records
<1>10. ASSUME NEW d \in Colls, NEW j \in Ids, ~(d = c /\ j = i)
       PROVE  Held(d, j)' /\ Forgotten(d, j)' /\ CaughtUp(d, j)'
  <2>1. /\ WithoutRow(fts[c], i, def.text)[j] = fts[c][j] \/ j = i
        /\ WithTextRow(fts[c], i, def.text, value)[j] = fts[c][j] \/ j = i
    BY <1>3, RowFrames
  <2>2. SameRows(d, j)
    BY <1>1, <1>2, <1>5, <1>7, <1>10, <2>1 DEF SameRows, IndexInv, IndexTypeOK
  <2>3. CaughtUp(d, j)'
    BY <1>1, <1>2, <1>5, <1>6, <1>10, <2>2
    DEF IndexInv, CaughtUp, SameRecord, SameRows, RowSays, TextSays, Live, Has, Joined, Idle
  <2> QED
    BY <1>6, <2>2, <2>3, SameHolding DEF IndexInv
<1>11. Held(c, i)' /\ Forgotten(c, i)' /\ CaughtUp(c, i)'
  <2>1. Has(c, i) /\ ByActor(i) => rec[i].live
    BY <1>1 DEF IndexInv, Fresh
  <2>2. rec'[i] = rec[i] /\ data' = data /\ shadow' = shadow /\ indexes' = indexes
    BY <1>2 DEF records
  <2>3. Held(c, i)' /\ Forgotten(c, i)'
    BY <1>1, <2>1, <2>2 DEF IndexInv, Held, Forgotten, Live, Has, ByActor
  <2>4. CaughtUp(c, i) /\ (RowSays(c, i) => RowSays(c, i)')
    BY <1>1, <2>2 DEF IndexInv, RowSays
  <2>5. CASE ClearText(i)
    <3>1. scan'.cur = {i}
      BY <1>1, <2>5 DEF ClearText, Scan
    <3> QED
      BY <1>1, <1>5, <2>2, <2>3, <2>4, <3>1 DEF CaughtUp, Live, Has, Joined
  <2>6. CASE InsertText(i)
    <3>1. Live(c, i) /\ scan.read[i] = rec[i].ver => TextSays(c, i)'
      <4> SUFFICES ASSUME Live(c, i), scan.read[i] = rec[i].ver, data[rec[i].ver] = "json",
                          NEW f \in def.text \cap def.fields
                   PROVE  fts'[c][i].there /\ fts'[c][i].val[f] = rec[i].ver /\ f \in Fields
        BY <1>3, <2>2 DEF TextSays
      <4>1. value[f] = rec[i].ver
        BY <1>3, DataValues DEF IndexInv, Live, Has, value
      <4>2. fts'[c] = WithTextRow(fts[c], i, def.text, value)
        BY <1>1, <1>7, <2>6 DEF IndexInv, IndexTypeOK
      <4> QED
        BY <1>3, <1>4, <4>1, <4>2 DEF WithTextRow
    <3> QED
      BY <1>1, <1>5, <2>2, <2>3, <2>4, <3>1 DEF CaughtUp, Live, Has, Joined
  <2> QED
    BY <2>5, <2>6
<1> QED
  BY <1>1, <1>8, <1>9, <1>10, <1>11 DEF IndexInv

-----------------------------------------------------------------------------
LEMMA RebuildKeeps ==
    ASSUME IndexInv, Rebuild
    PROVE  IndexInv'
<1>1. indexes \in [Colls -> IndexDef]
  BY DEF IndexInv, IndexTypeOK
<1>2. CASE RebuildIndexes \/ RebuildFails \/ RebuildEnds
  BY <1>1, <1>2, ScanStarts DEF RebuildIndexes, RebuildFails, RebuildEnds
<1>3. CASE \E c \in Colls : ListCollection(c)
  BY <1>3, ListKeeps
<1>4. CASE \E i \in Ids : SkipSealed(i) \/ RebuildRow(i) \/ ClearText(i) \/ InsertText(i)
  BY <1>4, SkipKeeps, RowKeeps, TextKeeps
<1> QED
  BY <1>2, <1>3, <1>4 DEF Rebuild

LEMMA RestartKeeps ==
    ASSUME IndexInv, Restart
    PROVE  IndexInv'
<1>1. indexes' \in [Colls -> IndexDef]
  BY NothingTypes DEF Restart
<1> QED
  BY <1>1, ScanStarts DEF Restart

LEMMA StepIndexInv == IndexInv /\ [Next]_vars => IndexInv'
<1> SUFFICES ASSUME IndexInv, [Next]_vars PROVE IndexInv'
  OBVIOUS
<1>1. CASE \E c \in Colls : \E def \in Defs[c] : RegisterIndex(c, def) \/ RegisterFails(c, def)
  BY <1>1, RegisterKeeps
<1>2. CASE \E c \in Colls, i \in Ids :
              \/ \E kind \in Kinds, given \in Supplied : Put(c, i, kind, given)
              \/ Delete(c, i)
              \/ \E kind \in Kinds, live \in BOOLEAN : ApplyRemote(c, i, live, kind)
  BY <1>2, PutKeeps, DeleteKeeps, ApplyKeeps
<1>3. CASE Rebuild \/ Restart
  BY <1>3, RebuildKeeps, RestartKeeps
<1>4. CASE UNCHANGED vars
  <2>1. UNCHANGED <<records, tables>> /\ scan' = scan /\ indexes' = indexes
    BY <1>4 DEF vars
  <2>2. IndexTypeOK' /\ ScanShape'
    BY <2>1 DEF IndexInv, IndexTypeOK, ScanShape, Idle, records, tables
  <2>3. ASSUME NEW j \in Ids
        PROVE  Fresh(j)' /\ ReadThere(j)'
    BY <2>1 DEF IndexInv, Fresh, ReadThere, Has, ByActor, records
  <2>4. ASSUME NEW c \in Colls, NEW j \in Ids
        PROVE  CaughtUp(c, j)'
    BY <2>1, ScanOnly, SameCatching DEF IndexInv
  <2> QED
    BY <2>1, <2>2, <2>3, <2>4, ScanOnly DEF IndexInv
<1> QED
  BY <1>1, <1>2, <1>3, <1>4 DEF Next

LEMMA IndexInvariance == Spec => []IndexInv
  BY InitIndexInv, StepIndexInv, PTL DEF Spec

\* Every variable of ShadowIndex keeps its type.
THEOREM IndexTypeCorrect == Spec => []IndexTypeOK
<1>1. IndexInv => IndexTypeOK
  BY DEF IndexInv
<1> QED
  BY <1>1, IndexInvariance, PTL

\* A record is found by the values its put came with while that version lasts,
\* whatever is registered, rebuilt, interrupted or restarted.
THEOREM PutStaysFound == Spec => []PutIsFound
<1>1. ASSUME IndexInv, NEW c \in Colls, NEW i \in Ids, NEW f \in rec[i].by.fields,
             Live(c, i), data[rec[i].ver] = "json", Joined(c)
      PROVE  i \in Comparing(c, f, {rec[i].ver})
  <2>1. shadow[c][i].there /\ shadow[c][i].val[f] = rec[i].ver
    BY <1>1 DEF IndexInv, Held
  <2>2. rec[i].ver # 0
    BY <1>1 DEF Live, Has, IndexInv, IndexTypeOK, Record
  <2> QED
    BY <1>1, <2>1, <2>2 DEF Comparing, Listed, Live
<1>2. IndexInv => PutIsFound
  BY <1>1 DEF PutIsFound
<1> QED
  BY <1>2, IndexInvariance, PTL

\* What the actor deleted leaves no row in the index of its collection, and no
\* rebuild that was under way or comes later brings one back.
THEOREM DeletedStaysForgotten == Spec => []DeletedIsForgotten
<1>1. IndexInv => DeletedIsForgotten
  BY DEF IndexInv, Forgotten, DeletedIsForgotten
<1> QED
  BY <1>1, IndexInvariance, PTL

\* A rebuild that reaches its end has brought every record that it listed, and that
\* nobody replaced meanwhile, to where queries see what its data say.
THEOREM RebuildIsComplete == Spec => []RebuildCatchesUp
<1>1. ASSUME IndexInv, scan.pc = "row", scan.left = {}, scan.colls = {},
             NEW c \in Colls, NEW i \in Ids, Live(c, i), scan.read[i] = rec[i].ver,
             Joined(c), data[rec[i].ver] # "sealed"
      PROVE  /\ i \in Listed(c, FALSE)
             /\ data[rec[i].ver] = "json" =>
                  /\ \A f \in indexes[c].fields : i \in Comparing(c, f, {rec[i].ver})
                  /\ indexes[c].text \cap indexes[c].fields # {} =>
                        i \in Containing(c, rec[i].ver)
  <2>1. scan.cur = {} /\ ~Idle
    BY <1>1 DEF IndexInv, ScanShape, Idle
  <2>2. RowSays(c, i) /\ TextSays(c, i)
    BY <1>1, <2>1 DEF IndexInv, CaughtUp
  <2>3. rec[i].ver # 0
    BY <1>1 DEF Live, Has, IndexInv, IndexTypeOK, Record
  <2>4. i \in Listed(c, FALSE)
    BY <1>1, <2>2 DEF Listed, Live, RowSays
  <2> QED
    BY <2>2, <2>3, <2>4 DEF RowSays, TextSays, Comparing, Containing
<1>2. IndexInv => RebuildCatchesUp
  BY <1>1 DEF RebuildCatchesUp
<1> QED
  BY <1>2, IndexInvariance, PTL

\* A row of a live record goes only by a delete of that record, or with its table.
LEMMA RowsStay ==
    ASSUME IndexInv, Next, NEW c \in Colls, NEW i \in Ids,
           shadow[c][i].there, Live(c, i), Live(c, i)'
    PROVE  shadow'[c][i].there
<1>1. shadow \in [Colls -> [Ids -> IndexRow]]
  BY DEF IndexInv, IndexTypeOK
<1>2. CASE \E d \in Colls, j \in Ids : \E kind \in Kinds, given \in Supplied : Put(d, j, kind, given)
  BY <1>1, <1>2 DEF Put, WithIndexRow
<1>3. CASE \E d \in Colls, j \in Ids : Delete(d, j)
  <2>1. PICK d \in Colls, j \in Ids : Delete(d, j)
    BY <1>3
  <2>2. CASE d = c /\ j = i
    <3>1. Write(c, i, FALSE, "json", indexes[c])
      BY <2>1, <2>2 DEF Delete, Live
    <3>2. ~rec'[i].live
      BY <3>1 DEF Write, IndexInv, IndexTypeOK
    <3> QED
      BY <3>2 DEF Live
  <2>3. CASE ~(d = c /\ j = i)
    BY <1>1, <2>1, <2>3 DEF Delete, WithoutRow
  <2> QED
    BY <2>2, <2>3
<1>4. CASE \E j \in Ids : RebuildRow(j)
  BY <1>1, <1>4 DEF RebuildRow, WithIndexRow
<1>5. CASE shadow' = shadow
  BY <1>5
<1> QED
  BY <1>2, <1>3, <1>4, <1>5
  DEF Next, Rebuild, RegisterIndex, RegisterFails, ApplyRemote, RebuildIndexes, RebuildFails,
    RebuildEnds, ListCollection, SkipSealed, ClearText, InsertText, Restart, tables

\* No step of the actor, of a rebuild or of the sync loop hides a record that queries
\* of a registered collection return.
THEOREM RecordsStayVisible == Spec => StaysVisible
<1>1. ASSUME IndexInv, Next
      PROVE  \A c \in Colls, i \in Ids :
                i \in Listed(c, FALSE) /\ Live(c, i)' /\ indexes' = indexes =>
                    (i \in Listed(c, FALSE))'
  <2> SUFFICES ASSUME NEW c \in Colls, NEW i \in Ids, i \in Listed(c, FALSE), Live(c, i)',
                      indexes' = indexes
               PROVE  (i \in Listed(c, FALSE))'
    OBVIOUS
  <2>1. Live(c, i) /\ (Joined(c) => shadow[c][i].there)
    BY DEF Listed, Live
  <2>2. Joined(c)' => shadow'[c][i].there
    BY <1>1, <2>1, RowsStay DEF Joined
  <2> QED
    BY <2>2 DEF Listed, Live
<1>2. IndexInv /\ [Next]_vars =>
        [\A c \in Colls, i \in Ids :
            i \in Listed(c, FALSE) /\ Live(c, i)' /\ indexes' = indexes =>
                (i \in Listed(c, FALSE))']_vars
  BY <1>1
<1> QED
  BY <1>2, IndexInvariance, PTL DEF Spec, StaysVisible

-----------------------------------------------------------------------------
(***************************************************************************)
(* Columns.  A table has the columns of a definition, and one that is        *)
(* registered has been given its tables.                                    *)
(***************************************************************************)

TablesAreDefined ==
    \A c \in Colls :
        /\ table[c].fields = {} \/ \E def \in Defs[c] : table[c].fields = def.fields
        /\ table[c].text = {} \/ \E def \in Defs[c] : table[c].text = def.text
        /\ indexes[c].fields # {} => table[c].fields # {}
        /\ indexes[c].text # {} => table[c].text # {}
        /\ indexes[c] \in Defs[c] \cup {Nothing}

\* Registering is the only step that touches tables and definitions, but for a restart.
LEMMA StepTablesAreDefined ==
    ASSUME IndexTypeOK, TablesAreDefined, [Next]_vars
    PROVE  TablesAreDefined'
<1>1. CASE table' = table /\ (indexes' = indexes \/ indexes' = [c \in Colls |-> Nothing])
  BY <1>1 DEF TablesAreDefined, Nothing
<1>2. ASSUME NEW c \in Colls, NEW def \in Defs[c], RegisterIndex(c, def) \/ RegisterFails(c, def)
      PROVE  TablesAreDefined'
  <2>1. /\ \A d \in Colls \ {c} : table'[d] = table[d] /\ indexes'[d] = indexes[d]
        /\ table'[c].fields = Created(table[c].fields, def.fields)
    BY <1>2 DEF RegisterIndex, RegisterFails, IndexTypeOK, IndexDef
  <2>2. \/ indexes'[c] = def /\ table'[c].text = Created(table[c].text, def.text)
        \/ indexes'[c] = indexes[c] /\ table'[c].text = table[c].text
    BY <1>2 DEF RegisterIndex, RegisterFails, IndexTypeOK, IndexDef
  <2>3. /\ table'[c].fields = {} \/ \E d \in Defs[c] : table'[c].fields = d.fields
        /\ table'[c].text = {} \/ \E d \in Defs[c] : table'[c].text = d.text
    BY <2>1, <2>2 DEF Created, TablesAreDefined
  <2>4. /\ indexes'[c].fields # {} => table'[c].fields # {}
        /\ indexes'[c].text # {} => table'[c].text # {}
        /\ indexes'[c] \in Defs[c] \cup {Nothing}
    BY <2>1, <2>2 DEF Created, TablesAreDefined
  <2>5. \A d \in Colls \ {c} :
           /\ table'[d].fields = {} \/ \E e \in Defs[d] : table'[d].fields = e.fields
           /\ table'[d].text = {} \/ \E e \in Defs[d] : table'[d].text = e.text
           /\ indexes'[d].fields # {} => table'[d].fields # {}
           /\ indexes'[d].text # {} => table'[d].text # {}
           /\ indexes'[d] \in Defs[d] \cup {Nothing}
    BY <2>1 DEF TablesAreDefined
  <2> QED
    BY <2>3, <2>4, <2>5 DEF TablesAreDefined
<1>3. \/ table' = table /\ (indexes' = indexes \/ indexes' = [c \in Colls |-> Nothing])
      \/ \E c \in Colls : \E def \in Defs[c] : RegisterIndex(c, def) \/ RegisterFails(c, def)
  BY DEF Next, vars, tables, Put, Delete, ApplyRemote, Rebuild, RebuildIndexes, RebuildFails,
     RebuildEnds, ListCollection, SkipSealed, RebuildRow, ClearText, InsertText, Restart
<1> QED
  BY <1>1, <1>2, <1>3

LEMMA TablesAreDefinedAlways == Spec => []TablesAreDefined
<1>1. Init => TablesAreDefined
  BY DEF Init, TablesAreDefined, Nothing
<1>2. IndexInv /\ TablesAreDefined /\ [Next]_vars => TablesAreDefined'
  BY StepTablesAreDefined DEF IndexInv
<1> QED
  BY <1>1, <1>2, IndexInvariance, PTL DEF Spec

\* A put fails for want of a column, and a rebuild is cut off by one, only where another
\* definition of the collection made the table first, whatever registrations failed
\* halfway or were lost with the process.
THEOREM MisfitsStayEvolved == Spec => []MisfitsAreEvolved
<1>1. TablesAreDefined => MisfitsAreEvolved
  <2> SUFFICES ASSUME TablesAreDefined, NEW c \in Colls
               PROVE  /\ \/ indexes[c].fields \subseteq table[c].fields
                         \/ \E def \in Defs[c] \ {indexes[c]} : table[c].fields = def.fields
                      /\ \/ indexes[c].text \subseteq table[c].text
                         \/ \E def \in Defs[c] \ {indexes[c]} : table[c].text = def.text
    BY DEF MisfitsAreEvolved
  <2> QED
    BY DEF TablesAreDefined
<1> QED
  BY <1>1, TablesAreDefinedAlways, PTL

\* Hence an application that never changes a definition has every put find its columns,
\* through failed registrations and restarts.
THEOREM OneDefinitionFits ==
    ASSUME \A c \in Colls : \A def, other \in Defs[c] : def = other
    PROVE  Spec => [](\A c \in Colls : Fits(c, indexes[c]))
<1>1. MisfitsAreEvolved /\ TablesAreDefined => \A c \in Colls : Fits(c, indexes[c])
  BY DEF MisfitsAreEvolved, TablesAreDefined, Fits, Nothing
<1> QED
  BY <1>1, MisfitsStayEvolved, TablesAreDefinedAlways, PTL

-----------------------------------------------------------------------------
(***************************************************************************)
(* When a text stays found.  A rebuild writes the text row anew from the     *)
(* scalar fields of the JSON data, by a DELETE and an INSERT: the text is     *)
(* kept where every text field is a scalar field too, the data are JSON, and  *)
(* nothing comes between the two statements.                                *)
(***************************************************************************)

ScalarText == \A c \in Colls : \A def \in Defs[c] : def.text \subseteq def.fields

\* No rebuild fails, and no crash happens, between ClearText and InsertText.
Uninterrupted == scan.pc = "insert" /\ scan' # scan => \E i \in Ids : InsertText(i)

\* The text row of the record is between its two statements.
Gap(c, i) == scan.pc = "insert" /\ scan.at = c /\ scan.cur = {i}

TextHeld(c, i) ==
    Live(c, i) /\ rec[i].by.text # {} =>
        /\ rec[i].by.fields # {} /\ data[rec[i].ver] = "json"
        /\ Gap(c, i) \/ (fts[c][i].there /\ \E f \in Fields : fts[c][i].val[f] = rec[i].ver)

\* The inductive invariant: a text row is only cleared for a definition with text
\* fields, all of which the data have.
TextInv ==
    /\ \A c \in Colls : indexes[c] \in Defs[c] \cup {Nothing}
    /\ scan.pc \in {"clear", "insert"} => indexes[scan.at].text # {}
    /\ \A c \in Colls, i \in Ids : TextHeld(c, i)

\* A step that leaves the record and its text row closes no gap.
LEMMA SameText ==
    ASSUME NEW c \in Colls, NEW j \in Ids, SameRecord(j), fts'[c][j] = fts[c][j],
           Gap(c, j) => Gap(c, j)', TextHeld(c, j)
    PROVE  TextHeld(c, j)'
  BY DEF SameRecord, TextHeld, Live, Has

LEMMA PutHoldsText ==
    ASSUME ScalarText, "opaque" \notin Kinds, IndexInv, TextInv, NEW c \in Colls, NEW i \in Ids,
           NEW kind \in Kinds, NEW given \in Supplied, Put(c, i, kind, given)
    PROVE  TextInv'
<1> DEFINE def == indexes[c]
           by == [fields |-> def.fields \cap given, text |-> def.text \cap given]
           value == FromCaller(given, ver + 1)
<1>1. /\ def \in IndexDef /\ by \in IndexDef /\ given \in SUBSET Fields /\ kind \in DataKinds
      /\ def.text \in SUBSET Fields
  BY IndexAssumption DEF IndexInv, IndexTypeOK, IndexDef
<1>2. def.text \subseteq def.fields
  BY DEF TextInv, ScalarText, Nothing
<1>3. Idle /\ scan' = scan /\ indexes' = indexes
  BY DEF Put
<1>4. Write(c, i, TRUE, kind, by) /\ TRUE \in BOOLEAN /\ IndexTypeOK /\ ScanShape
  BY DEF Put, IndexInv
<1> HIDE DEF by
<1>5. /\ ver \in Nat /\ ver + 1 \in 0..MaxVer
      /\ rec'[i].coll = c /\ rec'[i].ver = ver + 1 /\ rec'[i].by = by
      /\ data'[ver + 1] = kind
      /\ \A j \in Ids \ {i} : SameRecord(j)
  <2>1. /\ ver \in Nat /\ ver + 1 \in 1..MaxVer
        /\ rec'[i].coll = c /\ rec'[i].ver = ver + 1 /\ rec'[i].by = by
    BY <1>1, <1>4, WriteEffect
  <2>2. data'[ver + 1] = kind
    BY <1>4, <2>1 DEF Write, IndexTypeOK
  <2>3. \A j \in Ids \ {i} : SameRecord(j)
    BY <1>1, <1>4, WriteEffect
  <2> QED
    BY <2>1, <2>2, <2>3
<1>6. kind = "json"
  BY <1>1 DEF Put, DataKinds
<1>7. fts' = [fts EXCEPT ![c] = WithTextRow(fts[c], i, def.text, value)]
      /\ fts \in [Colls -> [Ids -> IndexRow]]
  BY <1>4 DEF Put, IndexTypeOK
<1>8. value \in [Fields -> 0..MaxVer] /\ \A f \in given : value[f] = ver + 1
  BY <1>1, <1>4, <1>5, ValueTypes DEF FromCaller
<1> HIDE DEF value
<1>9. ASSUME NEW d \in Colls, NEW j \in Ids, j # i
      PROVE  TextHeld(d, j)'
  <2>1. fts'[d][j] = fts[d][j]
    <3>1. WithTextRow(fts[c], i, def.text, value)[j] = fts[c][j]
      BY <1>7, <1>9, RowFrames
    <3> QED
      BY <1>7, <3>1
  <2> QED
    BY <1>3, <1>5, <1>9, <2>1, SameText DEF Gap, TextInv
<1>10. ASSUME NEW d \in Colls
       PROVE  TextHeld(d, i)'
  <2>1. CASE d # c
    BY <1>5, <2>1 DEF TextHeld, Live, Has
  <2>2. CASE d = c /\ def.text \cap given = {}
    BY <1>5, <2>2 DEF TextHeld, by
  <2>3. CASE d = c /\ def.text \cap given # {}
    <3>1. PICK f \in def.text \cap given : TRUE
      BY <2>3
    <3>2. fts'[c] = WithTextRow(fts[c], i, def.text, value)
      BY <1>7
    <3>3. fts'[c][i].there /\ fts'[c][i].val[f] = ver + 1
      <4> HIDE DEF def
      <4>1. value[f] = ver + 1 /\ f \in Fields /\ fts[c] \in [Ids -> IndexRow]
        BY <1>1, <1>7, <1>8, <3>1
      <4> QED
        BY <3>1, <3>2, <4>1 DEF WithTextRow
    <3>4. rec'[i].by.fields # {} /\ data'[rec'[i].ver] = "json"
      BY <1>2, <1>5, <1>6, <3>1 DEF by
    <3> QED
      BY <1>1, <1>5, <2>3, <3>1, <3>3, <3>4 DEF TextHeld
  <2> QED
    BY <2>1, <2>2, <2>3
<1> QED
  BY <1>3, <1>9, <1>10 DEF TextInv

LEMMA DeleteHoldsText ==
    ASSUME IndexInv, TextInv, NEW c \in Colls, NEW i \in Ids, Delete(c, i)
    PROVE  TextInv'
<1>1. scan' = scan /\ indexes' = indexes /\ IndexTypeOK /\ ScanShape
  BY DEF Delete, IndexInv
<1>2. fts' = [fts EXCEPT ![c] = WithoutRow(fts[c], i, indexes[c].text)]
      /\ fts \in [Colls -> [Ids -> IndexRow]]
  BY <1>1 DEF Delete, IndexTypeOK
<1>3. ASSUME NEW j \in Ids \ {i}
      PROVE  SameRecord(j)
  <2>1. CASE Has(c, i)
    <3>1. /\ Write(c, i, FALSE, "json", indexes[c]) /\ indexes[c] \in IndexDef
          /\ FALSE \in BOOLEAN /\ "json" \in DataKinds
      BY <1>1, <2>1 DEF Delete, IndexTypeOK, DataKinds
    <3> QED
      BY <1>1, <3>1, WriteEffect
  <2>2. CASE ~Has(c, i)
    BY <2>2 DEF Delete, records, SameRecord
  <2> QED
    BY <2>1, <2>2
<1>4. ASSUME NEW d \in Colls, NEW j \in Ids, j # i
      PROVE  TextHeld(d, j)'
  <2>1. fts'[d][j] = fts[d][j]
    <3>1. WithoutRow(fts[c], i, indexes[c].text)[j] = fts[c][j]
      BY <1>2, <1>4 DEF WithoutRow
    <3> QED
      BY <1>2, <3>1
  <2> QED
    BY <1>1, <1>3, <1>4, <2>1, SameText DEF Gap, TextInv
<1>5. ASSUME NEW d \in Colls
      PROVE  TextHeld(d, i)'
  <2>1. CASE Has(c, i)
    <3>1. rec'[i].live = FALSE
      BY <1>1, <2>1 DEF Delete, Write, IndexTypeOK
    <3> QED
      BY <3>1 DEF TextHeld, Live
  <2>2. CASE ~Has(c, i)
    <3>1. SameRecord(i)
      BY <2>2 DEF Delete, records, SameRecord
    <3>2. CASE d = c
      BY <2>2, <3>1, <3>2 DEF SameRecord, TextHeld, Live, Has
    <3>3. CASE d # c
      BY <1>1, <1>2, <3>1, <3>3, SameText DEF Gap, TextInv
    <3> QED
      BY <3>2, <3>3
  <2> QED
    BY <2>1, <2>2
<1> QED
  BY <1>1, <1>4, <1>5 DEF TextInv

LEMMA ApplyHoldsText ==
    ASSUME IndexInv, TextInv, NEW c \in Colls, NEW i \in Ids, NEW kind \in Kinds,
           NEW live \in BOOLEAN, ApplyRemote(c, i, live, kind)
    PROVE  TextInv'
<1>1. /\ UNCHANGED <<tables, indexes, scan>> /\ Write(c, i, live, kind, Nothing)
      /\ Nothing \in IndexDef /\ kind \in DataKinds /\ IndexTypeOK /\ ScanShape
  BY NothingTypes, IndexAssumption DEF ApplyRemote, IndexInv
<1>2. rec'[i].by = Nothing /\ \A j \in Ids \ {i} : SameRecord(j)
  BY <1>1, WriteEffect
<1>3. \A d \in Colls : TextHeld(d, i)'
  BY <1>2 DEF TextHeld, Nothing
<1>4. \A d \in Colls, j \in Ids \ {i} : TextHeld(d, j)'
  BY <1>1, <1>2, SameText DEF Gap, TextInv, tables
<1> QED
  BY <1>1, <1>3, <1>4 DEF TextInv

\* The steps of a rebuild that write no text row, and what ends one.
LEMMA ScanHoldsText ==
    ASSUME TextInv, Uninterrupted, UNCHANGED <<records, fts>>,
           \A c \in Colls : indexes'[c] \in Defs[c] \cup {Nothing},
           ~\E i \in Ids : InsertText(i),
           scan'.pc = "insert" => scan' = scan,
           scan'.pc \in {"clear", "insert"} => indexes'[scan'.at].text # {}
    PROVE  TextInv'
<1>1. ASSUME NEW c \in Colls, NEW j \in Ids
      PROVE  TextHeld(c, j)'
  <2>1. Gap(c, j) => Gap(c, j)'
    BY DEF Uninterrupted, Gap
  <2>2. SameRecord(j)
    BY DEF SameRecord, records
  <2> QED
    BY <2>1, <2>2, SameText DEF TextInv
<1> QED
  BY <1>1 DEF TextInv

LEMMA ClearHoldsText ==
    ASSUME IndexInv, TextInv, NEW i \in Ids, ClearText(i)
    PROVE  TextInv'
<1>1. /\ scan \in Scan /\ scan.pc = "clear" /\ scan.cur = {i} /\ UNCHANGED <<records, indexes>>
      /\ fts' = [fts EXCEPT ![scan.at] = WithoutRow(@, i, indexes[scan.at].text)]
      /\ fts \in [Colls -> [Ids -> IndexRow]]
  BY DEF ClearText, IndexInv, IndexTypeOK
<1>2. scan'.pc = "insert" /\ scan'.cur = {i} /\ scan'.at = scan.at
  BY <1>1 DEF ClearText, Scan
<1>3. ASSUME NEW c \in Colls, NEW j \in Ids, ~(c = scan.at /\ j = i)
      PROVE  TextHeld(c, j)'
  <2>1. fts'[c][j] = fts[c][j]
    BY <1>1, <1>3 DEF WithoutRow
  <2> QED
    BY <1>1, <2>1, SameText DEF Gap, TextInv, SameRecord, records
<1>4. ASSUME NEW c \in Colls, c = scan.at
      PROVE  TextHeld(c, i)'
  <2>1. Gap(c, i)'
    BY <1>2, <1>4 DEF Gap
  <2> QED
    BY <1>1, <2>1 DEF TextInv, TextHeld, Live, Has, records
<1> QED
  BY <1>1, <1>2, <1>3, <1>4 DEF TextInv

LEMMA InsertHoldsText ==
    ASSUME ScalarText, IndexInv, TextInv, NEW i \in Ids, InsertText(i)
    PROVE  TextInv'
<1>0. PICK c \in Colls : c = scan.at
  BY DEF IndexInv, IndexTypeOK, Scan
<1> DEFINE def == indexes[c]
           value == FromData(def.fields, scan.read[i])
<1>1. /\ scan \in Scan /\ scan.pc = "insert" /\ scan.cur = {i}
      /\ UNCHANGED <<records, indexes>>
      /\ fts' = [fts EXCEPT ![c] = WithTextRow(fts[c], i, def.text, value)]
      /\ fts \in [Colls -> [Ids -> IndexRow]]
  BY <1>0 DEF InsertText, IndexInv, IndexTypeOK
<1>2. scan'.pc = "row"
  BY <1>1 DEF InsertText, Scan
<1>3. /\ def.fields \in SUBSET Fields /\ def.text \in SUBSET Fields
      /\ def.text \subseteq def.fields /\ def.text # {}
  <2>1. def \in IndexDef /\ def.text # {} /\ (def \in Defs[c] \/ def = Nothing)
    BY <1>0, <1>1 DEF TextInv, IndexInv, IndexTypeOK
  <2> HIDE DEF def
  <2>2. def \in Defs[c]
    BY <2>1 DEF Nothing
  <2> QED
    BY <2>1, <2>2 DEF ScalarText, IndexDef
<1>4. value \in [Fields -> 0..MaxVer]
  <2>1. scan.read[i] \in 0..MaxVer /\ IndexTypeOK
    BY <1>1 DEF Scan, IndexInv
  <2> QED
    BY <1>3, <2>1, ValueTypes
<1>5. ASSUME NEW d \in Colls, NEW j \in Ids, ~(d = c /\ j = i)
      PROVE  TextHeld(d, j)'
  <2>1. fts'[d][j] = fts[d][j]
    BY <1>1, <1>5 DEF WithTextRow
  <2>2. ~Gap(d, j)
    BY <1>0, <1>1, <1>5 DEF Gap
  <2> QED
    BY <1>1, <2>1, <2>2, SameText DEF TextInv, SameRecord, records
<1>6. TextHeld(c, i)'
  <2> SUFFICES ASSUME Live(c, i), rec[i].by.text # {}
               PROVE  TextHeld(c, i)'
    BY <1>1 DEF TextHeld, Live, Has, records
  <2>1. rec[i].by.fields # {} /\ data[rec[i].ver] = "json" /\ rec[i].ver > 0
    BY DEF TextInv, TextHeld, Live, Has
  <2>2. scan.read[i] = rec[i].ver
    BY <1>0, <1>1 DEF IndexInv, Fresh, ByActor, Live
  <2>3. \A f \in def.fields : value[f] = rec[i].ver
    BY <1>3, <2>1, <2>2, DataValues DEF IndexInv
  <2>4. PICK f \in def.text : TRUE
    BY <1>3
  <2> HIDE DEF value
  <2>5. fts'[c] = WithTextRow(fts[c], i, def.text, value)
    BY <1>1
  <2>6. fts'[c][i].there /\ fts'[c][i].val[f] = rec[i].ver
    <3> HIDE DEF def
    <3>1. value[f] = rec[i].ver /\ f \in Fields /\ fts[c] \in [Ids -> IndexRow]
      BY <1>1, <1>3, <2>3, <2>4
    <3> QED
      BY <2>4, <2>5, <3>1 DEF WithTextRow
  <2> QED
    BY <1>1, <1>3, <2>1, <2>4, <2>6 DEF TextHeld, records
<1> QED
  BY <1>1, <1>2, <1>5, <1>6 DEF TextInv

LEMMA StepTextInv ==
    ASSUME ScalarText, "opaque" \notin Kinds
    PROVE  IndexInv /\ TextInv /\ [Next]_vars /\ [Uninterrupted]_vars => TextInv'
<1> SUFFICES ASSUME IndexInv, TextInv, [Next]_vars, [Uninterrupted]_vars PROVE TextInv'
  OBVIOUS
<1>t. scan \in Scan /\ indexes \in [Colls -> IndexDef] /\ scan.at \in Colls
  BY DEF IndexInv, IndexTypeOK, Scan
<1>1. CASE UNCHANGED vars
  <2>1. UNCHANGED <<rec, data, indexes, fts, scan>>
    BY <1>1 DEF vars, records, tables
  <2> QED
    BY <2>1 DEF TextInv, TextHeld, Gap, Live, Has
<1>2. CASE \E c \in Colls : \E def \in Defs[c] : RegisterIndex(c, def) \/ RegisterFails(c, def)
  <2>0. PICK c \in Colls : \E def \in Defs[c] : RegisterIndex(c, def) \/ RegisterFails(c, def)
    BY <1>2
  <2>1. PICK def \in Defs[c] : RegisterIndex(c, def) \/ RegisterFails(c, def)
    BY <2>0
  <2>2. UNCHANGED <<records, fts, scan>> /\ Idle
    BY <2>1 DEF RegisterIndex, RegisterFails
  <2>3. \A d \in Colls : indexes'[d] \in Defs[d] \cup {Nothing}
    BY <1>t, <2>1 DEF RegisterIndex, RegisterFails, TextInv
  <2>4. \A d \in Colls, j \in Ids : TextHeld(d, j)'
    BY <2>2 DEF TextInv, TextHeld, Gap, Live, Has, records
  <2> QED
    BY <2>2, <2>3, <2>4 DEF TextInv, Idle
<1>3. CASE \E c \in Colls, i \in Ids :
              \/ \E kind \in Kinds, given \in Supplied : Put(c, i, kind, given)
              \/ Delete(c, i)
              \/ \E kind \in Kinds, live \in BOOLEAN : ApplyRemote(c, i, live, kind)
  BY <1>3, PutHoldsText, DeleteHoldsText, ApplyHoldsText
<1>4. CASE ~UNCHANGED vars /\ \E i \in Ids : ClearText(i) \/ InsertText(i)
  BY <1>4, ClearHoldsText, InsertHoldsText
<1>5. CASE /\ ~UNCHANGED vars
           /\ Restart \/ (Rebuild /\ ~\E i \in Ids : ClearText(i) \/ InsertText(i))
  <2>0. Uninterrupted /\ Scan0.pc = "idle"
    BY <1>5 DEF Scan0
  <2>1. UNCHANGED <<records, fts>> /\ (indexes' = indexes \/ indexes' = [c \in Colls |-> Nothing])
    <3>1. CASE Restart
      BY <3>1 DEF Restart, tables
    <3>2. CASE RebuildIndexes \/ RebuildFails \/ RebuildEnds
      BY <3>2 DEF RebuildIndexes, RebuildFails, RebuildEnds, tables
    <3>3. CASE \E c \in Colls : ListCollection(c)
      BY <3>3 DEF ListCollection, tables
    <3>4. CASE \E i \in Ids : SkipSealed(i) \/ RebuildRow(i)
      BY <3>4 DEF SkipSealed, RebuildRow, tables
    <3> QED
      BY <1>5, <3>1, <3>2, <3>3, <3>4 DEF Rebuild
  <2>2. \A c \in Colls : indexes'[c] \in Defs[c] \cup {Nothing}
    BY <2>1 DEF TextInv
  <2>3. ~\E i \in Ids : InsertText(i)
    <3>1. CASE Restart
      <4>1. scan'.pc = "idle"
        BY <2>0, <3>1 DEF Restart
      <4> QED
        BY <1>t, <4>1 DEF InsertText, Scan
    <3> QED
      BY <1>5, <3>1
  <2>4. CASE Restart \/ RebuildFails \/ RebuildEnds
    BY <2>0, <2>1, <2>2, <2>3, <2>4, ScanHoldsText DEF Restart, RebuildFails, RebuildEnds
  <2>5. CASE RebuildIndexes
    <3>1. scan'.pc = "row"
      BY <2>5 DEF RebuildIndexes, Scan0
    <3> QED
      BY <2>0, <2>1, <2>2, <2>3, <3>1, ScanHoldsText
  <2>6. CASE \E i \in Ids : SkipSealed(i)
    <3>1. scan'.pc = "row"
      BY <1>t, <2>6 DEF SkipSealed, Scan
    <3> QED
      BY <2>0, <2>1, <2>2, <2>3, <3>1, ScanHoldsText
  <2>7. CASE \E c \in Colls : ListCollection(c)
    <3>1. scan'.pc = "row"
      BY <1>t, <2>7 DEF ListCollection, Scan
    <3> QED
      BY <2>0, <2>1, <2>2, <2>3, <3>1, ScanHoldsText
  <2>8. CASE \E i \in Ids : RebuildRow(i)
    <3>1. /\ scan'.at = scan.at /\ indexes' = indexes
          /\ scan'.pc = IF indexes[scan.at].text = {} THEN "row" ELSE "clear"
      BY <1>t, <2>8 DEF RebuildRow, Scan
    <3> QED
      BY <2>0, <2>1, <2>2, <2>3, <3>1, ScanHoldsText
  <2> QED
    BY <1>5, <2>4, <2>5, <2>6, <2>7, <2>8 DEF Rebuild
<1> QED
  BY <1>1, <1>2, <1>3, <1>4, <1>5 DEF Next, Rebuild

\* Full text search keeps its promise, run rebuild_drops_text notwithstanding, where
\* every text field is a scalar field as well and payloads are JSON: whenever the
\* actor is free to take a query, a record is found by the text its put came with.
\* Through restarts, pulls, moves between collections, several definitions, and
\* rebuilds that fail anywhere but between the two statements of a text row.
THEOREM ScalarTextStaysFound ==
    ASSUME ScalarText, "opaque" \notin Kinds
    PROVE  Spec /\ [][Uninterrupted]_vars => []TextStaysFound
<1>1. Init => TextInv
  BY DEF Init, TextInv, TextHeld, Live, Has, NoRecord, Scan0
<1>2. IndexInv /\ TextInv => TextStaysFound
  <2> SUFFICES ASSUME IndexInv, TextInv, Idle, NEW c \in Colls, NEW i \in Ids,
                      Live(c, i), rec[i].by.text # {}, indexes[c].text # {}
               PROVE  i \in Containing(c, rec[i].ver)
    BY DEF TextStaysFound
  <2>1. /\ rec[i].by.fields # {} /\ data[rec[i].ver] = "json"
        /\ fts[c][i].there /\ \E f \in Fields : fts[c][i].val[f] = rec[i].ver
    BY DEF TextInv, TextHeld, Gap, Idle
  <2>2. shadow[c][i].there
    BY <2>1 DEF IndexInv, Held
  <2> QED
    BY <2>1, <2>2 DEF Containing, Listed, Live
<1>3. IndexInv /\ TextInv /\ [Next]_vars /\ [Uninterrupted]_vars => TextInv'
  BY StepTextInv
<1> QED
  BY <1>1, <1>2, <1>3, IndexInvariance, PTL DEF Spec
=============================================================================

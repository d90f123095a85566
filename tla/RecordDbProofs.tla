--------------------------- MODULE RecordDbProofs ---------------------------
(***************************************************************************)
(* Facts about the clock of Hlc, the statements of RecordDb and the store of *)
(* RecordBackend, for every value of the constants: the order of stamps is a *)
(* strict total order, what tick and merge guarantee, what a statement       *)
(* returns, and what it leaves alone.                                        *)
(***************************************************************************)
EXTENDS RecordBackend, TLAPS, WellFoundedInduction

USE LogicalMaxAssumption

\* What the clock operations return is a stamp: the saturating increment keeps
\* the logical counter in its range.
LEMMA StampTypes ==
    /\ Never \in Stamp
    /\ \A node, wall \in Nat : NewHlc(node, wall) \in Stamp
    /\ \A h \in Stamp, wall \in Nat : Tick(h, wall) \in Stamp
    /\ \A h, r \in Stamp, wall \in Nat : Merge(h, r, wall) \in Stamp
<1>1. Never \in Stamp
  BY DEF Never, Stamp
<1>2. \A node, wall \in Nat : NewHlc(node, wall) \in Stamp
  BY DEF NewHlc, Stamp
<1>4. \A m, n \in Nat : Later(m, n) \in Nat
  BY DEF Later
<1>6. ASSUME NEW h \in Stamp, NEW wall \in Nat
      PROVE  Tick(h, wall) \in Stamp
  BY DEF Tick, Stamp, SaturatingInc, Later
<1>7. ASSUME NEW h \in Stamp, NEW r \in Stamp, NEW wall \in Nat
      PROVE  Merge(h, r, wall) \in Stamp
  <2>1. h.ctr \in 0..LogicalMax /\ r.ctr \in 0..LogicalMax /\ h.ms \in Nat /\ r.ms \in Nat
        /\ h.node \in Nat
    BY DEF Stamp
  <2> DEFINE p == Later(wall, Later(h.ms, r.ms))
  <2>2. p \in Nat
    BY <2>1, <1>4
  <2>3. /\ SaturatingInc(Later(h.ctr, r.ctr)) \in 0..LogicalMax
        /\ SaturatingInc(h.ctr) \in 0..LogicalMax
        /\ SaturatingInc(r.ctr) \in 0..LogicalMax
        /\ 0 \in 0..LogicalMax
    BY <2>1 DEF SaturatingInc, Later
  <2> HIDE DEF p
  <2> DEFINE c == CASE p = h.ms /\ p = r.ms -> SaturatingInc(Later(h.ctr, r.ctr))
                    [] p = h.ms /\ p # r.ms -> SaturatingInc(h.ctr)
                    [] p # h.ms /\ p = r.ms -> SaturatingInc(r.ctr)
                    [] OTHER -> 0
  <2>4. c \in 0..LogicalMax
    BY <2>3
  <2>5. Merge(h, r, wall) = [ms |-> p, ctr |-> c, node |-> h.node]
    BY DEF Merge, p
  <2> HIDE DEF c
  <2> QED
    BY <2>1, <2>2, <2>4, <2>5 DEF Stamp
<1> QED
  BY <1>1, <1>2, <1>6, <1>7

\* Ord for Hlc is a strict total order.
LEMMA LessIsTotalOrder ==
    ASSUME NEW a \in Stamp, NEW b \in Stamp, NEW c \in Stamp
    PROVE  /\ ~Less(a, a)
           /\ Less(a, b) /\ Less(b, c) => Less(a, c)
           /\ Less(a, b) \/ Less(b, a) \/ a = b
           /\ ~(Less(a, b) /\ Less(b, a))
  BY DEF Less, Stamp

\* AtLeast chains, alone and with Less.
LEMMA AtLeastTransitive ==
    ASSUME NEW a \in Stamp, NEW b \in Stamp, NEW c \in Stamp
    PROVE  /\ AtLeast(a, a)
           /\ AtLeast(a, b) /\ AtLeast(b, c) => AtLeast(a, c)
           /\ Less(b, a) => AtLeast(a, b)
           /\ Less(b, a) /\ AtLeast(b, c) => AtLeast(a, c)
           /\ AtLeast(a, b) /\ AtLeast(b, a) => a = b
  BY DEF AtLeast, Less, Stamp

\* No stamp is below Never, the value that stands for "nothing".
LEMMA NeverIsLeast ==
    ASSUME NEW a \in Stamp
    PROVE  /\ AtLeast(a, Never)
           /\ a # Never => Less(Never, a)
  BY DEF AtLeast, Less, Stamp, Never

\* tick moves the clock strictly forward, unless the counter is used up in a
\* millisecond that the wall clock has not left: then it returns the stamp it
\* was given, and two writes share one stamp.
THEOREM TickAdvances ==
    ASSUME NEW h \in Stamp, NEW wall \in Nat
    PROVE  IF wall <= h.ms /\ h.ctr = LogicalMax
           THEN Tick(h, wall) = h
           ELSE Less(h, Tick(h, wall))
<1>1. CASE wall <= h.ms /\ h.ctr = LogicalMax
  BY <1>1 DEF Tick, Stamp, Later, SaturatingInc
<1>2. CASE wall <= h.ms /\ h.ctr # LogicalMax
  BY <1>2 DEF Tick, Stamp, Later, SaturatingInc, Less
<1>3. CASE wall > h.ms
  BY <1>3 DEF Tick, Stamp, Later, Less
<1> QED
  BY <1>1, <1>2, <1>3 DEF Stamp

\* merge would give a stamp after the remote one (and after the local one) as
\* long as the counters are not used up: what a device that called it when it
\* pulls a record could rely on.
THEOREM MergeAdvances ==
    ASSUME NEW h \in Stamp, NEW r \in Stamp, NEW wall \in Nat,
           h.ctr < LogicalMax, r.ctr < LogicalMax
    PROVE  Less(h, Merge(h, r, wall)) /\ Less(r, Merge(h, r, wall))
  BY DEF Merge, Stamp, Later, SaturatingInc, Less

-----------------------------------------------------------------------------
(***************************************************************************)
(* Statements and the store                                                 *)
(***************************************************************************)

\* The row that stands for "no row" is a row.
LEMMA NoRowType == NoRow \in Row /\ NoData \in Payload
  BY StampTypes, RecordDbAssumption DEF NoRow, Row, NoData, Payload

\* Every statement on `records` leaves a table of rows.
LEMMA TableTypes ==
    ASSUME NEW t \in [Ids -> Row], NEW c \in Colls, NEW id \in Ids
    PROVE  /\ Get(t, c, id) \in Row
           /\ \A h \in Stamp, v \in Payload : Upsert(t, c, id, h, v) \in [Ids -> Row]
           /\ \A h \in Stamp : SoftDelete(t, c, id, h) \in [Ids -> Row]
           /\ MarkSynced(t, c, id) \in [Ids -> Row]
<1>1. Get(t, c, id) \in Row
  BY NoRowType DEF Get
<1>2. ASSUME NEW h \in Stamp, NEW v \in Payload
      PROVE  Upsert(t, c, id, h, v) \in [Ids -> Row]
  BY DEF Upsert, Row
<1>3. ASSUME NEW h \in Stamp
      PROVE  SoftDelete(t, c, id, h) \in [Ids -> Row]
  BY DEF SoftDelete, Row
<1>4. MarkSynced(t, c, id) \in [Ids -> Row]
  BY DEF MarkSynced, Row
<1> QED
  BY <1>1, <1>2, <1>3, <1>4

\* ... upsert_remote included.
LEMMA UpsertRemoteType ==
    ASSUME NEW t \in [Ids -> Row], NEW r \in RemoteRecord
    PROVE  UpsertRemote(t, r) \in [Ids -> Row]
  BY DEF UpsertRemote, Row, RemoteRecord

\* The statements on `outbox` leave a set of entries.
LEMMA OutboxTypes ==
    ASSUME NEW o \in SUBSET Entry, NEW seq \in Nat
    PROVE  /\ PeekBatch(o) \subseteq o
           /\ DeleteSeq(o, seq) \subseteq o
           /\ MarkRetry(o, seq) \in SUBSET Entry
           /\ MakeDue(o, seq) \in SUBSET Entry
<1>1. PeekBatch(o) \subseteq o
  BY DEF PeekBatch
<1>2. DeleteSeq(o, seq) \subseteq o
  BY DEF DeleteSeq
<1>3. ASSUME NEW e \in Entry
      PROVE  /\ [e EXCEPT !.retries = @ + 1, !.ready = FALSE] \in Entry
             /\ [e EXCEPT !.ready = TRUE] \in Entry
  <2>1. e.retries + 1 \in Nat
    BY DEF Entry
  <2>2. \A n \in Nat : [e EXCEPT !.retries = n, !.ready = FALSE] \in Entry
    BY DEF Entry
  <2>3. [e EXCEPT !.ready = TRUE] \in Entry
    BY DEF Entry
  <2> QED
    BY <2>1, <2>2, <2>3
<1>4. MarkRetry(o, seq) \in SUBSET Entry
  BY <1>3 DEF MarkRetry
<1>5. MakeDue(o, seq) \in SUBSET Entry
  BY <1>3 DEF MakeDue
<1> QED
  BY <1>1, <1>2, <1>4, <1>5

\* A batch that is not empty has a first entry: seqs are natural numbers.
LEMMA FirstExists ==
    ASSUME NEW S \in SUBSET Entry, S # {}
    PROVE  First(S) \in S /\ \A f \in S : First(S).seq <= f.seq
<1> DEFINE T == {e.seq : e \in S}
<1>1. T \subseteq Nat /\ T # {}
  BY DEF Entry
<1>2. IsWellFoundedOn(OpToRel(<, Nat), Nat)
  BY NatLessThanWellFounded
<1> DEFINE R == OpToRel(<, Nat)
<1>3. \A x, y \in Nat : <<y, x>> \in R <=> y < x
  BY DEF OpToRel
<1>4. PICK x \in T : \A y \in T : ~ (<<y, x>> \in R)
  BY <1>1, <1>2, WFMin
<1> HIDE DEF R
<1> HIDE DEF T
<1>5. ASSUME NEW y \in T PROVE x <= y
  <2>1. x \in Nat /\ y \in Nat
    BY <1>1
  <2>2. ~(y < x)
    BY <1>3, <1>4, <2>1
  <2> QED
    BY <2>1, <2>2
<1>6. PICK e \in S : e.seq = x
  BY <1>4 DEF T
<1>7. \A f \in S : e.seq <= f.seq
  BY <1>5, <1>6 DEF T
<1> QED
  BY <1>7 DEF First

\* The two writes of e and f have the same meaning for the rest of the system:
\* same record, same operation, same stamp.  retries, ready and data may differ.
SameWrite(e, f) == /\ e.seq = f.seq
                   /\ e.id = f.id /\ e.coll = f.coll /\ e.op = f.op /\ e.hlc = f.hlc

\* mark_retry and the passing of a backoff neither drop nor forge an entry.
LEMMA RescheduledEntries ==
    ASSUME NEW o \in SUBSET Entry, NEW seq \in Nat,
           NEW p \in {MarkRetry(o, seq), MakeDue(o, seq)}
    PROVE  /\ \A e \in o : \E f \in p : SameWrite(e, f)
           /\ \A f \in p : \E e \in o : SameWrite(e, f)
<1>1. ASSUME NEW e \in Entry
      PROVE  /\ SameWrite(e, e)
             /\ SameWrite(e, [e EXCEPT !.retries = @ + 1, !.ready = FALSE])
             /\ SameWrite(e, [e EXCEPT !.ready = TRUE])
  BY DEF SameWrite, Entry
<1>2. CASE p = MarkRetry(o, seq)
  BY <1>1, <1>2 DEF MarkRetry
<1>3. CASE p = MakeDue(o, seq)
  BY <1>1, <1>3 DEF MakeDue
<1> QED
  BY <1>2, <1>3

\* push_one leaves a store; no version in it is replaced by an older one; and
\* unless the entry is refused for a version as recent, it is stored.
LEMMA PushOneFacts ==
    ASSUME NEW s \in [Keys -> Version], NEW e \in Entry
    PROVE  /\ PushOne(s, e) \in [Keys -> Version]
           /\ \A k \in Keys : AtLeast(PushOne(s, e)[k].hlc, s[k].hlc)
           /\ AtLeast(PushOne(s, e)[<<e.id, e.coll>>].hlc, e.hlc)
<1> DEFINE key == <<e.id, e.coll>>
           w   == [hlc |-> e.hlc, data |-> e.data, deleted |-> e.op = "delete"]
<1>1. key \in Keys /\ e.hlc \in Stamp /\ w \in Version
  BY DEF Keys, Entry, Version
<1>2. \A k \in Keys : s[k] \in Version /\ s[k].hlc \in Stamp
  BY DEF Version
<1>3. CASE Accepts(s, e)
  <2>1. PushOne(s, e) = [s EXCEPT ![key] = w]
    BY <1>3 DEF PushOne
  <2>2. PushOne(s, e) \in [Keys -> Version]
    BY <1>1, <2>1
  <2>3. \A k \in Keys : PushOne(s, e)[k] = IF k = key THEN w ELSE s[k]
    BY <2>1
  <2>4. Less(s[key].hlc, e.hlc) /\ w.hlc = e.hlc
    BY <1>3 DEF Accepts
  <2> QED
    BY <1>1, <1>2, <2>2, <2>3, <2>4, AtLeastTransitive
<1>4. CASE ~Accepts(s, e)
  BY <1>1, <1>2, <1>4, AtLeastTransitive DEF PushOne, Accepts, AtLeast
<1> QED
  BY <1>3, <1>4

\* What a pull answers is in the store, after the checkpoint.
LEMMA PullSinceFacts ==
    ASSUME NEW s \in [Keys -> Version], NEW cp \in Stamp
    PROVE  /\ PullSince(s, cp) \in SUBSET RemoteRecord
           /\ \A r \in PullSince(s, cp) :
                 /\ <<r.id, r.coll>> \in Keys
                 /\ r.hlc = s[<<r.id, r.coll>>].hlc
                 /\ r.data = s[<<r.id, r.coll>>].data
                 /\ r.deleted = s[<<r.id, r.coll>>].deleted
                 /\ Less(cp, r.hlc)
  BY DEF PullSince, Keys, Version, RemoteRecord
=============================================================================

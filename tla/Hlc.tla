-------------------------------- MODULE Hlc --------------------------------
(***************************************************************************)
(* The hybrid logical clock of src/src/hlc.rs.  A stamp is the triple       *)
(* (physical_ms, logical, node_id); node ids are positive naturals, so that  *)
(* Never, the least triple, is below every stamp a device can issue and      *)
(* stands for "no row", "no remote item" and "no checkpoint".                *)
(*                                                                         *)
(* The database and the backends compare the Display string of a stamp, not *)
(* the triple.  Both orders agree as long as physical_ms fits the 13 hex     *)
(* digits of the format (until 2^52 ms), which is assumed here.             *)
(***************************************************************************)
EXTENDS Naturals

CONSTANT LogicalMax       \* u16::MAX in the code; small in the model runs

ASSUME LogicalMaxAssumption == LogicalMax \in Nat

Stamp == [ms : Nat, ctr : 0..LogicalMax, node : Nat]

Never == [ms |-> 0, ctr |-> 0, node |-> 0]

\* Ord for Hlc: numeric, field by field.
Less(a, b) ==
    \/ a.ms < b.ms
    \/ a.ms = b.ms /\ a.ctr < b.ctr
    \/ a.ms = b.ms /\ a.ctr = b.ctr /\ a.node < b.node

AtLeast(a, b) == ~Less(a, b)

Later(m, n) == IF m >= n THEN m ELSE n

\* Bug variant: a plain increment leaves the range of the counter.
UnboundedInc(n) == n + 1

\* u16::saturating_add(1): at the top of the range the counter stays put.
SaturatingInc(n) == IF n < LogicalMax THEN n + 1 ELSE LogicalMax

\* Hlc::new: what a device without any record starts from.
NewHlc(node, wall) == [ms |-> wall, ctr |-> 0, node |-> node]

\* Hlc::tick.  The node id is the one of the stamp that is advanced.
Tick(h, wall) ==
    [ ms   |-> Later(wall, h.ms),
      ctr  |-> IF wall <= h.ms THEN SaturatingInc(h.ctr) ELSE 0,
      node |-> h.node ]

\* Hlc::merge.  No caller in the crate: receiving a record never advances
\* the clock, and RecordSync uses Tick alone.
Merge(h, r, wall) ==
    LET physical == Later(wall, Later(h.ms, r.ms))
    IN  [ ms   |-> physical,
          ctr  |-> CASE physical = h.ms /\ physical = r.ms ->
                          SaturatingInc(Later(h.ctr, r.ctr))
                     [] physical = h.ms /\ physical # r.ms -> SaturatingInc(h.ctr)
                     [] physical # h.ms /\ physical = r.ms -> SaturatingInc(r.ctr)
                     [] OTHER -> 0,
          node |-> h.node ]
=============================================================================

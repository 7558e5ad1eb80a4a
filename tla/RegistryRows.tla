---------------------------- MODULE RegistryRows ----------------------------
(***************************************************************************)
(* The rows of the workspace registry and the rules that merge them        *)
(* (crates/doc/src/registry.rs): the clock that stamps local writes, the   *)
(* merge of one operation into one row, the operation that seeds a row     *)
(* again, and the overlay of pending operations.  The registry room merges *)
(* with the same function (apply_op mirrors the room's).                   *)
(*                                                                         *)
(* A stamp is (milliseconds, counter, device), compared in that order: the *)
(* zero padding of encode_hlc makes the order of the strings this order.   *)
(* What a field holds is its stamp; whether it holds anything is `has` (a  *)
(* null write removes the field and keeps its clock).  A missing row is a  *)
(* row in state "absent".                                                  *)
(***************************************************************************)
EXTENDS Naturals, Sequences

CONSTANTS
  RowIds,      \* (kind, id) of a row
  Fields,      \* field names of a row
  MaxCounter   \* the counter's last value within one millisecond (999_999)

ASSUME RowsAssumption == MaxCounter \in Nat

(* A stamp is <<time, counter, device>>.                                   *)
NoStamp == <<0, 0, 0>>
Seeder  == 9                      \* the "seed" device of a stampless row

(* hlc_newer: strictly newer; an unwritten clock loses to any.             *)
Newer(a, b) ==
  \/ a[1] > b[1]
  \/ a[1] = b[1] /\ a[2] > b[2]
  \/ a[1] = b[1] /\ a[2] = b[2] /\ a[3] > b[3]

(* Mutant: a clock that does not count within a millisecond.               *)
Tick_Stuck(clock, now) == IF now > clock[1] THEN <<now, 0>> ELSE clock

(* HlcClock::next, on the clock's state (last_ms, counter).                *)
Tick(clock, now) ==
  IF now > clock[1] THEN <<now, 0>>
  ELSE IF clock[2] + 1 > MaxCounter THEN <<clock[1] + 1, 0>>
  ELSE <<clock[1], clock[2] + 1>>

StampOf(clock, device) == <<clock[1], clock[2], device>>

(* observe_sidebar_row: the clock catches up with a stamp it has seen.     *)
Observe(clock, stamp) ==
  IF stamp[1] > clock[1] \/ (stamp[1] = clock[1] /\ stamp[2] > clock[2])
  THEN <<stamp[1], stamp[2]>> ELSE clock

-----------------------------------------------------------------------------
NoClocks  == [f \in Fields |-> NoStamp]
AbsentRow == [seq |-> 0, state |-> "absent", del |-> NoStamp, has |-> {},
              clk |-> NoClocks]

(* An operation, of kind upsert, update or delete: `clk` is clock_for, the *)
(* op's own stamp unless the field has an override (seeds only); `null`    *)
(* the fields written as null.                                             *)
WriteOp(kind, r, set, null, hlc) ==
  [kind |-> kind, row |-> r, set |-> set, null |-> null, hlc |-> hlc,
   clk |-> [f \in Fields |-> IF f \in set THEN hlc ELSE NoStamp]]
DeleteOp(r, hlc) == WriteOp("delete", r, {}, {}, hlc)

(* The newest stamp anywhere on the row.                                   *)
MaxClock(row) ==
  LET all == {row.del} \cup {row.clk[f] : f \in Fields}
  IN  CHOOSE s \in all : \A t \in all : ~Newer(t, s)

-----------------------------------------------------------------------------
(* apply_op.                                                               *)

(* A delete tombstones a missing row, and any other row it is newer than.  *)
Beats(row, op) ==
  \/ row.state = "absent"
  \/ row.state = "dead" /\ Newer(op.hlc, row.del)
  \/ row.state = "live" /\ Newer(op.hlc, MaxClock(row))

Buried(row, op) ==
  [row EXCEPT !.state = "dead", !.del = op.hlc, !.has = {}, !.clk = NoClocks]

(* An update neither creates nor revives; an upsert revives a tombstone it *)
(* is newer than.                                                          *)
Blocked(row, op) ==
  \/ op.kind = "update" /\ row.state # "live"
  \/ row.state = "dead" /\ ~Newer(op.hlc, row.del)

(* What the fields are merged into: a created or revived row has none.     *)
MergeBase(row) ==
  IF row.state = "live" THEN row
  ELSE [row EXCEPT !.state = "live", !.has = {}, !.clk = NoClocks]

Wins(row, op) == {f \in op.set : Newer(op.clk[f], MergeBase(row).clk[f])}

Merged(row, op) ==
  LET base == MergeBase(row)
      wins == Wins(row, op)
  IN  [base EXCEPT !.has = (base.has \ (wins \cap op.null)) \cup (wins \ op.null),
                   !.clk = [f \in Fields |-> IF f \in wins THEN op.clk[f]
                                                           ELSE base.clk[f]]]

(* Whether the operation changes the row, and the row after it.            *)
Changes(row, op) ==
  IF op.kind = "delete" THEN Beats(row, op)
  ELSE ~Blocked(row, op) /\ (row.state # "live" \/ Wins(row, op) # {})

ApplyOp(row, op) ==
  IF ~Changes(row, op) THEN row
  ELSE IF op.kind = "delete" THEN Buried(row, op) ELSE Merged(row, op)

(* row_to_seed_op: a tombstone seeds its delete, a live row one upsert of  *)
(* the fields it has, with their original clocks.                          *)
SeedOp(r, row) ==
  LET old   == IF row.state = "dead" THEN row.del ELSE MaxClock(row)
      stamp == IF old = NoStamp THEN <<0, 0, Seeder>> ELSE old
  IN  IF row.state = "dead" THEN DeleteOp(r, stamp)
      ELSE [kind |-> "upsert", row |-> r, set |-> row.has, null |-> {},
            hlc |-> stamp,
            clk |-> [f \in Fields |-> IF f \in row.has THEN row.clk[f] ELSE NoStamp]]

=============================================================================

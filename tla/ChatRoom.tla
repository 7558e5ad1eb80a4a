------------------------------ MODULE ChatRoom ------------------------------
(***************************************************************************)
(* Vocabulary shared by the chat2 models: what a chat room's row log is,   *)
(* how the CRDT document depends on it, the frames of the socket protocol, *)
(* and the pure catch-up decision of the client.                           *)
(*                                                                         *)
(* A row is identified by the update batch it carries.  Batches issued on  *)
(* this device are 1 .. MaxOwn, numbered in the order they are issued (the *)
(* order of the outbox); batches of other devices are members of Remote.   *)
(* Two more items are document content that no row carries: Base, what the *)
(* room was seeded with, and Hidden, an edit that was too large for a row  *)
(* and travels in checkpoints only.                                        *)
(***************************************************************************)
EXTENDS Naturals, Sequences, FiniteSets

CONSTANTS
  MaxOwn,   \* number of batches issued on this device
  Remote,   \* batches issued by other devices
  Base,     \* what the room was seeded with
  Hidden,   \* an edit only a checkpoint carries
  Poison,   \* own batches the server refuses for good (too_large, bad_push)
  Oversize  \* own batches over MAX_PUSH_BYTES, never sent

Own   == 1 .. MaxOwn
Ids   == Own \cup Remote
Items == Ids \cup {Base, Hidden}

ASSUME RoomAssumption ==
  /\ MaxOwn \in Nat
  /\ Poison \subseteq Own /\ Oversize \subseteq Own
  /\ Remote \cap Nat = {}
  /\ {Base, Hidden} \cap (Nat \cup Remote) = {}
  /\ Base # Hidden

MaxOf(a, b) == IF a >= b THEN a ELSE b
Least(S)    == CHOOSE x \in S : \A y \in S : x <= y

-----------------------------------------------------------------------------
(* The document.  needs[i] is the transitive causal past of item i; an     *)
(* imported item whose past is incomplete is parked: held by the CRDT, not *)
(* part of the document, until its past arrives.                           *)

Visible(got, needs) == {i \in got : needs[i] \subseteq got}

(* Items a version vector or a snapshot export of the document covers:     *)
(* parked updates are not in it.                                           *)
ContainsFrontier(got, needs, ids) == ids \subseteq Visible(got, needs)

-----------------------------------------------------------------------------
(* Frames.  A backfill answer is one frame that stands for the ROW frames  *)
(* next .. head (own rows left out when ex) and the ROWS_DONE behind them; *)
(* the client consumes it one row at a time.  END is no frame: it marks    *)
(* where the frames buffered during a checkpoint fetch end.                *)

StateFrame == [k : {"STATE"}, head : Nat, on : BOOLEAN, seq : Nat, ids : SUBSET Items]
RowFrame   == [k : {"ROW"}, id : Ids, seq : Nat]
RowsFrame  == [k : {"ROWS"}, next : Nat \ {0}, head : Nat, ex : BOOLEAN]
AckFrame   == [k : {"ACK"}, id : Own, seq : Nat]
ErrorFrame == [k : {"REJECT"}, id : Own] \cup [k : {"QUOTA"}]
MarkFrame  == [k : {"END"}]
ServerFrame == StateFrame \cup RowFrame \cup RowsFrame \cup AckFrame \cup ErrorFrame \cup MarkFrame

HelloFrame   == [k : {"HELLO"}]
RowsReqFrame == [k : {"ROWS_REQ"}, after : Nat, ex : BOOLEAN]
PushFrame    == [k : {"PUSH"}, ids : (SUBSET Own) \ {{}}]
ClientFrame  == HelloFrame \cup RowsReqFrame \cup PushFrame

RowsReq(after, ex) == [k |-> "ROWS_REQ", after |-> after, ex |-> ex]

-----------------------------------------------------------------------------
(* plan_catch_up: where to read from, and whether the checkpoint must be   *)
(* fetched first.  A cursor ahead of the server's head is meaningless: the *)
(* room was wiped.  Presence of a checkpoint is its size (on), not its     *)
(* sequence number: a seeded room's checkpoint covers sequence 0.          *)

PlanCatchUp_SeqIsPresence(cursor, st, contained) ==
  LET c == IF cursor > st.head THEN 0 ELSE cursor IN
  IF st.seq = 0 \/ contained
    THEN [fetch |-> FALSE, after |-> IF st.seq = 0 THEN c ELSE MaxOf(c, st.seq)]
    ELSE [fetch |-> TRUE, after |-> st.seq]

PlanCatchUp_KeepCursor(cursor, st, contained) ==
  IF ~st.on THEN [fetch |-> FALSE, after |-> cursor]
  ELSE IF contained THEN [fetch |-> FALSE, after |-> MaxOf(cursor, st.seq)]
  ELSE [fetch |-> TRUE, after |-> st.seq]

PlanCatchUp_EqualIsReset(cursor, st, contained) ==
  LET c == IF cursor >= st.head THEN 0 ELSE cursor IN
  IF ~st.on THEN [fetch |-> FALSE, after |-> c]
  ELSE IF contained THEN [fetch |-> FALSE, after |-> MaxOf(c, st.seq)]
  ELSE [fetch |-> TRUE, after |-> st.seq]

PlanCatchUp(cursor, st, contained) ==
  LET c == IF cursor > st.head THEN 0 ELSE cursor IN
  IF ~st.on THEN [fetch |-> FALSE, after |-> c]
  ELSE IF contained THEN [fetch |-> FALSE, after |-> MaxOf(c, st.seq)]
  ELSE [fetch |-> TRUE, after |-> st.seq]

(* The contiguity rule of rows and acknowledgements: the cursor walks, it  *)
(* never jumps over a row that was not received.                           *)
IsGap_OffByOne(cursor, seq) == seq > cursor + 2
IsGap(cursor, seq) == seq > cursor + 1
Walk_Jump(cursor, seq) == MaxOf(cursor, seq)
Walk(cursor, seq)  == IF IsGap(cursor, seq) THEN cursor ELSE MaxOf(cursor, seq)

=============================================================================

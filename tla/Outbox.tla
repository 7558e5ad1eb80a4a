------------------------------- MODULE Outbox -------------------------------
(***************************************************************************)
(* What the durable outbox of a chat room promises, without transports,    *)
(* retries or restarts: a batch is on disk before the room can see it, it  *)
(* leaves the disk only once the room has it, and a batch the room has is  *)
(* not written to the disk again, unless it was handed in twice.           *)
(***************************************************************************)
CONSTANT Batch
VARIABLES
  journal,  \* batches on disk (table chat_outbox)
  landed,   \* batches the room has accepted
  redo      \* batches whose writer will hand them in again

vars == <<journal, landed, redo>>

Init == journal = {} /\ landed = {} /\ redo = {}

(* enqueue_chat_update: batches are written, none that already landed.     *)
Record(B) ==
  /\ B \cap journal = {}
  /\ B \cap landed \subseteq redo
  /\ journal' = journal \cup B
  /\ UNCHANGED <<landed, redo>>

(* A new batch is kept by its writer beside the disk: it was issued before *)
(* the room had a client, or its second write failed.                      *)
Hold(b) ==
  /\ b \notin journal \cup landed
  /\ redo' = redo \cup {b}
  /\ journal' \in {journal, journal \cup {b}}
  /\ UNCHANGED landed

(* The room accepts a batch that is on disk.                               *)
Land(b) ==
  /\ b \in journal \ landed
  /\ landed' = landed \cup {b}
  /\ UNCHANGED <<journal, redo>>

(* acknowledge_chat_update: a batch the room has leaves the disk.          *)
Retire(b) ==
  /\ b \in journal \cap landed
  /\ journal' = journal \ {b}
  /\ UNCHANGED <<landed, redo>>

(* A restart forgets what writers held; the disk stays.                    *)
Restart == redo' = {} /\ UNCHANGED <<journal, landed>>

Next ==
  \/ \E B \in SUBSET Batch : Record(B)
  \/ \E b \in Batch : Hold(b) \/ Land(b) \/ Retire(b)
  \/ Restart

Spec == Init /\ [][Next]_vars

=============================================================================

---------------------------- MODULE MCChatClient ----------------------------
(***************************************************************************)
(* Instances of ChatClient for TLC.  The causal shapes of remote rows are  *)
(* named here so that the configurations read as what they exercise.       *)
(***************************************************************************)
EXTENDS ChatClient

(* Rows that depend on nothing, or on all the room holds.                  *)
FreeAndChained == {"free", "chained"}
Chained        == {"chained"}
(* Rows that depend on all the room holds, or on an edit no row carries.   *)
ChainedAndOrphan == {"chained", "orphan"}

=============================================================================

------------------------------- MODULE Backoff ------------------------------
(***************************************************************************)
(* Waiting out a reconnect backoff (sync/src/wake.rs; wait_backoff in      *)
(* sync/src/registry.rs, its siblings in chat_client.rs and client/src/    *)
(* live/mod.rs).  Every successful dial in the process, and the return of  *)
(* the network path, is broadcast; a waiter drains what it missed, reads   *)
(* the path flag, and sleeps until its timer or an event.  The broadcast   *)
(* channel keeps Slots events per receiver; a receiver that fell further   *)
(* behind is told so once (Lagged), which counts neither as an event nor   *)
(* as an empty channel.                                                    *)
(***************************************************************************)
EXTENDS Integers, FiniteSets

CONSTANTS Dialers,   \* links that dial and back off
          Slots,     \* the channel's capacity
          MaxFlips   \* bound on changes of the OS path status

ASSUME BackoffAssumption == Slots \in Nat \ {0} /\ MaxFlips \in Nat

VARIABLES
  pathOffline, \* PATH_OFFLINE
  announcing,  \* set_path_online swapped the flag and has not broadcast yet
  unread,      \* events a receiver has not read; Slots + 1 when it lags
  stage,       \* dialing, linked, drain, flag, wait
  parked,      \* the wait is the long one of an offline path
  flips,       \* history: changes of the path status
  fresh,       \* history: an event arrived since the wait began
  behind       \* history: the receiver lagged when the wait began

backoffVars == <<pathOffline, announcing, unread, stage, parked, flips, fresh, behind>>

BackoffInit ==
  /\ pathOffline = FALSE /\ announcing = FALSE
  /\ unread = [d \in Dialers |-> 0]
  /\ stage = [d \in Dialers |-> "dialing"]
  /\ parked = [d \in Dialers |-> FALSE]
  /\ flips = 0
  /\ fresh = [d \in Dialers |-> FALSE] /\ behind = [d \in Dialers |-> FALSE]

(* notify_online: one more event for every receiver. *)
Broadcast ==
  /\ unread' = [d \in Dialers |-> IF unread[d] > Slots THEN unread[d] ELSE unread[d] + 1]
  /\ fresh' = [d \in Dialers |-> TRUE]

To(d, s) == stage' = [stage EXCEPT ![d] = s]

(* set_path_online(false). *)
PathLost ==
  /\ flips < MaxFlips /\ ~pathOffline /\ ~announcing
  /\ pathOffline' = TRUE /\ flips' = flips + 1
  /\ UNCHANGED <<announcing, unread, stage, parked, fresh, behind>>

(* set_path_online(true) swaps the flag, then tells. *)
PathBack ==
  /\ pathOffline /\ ~announcing
  /\ pathOffline' = FALSE /\ announcing' = TRUE
  /\ UNCHANGED <<unread, stage, parked, flips, fresh, behind>>

PathTold ==
  /\ announcing
  /\ announcing' = FALSE
  /\ Broadcast
  /\ UNCHANGED <<pathOffline, stage, parked, flips, behind>>

(* connect_ws: a success is broadcast to every receiver, this link's too. *)
DialSucceeds(d) ==
  /\ stage[d] = "dialing"
  /\ To(d, "linked") /\ Broadcast
  /\ UNCHANGED <<pathOffline, announcing, parked, flips, behind>>

(* The dial fails or the session ends: back off. *)
BackOff(d) ==
  /\ stage[d] \in {"dialing", "linked"}
  /\ To(d, "drain")
  /\ fresh' = [fresh EXCEPT ![d] = FALSE]
  /\ behind' = [behind EXCEPT ![d] = unread[d] > Slots]
  /\ UNCHANGED <<pathOffline, announcing, unread, parked, flips>>

AfterDrain_Skipped(n) == n

(* while try_recv().is_ok(): empties the channel, or stops at Lagged, which
   leaves the events the channel still holds. *)
AfterDrain(n) == IF n > Slots THEN Slots ELSE 0

Drain(d) ==
  /\ stage[d] = "drain"
  /\ unread' = [unread EXCEPT ![d] = AfterDrain(@)]
  /\ To(d, "flag")
  /\ UNCHANGED <<pathOffline, announcing, parked, flips, fresh, behind>>

(* The flag is read after the drain, so a return it misses is still unread. *)
ReadFlag(d) ==
  /\ stage[d] = "flag"
  /\ parked' = [parked EXCEPT ![d] = pathOffline]
  /\ To(d, "wait")
  /\ UNCHANGED <<pathOffline, announcing, unread, flips, fresh, behind>>

(* The wait ends by its timer, or by an event, which is read. *)
Elapsed(d) ==
  /\ stage[d] = "wait"
  /\ To(d, "dialing") /\ parked' = [parked EXCEPT ![d] = FALSE]
  /\ UNCHANGED <<pathOffline, announcing, unread, flips, fresh, behind>>

Woken(d) ==
  /\ stage[d] = "wait" /\ unread[d] > 0
  /\ unread' = [unread EXCEPT ![d] = IF @ > Slots THEN Slots ELSE @ - 1]
  /\ To(d, "dialing") /\ parked' = [parked EXCEPT ![d] = FALSE]
  /\ UNCHANGED <<pathOffline, announcing, flips, fresh, behind>>

BackoffNext ==
  \/ PathLost \/ PathBack \/ PathTold
  \/ \E d \in Dialers :
       \/ DialSucceeds(d) \/ BackOff(d) \/ Drain(d) \/ ReadFlag(d) \/ Elapsed(d) \/ Woken(d)

BackoffSpec == BackoffInit /\ [][BackoffNext]_backoffVars

------------------------------------------------------------------------------
Stages == {"dialing", "linked", "drain", "flag", "wait"}

(* The type invariant of the backoff. *)
BackoffTypeInv ==
  /\ pathOffline \in BOOLEAN /\ announcing \in BOOLEAN
  /\ unread \in [Dialers -> 0..(Slots + 1)]
  /\ stage \in [Dialers -> Stages]
  /\ parked \in [Dialers -> BOOLEAN]
  /\ flips \in Nat
  /\ fresh \in [Dialers -> BOOLEAN] /\ behind \in [Dialers -> BOOLEAN]

(* A wait parked for an offline path while the path is back has the event that
   ends it still unread (wake.rs: "every parked backoff redials the instant the
   path returns"), whatever order the drain, the flag and the broadcast take;
   and an event ends a wait only if one came during it (registry.rs: "only
   wakes/successes DURING this wait count"), a receiver that lagged excepted. *)
WaitHonest == \A d \in Dialers : stage[d] = "wait" =>
  /\ parked[d] /\ ~pathOffline /\ ~announcing => unread[d] > 0
  /\ unread[d] > 0 => fresh[d] \/ behind[d]
==============================================================================

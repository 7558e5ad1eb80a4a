------------------------------- MODULE MCParts ------------------------------
(***************************************************************************)
(* Eight components that share no state, checked in one run: the initial    *)
(* state picks one of them (and, for HostTurns and Transcript, one story), *)
(* and only its steps are taken.                                           *)
(***************************************************************************)
EXTENDS SyncJobs, Backoff, HostTurns, SessionView, Transcript, EntryWriter, Accounts,
        Drafts

CONSTANTS m1, m2

Typed == [msgs |-> {m1, m2}, escorted |-> {}, offers |-> {}, tasks |-> Tasks, leases |-> 0,
          commands |-> 2, losses |-> 0, timers |-> 0]

(* Steers and interrupts overtake turns that wait, run and settle.         *)
Steered == [Typed EXCEPT !.offers = {"steer", "interrupt"}, !.commands = 3]
(* Rows parked, sent now, and drained when a turn ends.                    *)
Parked  == [Typed EXCEPT !.offers = {"enqueue", "send"}]
(* Edits of a queued row while the turn before it ends and drains the queue. *)
Edited  == [Typed EXCEPT !.offers = {"edit"}, !.tasks = {1}, !.leases = 2, !.commands = 1]
(* Two edits of one row, and a drain, at the same time.                    *)
Raced   == [Edited EXCEPT !.msgs = {m1}, !.offers = {"edit", "enqueue"}, !.tasks = Tasks,
                          !.commands = 0]
(* Rows removed and reordered.                                             *)
Sorted  == [Typed EXCEPT !.offers = {"enqueue", "remove"}, !.timers = 1]
(* A Run that expires on this device's clock, is retried, and may land twice. *)
Retried == [Typed EXCEPT !.msgs = {m1}, !.escorted = {m1}, !.offers = {"retry"}, !.commands = 3]
(* The path flaps, shortly or long enough to be shown.                     *)
Flapped == [Typed EXCEPT !.losses = 2, !.tasks = {1}]
Cut     == [Typed EXCEPT !.offers = {"send"}, !.losses = 1]
(* The reply is a question, and is answered.                               *)
Asked   == [Typed EXCEPT !.offers = {"respond"}, !.commands = 3]

MCStories == {Steered, Parked, Edited, Raced, Sorted, Retried, Flapped, Cut, Asked}

(* The entries of the transcript: q is this device's own message, a a reply, c
   its continuation.                                                        *)
MCRootOf == [cell \in Cells |-> IF cell = "c" THEN "a" ELSE NoRoot]
MCScripts == {[cells |-> {"a"}, sends |-> FALSE, writes |-> 4, flaps |-> 0],
              [cells |-> {"a", "c"}, sends |-> FALSE, writes |-> 3, flaps |-> 0],
              [cells |-> {"q", "a"}, sends |-> TRUE, writes |-> 2, flaps |-> 1]}

(* Two tool calls, the second of which starts a subagent.                  *)
MCCalls == {<<"call", 1>>, <<"call", 2>>}
MCSpawns == {<<"call", 2>>}

(* Nobody signed in, one account, or two, of which x is active.            *)
MCPair(l) == [login |-> l, turn |-> IF l = 0 THEN 0 ELSE 1]
MCStarts == {[a \in People |-> MCPair(IF a = "x" THEN p[1] ELSE p[2])] :
               p \in {<<0, 0>>, <<1, 0>>, <<1, 2>>}}

VARIABLE part

partsVars == <<part, jobsVars, backoffVars, turnsVars, viewVars, transcriptVars, entryVars,
               accountsVars, draftVars>>

Init ==
  /\ part \in {"jobs", "backoff", "turns", "view", "transcript", "entry", "accounts", "drafts"}
  /\ JobsInit /\ BackoffInit /\ TurnsInit /\ ViewInit /\ TranscriptInit /\ EntryInit
  /\ AccountsInit /\ DraftsInit
  /\ part # "turns" => story = CHOOSE s \in TurnStories : TRUE
  /\ part # "transcript" => script = CHOOSE s \in Scripts : TRUE
  /\ keychain.active \in IF part = "accounts" THEN {Nobody, "x"} ELSE {Nobody}

Next ==
  \/ /\ part = "jobs" /\ JobsNext
     /\ UNCHANGED <<part, backoffVars, turnsVars, viewVars, transcriptVars, entryVars,
                    accountsVars, draftVars>>
  \/ /\ part = "backoff" /\ BackoffNext
     /\ UNCHANGED <<part, jobsVars, turnsVars, viewVars, transcriptVars, entryVars,
                    accountsVars, draftVars>>
  \/ /\ part = "turns" /\ TurnsNext
     /\ UNCHANGED <<part, jobsVars, backoffVars, viewVars, transcriptVars, entryVars,
                    accountsVars, draftVars>>
  \/ /\ part = "view" /\ ViewNext
     /\ UNCHANGED <<part, jobsVars, backoffVars, turnsVars, transcriptVars, entryVars,
                    accountsVars, draftVars>>
  \/ /\ part = "transcript" /\ TranscriptNext
     /\ UNCHANGED <<part, jobsVars, backoffVars, turnsVars, viewVars, entryVars,
                    accountsVars, draftVars>>
  \/ /\ part = "entry" /\ EntryNext
     /\ UNCHANGED <<part, jobsVars, backoffVars, turnsVars, viewVars, transcriptVars,
                    accountsVars, draftVars>>
  \/ /\ part = "accounts" /\ AccountsNext
     /\ UNCHANGED <<part, jobsVars, backoffVars, turnsVars, viewVars, transcriptVars,
                    entryVars, draftVars>>
  \/ /\ part = "drafts" /\ DraftsNext
     /\ UNCHANGED <<part, jobsVars, backoffVars, turnsVars, viewVars, transcriptVars,
                    entryVars, accountsVars>>

(* Of the host's tasks only; nothing of theirs is enabled in another part. *)
Spec == Init /\ [][Next]_partsVars /\ TurnsFair
=============================================================================

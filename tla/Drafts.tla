------------------------------- MODULE Drafts -------------------------------
(***************************************************************************)
(* The drafts of one account (AppModel.swift): typed into the composer of  *)
(* a session or of the new one, moved when a first message creates its     *)
(* session, cleared when the message they hold was sent, merged with those *)
(* on disk when the account is restored, and saved a moment after a change *)
(* (LocalStateStore.swift).  AppModel runs on one actor, which other work  *)
(* enters wherever a send, a load or a save waits.                         *)
(*                                                                         *)
(* A text is a number; every text is typed once.  The other preferences    *)
(* are loaded, merged and saved with the drafts and follow the same rules. *)
(***************************************************************************)
EXTENDS Integers, FiniteSets

CONSTANTS Keys,       \* draft keys: "new" and session ids
          Created,    \* the session that a message from "new" creates
          MaxTexts,   \* bound on what is typed
          MaxLeaves,  \* bound on account switches
          MaxFailures \* bound on kills, expired sign-ins, failed loads and saves

ASSUME DraftsAssumption ==
  /\ {"new", Created} \subseteq Keys /\ Created # "new"
  /\ {MaxTexts, MaxLeaves, MaxFailures} \subseteq Nat

VARIABLES
  drafts,     \* preferences.drafts
  edited,     \* editedDrafts
  phase,      \* away (no account), loading (loadingPreferences), ready, leaving
  loaded,     \* what the load under way has read
  saveAfter,  \* saveAfterRestore
  saveTask,   \* the value captured by the save that waits, or NoSave
  stored,     \* preferences.json
  selected,   \* selectedSessionID, or "new"
  sending,    \* the send under way: where it waits, its key, its text, and
              \* whether the selection is still the one it began under
  exists,     \* the session has been created
  typed,      \* history: texts typed so far
  live,       \* history: texts the user left, neither replaced nor sent
  revived,    \* history: older texts an unsaved end has brought back
  unsaved,    \* history: what is on disk is older, and no save is due
  bounds      \* what is left of the bounds

draftVars == <<drafts, edited, phase, loaded, saveAfter, saveTask, stored, selected,
               sending, exists, typed, live, revived, unsaved, bounds>>

Nil   == -1      \* no draft under the key
Empty == 0       \* an emptied composer
NoDrafts == [k \in Keys |-> Nil]
NoSave   == [k \in Keys |-> -2]
Idle     == [at |-> "idle", key |-> "new", text |-> Empty, same |-> TRUE]
TextsOf(ds) == {ds[k] : k \in Keys} \ {Nil, Empty}

DraftsInit ==
  /\ stored = NoDrafts /\ drafts = NoDrafts /\ loaded = NoDrafts
  /\ edited = {} /\ phase = "away" /\ saveAfter = FALSE /\ saveTask = NoSave
  /\ selected = "new" /\ sending = Idle /\ exists = FALSE
  /\ typed = 0 /\ live = {} /\ revived = {} /\ unsaved = FALSE
  /\ bounds = [leaves |-> MaxLeaves, failures |-> MaxFailures]

Use(what) == bounds[what] > 0 /\ bounds' = [bounds EXCEPT ![what] = @ - 1]

Schedule_Skipped(ds) ==
  IF phase = "loading" THEN UNCHANGED <<saveAfter, saveTask>>
  ELSE saveTask' = ds /\ UNCHANGED saveAfter
(* scheduleSave: the value is captured; a load under way puts it off. *)
Schedule(ds) ==
  IF phase = "loading" THEN saveAfter' = TRUE /\ UNCHANGED saveTask
  ELSE saveTask' = ds /\ UNCHANGED saveAfter

------------------------------------------------------------------------------
(* restorePreferencesIfNeeded: the account is there, its file is being read. *)
Arrive ==
  /\ phase = "away"
  /\ phase' = "loading" /\ loaded' = stored
  /\ UNCHANGED <<drafts, edited, saveAfter, saveTask, stored, selected, sending, exists,
                 typed, live, revived, unsaved, bounds>>

(* Edits made during the read survive, a removal too. *)
Merged(ds) == [k \in Keys |-> IF k \in edited THEN drafts[k] ELSE ds[k]]

Restored ==
  /\ saveAfter' = FALSE /\ phase' = "ready" /\ loaded' = NoDrafts
  /\ saveTask' = IF saveAfter THEN drafts' ELSE saveTask

(* A key edited during the read hides the text the file had under it. *)
LoadEnds ==
  /\ phase = "loading"
  /\ drafts' = Merged(loaded)
  /\ Restored
  /\ live' = live \ {loaded[k] : k \in edited}
  /\ UNCHANGED <<edited, stored, selected, sending, exists, typed, revived, unsaved, bounds>>

(* The file stays, and the next save replaces it. *)
LoadFails ==
  /\ phase = "loading" /\ Use("failures")
  /\ UNCHANGED drafts /\ Restored
  /\ live' = live \cap TextsOf(drafts)
  /\ unsaved' = TRUE
  /\ UNCHANGED <<edited, stored, selected, sending, exists, typed, revived>>

(* The 300 ms have passed. *)
Save ==
  /\ saveTask # NoSave
  /\ saveTask' = NoSave
  /\ \/ stored' = saveTask /\ unsaved' = FALSE /\ UNCHANGED bounds
     \/ Use("failures") /\ unsaved' = TRUE /\ UNCHANGED stored
  /\ UNCHANGED <<drafts, edited, phase, loaded, saveAfter, selected, sending, exists, typed,
                 live, revived>>

------------------------------------------------------------------------------
(* The composer. *)

Put(ds, k, text) == [ds EXCEPT ![k] = text]

(* The composer is on the screen; while an account is left it is not. *)
Here == phase \in {"loading", "ready"}

(* The draft of the selected session, typed over or emptied. *)
Type ==
  /\ Here
  /\ \E text \in {Empty, typed + 1} :
       /\ text = Empty => drafts[selected] \notin {Nil, Empty}
       /\ text # Empty => typed < MaxTexts
       /\ drafts' = Put(drafts, selected, text)
       /\ typed' = IF text = Empty THEN typed ELSE text
       /\ live' = (live \ {drafts[selected]}) \cup ({text} \ {Empty})
       /\ edited' = edited \cup {selected}
       /\ Schedule(drafts')
  /\ UNCHANGED <<phase, loaded, stored, selected, sending, exists, revived, unsaved, bounds>>

(* open and newSession: the selection generation moves on. *)
Open(k) ==
  /\ Here /\ k # selected /\ (k = Created => exists)
  /\ selected' = k
  /\ sending' = IF sending = Idle THEN Idle ELSE [sending EXCEPT !.same = FALSE]
  /\ UNCHANGED <<drafts, edited, phase, loaded, saveAfter, saveTask, stored, exists, typed,
                 live, revived, unsaved, bounds>>

(* send, up to its first wait: for a session, or for the client. *)
SendStarts ==
  /\ Here /\ sending = Idle
  /\ drafts[selected] \notin {Nil, Empty}
  /\ selected = "new" => ~exists
  /\ sending' = [at |-> IF selected = "new" THEN "create" ELSE "send",
                 key |-> selected, text |-> drafts[selected], same |-> TRUE]
  /\ UNCHANGED <<drafts, edited, phase, loaded, saveAfter, saveTask, stored, selected, exists,
                 typed, live, revived, unsaved, bounds>>

(* The draft goes with the message into the new session: as it is now if the user
   has stayed, as it was submitted if not, and then a later one stays behind. *)
Moved(text, stayed) ==
  IF stayed
  THEN [drafts EXCEPT !["new"] = Nil,
                      ![Created] = IF drafts["new"] = Nil THEN text ELSE drafts["new"]]
  ELSE [drafts EXCEPT !["new"] = IF @ = text THEN Nil ELSE @, ![Created] = text]

SessionCreated ==
  /\ sending.at = "create"
  /\ exists' = TRUE
  /\ drafts' = Moved(sending.text, sending.same)
  /\ selected' = IF sending.same THEN Created ELSE selected
  /\ edited' = edited \cup {"new", Created}
  /\ live' = IF sending.same THEN live ELSE live \cup {sending.text}
  /\ sending' = [sending EXCEPT !.at = "open", !.key = Created]
  /\ Schedule(drafts')
  /\ UNCHANGED <<phase, loaded, stored, typed, revived, unsaved, bounds>>

SessionOpened ==
  /\ sending.at = "open"
  /\ sending' = [sending EXCEPT !.at = "send"]
  /\ UNCHANGED <<drafts, edited, phase, loaded, saveAfter, saveTask, stored, selected, exists,
                 typed, live, revived, unsaved, bounds>>

(* Clear only the exact draft submitted. *)
Cleared(key, text) == IF drafts[key] = text THEN Put(drafts, key, Nil) ELSE drafts

Sent ==
  /\ sending.at = "send"
  /\ drafts' = Cleared(sending.key, sending.text)
  /\ edited' = IF drafts' = drafts THEN edited ELSE edited \cup {sending.key}
  /\ live' = live \ {sending.text}
  /\ sending' = Idle
  /\ Schedule(drafts')
  /\ UNCHANGED <<phase, loaded, stored, selected, exists, typed, revived, unsaved, bounds>>

SendFails ==
  /\ sending # Idle /\ Use("failures")
  /\ sending' = Idle
  /\ UNCHANGED <<drafts, edited, phase, loaded, saveAfter, saveTask, stored, selected, exists,
                 typed, live, revived, unsaved>>

------------------------------------------------------------------------------
(* resetAccountState: what was not saved is gone, a send under way is not heard. *)
Reset(file) ==
  /\ phase # "away"
  /\ phase' = "away" /\ stored' = file
  /\ drafts' = NoDrafts /\ edited' = {} /\ loaded' = NoDrafts
  /\ saveAfter' = FALSE /\ saveTask' = NoSave
  /\ selected' = "new" /\ sending' = Idle
  /\ live' = live \cap TextsOf(file)
  /\ revived' = revived \cup (TextsOf(file) \ live)
  /\ unsaved' = FALSE
  /\ UNCHANGED <<exists, typed>>

(* switchAccount, up to its wait for the save, which while loading has only what
   was typed since: a load or a send under way is not heard any more. *)
SwitchSaves ==
  /\ Here /\ Use("leaves")
  /\ phase' = "leaving" /\ stored' = drafts /\ unsaved' = FALSE
  /\ loaded' = NoDrafts /\ sending' = Idle
  /\ UNCHANGED <<drafts, edited, saveAfter, saveTask, selected, exists, typed, live, revived>>

SwitchAway == phase = "leaving" /\ Reset(stored) /\ UNCHANGED bounds

(* disconnect: the file is cleared. *)
Disconnect == Here /\ Use("leaves") /\ Reset(NoDrafts)

(* An expired sign-in, another account signed in, a kill, a switch whose save or a
   disconnect whose clearing fails. *)
CutOff == Use("failures") /\ Reset(stored)

DraftsNext ==
  \/ Arrive \/ LoadEnds \/ LoadFails \/ Save
  \/ Type \/ \E k \in Keys : Open(k)
  \/ SendStarts \/ SessionCreated \/ SessionOpened \/ Sent \/ SendFails
  \/ SwitchSaves \/ SwitchAway \/ Disconnect \/ CutOff
DraftsSpec == DraftsInit /\ [][DraftsNext]_draftVars

------------------------------------------------------------------------------
(* Whatever is typed while the file is read, a session is created or a message is
   sent, and wherever the user goes meanwhile: each text the user left is under
   some key (AppModel: "a later edit must survive", "Your draft is still saved"),
   and no text that was sent or typed over is back in a composer, unless an
   account ended with it on disk; and once no save is due the file holds the
   drafts as they are, those changed while it was read included. *)
DraftsKept ==
  /\ phase = "ready" =>
       live \subseteq TextsOf(drafts) /\ TextsOf(drafts) \subseteq live \cup revived
  /\ phase = "loading" => live \subseteq TextsOf(drafts) \cup TextsOf(loaded)
  /\ phase = "away" => live \subseteq TextsOf(stored)
  /\ phase = "ready" /\ saveTask = NoSave /\ ~unsaved => stored = drafts
==============================================================================

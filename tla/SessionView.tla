----------------------------- MODULE SessionView ----------------------------
(***************************************************************************)
(* What a viewer shows of one chat (client/src/session/mod.rs: SessionCore *)
(* refresh, derive_pending, recompute_composer; session/transcript.rs: the *)
(* dirty marks and the incremental Tracker).  The document is changed by   *)
(* imports and by local writes; an observer marks what they touched; any   *)
(* thread may refresh: it takes the marks, reads the host's session row,   *)
(* then, under the state lock, re-decodes what was marked and publishes    *)
(* the snapshot, and then recomputes the composer under a gate of its own. *)
(* Steps of different threads interleave between these points.             *)
(***************************************************************************)
EXTENDS Integers, FiniteSets

CONSTANTS Sends,    \* messages this device sends: their echoes are at stake
          Viewers,  \* threads that refresh; the frame task is one of them
          Frame,    \* the task that coalesces the refreshes of remote imports
          MaxEdits, \* bound on the edits of an entry
          MaxTurns  \* bound on changes of the host's session row

ASSUME ViewAssumption == Frame \in Viewers /\ MaxEdits \in Nat /\ MaxTurns \in Nat

VARIABLES
  docEntry,   \* the document's entry of a message: 0 absent, else its version
  docCommand, \* the command that carries it: none, pending, applied, rejected
  import,     \* a remote import: no, changed (not observed), marked (not told)
  touched,    \* what the import under way changed
  marks,      \* Dirty
  wakeup,     \* refresh_wake's permit
  row,        \* the host's session row says Working
  rowTurns,   \* history: changes of the row
  doing,      \* a thread: idle, take, row, project, gate, publish
  taken,      \* the marks a refresh took
  rowSeen,    \* the row as a thread read it
  slots,      \* Tracker: the decoded version of an entry, 0 if it has no slot
  ledger,     \* CoreState.commands
  echoes,     \* CoreState.pending
  snapshot,   \* published: entries, echoes, working
  composer    \* published: busy, pending

docVars  == <<docEntry, docCommand, import, touched>>
coreVars == <<slots, ledger, echoes, snapshot, composer>>
viewVars == <<docVars, marks, wakeup, row, rowTurns, doing, taken, rowSeen, coreVars>>

NoEntries == [m \in Sends |-> 0]
NoCommands == [m \in Sends |-> "none"]

ViewInit ==
  /\ docEntry = NoEntries /\ docCommand = NoCommands
  /\ import = "no" /\ touched = {}
  /\ marks = {} /\ wakeup = FALSE
  /\ row = FALSE /\ rowTurns = 0
  /\ doing = [v \in Viewers |-> "idle"]
  /\ taken = [v \in Viewers |-> {}] /\ rowSeen = [v \in Viewers |-> FALSE]
  /\ slots = NoEntries /\ ledger = NoCommands /\ echoes = {}
  /\ snapshot = [entries |-> NoEntries, echoes |-> {}, working |-> FALSE]
  /\ composer = [busy |-> FALSE, pending |-> {}]

------------------------------------------------------------------------------
(* The document. *)

(* What the host writes: an outcome for a pending command, the user entry of an
   applied one, an edit of an entry.  Each arrives in an import. *)
HostApplies(m) ==
  /\ docCommand[m] = "pending"
  /\ \E outcome \in {"applied", "rejected"} :
       docCommand' = [docCommand EXCEPT ![m] = outcome]
  /\ touched' = {"commands"} /\ UNCHANGED docEntry

HostAdopts(m) ==
  /\ docCommand[m] = "applied" /\ docEntry[m] = 0
  /\ docEntry' = [docEntry EXCEPT ![m] = 1]
  /\ touched' = {"list"} /\ UNCHANGED docCommand

HostEdits(m) ==
  /\ docEntry[m] \in 1..MaxEdits
  /\ docEntry' = [docEntry EXCEPT ![m] = @ + 1]
  /\ touched' = {m} /\ UNCHANGED docCommand

Import ==
  /\ import = "no"
  /\ import' = "changed"
  /\ \E m \in Sends : HostApplies(m) \/ HostAdopts(m) \/ HostEdits(m)
  /\ UNCHANGED <<marks, wakeup, row, rowTurns, doing, taken, rowSeen, coreVars>>

(* The root subscription observes the change. *)
Observe ==
  /\ import = "changed"
  /\ import' = "marked"
  /\ marks' = marks \cup touched
  /\ UNCHANGED <<docEntry, docCommand, touched, wakeup, row, rowTurns, doing, taken, rowSeen,
                 coreVars>>

(* on_applied: a refresh on the next frame. *)
ScheduleRefresh ==
  /\ import = "marked"
  /\ import' = "no" /\ touched' = {}
  /\ wakeup' = TRUE
  /\ UNCHANGED <<docEntry, docCommand, marks, row, rowTurns, doing, taken, rowSeen, coreVars>>

FrameWakes ==
  /\ wakeup /\ doing[Frame] = "idle"
  /\ wakeup' = FALSE
  /\ doing' = [doing EXCEPT ![Frame] = "take"]
  /\ UNCHANGED <<docVars, marks, row, rowTurns, taken, rowSeen, coreVars>>

(* queue_command: a local write is observed before it returns, then refreshes. *)
WriteCommand(v, m) ==
  /\ v # Frame /\ doing[v] = "idle"
  /\ docCommand[m] \in {"none", "rejected"}
  /\ docCommand' = [docCommand EXCEPT ![m] = "pending"]
  /\ docCommand[m] = "rejected" => docEntry[m] = 0 /\ m \in echoes
  /\ marks' = marks \cup {"commands"}
  /\ doing' = [doing EXCEPT ![v] = "take"]
  /\ UNCHANGED <<docEntry, import, touched, wakeup, row, rowTurns, taken, rowSeen, coreVars>>

(* recompute_workspace: the row changed, every open session is refreshed. *)
RowChanges(v) ==
  /\ v # Frame /\ doing[v] = "idle" /\ rowTurns < MaxTurns
  /\ row' = ~row /\ rowTurns' = rowTurns + 1
  /\ doing' = [doing EXCEPT ![v] = "take"]
  /\ UNCHANGED <<docVars, marks, wakeup, taken, rowSeen, coreVars>>

------------------------------------------------------------------------------
(* refresh. *)

(* Take the marks, then read the row, both before the state lock. *)
TakeMarks(v) ==
  /\ doing[v] = "take"
  /\ taken' = [taken EXCEPT ![v] = marks]
  /\ marks' = {}
  /\ doing' = [doing EXCEPT ![v] = "row"]
  /\ UNCHANGED <<docVars, wakeup, row, rowTurns, rowSeen, coreVars>>

ReadRow(v) ==
  /\ doing[v] = "row"
  /\ rowSeen' = [rowSeen EXCEPT ![v] = row]
  /\ doing' = [doing EXCEPT ![v] = "project"]
  /\ UNCHANGED <<docVars, marks, wakeup, row, rowTurns, taken, coreVars>>

(* Tracker::refresh: with the list marked, every entry has a slot again, and one
   that had a slot and is not marked keeps its decode; else only the marked
   entries that have a slot are decoded. *)
Tracked(dirty) == [m \in Sends |->
  IF "list" \in dirty THEN IF slots[m] > 0 /\ m \notin dirty THEN slots[m] ELSE docEntry[m]
  ELSE IF m \in dirty /\ slots[m] > 0 THEN docEntry[m] ELSE slots[m]]

Unlanded_Pending(commands, entries) ==
  {m \in Sends : commands[m] \in {"pending", "rejected"} /\ entries[m] = 0}

(* derive_pending: own commands whose message has no entry, whatever the host
   has answered.  (A cancelled one is passed over, but nothing cancels a command.) *)
Unlanded(commands, entries) == {m \in Sends : commands[m] # "none" /\ entries[m] = 0}

(* Under the state lock: decode, derive the echoes, publish the snapshot. *)
Project(v) ==
  LET dirty == taken[v]
      sending == \E m \in Unlanded(ledger', slots') : ledger'[m] # "rejected" IN
  /\ doing[v] = "project"
  /\ slots' = Tracked(dirty)
  /\ ledger' = IF "commands" \in dirty THEN docCommand ELSE ledger
  /\ echoes' = Unlanded(ledger', slots')
  /\ snapshot' = [entries |-> slots', echoes |-> echoes', working |-> rowSeen[v] \/ sending]
  /\ taken' = [taken EXCEPT ![v] = {}]
  /\ doing' = [doing EXCEPT ![v] = "gate"]
  /\ UNCHANGED <<docVars, marks, wakeup, row, rowTurns, rowSeen, composer>>

MayRecompute_Ungated == TRUE

(* recompute_gate: one recompute at a time reads its inputs and publishes. *)
MayRecompute == \A v \in Viewers : doing[v] # "publish"

ReadInputs(v) ==
  /\ doing[v] = "gate" /\ MayRecompute
  /\ rowSeen' = [rowSeen EXCEPT ![v] = row]
  /\ doing' = [doing EXCEPT ![v] = "publish"]
  /\ UNCHANGED <<docVars, marks, wakeup, row, rowTurns, taken, coreVars>>

PublishComposer(v) ==
  /\ doing[v] = "publish"
  /\ composer' = [busy |-> rowSeen[v], pending |-> echoes]
  /\ doing' = [doing EXCEPT ![v] = "idle"]
  /\ UNCHANGED <<docVars, marks, wakeup, row, rowTurns, taken, rowSeen, slots, ledger,
                 echoes, snapshot>>

ViewNext ==
  \/ Import \/ Observe \/ ScheduleRefresh \/ FrameWakes
  \/ \E v \in Viewers :
       \/ \E m \in Sends : WriteCommand(v, m)
       \/ RowChanges(v) \/ TakeMarks(v) \/ ReadRow(v) \/ Project(v) \/ ReadInputs(v)
       \/ PublishComposer(v)

ViewSpec == ViewInit /\ [][ViewNext]_viewVars

------------------------------------------------------------------------------
AtRest == import = "no" /\ marks = {} /\ ~wakeup /\ \A v \in Viewers : doing[v] = "idle"

(* When nothing is under way the snapshot and the composer show the document and
   the row as they are, whichever of several refreshes took the marks and in
   which order they published ("so an older read can't land after a newer one"). *)
ViewSettles == AtRest =>
  /\ slots = docEntry /\ ledger = docCommand
  /\ snapshot.entries = docEntry
  /\ snapshot.echoes = Unlanded(docCommand, docEntry)
  /\ composer = [busy |-> row, pending |-> snapshot.echoes]

(* A message once shown stays shown: as an echo until its entry is there, as the
   entry from then on, and never as both. *)
Shown(s) == {m \in Sends : m \in s.echoes \/ s.entries[m] > 0}
EchoKept == [][/\ Shown(snapshot) \subseteq Shown(snapshot')
               /\ \A m \in snapshot'.echoes : snapshot'.entries[m] = 0]_viewVars
==============================================================================

----------------------------- MODULE Transcript -----------------------------
(***************************************************************************)
(* From the document to the screen.  client/src/session/transcript.rs      *)
(* re-decodes only the entries a change marked, joins continuations onto   *)
(* their roots and gives what changed a new revision; session/mod.rs adds  *)
(* the echo of an own message that has not landed; events.rs tells the     *)
(* application, at most once a frame; NativeClient.swift pulls the entries *)
(* whose revision it does not hold and keeps the others from its cache.    *)
(* The core of a closed session is evicted, and starts over when reopened. *)
(*                                                                         *)
(* A text is a version and a length: it grows, or is rewritten to another   *)
(* version.  An entry whose fields are missing is salvaged under an id of   *)
(* its own, and is nobody's continuation.                                   *)
(***************************************************************************)
EXTENDS Integers, Sequences, FiniteSets, SequencesExt

CONSTANTS Cells,     \* the entries that may be written
          RootOf,    \* continuation_of: an entry's root, or NoRoot
          NoRoot,
          Own,       \* the entry of this device's own message
          MaxParts,  \* bound on the parts of an entry
          Scripts    \* the instances: the entries written, whether Own is sent,
                     \* bounds on writes of the document and changes of the path

ASSUME TranscriptAssumption ==
  /\ NoRoot \notin Cells /\ Own \in Cells /\ MaxParts \in Nat
  /\ RootOf \in [Cells -> Cells \cup {NoRoot}] /\ RootOf[Own] = NoRoot
  /\ Scripts \subseteq [cells : SUBSET Cells, sends : BOOLEAN, writes : Nat, flaps : Nat]

VARIABLES
  script,    \* the instance, chosen at the start
  list,      \* the document's messages, in order
  body,      \* an entry's fields, Blank while they are missing
  command,   \* the ledger holds this device's Run for Own
  writes,    \* history: writes so far
  change,    \* marks of a change its observer has not seen yet
  dirty,     \* Dirty: "list", "commands", and entries
  refreshDue, \* refresh_wake's permit, or a refresh under way
  path,      \* [down, flaps]: the chat's delivery is degraded
  warm,      \* the client holds the session's core
  core,      \* slots, joined entries, ledger, echo, last revision
  pump,      \* EventPump holds a SessionChanged
  app        \* NativeClient: [open, dirty, task, screen], the screen with revisions

pageVars == <<script, list, body, command, writes, change>>
transcriptVars == <<pageVars, dirty, refreshDue, path, warm, core, pump, app>>

Blank  == [parts |-> <<>>, status |-> "unknown"]
Text   == [version |-> 1, length |-> 1]
NoHint == [base |-> 0, part |-> 0]
NoEcho == [rev |-> 0, state |-> "none"]
NewCore == [slots |-> <<>>, joined |-> <<>>, ledger |-> FALSE, echo |-> NoEcho, rev |-> 0]
Everything == {"list", "commands"}

TranscriptInit ==
  /\ script \in Scripts
  /\ list = <<>> /\ body = [c \in Cells |-> Blank] /\ command = FALSE
  /\ writes = 0 /\ change = {}
  /\ dirty = {} /\ refreshDue = FALSE
  /\ path = [down |-> FALSE, flaps |-> 0]
  /\ warm = FALSE /\ core = NewCore
  /\ pump = FALSE
  /\ app = [open |-> FALSE, dirty |-> FALSE, task |-> FALSE, screen |-> <<>>]

------------------------------------------------------------------------------
(* Tracker: the slots, then the joined entries over them. *)

SlotOf(ss, c) == SelectSeq(ss, LAMBDA s : s.cell = c)[1]
CellsOf(ss) == {s.cell : s \in ToSet(ss)}

Kept_ListWins(t, marked, c) ==
  c \in CellsOf(t.slots) /\ ("list" \in marked \/ c \notin marked)

(* A slot survives if its entry was not marked.  With the list marked every
   entry of the document has a slot, else only those that had one. *)
Kept(t, marked, c) == c \in CellsOf(t.slots) /\ c \notin marked

Redecoded(t, marked) ==
  LET order == IF "list" \in marked THEN list ELSE [i \in DOMAIN t.slots |-> t.slots[i].cell]
      Step(acc, c) ==
        IF Kept(t, marked, c)
        THEN [acc EXCEPT !.slots = Append(@, SlotOf(t.slots, c))]
        ELSE [acc EXCEPT !.slots = Append(@, [cell |-> c, rev |-> acc.rev + 1, entry |-> body[c]]),
                         !.rev = @ + 1]
  IN FoldLeft(Step, [t EXCEPT !.slots = <<>>], order)

(* decode: an entry's id, and the root it continues. *)
Ident(c, entry) == [cell |-> c, salvaged |-> entry = Blank]
Continues(c, entry) == IF entry = Blank THEN NoRoot ELSE RootOf[c]
IsRoot(s) == s.entry # Blank /\ RootOf[s.cell] = NoRoot

(* The slot whose group a slot joins: an earlier root, or itself. *)
GroupOf(ss, i) ==
  LET roots == {j \in 1..(i - 1) :
                  IsRoot(ss[j]) /\ ss[j].cell = Continues(ss[i].cell, ss[i].entry)}
  IN IF roots = {} THEN i ELSE CHOOSE j \in roots : TRUE

Members(ss, h) == SelectSeq([i \in DOMAIN ss |-> i], LAMBDA i : GroupOf(ss, i) = h)

Grew(old, new) == old.version = new.version /\ new.length > old.length

AppendHint_AnyLength(prev, id, parts, status) ==
  LET both  == 1..(IF Len(parts) < Len(prev.parts) THEN Len(parts) ELSE Len(prev.parts))
      grown == {i \in both : parts[i] # prev.parts[i]} IN
  IF prev.id = id /\ prev.status = status
     /\ Cardinality(grown) = 1 /\ \A i \in grown : Grew(prev.parts[i], parts[i])
  THEN LET i == CHOOSE i \in grown : TRUE IN
       [base |-> IF prev.hint.part = i THEN prev.hint.base ELSE prev.rev, part |-> i]
  ELSE NoHint

(* append_hint: text-only growth of exactly one part relative to prev. *)
AppendHint(prev, id, parts, status) ==
  LET grown == {i \in DOMAIN parts : parts[i] # prev.parts[i]} IN
  IF prev.id = id /\ prev.status = status /\ Len(prev.parts) = Len(parts)
     /\ Cardinality(grown) = 1 /\ \A i \in grown : Grew(prev.parts[i], parts[i])
  THEN LET i == CHOOSE i \in grown : TRUE IN
       [base |-> IF prev.hint.part = i THEN prev.hint.base ELSE prev.rev, part |-> i]
  ELSE NoHint

(* rejoin: an entry keeps its revision while those of its members are the same. *)
Rejoined(t) ==
  LET members(h) == Members(t.slots, h)
      heads == SelectSeq([i \in DOMAIN t.slots |-> i],
                 LAMBDA i : GroupOf(t.slots, i) = i)
      Step(acc, h) ==
        LET ms  == members(h)
            cell == t.slots[h].cell
            id  == Ident(cell, t.slots[h].entry)
            sig == [k \in DOMAIN ms |-> t.slots[ms[k]].rev]
            old == SelectSeq(t.joined, LAMBDA e : e.cell = cell)
            parts  == FlattenSeq([k \in DOMAIN ms |-> t.slots[ms[k]].entry.parts])
            status == t.slots[Last(ms)].entry.status
            hint == IF old = <<>> THEN NoHint ELSE AppendHint(old[1], id, parts, status) IN
        IF old # <<>> /\ old[1].sig = sig THEN [acc EXCEPT !.joined = Append(@, old[1])]
        ELSE [acc EXCEPT !.rev = @ + 1,
                !.joined = Append(@, [cell |-> cell, id |-> id, sig |-> sig, rev |-> acc.rev + 1,
                                      parts |-> parts, status |-> status, hint |-> hint])]
  IN FoldLeft(Step, [t EXCEPT !.joined = <<>>], heads)

(* Whether Tracker::refresh has anything to do. *)
Touched(t, marked) == "list" \in marked \/ marked \cap CellsOf(t.slots) # {}

Retracked(t, marked) == IF Touched(t, marked) THEN Rejoined(Redecoded(t, marked)) ELSE t

(* derive_pending: the echo stays the same while its state does. *)
Derived(t, marked) ==
  LET sees == IF "commands" \in marked THEN command ELSE t.ledger
      state == IF path.down THEN "queued" ELSE "sending"
      landed == \E s \in ToSet(t.slots) : s.cell = Own /\ s.entry # Blank
  IN [t EXCEPT !.ledger = sees,
       !.rev  = IF sees /\ ~landed /\ t.echo.state # state THEN @ + 1 ELSE @,
       !.echo = IF ~sees \/ landed THEN NoEcho
                ELSE IF t.echo.state = state THEN t.echo
                ELSE [rev |-> t.rev + 1, state |-> state]]

Refreshed(t, marked) == Derived(Retracked(t, marked), marked)

(* build_snapshot: the joined entries, then the echo. *)
OwnId == [cell |-> Own, salvaged |-> FALSE]
EchoEntry(echo) ==
  [id |-> OwnId, rev |-> echo.rev, parts |-> <<Text>>, status |-> "complete", hint |-> NoHint]
SnapshotOf(t) ==
  [i \in DOMAIN t.joined |-> [id |-> t.joined[i].id, rev |-> t.joined[i].rev,
     parts |-> t.joined[i].parts, status |-> t.joined[i].status, hint |-> t.joined[i].hint]]
  \o (IF t.echo = NoEcho THEN <<>> ELSE <<EchoEntry(t.echo)>>)

(* publishSession: transcript_update returns what differs from the known
   revisions; the rest comes from the cache, which keeps only what is present. *)
Pulled(known, snap) ==
  [i \in DOMAIN snap |->
     LET mine == SelectSeq(known, LAMBDA e : e.id = snap[i].id) IN
     IF mine # <<>> /\ mine[1].rev = snap[i].rev THEN mine[1]
     ELSE [id |-> snap[i].id, rev |-> snap[i].rev, parts |-> snap[i].parts,
           status |-> snap[i].status]]

Streams(t) == t.joined # <<>> /\ Last(t.joined).status = "streaming"

------------------------------------------------------------------------------
(* The document, as imports and local writes change it. *)

(* The observer of an open core sees a change after the document has it. *)
Write(marked) ==
  /\ writes < script.writes /\ change = {}
  /\ writes' = writes + 1
  /\ change' = IF warm THEN marked ELSE {}
  /\ UNCHANGED <<dirty, refreshDue, path, warm, core, pump, app>>

(* The list gains an entry: the host appends, and the merge of two hosts may put
   it before one that is there.  Its fields may follow in a later change. *)
Insert(c) ==
  /\ c \notin ToSet(list)
  /\ c = Own => command
  /\ \E i \in 1..(Len(list) + 1) : list' = InsertAt(list, i, c)
  /\ \/ body' = [body EXCEPT ![c] = [parts |-> <<Text>>,
                   status |-> IF c = Own THEN "complete" ELSE "streaming"]]
     \/ c # Own /\ UNCHANGED body
  /\ Write({"list", c}) /\ UNCHANGED <<script, command>>

Fill(c) ==
  /\ c \in ToSet(list) /\ body[c] = Blank
  /\ body' = [body EXCEPT ![c] = [parts |-> <<Text>>, status |-> "streaming"]]
  /\ Write({c}) /\ UNCHANGED <<script, list, command>>

(* SegmentWriter::sync and finish: the last text grows, a part is pushed, a part
   is rewritten, the entry ends. *)
WriteParts(c, parts) ==
  /\ body[c].status = "streaming"
  /\ body' = [body EXCEPT ![c].parts = parts]
  /\ Write({c}) /\ UNCHANGED <<script, list, command>>

Grow(c) == WriteParts(c, [body[c].parts EXCEPT ![Len(body[c].parts)].length = @ + 1])
Push(c) == Len(body[c].parts) < MaxParts /\ WriteParts(c, Append(body[c].parts, Text))
Rewrite(c) == WriteParts(c, [body[c].parts EXCEPT ![1] = [Text EXCEPT !.version = 2]])

Finish(c) ==
  /\ body[c].status = "streaming"
  /\ body' = [body EXCEPT ![c].status = "complete"]
  /\ Write({c}) /\ UNCHANGED <<script, list, command>>

(* A send of this device: its command, observed before the call returns. *)
SendOwn ==
  /\ ~command /\ app.open /\ script.sends
  /\ command' = TRUE
  /\ dirty' = dirty \cup {"commands"}
  /\ refreshDue' = TRUE
  /\ UNCHANGED <<script, list, body, writes, change, path, warm, core, pump, app>>

(* The observer marks what changed, and on_applied asks for a refresh. *)
ObserveChange ==
  /\ change # {}
  /\ change' = {}
  /\ dirty' = dirty \cup change
  /\ refreshDue' = TRUE
  /\ UNCHANGED <<script, list, body, command, writes, path, warm, core, pump, app>>

(* The delivery of the chat degrades or recovers; cores are refreshed. *)
PathFlaps ==
  /\ path.flaps < script.flaps
  /\ path' = [down |-> ~path.down, flaps |-> path.flaps + 1]
  /\ refreshDue' = (refreshDue \/ warm)
  /\ UNCHANGED <<pageVars, dirty, warm, core, pump, app>>

------------------------------------------------------------------------------
(* The core and the application. *)

(* refresh: take the marks, publish a snapshot if anything changed, tell. *)
RefreshCore ==
  /\ refreshDue
  /\ refreshDue' = FALSE
  /\ core' = Refreshed(core, dirty)
  /\ dirty' = {}
  /\ pump' = (pump \/ Touched(core, dirty) \/ core'.echo # core.echo)
  /\ UNCHANGED <<pageVars, path, warm, app>>

(* The pump's burst reaches receive on the main actor, which inserts the session
   and starts a refresh task unless one waits. *)
Deliver ==
  /\ pump
  /\ pump' = FALSE
  /\ app' = [app EXCEPT !.dirty = TRUE, !.task = TRUE]
  /\ UNCHANGED <<pageVars, dirty, refreshDue, path, warm, core>>

(* A workspace event starts the same task. *)
WorkspaceEvent ==
  /\ ~app.task
  /\ app' = [app EXCEPT !.task = TRUE]
  /\ UNCHANGED <<pageVars, dirty, refreshDue, path, warm, core, pump>>

RunTask ==
  /\ app.task
  /\ app' = [app EXCEPT !.task = FALSE, !.dirty = FALSE,
               !.screen = IF app.dirty /\ app.open THEN Pulled(@, SnapshotOf(core)) ELSE @]
  /\ UNCHANGED <<pageVars, dirty, refreshDue, path, warm, core, pump>>

(* Every other operation on an open session publishes too. *)
Publish ==
  /\ app.open
  /\ app' = [app EXCEPT !.screen = Pulled(@, SnapshotOf(core))]
  /\ UNCHANGED <<pageVars, dirty, refreshDue, path, warm, core, pump>>

(* openSession: the client's warm core, or a new one that projects everything. *)
OpenView ==
  /\ ~app.open
  /\ warm' = TRUE
  /\ core' = IF warm THEN core ELSE Refreshed(NewCore, Everything)
  /\ pump' = (pump \/ ~warm)
  /\ app' = [app EXCEPT !.open = TRUE, !.screen = Pulled(@, SnapshotOf(core'))]
  /\ UNCHANGED <<pageVars, dirty, refreshDue, path>>

(* closeSession: the handle and the cached messages go, the core stays warm. *)
CloseView ==
  /\ app.open
  /\ app' = [app EXCEPT !.open = FALSE, !.screen = <<>>]
  /\ UNCHANGED <<pageVars, dirty, refreshDue, path, warm, core, pump>>

(* evict_sessions: a core without a view, a pending send or a streaming tail. *)
Evict ==
  /\ warm /\ ~app.open /\ core.echo = NoEcho
  /\ ~Streams(core)
  /\ warm' = FALSE /\ core' = NewCore
  /\ change' = {} /\ dirty' = {} /\ refreshDue' = FALSE
  /\ UNCHANGED <<script, list, body, command, writes, path, pump, app>>

TranscriptNext ==
  \/ \E c \in script.cells : Insert(c) \/ Fill(c) \/ Grow(c) \/ Push(c) \/ Rewrite(c) \/ Finish(c)
  \/ SendOwn \/ ObserveChange \/ PathFlaps \/ RefreshCore
  \/ Deliver \/ WorkspaceEvent \/ RunTask \/ Publish \/ OpenView \/ CloseView \/ Evict

TranscriptSpec == TranscriptInit /\ [][TranscriptNext]_transcriptVars

------------------------------------------------------------------------------
(* schema.rs join_continuation_entries, the reference join of a document. *)
Reference ==
  LET Root(c) == [cell |-> Continues(c, body[c]), salvaged |-> FALSE]
      Step(out, c) ==
        LET at == SelectInSeq(out, LAMBDA e : e.id = Root(c) /\ RootOf[e.id.cell] = NoRoot) IN
        IF at > 0 THEN [out EXCEPT ![at].parts = @ \o body[c].parts,
                                        ![at].status = body[c].status]
        ELSE Append(out, [id |-> Ident(c, body[c]), parts |-> body[c].parts, status |-> body[c].status])
  IN FoldLeft(Step, <<>>, list)

OwnEcho == IF command /\ ~\E i \in DOMAIN list : list[i] = Own /\ body[Own] # Blank
           THEN <<[id |-> OwnId, parts |-> <<Text>>, status |-> "complete"]>> ELSE <<>>

AllTold == change = {} /\ dirty = {} /\ ~refreshDue /\ ~pump /\ ~app.task

(* Once every change has been observed, refreshed and delivered, the screen of an
   open session is the join of the whole document followed by the echo, whatever
   was kept from an earlier decode, an earlier join or an earlier pull. *)
ScreenShowsDoc ==
  app.open /\ AllTold =>
    [i \in DOMAIN app.screen |-> [id |-> app.screen[i].id, parts |-> app.screen[i].parts,
                                  status |-> app.screen[i].status]] = Reference \o OwnEcho

(* snapshot.rs on Entry.rev and AppendHint, for a version the application holds,
   however old: at the same revision it is the same entry; at or past the hint's
   base every part is unchanged but the one named, which only grew. *)
VersionsHonest ==
  app.open => \A held \in ToSet(app.screen), now \in ToSet(SnapshotOf(core)) :
    held.id = now.id =>
      /\ held.rev = now.rev => held.parts = now.parts /\ held.status = now.status
      /\ now.hint # NoHint /\ held.rev >= now.hint.base /\ held.rev < now.rev =>
           /\ held.status = now.status /\ Len(held.parts) = Len(now.parts)
           /\ \A i \in DOMAIN now.parts :
                IF i = now.hint.part THEN Grew(held.parts[i], now.parts[i])
                ELSE held.parts[i] = now.parts[i]

(* What the application shows is the document, and what it is told of versions it
   holds is true of them. *)
ScreenHonest == ScreenShowsDoc /\ VersionsHonest
==============================================================================

---------------------------- MODULE EntryWriter ----------------------------
(***************************************************************************)
(* How a reply reaches the document: agent events are folded into parts    *)
(* (doc/src/parts.rs fold_event_into_parts) and a writer, now and then,    *)
(* writes what changed into the entry's part maps (doc/src/schema.rs       *)
(* SegmentWriter), from which every reader decodes them again              *)
(* (from_doc_part).  The host that runs the agent is another program: the  *)
(* order of its events is external.                                        *)
(*                                                                         *)
(* A text is its length.  A part that arrived by its own id is <<kind, n>>.*)
(* A question has two ids: the fold keeps it under one it makes of the     *)
(* request's, the document under the request's.                            *)
(***************************************************************************)
EXTENDS Integers, Sequences, FiniteSets, SequencesExt

CONSTANTS Calls,      \* tool call ids
          Spawns,     \* those that start a subagent
          MaxEvents,  \* bound on the events of a turn
          MaxLate     \* bound on the writes after the writer is gone

(* The part a recovery adds, and a generated image, are no calls. *)
Interrupted == <<"interrupted", 1>>

ASSUME EntryAssumption ==
  /\ Spawns \subseteq Calls /\ {Interrupted, <<"image", 1>>} \cap Calls = {}
  /\ MaxEvents \in Nat /\ MaxLate \in Nat

VARIABLES
  turn,      \* history: the events of the entry so far
  folded,    \* the accumulator of the fold
  written,   \* SegmentWriter.written, its mirror of the document; and, once the
             \* writer is gone, what the later writes should have made of it
  maps,      \* the entry's part maps in the document
  state,     \* the entry's status
  writing,   \* the writer is there
  late       \* writes since it is gone

entryVars == <<turn, folded, written, maps, state, writing, late>>

None == "none"
Question == <<"request", 1>>
Part == [id |-> <<"t", 0>>, kind |-> "text", request |-> <<>>, text |-> 0, call |-> 0,
         failed |-> FALSE, resolved |-> FALSE, stats |-> None, chip |-> None]

------------------------------------------------------------------------------
(* fold_event_into_parts. *)

(* Text of either kind grows the trailing part, or starts one. *)
FoldText(parts, kind, tag, n) ==
  IF parts # <<>> /\ Last(parts).kind = kind
  THEN [parts EXCEPT ![Len(parts)].text = @ + n]
  ELSE Append(parts, [Part EXCEPT !.id = <<tag, Len(parts)>>, !.kind = kind, !.text = n])

Each(parts, which(_), to(_)) ==
  [i \in DOMAIN parts |-> IF which(parts[i]) THEN to(parts[i]) ELSE parts[i]]

(* A call known by its id is refreshed in place. *)
FoldCall(parts, id) ==
  IF \E i \in DOMAIN parts : parts[i].kind = "tool" /\ parts[i].id = id
  THEN Each(parts, LAMBDA p : p.kind = "tool" /\ p.id = id, LAMBDA p : [p EXCEPT !.call = 2])
  ELSE Append(parts, [Part EXCEPT !.id = id, !.kind = "tool", !.call = 1])

FoldResult(parts, id, failed, stats) ==
  Each(parts, LAMBDA p : p.kind = "tool" /\ p.id = id,
       LAMBDA p : [p EXCEPT !.failed = failed, !.resolved = TRUE, !.stats = stats])

FoldImage(parts, id) ==
  IF \E i \in DOMAIN parts : parts[i].id = id
  THEN Each(parts, LAMBDA p : p.id = id, LAMBDA p : [Part EXCEPT !.id = id, !.kind = "image"])
  ELSE Append(parts, [Part EXCEPT !.id = id, !.kind = "image"])

(* "in-" and the request's id. *)
InputId(request) == <<"in", request[2]>>

FoldInput(parts, request) ==
  IF \E i \in DOMAIN parts : parts[i].id = InputId(request) THEN parts
  ELSE Append(parts, [Part EXCEPT !.id = InputId(request), !.kind = "input", !.request = request])

FoldAnswer(parts, request) ==
  Each(parts, LAMBDA p : p.kind = "input" /\ p.request = request,
       LAMBDA p : [p EXCEPT !.resolved = TRUE])

FoldError(parts) == Append(parts, [Part EXCEPT !.id = <<"e", Len(parts)>>, !.kind = "error"])

(* A subagent's event settles or reopens the chip of the call that spawned it;
   any other traffic proves it live, and never reopens a settled chip. *)
FoldSubagent(parts, id, news) ==
  Each(parts, LAMBDA p : p.kind = "tool" /\ p.id = id /\ id \in Spawns,
       LAMBDA p : [p EXCEPT !.chip = IF news # "traffic" THEN news
                                     ELSE IF @ \in {"done", "failed"} THEN @ ELSE "running"])

Fold(parts, event) ==
  CASE event.type = "text" -> FoldText(parts, "text", "t", 1)
    [] event.type = "reasoning" -> FoldText(parts, "reasoning", "r", 1)
    [] event.type = "call" -> FoldCall(parts, event.id)
    [] event.type = "result" -> FoldResult(parts, event.id, event.failed, event.stats)
    [] event.type = "image" -> FoldImage(parts, event.id)
    [] event.type = "requested" -> FoldInput(parts, event.id)
    [] event.type = "answered" -> FoldAnswer(parts, event.id)
    [] event.type = "error" -> FoldError(parts)
    [] event.type = "subagent" -> FoldSubagent(parts, event.id, event.news)
    [] event.type = "boundary" -> <<>>
    [] event.type = "usage" -> parts

------------------------------------------------------------------------------
(* The part maps.  A field that is not there is "none"; an input part's id is
   its request's, and the fold's is dropped. *)

StoredId(p) == IF p.kind = "input" THEN p.request ELSE p.id

YesNo(x) == IF x THEN "yes" ELSE "no"

ToDocPart_Unresolved(p) ==
  [id |-> StoredId(p), kind |-> p.kind,
   text |-> IF p.kind \in {"text", "reasoning"} THEN <<p.text>> ELSE <<>>,
   call |-> IF p.kind = "tool" THEN <<p.call>> ELSE <<>>,
   isError |-> IF p.kind = "tool" THEN YesNo(p.failed) ELSE None,
   resolved |-> IF p.kind = "input" THEN YesNo(p.resolved) ELSE None,
   stats |-> p.stats, chip |-> p.chip]

(* to_doc_part: isError is there once the result is; its presence is the mark. *)
ToDocPart(p) ==
  [id |-> StoredId(p), kind |-> p.kind,
   text |-> IF p.kind \in {"text", "reasoning"} THEN <<p.text>> ELSE <<>>,
   call |-> IF p.kind = "tool" THEN <<p.call>> ELSE <<>>,
   isError |-> IF p.kind = "tool" /\ p.resolved THEN YesNo(p.failed) ELSE None,
   resolved |-> IF p.kind = "input" THEN YesNo(p.resolved) ELSE None,
   stats |-> p.stats, chip |-> p.chip]

(* from_doc_part: a tool without a call degrades to an empty text, and a question
   is known by its request. *)
FromDocPart(m) ==
  LET part == [Part EXCEPT !.id = m.id, !.kind = m.kind] IN
  CASE m.kind = "tool" /\ m.call # <<>> ->
         [part EXCEPT !.call = m.call[1], !.failed = m.isError = "yes",
                      !.resolved = m.isError # None, !.stats = m.stats, !.chip = m.chip]
    [] m.kind = "input" -> [part EXCEPT !.request = m.id, !.resolved = m.resolved = "yes"]
    [] m.kind \in {"error", "image"} -> part
    [] OTHER -> [part EXCEPT !.kind = IF m.kind = "reasoning" THEN "reasoning" ELSE "text",
                             !.text = IF m.text = <<>> THEN 0 ELSE m.text[1]]

(* update_part_fields: what the part has overwrites what the map has; the id,
   the kind and a text the map never had are not written. *)
UpdateFields(m, p) ==
  LET new == ToDocPart(p)
      pick(old, value, none) == IF value = none THEN old ELSE value
  IN [m EXCEPT !.text = IF @ = <<>> THEN @ ELSE pick(@, new.text, <<>>),
               !.call = pick(@, new.call, <<>>),
               !.isError = pick(@, new.isError, None), !.resolved = pick(@, new.resolved, None),
               !.stats = pick(@, new.stats, None), !.chip = pick(@, new.chip, None)]

(* SegmentWriter::sync, one part: push it, leave it, append to its text, or
   refresh the fields of its map. *)
SyncPart(ms, i, p) ==
  IF i > Len(written) THEN Append(ms, ToDocPart(p))
  ELSE IF written[i] = p THEN ms
  ELSE IF /\ p.kind \in {"text", "reasoning"} /\ written[i].kind = p.kind
          /\ p.text >= written[i].text
       THEN [ms EXCEPT ![i].text = <<p.text>>]
       ELSE [ms EXCEPT ![i] = UpdateFields(@, p)]

Synced(ms) ==
  LET done[i \in 0..Len(folded)] ==
        IF i = 0 THEN ms ELSE SyncPart(done[i - 1], i, folded[i])
  IN  done[Len(folded)]

------------------------------------------------------------------------------
EntryInit ==
  /\ turn = <<>> /\ folded = <<>> /\ written = <<>> /\ maps = <<>>
  /\ state = "streaming" /\ writing = TRUE /\ late = 0

(* What the agent may do next: a result and a subagent follow their call, an
   answer its question, and a call has one result. *)
Had(type, id) == \E i \in DOMAIN turn : turn[i].type = type /\ turn[i].id = id

Event ==
  [type : {"text", "reasoning", "error", "usage"}, id : {<<"", 0>>}] \cup
  [type : {"call"}, id : Calls] \cup
  [type : {"image"}, id : {<<"image", 1>>}] \cup
  [type : {"requested", "answered"}, id : {Question}] \cup
  [type : {"result"}, id : Calls, failed : BOOLEAN, stats : {None, "lines"}] \cup
  [type : {"subagent"}, id : Calls, news : {"running", "traffic", "done", "failed"}]

Possible(event) ==
  /\ event.type \in {"result", "subagent"} => Had("call", event.id)
  /\ event.type = "result" => ~Had("result", event.id)
  /\ event.type = "answered" => Had("requested", event.id)

AgentEvent ==
  /\ writing /\ Len(turn) < MaxEvents
  /\ \E event \in Event :
       /\ Possible(event)
       /\ turn' = Append(turn, event)
       /\ folded' = Fold(folded, event)
  /\ UNCHANGED <<written, maps, state, writing, late>>

(* sync, at a commit tick. *)
Sync ==
  /\ writing
  /\ maps' = Synced(maps)
  /\ written' = folded
  /\ UNCHANGED <<turn, folded, state, writing, late>>

(* finish: the last sync, and the terminal status. *)
FinishEntry ==
  /\ writing
  /\ maps' = Synced(maps)
  /\ written' = folded
  /\ state' = "complete" /\ writing' = FALSE
  /\ UNCHANGED <<turn, folded, late>>

(* The host dies: what was folded and not written is lost. *)
HostDies ==
  /\ writing
  /\ writing' = FALSE /\ folded' = written
  /\ UNCHANGED <<turn, written, maps, state, late>>

(* A turn boundary: the next entry begins, the fold clears its accumulator. *)
Boundary ==
  /\ state = "complete" /\ Len(turn) < MaxEvents
  /\ turn' = <<>> /\ folded' = Fold(folded, [type |-> "boundary"])
  /\ written' = <<>> /\ maps' = <<>>
  /\ state' = "streaming" /\ writing' = TRUE /\ late' = 0

------------------------------------------------------------------------------
(* Writes into an entry no writer owns. *)

Late ==
  /\ ~writing /\ late < MaxLate
  /\ late' = late + 1
  /\ UNCHANGED <<turn, folded, writing>>

ErrorPart == [Part EXCEPT !.id = Interrupted, !.kind = "error"]

(* Recovery, which may run again: set_message_status and append_error_part, once
   per part id. *)
Recover ==
  /\ state # "complete" /\ Late
  /\ state' = "aborted"
  /\ maps' = IF \E i \in DOMAIN maps : maps[i].id = Interrupted THEN maps
             ELSE Append(maps, ToDocPart(ErrorPart))
  /\ written' = IF state = "aborted" THEN written ELSE Append(written, ErrorPart)

(* resolve_input: the input part stored under that request, wherever it is. *)
ResolveInput(request) ==
  /\ Late /\ UNCHANGED state
  /\ maps' = Each(maps, LAMBDA m : m.kind = "input" /\ m.id = request,
                  LAMBDA m : [m EXCEPT !.resolved = "yes"])
  /\ written' = FoldAnswer(written, request)

(* update_subagent_chip: only the chip of a call that spawns. *)
UpdateChip(id, news) ==
  /\ Late /\ UNCHANGED state
  /\ maps' = Each(maps, LAMBDA m : m.kind = "tool" /\ m.id = id /\ id \in Spawns,
                  LAMBDA m : [m EXCEPT !.chip = news])
  /\ written' = FoldSubagent(written, id, news)

EntryNext ==
  \/ AgentEvent \/ Sync \/ FinishEntry \/ HostDies \/ Boundary \/ Recover
  \/ ResolveInput(Question)
  \/ \E id \in Calls : UpdateChip(id, "done") \/ UpdateChip(id, "failed")
EntrySpec == EntryInit /\ [][EntryNext]_entryVars

------------------------------------------------------------------------------
Decoded(ms) == [i \in DOMAIN ms |-> FromDocPart(ms[i])]

(* A part as a reader knows it: a question under its request's id. *)
AsRead(p) == [p EXCEPT !.id = StoredId(p)]

(* Whatever was pushed, appended or refreshed in place at however many ticks, a
   reader decodes what the fold held at the last one, and what was written directly
   since: no field of a refreshed part is left behind, what has no result does not
   read as resolved, and a recovery that runs twice adds one error.  Only the id of a
   question is another: the fold's is never stored (schema.rs:198-209), and a reader
   knows the part by the request's. *)
ReaderSeesFold == Decoded(maps) = [i \in DOMAIN written |-> AsRead(written[i])]
=============================================================================

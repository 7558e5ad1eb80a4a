------------------------------ MODULE HostTurns -----------------------------
(***************************************************************************)
(* One chat between its composer (client/src/session/mod.rs: send,         *)
(* interrupt, retry_delivery, the queue actions and the edit leases) and   *)
(* the host that runs it: DemoHost (client/src/demo/mod.rs), the in-process*)
(* host and the only one in this repository, over the document's command   *)
(* ledger (doc/src/commands.rs) and message queue (doc/src/queue.rs).      *)
(*                                                                         *)
(* Host work runs in tasks of a multi-threaded runtime: a drain per        *)
(* command, an RPC per queue action, a task per turn.  A document write is *)
(* one step (the write gate), a critical section over the turn map is one  *)
(* step, and everything between two of them interleaves.                   *)
(***************************************************************************)
EXTENDS Integers, FiniteSets, SequencesExt, Filters

CONSTANTS Messages,     \* what the user types, each sent once
          Tasks,        \* slots for the drains and RPCs that run at a time
          TurnStories   \* the instances: who does what, and the bounds on it

NoMsg == "none"

(* A story: the messages, those whose Run carries attachments, what the user
   does, the slots in use, and bounds on edit leases, the command ledger, losses
   of the path, and the drain timers under which a row is still moved. *)
ASSUME TurnsAssumption ==
  /\ NoMsg \notin Messages
  /\ TurnStories \subseteq [msgs : SUBSET Messages, escorted : SUBSET Messages,
                            offers : SUBSET STRING, tasks : SUBSET Tasks,
                            leases : Nat, commands : Nat, losses : Nat, timers : Nat]

VARIABLES
  story,       \* the instance, chosen at the start
  online,      \* path_online
  shownDown,   \* the graced connectivity state is Offline
  commands,    \* the ledger: [kind, msg, status], the command id is the index
  expired,     \* commands past their time to live on the composer's clock
  processed,   \* command ids the host has claimed
  queue,       \* the queue's rows in order
  rowGate,     \* a row's Editing gate: its lease, or 0
  leases,      \* the host's lease per row, 0 if none
  editors,     \* leases a client was told it acquired: <<row, lease>>
  nextLease,
  pendingRows, \* queue_actions_pending
  rpcs,        \* requests under way to the host: [op, msg, lease]
  due,         \* on_command timers that have not fired
  task,        \* what a drain or an RPC is doing
  escorts,     \* Runs whose attachments are being uploaded
  turnMap,     \* turns[chat]: the current turn, 0 if none
  turns,       \* spawned turns that have not ended: id -> [msg, phase, cancelled]
  nextTurn,
  entries,     \* user entries in the transcript, per message
  streaming,   \* the last entry is still streaming
  status,      \* the host's session row: idle, working, awaiting
  sent,        \* history: messages the user sent
  removed,     \* history: messages the user removed, or an edit discarded
  overrun,     \* history: messages whose turn was cancelled before it began
  losses,      \* history: losses of the path so far
  unwoken      \* history: a drain met a lost path nobody will announce again

chat == <<online, shownDown, commands, expired, processed>>
rows == <<queue, rowGate, leases, editors, nextLease, pendingRows, rpcs>>
host == <<due, task, escorts, turnMap, turns, nextTurn>>
shown == <<entries, streaming, status>>
past == <<sent, removed, overrun, losses, unwoken>>
turnsVars == <<story, chat, rows, host, shown, past>>

Free  == [pc |-> "free", msg |-> NoMsg, lease |-> 0, todo |-> <<>>]
At(pc, msg) == [Free EXCEPT !.pc = pc, !.msg = msg]

TurnsInit ==
  /\ story \in TurnStories
  /\ online = TRUE /\ shownDown = FALSE
  /\ commands = <<>> /\ expired = {} /\ processed = {}
  /\ queue = <<>> /\ rowGate = [m \in Messages |-> 0] /\ leases = [m \in Messages |-> 0]
  /\ editors = {} /\ nextLease = 1 /\ pendingRows = {} /\ rpcs = {}
  /\ due = 0 /\ task = [t \in Tasks |-> Free] /\ escorts = {}
  /\ turnMap = 0 /\ turns = <<>> /\ nextTurn = 1
  /\ entries = [m \in Messages |-> 0] /\ streaming = FALSE /\ status = "idle"
  /\ sent = {} /\ removed = {} /\ overrun = {} /\ losses = 0 /\ unwoken = FALSE

Offered(what) == what \in story.offers
InQueue(m) == m \in ToSet(queue)
PlaceOf(m) == CHOOSE i \in DOMAIN queue : queue[i] = m
Without(m) == IF InQueue(m) THEN RemoveAt(queue, PlaceOf(m)) ELSE queue

------------------------------------------------------------------------------
(* The composer. *)

Landed(m) == entries[m] > 0
Ours(i, m) == commands[i].msg = m
Live(i) == commands[i].status = "applied" \/ i \notin expired

(* derive_pending's Sending: a Run of ours that is alive and has not landed, on
   a path that is not shown as down. *)
Starting == ~shownDown /\ \E i \in DOMAIN commands :
              /\ commands[i].kind = "run" /\ Live(i) /\ ~Landed(commands[i].msg)
Busy == status = "working" \/ streaming \/ Starting

(* queue_command appends to the ledger, and after_command wakes the host. *)
Issue(kind, m) ==
  /\ Len(commands) < story.commands
  /\ commands' = Append(commands, [kind |-> kind, msg |-> m, status |-> "pending"])
  /\ due' = due + 1

(* send: a Run when idle; while the agent works a Steer or a queue row. *)
Send(m) ==
  /\ m \in story.msgs \ sent
  /\ sent' = sent \cup {m}
  /\ \/ /\ ~Busy /\ Issue("run", m) /\ UNCHANGED queue
     \/ /\ Busy /\ Offered("steer") /\ Issue("steer", m) /\ UNCHANGED queue
     \/ /\ Busy /\ queue' = Append(queue, m) /\ due' = due + 1 /\ UNCHANGED commands
  /\ UNCHANGED <<online, shownDown, expired, processed, rowGate, leases, editors, nextLease,
                 pendingRows, rpcs, task, escorts, turnMap, turns, nextTurn, shown,
                 removed, overrun, losses, unwoken>>

(* enqueue parks a message on the queue whatever the agent does. *)
Enqueue(m) ==
  /\ Offered("enqueue") /\ m \in story.msgs \ sent
  /\ sent' = sent \cup {m}
  /\ queue' = Append(queue, m)
  /\ due' = due + 1
  /\ UNCHANGED <<chat, rowGate, leases, editors, nextLease, pendingRows, rpcs, task,
                 escorts, turnMap, turns, nextTurn, shown, removed, overrun, losses, unwoken>>

Interrupt ==
  /\ Offered("interrupt") /\ (status = "working" \/ streaming)
  /\ \A i \in DOMAIN commands : commands[i].kind # "interrupt"
  /\ Issue("interrupt", NoMsg)
  /\ UNCHANGED <<online, shownDown, expired, processed, rows, task, escorts, turnMap,
                 turns, nextTurn, shown, past>>

(* respond_input: answers the open question. *)
Respond ==
  /\ Offered("respond") /\ status = "awaiting"
  /\ \A i \in DOMAIN commands : commands[i].kind # "respond"
  /\ Issue("respond", NoMsg)
  /\ UNCHANGED <<online, shownDown, expired, processed, rows, task, escorts, turnMap,
                 turns, nextTurn, shown, past>>

(* A pending command outlives its time to live on the composer's clock. *)
Expire(i) ==
  /\ Offered("retry") /\ i \notin expired /\ commands[i].status = "pending"
  /\ expired' = expired \cup {i}
  /\ UNCHANGED <<online, shownDown, commands, processed, rows, host, shown, past>>

(* retry_delivery re-issues the dead attempt of a message that has not landed
   and has no live attempt: a fresh command, the same message id. *)
Retry(m) ==
  /\ ~Landed(m)
  /\ \E i \in DOMAIN commands :
       /\ Ours(i, m) /\ ~Live(i)
       /\ \A j \in DOMAIN commands : Ours(j, m) => ~Live(j)
       /\ Issue(commands[i].kind, m)
  /\ UNCHANGED <<online, shownDown, expired, processed, rows, task, escorts, turnMap,
                 turns, nextTurn, shown, past>>

(* move_queued: not a gated row, nor one with an action in flight. *)
Move(m) ==
  /\ due < story.timers /\ InQueue(m) /\ rowGate[m] = 0 /\ m \notin pendingRows
  /\ \E k \in 1..Len(queue) :
       queue' = InsertAt(Without(m), k, m)
  /\ queue' # queue
  /\ due' = due + 1
  /\ UNCHANGED <<chat, rowGate, leases, editors, nextLease, pendingRows, rpcs, task,
                 escorts, turnMap, turns, nextTurn, shown, past>>

(* host_rpc refuses without a path; else the request runs later. *)
Ask(op, m, lease) ==
  IF online THEN rpcs' = rpcs \cup {[op |-> op, msg |-> m, lease |-> lease]}
            ELSE UNCHANGED rpcs

(* queue_action: send now, steer or remove, one at a time per row. *)
QueueAction(op, m) ==
  /\ Offered(op) /\ InQueue(m) /\ m \notin pendingRows
  /\ op = "send" => rowGate[m] = 0
  /\ online
  /\ Ask(op, m, 0)
  /\ pendingRows' = pendingRows \cup {m}
  /\ UNCHANGED <<chat, queue, rowGate, leases, editors, nextLease, host, shown, past>>

(* begin_queued_edit. *)
BeginEdit(m) ==
  /\ Offered("edit") /\ InQueue(m) /\ m \notin pendingRows /\ online
  /\ nextLease + Cardinality(rpcs) <= story.leases
  /\ Ask("begin", m, 0)
  /\ UNCHANGED <<chat, queue, rowGate, leases, editors, nextLease, pendingRows, host, shown, past>>

(* finish_queued_edit, by a client that was told it holds the row. *)
FinishEdit(m, l, op) ==
  /\ <<m, l>> \in editors /\ online
  /\ Ask(op, m, l)
  /\ editors' = editors \ {<<m, l>>}
  /\ UNCHANGED <<chat, queue, rowGate, leases, nextLease, pendingRows, host, shown, past>>

------------------------------------------------------------------------------
(* The path. *)

LosePath ==
  /\ online /\ losses < story.losses
  /\ online' = FALSE
  /\ losses' = losses + 1
  /\ UNCHANGED <<shownDown, commands, expired, processed, rows, host, shown, sent, removed,
                 overrun, unwoken>>

(* The tick shows the loss only after the degrade grace. *)
ShowDown ==
  /\ ~online /\ ~shownDown
  /\ shownDown' = TRUE
  /\ UNCHANGED <<online, commands, expired, processed, rows, host, shown, past>>

(* set_network_online: only a change of the shown state has the demo host
   drain again (recompute_connectivity, network_recovered). *)
RegainPath ==
  /\ ~online
  /\ online' = TRUE
  /\ shownDown' = FALSE
  /\ due' = IF shownDown THEN due + 1 ELSE due
  /\ unwoken' = (unwoken \/ ~shownDown)
  /\ UNCHANGED <<commands, expired, processed, rows, task, escorts, turnMap, turns,
                 nextTurn, shown, sent, removed, overrun, losses>>

------------------------------------------------------------------------------
(* Turns. *)

(* spawn_turn: the new turn replaces the current one, whose token is cancelled;
   a turn cancelled before it has begun never writes its prompt.  ended is the
   turn whose task makes this call and ends with it, if one does. *)
Waiting(i) == i \in DOMAIN turns /\ turns[i].phase = "wait"
Overrun(i) == IF Waiting(i) THEN {turns[i].msg} \ {NoMsg} ELSE {}
Cancel(i) == [j \in DOMAIN turns |->
                IF j = i THEN [turns[j] EXCEPT !.cancelled = TRUE] ELSE turns[j]]

Spawn(m, ended) ==
  /\ turnMap' = nextTurn
  /\ turns' = [i \in (DOMAIN turns \ ended) \cup {nextTurn} |->
                 IF i = nextTurn THEN [msg |-> m, phase |-> "wait", cancelled |-> FALSE]
                                 ELSE Cancel(turnMap)[i]]
  /\ nextTurn' = nextTurn + 1
  /\ overrun' = overrun \cup Overrun(turnMap)

(* The turn gate is free when no turn is past waiting. *)
GateFree == \A i \in DOMAIN turns : turns[i].phase = "wait"
Goto(i, phase) == turns' = [turns EXCEPT ![i].phase = phase]

(* A turn's task takes the gate and looks at its token. *)
BeginTurn(i) ==
  /\ turns[i].phase = "wait" /\ GateFree
  /\ Goto(i, IF turns[i].cancelled THEN "tail"
             ELSE IF turns[i].msg = NoMsg THEN "work" ELSE "adopt")
  /\ UNCHANGED <<chat, rows, due, task, escorts, turnMap, nextTurn, shown, past>>

Adopted_Always(m) == entries[m] + 1

(* The user entry is pushed under the message id unless the published transcript
   has it.  No other turn of the chat writes between the look and the push: this
   one holds the turn gate.  (The session is open; an evicted one takes its
   document with it, and run_turn then returns.) *)
Adopted(m) == IF Landed(m) THEN entries[m] ELSE entries[m] + 1

AdoptPrompt(i) ==
  /\ turns[i].phase = "adopt"
  /\ entries' = [entries EXCEPT ![turns[i].msg] = Adopted(turns[i].msg)]
  /\ Goto(i, "work")
  /\ UNCHANGED <<chat, rows, due, task, escorts, turnMap, nextTurn, streaming, status, past>>

(* The session row says Working and the assistant's segment opens. *)
WorkTurn(i) ==
  /\ turns[i].phase = "work"
  /\ status' = "working" /\ streaming' = TRUE
  /\ Goto(i, "stream")
  /\ UNCHANGED <<chat, rows, due, task, escorts, turnMap, nextTurn, entries, past>>

(* The reply ends, or its cancelled token is shown: the segment is finished, and
   the turn asks whether it is still the current one. *)
EndReply(i) ==
  /\ turns[i].phase = "stream"
  /\ streaming' = FALSE
  /\ Goto(i, "settle")
  /\ UNCHANGED <<chat, rows, due, task, escorts, turnMap, nextTurn, entries, status, past>>

IsCurrent(i) == turnMap \in {0, i}

CheckCurrent(i) ==
  /\ turns[i].phase = "settle"
  /\ Goto(i, IF IsCurrent(i) THEN "set" ELSE "tail")
  /\ UNCHANGED <<chat, rows, due, task, escorts, turnMap, nextTurn, shown, past>>

(* Idle, or AwaitingInput when the reply was a question. *)
SettleStatus(i) ==
  /\ turns[i].phase = "set"
  /\ status' \in {"idle"} \cup IF Offered("respond") THEN {"awaiting"} ELSE {}
  /\ Goto(i, "tail")
  /\ UNCHANGED <<chat, rows, due, task, escorts, turnMap, nextTurn, entries, streaming, past>>

Drop(i) == turns' = [j \in DOMAIN turns \ {i} |-> turns[j]]

(* The task leaves the map if it is still in it, and drains the queue if
   nothing took its place. *)
TailTurn(i) ==
  /\ turns[i].phase = "tail"
  /\ turnMap' = IF turnMap = i THEN 0 ELSE turnMap
  /\ IF turnMap' = 0 THEN Goto(i, "take") ELSE Drop(i)
  /\ UNCHANGED <<chat, rows, due, task, escorts, nextTurn, shown, past>>

HeadIsFree_Ungated == queue # <<>>

(* take_queue_head: the head row leaves the queue unless it is gated. *)
HeadIsFree == queue # <<>> /\ rowGate[Head(queue)] = 0

AfterTake_GateLast == IF queue # <<>> THEN Tail(queue) ELSE queue

AfterTake == IF HeadIsFree THEN Tail(queue) ELSE queue

TailTakes(i) ==
  /\ turns[i].phase = "take"
  /\ queue' = AfterTake
  /\ IF HeadIsFree
     THEN turns' = [turns EXCEPT ![i].phase = "spawn", ![i].msg = Head(queue)]
     ELSE Drop(i)
  /\ UNCHANGED <<chat, rowGate, leases, editors, nextLease, pendingRows, rpcs, due, task,
                 escorts, turnMap, nextTurn, shown, past>>

TailSpawns(i) ==
  /\ turns[i].phase = "spawn"
  /\ Spawn(turns[i].msg, {i})
  /\ UNCHANGED <<chat, rows, due, task, escorts, shown, sent, removed, losses, unwoken>>

TurnStep(i) ==
  \/ BeginTurn(i) \/ AdoptPrompt(i) \/ WorkTurn(i) \/ EndReply(i) \/ CheckCurrent(i)
  \/ SettleStatus(i) \/ TailTurn(i) \/ TailTakes(i) \/ TailSpawns(i)

------------------------------------------------------------------------------
(* Drains. *)

Do(t, r) == task' = [task EXCEPT ![t] = r]

(* An on_command timer fires: nothing without a path, else read the ledger. *)
DrainStart(t) ==
  /\ due > 0 /\ task[t] = Free
  /\ due' = due - 1
  /\ Do(t, IF online
           THEN [Free EXCEPT !.pc = "commands",
                   !.todo = Only([i \in DOMAIN commands |-> i],
                                 {i \in DOMAIN commands : commands[i].status = "pending"})]
           ELSE Free)
  /\ UNCHANGED <<chat, rows, escorts, turnMap, turns, nextTurn, shown, past>>

(* The processed ledger is claimed before anything is executed; a command some
   other drain has claimed is skipped. *)
Claim(t) ==
  /\ task[t].pc = "commands"
  /\ LET todo == task[t].todo IN
     \/ /\ todo = <<>>
        /\ Do(t, At("check", NoMsg))
        /\ UNCHANGED <<commands, processed>>
     \/ /\ todo # <<>> /\ Head(todo) \in processed
        /\ Do(t, [task[t] EXCEPT !.todo = Tail(todo)])
        /\ UNCHANGED <<commands, processed>>
     \/ /\ todo # <<>> /\ Head(todo) \notin processed
        /\ processed' = processed \cup {Head(todo)}
        /\ commands' = [commands EXCEPT ![Head(todo)].status = "applied"]
        /\ Do(t, [task[t] EXCEPT !.pc = "dispatch"])
  /\ UNCHANGED <<online, shownDown, expired, rows, due, escorts, turnMap, turns, nextTurn,
                 shown, past>>

(* Execute the claimed command: start a turn, hand a Run with attachments to
   its escort, or cancel the current turn. *)
Dispatch(t) ==
  LET c == commands[Head(task[t].todo)] IN
  /\ task[t].pc = "dispatch"
  /\ Do(t, [task[t] EXCEPT !.pc = "commands", !.todo = Tail(task[t].todo)])
  /\ \/ /\ c.kind \in {"run", "steer"} /\ ~(c.kind = "run" /\ c.msg \in story.escorted)
        /\ Spawn(c.msg, {})
        /\ UNCHANGED <<escorts, status>>
     \/ /\ c.kind = "run" /\ c.msg \in story.escorted
        /\ escorts' = escorts \cup {c.msg}
        /\ UNCHANGED <<turnMap, turns, nextTurn, overrun, status>>
     \/ /\ c.kind = "respond"
        /\ Spawn(NoMsg, {})
        /\ UNCHANGED <<escorts, status>>
     \/ /\ c.kind = "interrupt" /\ turnMap # 0
        /\ turnMap' = 0
        /\ turns' = Cancel(turnMap)
        /\ overrun' = overrun \cup Overrun(turnMap)
        /\ UNCHANGED <<escorts, nextTurn, status>>
     \/ /\ c.kind = "interrupt" /\ turnMap = 0
        /\ status' = "idle"
        /\ UNCHANGED <<escorts, turnMap, turns, nextTurn, overrun>>
  /\ UNCHANGED <<chat, rows, due, entries, streaming, sent, removed, losses, unwoken>>

(* The upload is done: the Run starts its turn. *)
EscortDone(m) ==
  /\ m \in escorts
  /\ escorts' = escorts \ {m}
  /\ Spawn(m, {})
  /\ UNCHANGED <<chat, rows, due, task, shown, sent, removed, losses, unwoken>>

(* After its commands a drain looks at the queue if no turn is in the map. *)
CheckQueue(t) ==
  /\ task[t].pc = "check"
  /\ Do(t, IF turnMap = 0 THEN At("take", NoMsg) ELSE Free)
  /\ UNCHANGED <<chat, rows, due, escorts, turnMap, turns, nextTurn, shown, past>>

TakeHead(t) ==
  /\ task[t].pc = "take"
  /\ queue' = AfterTake
  /\ Do(t, IF HeadIsFree THEN At("spawn", Head(queue)) ELSE Free)
  /\ UNCHANGED <<chat, rowGate, leases, editors, nextLease, pendingRows, rpcs, due,
                 escorts, turnMap, turns, nextTurn, shown, past>>

(* The row taken starts its turn; a send-now RPC then answers its caller. *)
SpawnTaken(t) ==
  /\ task[t].pc = "spawn"
  /\ Spawn(task[t].msg, {})
  /\ pendingRows' = pendingRows \ {task[t].msg}
  /\ Do(t, Free)
  /\ UNCHANGED <<chat, queue, rowGate, leases, editors, nextLease, rpcs, due, escorts,
                 shown, sent, removed, losses, unwoken>>

------------------------------------------------------------------------------
(* RPCs on a queue row. *)

(* take_queued: the row, unless it is gone or gated. *)
Takable(m) == InQueue(m) /\ rowGate[m] = 0

(* SEND_QUEUED_MESSAGE_NOW and STEER_QUEUED_MESSAGE_NOW. *)
RpcSend(t, r) ==
  /\ r.op = "send"
  /\ \/ /\ Takable(r.msg)
        /\ queue' = Without(r.msg)
        /\ Do(t, At("spawn", r.msg))
        /\ UNCHANGED pendingRows
     \/ /\ ~Takable(r.msg)
        /\ pendingRows' = pendingRows \ {r.msg}
        /\ Do(t, Free)
        /\ UNCHANGED queue
  /\ UNCHANGED <<rowGate, leases, editors, nextLease, removed>>

(* REMOVE_QUEUED_MESSAGE: whatever gate the row is under. *)
RpcRemove(t, r) ==
  /\ r.op = "remove"
  /\ queue' = Without(r.msg)
  /\ removed' = IF InQueue(r.msg) THEN removed \cup {r.msg} ELSE removed
  /\ rowGate' = [rowGate EXCEPT ![r.msg] = 0]
  /\ pendingRows' = pendingRows \ {r.msg}
  /\ Do(t, Free)
  /\ UNCHANGED <<leases, editors, nextLease>>

Ending == [commit |-> "committing", discard |-> "discarding"]

(* BEGIN_QUEUED_MESSAGE_EDIT: missing, locked, or a lease to be written. *)
RpcBegin(t, r) ==
  /\ r.op = "begin"
  /\ Do(t, IF Takable(r.msg) THEN At("grant", r.msg) ELSE Free)
  /\ UNCHANGED <<queue, rowGate, leases, editors, nextLease, pendingRows, removed>>

(* FINISH_QUEUED_MESSAGE_EDIT: the row is read, and the lease compared.  Only an
   edit's end rewrites a row's text: the host sees a conflict, and keeps the
   lease, only if another edit of the row ended since this lease was begun. *)
RpcFinish(t, r) ==
  /\ r.op \in DOMAIN Ending
  /\ \/ /\ InQueue(r.msg) /\ leases[r.msg] = r.lease
        /\ Do(t, [At(r.op, r.msg) EXCEPT !.lease = r.lease])
     \/ /\ InQueue(r.msg) /\ leases[r.msg] = r.lease => rowGate[r.msg] # r.lease
        /\ Do(t, Free)
  /\ UNCHANGED <<queue, rowGate, leases, editors, nextLease, pendingRows, removed>>

RpcStart(t) ==
  /\ task[t] = Free
  /\ \E r \in rpcs :
       /\ rpcs' = rpcs \ {r}
       /\ RpcSend(t, r) \/ RpcRemove(t, r) \/ RpcBegin(t, r) \/ RpcFinish(t, r)
  /\ UNCHANGED <<chat, due, escorts, turnMap, turns, nextTurn, shown, sent, overrun, losses, unwoken>>

(* The gate is written if the row is still there... *)
GateRow(t) ==
  LET m == task[t].msg IN
  /\ task[t].pc = "grant"
  /\ rowGate' = IF InQueue(m) THEN [rowGate EXCEPT ![m] = nextLease] ELSE rowGate
  /\ nextLease' = nextLease + 1
  /\ Do(t, [At("lease", m) EXCEPT !.lease = nextLease])
  /\ UNCHANGED <<chat, queue, leases, editors, pendingRows, rpcs, due, escorts, turnMap, turns,
                 nextTurn, shown, past>>

(* ... and the lease recorded after it, and the client told, in any case: the
   host's record may be of another lease than the gate when two edits begin at
   a time. *)
GrantLease(t) ==
  LET m == task[t].msg IN
  /\ task[t].pc = "lease"
  /\ leases' = [leases EXCEPT ![m] = task[t].lease]
  /\ editors' = editors \cup {<<m, task[t].lease>>}
  /\ Do(t, Free)
  /\ UNCHANGED <<chat, queue, rowGate, nextLease, pendingRows, rpcs, due, escorts, turnMap,
                 turns, nextTurn, shown, past>>

AfterEdit_Stops == Free

AfterEdit == At("check", NoMsg)

(* The host forgets the lease... *)
DropLease(t) ==
  LET m == task[t].msg IN
  /\ task[t].pc \in DOMAIN Ending
  /\ leases' = [leases EXCEPT ![m] = 0]
  /\ Do(t, At(Ending[task[t].pc], m))
  /\ UNCHANGED <<chat, queue, rowGate, editors, nextLease, pendingRows, rpcs, due, escorts,
                 turnMap, turns, nextTurn, shown, past>>

(* ... and then the gate goes, in the commit that edits or discards the row, if it
   is still there; the queue is looked at again, as after a drain.  To cancel or
   to release an edit is a "commit" here: the row stays and loses its gate. *)
EndEdit(t) ==
  LET m == task[t].msg IN
  /\ task[t].pc \in {"committing", "discarding"}
  /\ rowGate' = [rowGate EXCEPT ![m] = 0]
  /\ IF task[t].pc = "discarding" /\ InQueue(m)
     THEN queue' = Without(m) /\ removed' = removed \cup {m}
     ELSE UNCHANGED <<queue, removed>>
  /\ Do(t, AfterEdit)
  /\ UNCHANGED <<chat, leases, editors, nextLease, pendingRows, rpcs, due, escorts, turnMap, turns,
                 nextTurn, shown, sent, overrun, losses, unwoken>>

TaskStep(t) ==
  \/ DrainStart(t) \/ Claim(t) \/ Dispatch(t) \/ CheckQueue(t) \/ TakeHead(t)
  \/ SpawnTaken(t) \/ RpcStart(t) \/ GateRow(t) \/ GrantLease(t) \/ DropLease(t) \/ EndEdit(t)

HostStep ==
  \/ \E i \in DOMAIN turns : TurnStep(i)
  \/ \E t \in story.tasks : TaskStep(t)
  \/ \E m \in Messages : EscortDone(m)

UserStep ==
  \/ \E m \in Messages :
       \/ Send(m) \/ Enqueue(m) \/ Retry(m) \/ Move(m) \/ BeginEdit(m)
       \/ \E op \in {"send", "remove"} : QueueAction(op, m)
  \/ Interrupt \/ Respond
  \/ \E held \in editors, op \in {"commit", "discard"} : FinishEdit(held[1], held[2], op)
  \/ \E i \in DOMAIN commands : Expire(i)

TurnsNext ==
  /\ UserStep \/ HostStep \/ LosePath \/ ShowDown \/ RegainPath
  /\ UNCHANGED story

TurnRuns   == (\E i \in DOMAIN turns : TurnStep(i)) /\ UNCHANGED story
TaskRuns   == (\E t \in story.tasks : TaskStep(t)) /\ UNCHANGED story
UploadEnds == (\E m \in Messages : EscortDone(m)) /\ UNCHANGED story
PathReturns == RegainPath /\ UNCHANGED story

(* The runtime runs every ready task; which one of two ready ones is its choice. *)
TurnsFair == /\ WF_turnsVars(TurnRuns) /\ WF_turnsVars(TaskRuns)
             /\ WF_turnsVars(UploadEnds) /\ WF_turnsVars(PathReturns)

TurnsSpec == TurnsInit /\ [][TurnsNext]_turnsVars
TurnsFairSpec == TurnsSpec /\ TurnsFair

------------------------------------------------------------------------------
(* A message some task, turn or escort has taken and will still write. *)
Carried(m) ==
  \/ \E t \in Tasks : task[t].pc = "spawn" /\ task[t].msg = m
  \/ \E t \in Tasks : task[t].pc = "dispatch" /\ commands[Head(task[t].todo)].msg = m
  \/ \E i \in DOMAIN turns : /\ turns[i].msg = m
                             /\ \/ turns[i].phase \in {"adopt", "spawn"}
                                \/ turns[i].phase = "wait" /\ ~turns[i].cancelled
  \/ m \in escorts

Pending(m) == \E i \in DOMAIN commands : Ours(i, m) /\ commands[i].status = "pending"

(* A message the user sent is never dropped: from the ledger or the queue to
   the transcript some task, turn, row or command holds it at every moment,
   unless the user removed it or its turn was replaced before it began. *)
NothingDropped ==
  \A m \in sent : \/ Landed(m) \/ InQueue(m) \/ Pending(m) \/ Carried(m)
                  \/ m \in removed \cup overrun

(* A message is written once, however often it is re-issued, and never after
   its removal was confirmed ("the host dedupes the user entry by message id"). *)
LandsOnce == \A m \in Messages :
  /\ entries[m] <= 1
  /\ m \in removed => entries[m] = 0 /\ ~Carried(m)

(* A message the user sent is delivered once: it is held until it lands, and lands
   no second time. *)
DeliveredOnce == NothingDropped /\ LandsOnce

(* A row an editor holds leaves the queue only by that edit or by a removal. *)
GateHolds == [][\A m \in Messages :
  InQueue(m) /\ rowGate[m] # 0 /\ m \notin ToSet(queue') => m \in removed']_turnsVars

(* Every message ends in the transcript, removed, or overrun, unless an edit
   nobody finishes holds the queue or a short loss of the path went unseen. *)
Settled == <>[](\A m \in sent :
  \/ Landed(m) \/ m \in removed \cup overrun
  \/ unwoken \/ \E r \in ToSet(queue) : rowGate[r] # 0)
==============================================================================

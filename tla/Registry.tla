------------------------------ MODULE Registry ------------------------------
(***************************************************************************)
(* The workspace registry: this device's replica (crates/doc/registry.rs), *)
(* its client over a WebSocket and over HTTPS (crates/sync/registry.rs),   *)
(* the debounced saver (crates/client/live) and the registry room it talks *)
(* to, which the code describes by its mock server.  A second device       *)
(* writes to the same room.                                                *)
(*                                                                         *)
(* A session's frames are two FIFO channels; a drop loses both.  Probes    *)
(* and redials end a session the way a drop does.  Presence, statistics    *)
(* and the events other than "applied" are left out.                       *)
(***************************************************************************)
EXTENDS RegistryRows, Filters, SequencesExt, FiniteSetsExt

CONSTANTS
  Limits   \* the instances: how often each write and fault may happen

ASSUME LimitsAssumption ==
  /\ IsFiniteSet(RowIds)
  /\ Limits \subseteq
       [own : Nat, peer : Nat, drops : Nat, kills : Nat, wipes : Nat, gcs : Nat, lost : Nat,
        fails : Nat, saves : Nat, peerWall : Nat, cap : Nat \ {0}, https : BOOLEAN,
        kinds : SUBSET {"upsert", "update", "delete", "deleteAll", "sidebar"},
        peerKinds : SUBSET {"upsert", "update", "delete"}, rows : SUBSET RowIds]

VARIABLES
  lim,    \* the instance being run: what is left of each bounded event
  room,   \* the registry room: rows, sequence number, collection floor
  doc,    \* RegistryDoc
  wall,   \* this device's wall clock, in milliseconds
  disk,   \* the saved snapshot and registry_dirty
  net,    \* the actor's session; ready: the room has answered its hello
  c2s,    \* frames from the client to the room
  s2c,    \* frames from the room to the client
  nudge,  \* the one-slot nudge channel
  http,   \* the HTTPS task (spawn_offline_sync), single flight
  peer,   \* the other device's clock
  past    \* history: see NoPast

vars == <<lim, room, doc, wall, disk, net, c2s, s2c, nudge, http, peer, past>>

Me   == 1
Peer == 2

NoRows  == [r \in RowIds |-> AbsentRow]
NewDoc  == [auth |-> NoRows, pending |-> <<>>, cursor |-> 0, clock |-> <<0, 0>>, fresh |-> TRUE]
IdleHttp == [phase |-> "idle", batches |-> <<>>, since |-> 0, answer |-> <<>>]
NoPast  == [issued    |-> {},     \* batches ever queued here
            order     |-> <<>>,   \* own batches in the order they first reached the room
            lostWrite |-> {},     \* batches a kill took before they were saved
            wiped     |-> FALSE,
            missed    |-> FALSE,  \* a broadcast was lost since the last hello's answer
            regress   |-> FALSE,  \* a late answer or frame put an older row over a newer
            unmarked  |-> FALSE,  \* an HTTPS push failed while a session was live
            mixed     |-> FALSE,  \* both transports carried batches at a time
            last      |-> NoStamp,  \* the newest stamp issued
            back      |-> FALSE,  \* a stamp was issued that is not newer
            observed  |-> FALSE]  \* the clock was taken ahead by a row it saw

Spawn(h) == IF lim.https /\ h.phase = "idle" THEN [IdleHttp EXCEPT !.phase = "start"] ELSE h

Init ==
  /\ lim \in Limits
  /\ room = [rows |-> NoRows, seq |-> 0, floor |-> 0]
  /\ doc = NewDoc /\ wall = 1
  /\ disk = [saved |-> NewDoc, dirty |-> FALSE]
  /\ net = [phase |-> "down", ready |-> FALSE]
  /\ c2s = <<>> /\ s2c = <<>> /\ nudge = FALSE
  /\ http = Spawn(IdleHttp)
  /\ peer = <<0, 0>>
  /\ past = NoPast

Spend(what) == lim[what] > 0 /\ lim' = [lim EXCEPT ![what] = @ - 1]

-----------------------------------------------------------------------------
(* RegistryDoc.                                                            *)

Put(auth, rows) == [r \in RowIds |-> IF r \in DOMAIN rows THEN rows[r] ELSE auth[r]]

(* overlay_row before its final filter: server truth and pending ops.      *)
OpsOn(pending, r) ==
  SelectSeq(FoldLeft(LAMBDA all, b : all \o b.ops, <<>>, pending), LAMBDA op : op.row = r)
Overlay(d, r) == FoldLeft(ApplyOp, d.auth[r], OpsOn(d.pending, r))
Live(d, r)    == Overlay(d, r).state = "live"

(* enqueue_ops: a batch per `cap` operations, each named by a fresh stamp. *)
Chunk(ops, k) ==
  SubSeq(ops, (k - 1) * lim.cap + 1,
         IF k * lim.cap < Len(ops) THEN k * lim.cap ELSE Len(ops))

Batched(d, ops) ==
  LET c == Tick(d.clock, wall)
  IN  [d EXCEPT !.clock = c, !.fresh = FALSE,
                !.pending = Append(d.pending, [id |-> StampOf(c, Me), ops |-> ops,
                                               flying |-> FALSE])]

Enqueue(d, ops) ==
  LET n == (Len(ops) + lim.cap - 1) \div lim.cap
      after[k \in 0..n] == IF k = 0 THEN d ELSE Batched(after[k - 1], Chunk(ops, k))
  IN  after[n]

Seeds(d, rs) == SetToSeq({SeedOp(r, d.auth[r]) : r \in rs})
Held(d)      == {r \in RowIds : d.auth[r].state # "absent"}

(* Mutants: a cursor kept as "the next expected"; a full state that        *)
(* replaces the rows and seeds nothing.                                    *)
ApplyState_NoSeed(d, a) ==
  [d EXCEPT !.auth = Put(IF a.full THEN NoRows ELSE @, a.rows), !.cursor = a.seq,
            !.fresh = FALSE]

(* apply_state, with its three outcomes.                                   *)
ApplyState(d, a) ==
  LET adopt(rows, seeds) == Enqueue([d EXCEPT !.auth = rows, !.cursor = a.seq, !.fresh = FALSE],
                                    Seeds(d, seeds))
  IN  IF ~a.full THEN adopt(Put(d.auth, a.rows), {})
      ELSE IF a.seq < d.cursor THEN adopt(Put(d.auth, a.rows), Held(d))
      ELSE adopt(Put(NoRows, a.rows), Held(d) \ DOMAIN a.rows)

(* Frames between the cursor and this one were missed.                     *)
IsGap(d, f) == f.seq > d.cursor + 1

(* Mutant: a broadcast always moves the cursor (the field incident).       *)
ApplyRows_Jump(d, f) ==
  [d EXCEPT !.auth = Put(@, f.rows), !.fresh = FALSE,
            !.cursor = IF f.seq > @ THEN f.seq ELSE @]

(* apply_rows: across a gap the rows are kept and the cursor holds.        *)
ApplyRows(d, f) ==
  [d EXCEPT !.auth = Put(@, f.rows), !.fresh = FALSE,
            !.cursor = IF f.seq = @ + 1 THEN f.seq ELSE @]

(* Mutant: an ack retires the oldest batch, whichever it names.            *)
AckBatch_Oldest(d, id) == [d EXCEPT !.pending = IF @ = <<>> THEN @ ELSE Tail(@)]

(* ack_batch: the cursor stays, whatever sequence number the ack names.    *)
AckBatch(d, id) ==
  [d EXCEPT !.pending = Only(d.pending, {b \in Range(d.pending) : b.id # id}),
            !.fresh = @ /\ \A b \in Range(d.pending) : b.id # id]

(* Mutants: the newest batch first; a disconnect leaves batches in flight. *)
Pushable_NewestFirst(d) == Reverse(SelectSeq(d.pending, LAMBDA b : ~b.flying))
Marked_Sticky(d, flag) ==
  IF flag
  THEN [d EXCEPT !.pending = [i \in DOMAIN d.pending |-> [d.pending[i] EXCEPT !.flying = TRUE]]]
  ELSE d

(* take_pushable and mark_disconnected.                                    *)
Pushable(d) == Only(d.pending, {b \in Range(d.pending) : ~b.flying})
Marked(d, flag) ==
  [d EXCEPT !.pending = [i \in DOMAIN d.pending |-> [d.pending[i] EXCEPT !.flying = flag]]]

-----------------------------------------------------------------------------
(* The room: a hello's answer, and a pushed batch.                         *)

(* Mutant: a delta that starts one too late.                               *)
Answer_Late(cursor, anew) ==
  LET full == anew \/ cursor < room.floor \/ cursor > room.seq
      sent == {r \in RowIds : /\ room.rows[r].state # "absent"
                              /\ full \/ room.rows[r].seq > cursor + 1}
  IN  [k |-> "state", seq |-> room.seq, full |-> full,
       rows |-> [r \in sent |-> room.rows[r]]]

Answer(cursor, anew) ==
  LET full == anew \/ cursor < room.floor \/ cursor > room.seq
      sent == {r \in RowIds : /\ room.rows[r].state # "absent"
                              /\ full \/ room.rows[r].seq > cursor}
  IN  [k |-> "state", seq |-> room.seq, full |-> full,
       rows |-> [r \in sent |-> room.rows[r]]]

(* One operation of a batch: the row it changes takes the batch's number.  *)
MergeOne(rows, seq, op) ==
  IF Changes(rows[op.row], op)
  THEN [rows EXCEPT ![op.row] = [ApplyOp(rows[op.row], op) EXCEPT !.seq = seq]]
  ELSE rows

MergeInto(rows, seq, ops) ==
  LET after[i \in 0..Len(ops)] ==
        IF i = 0 THEN rows ELSE MergeOne(after[i - 1], seq, ops[i])
  IN  after[Len(ops)]

(* The room takes a batch; frames are what its subscribers are sent.       *)
Take(ops) ==
  LET rows    == MergeInto(room.rows, room.seq + 1, ops)
      touched == {r \in RowIds : rows[r] # room.rows[r]}
  IN  [room   |-> IF touched = {} THEN room
                  ELSE [room EXCEPT !.rows = rows, !.seq = @ + 1],
       frames |-> IF touched = {} THEN <<>>
                  ELSE <<[k |-> "rows", seq |-> room.seq + 1, rows |-> [r \in touched |-> rows[r]]]>>]

Landed(p, id) == IF id \in Range(p.order) THEN p ELSE [p EXCEPT !.order = Append(@, id)]

ServeHello ==
  /\ c2s # <<>> /\ Head(c2s).k = "hello"
  /\ c2s' = Tail(c2s)
  /\ s2c' = Append(s2c, Answer(Head(c2s).cursor, Head(c2s).anew))
  /\ net' = [net EXCEPT !.ready = TRUE]
  /\ past' = [past EXCEPT !.missed = FALSE]
  /\ UNCHANGED <<lim, room, doc, wall, disk, nudge, http, peer>>

(* Mutant: the ack leaves before the rows.                                 *)
ServePush_AckFirst ==
  /\ c2s # <<>> /\ Head(c2s).k = "push"
  /\ LET t == Take(Head(c2s).ops)
     IN  /\ room' = t.room
         /\ s2c' = s2c \o <<[k |-> "ack", id |-> Head(c2s).id]>> \o t.frames
  /\ c2s' = Tail(c2s)
  /\ past' = Landed(past, Head(c2s).id)
  /\ UNCHANGED <<lim, doc, wall, disk, net, nudge, http, peer>>

(* Rows to every subscriber, this socket included, then the ack.           *)
ServePush ==
  /\ c2s # <<>> /\ Head(c2s).k = "push"
  /\ LET t == Take(Head(c2s).ops)
     IN  /\ room' = t.room
         /\ s2c' = s2c \o t.frames \o <<[k |-> "ack", id |-> Head(c2s).id]>>
  /\ c2s' = Tail(c2s)
  /\ past' = Landed(past, Head(c2s).id)
  /\ UNCHANGED <<lim, doc, wall, disk, net, nudge, http, peer>>

(* Another device writes; its broadcast may not reach this socket.         *)
PeerWrite ==
  /\ Spend("peer")
  /\ \E kind \in lim.peerKinds, r \in lim.rows, null \in SUBSET Fields :
       LET c  == Tick(peer, lim.peerWall)
           op == IF kind = "delete" THEN DeleteOp(r, StampOf(c, Peer))
                 ELSE WriteOp(kind, r, Fields, null, StampOf(c, Peer))
           t  == Take(<<op>>)
       IN  /\ null # {} => kind = "update"
           /\ t.frames # <<>>
           /\ peer' = c
           /\ room' = t.room
           /\ s2c' = IF net.ready THEN s2c \o t.frames ELSE s2c
  /\ UNCHANGED <<doc, wall, disk, net, c2s, nudge, http, past>>

LoseBroadcast ==
  /\ Spend("lost")
  /\ s2c # <<>> /\ Last(s2c).k = "rows"
  /\ s2c' = Front(s2c)
  /\ past' = [past EXCEPT !.missed = TRUE]
  /\ UNCHANGED <<room, doc, wall, disk, net, c2s, nudge, http, peer>>

(* An operator's reset, and the collection of old tombstones.              *)
Wipe ==
  /\ Spend("wipes")
  /\ room' = [rows |-> NoRows, seq |-> 0, floor |-> 0]
  /\ past' = [past EXCEPT !.wiped = TRUE]
  /\ UNCHANGED <<doc, wall, disk, net, c2s, s2c, nudge, http, peer>>

Collect ==
  /\ Spend("gcs")
  /\ room.floor < room.seq
  /\ room' = [room EXCEPT !.floor = room.seq,
                          !.rows = [r \in RowIds |-> IF room.rows[r].state = "dead"
                                                     THEN AbsentRow ELSE room.rows[r]]]
  /\ UNCHANGED <<doc, wall, disk, net, c2s, s2c, nudge, http, peer, past>>

-----------------------------------------------------------------------------
(* Local writes: the typed writers of RegistryDoc, through registry_write. *)

(* What the history keeps of new batches: a write stamps its operations,   *)
(* then its batch; a re-seed only its batches.                             *)
Issue(d) ==
  LET new == SubSeq(d.pending, Len(doc.pending) + 1, Len(d.pending))
      own(b) == IF b.ops[1].hlc[3] = Me /\ Newer(b.ops[1].hlc, StampOf(doc.clock, Me))
                THEN b.ops[1].hlc ELSE b.id
  IN  IF new = <<>> THEN past
      ELSE [past EXCEPT !.issued = @ \cup {b.id : b \in Range(new)},
                        !.last = Last(new).id,
                        !.back = @ \/ ~Newer(own(new[1]), past.last)]

(* registry_written: nudge the client, and have the snapshot saved.        *)
Written(d) ==
  /\ doc' = d
  /\ past' = Issue(d)
  /\ nudge' = TRUE
  /\ disk' = [disk EXCEPT !.dirty = TRUE]
  /\ UNCHANGED <<room, wall, net, c2s, s2c, http, peer>>

Stamped(d) == [d EXCEPT !.clock = Tick(@, wall)]
Write(d, kind, r, null) ==
  LET s == Stamped(d)
  IN  Enqueue(s, <<WriteOp(kind, r, Fields, null, StampOf(s.clock, Me))>>)

(* upsert_device, upsert_space, upsert_chat, claim_chat, upsert_session.   *)
UpsertRow ==
  /\ "upsert" \in lim.kinds /\ Spend("own")
  /\ \E r \in lim.rows : Written(Write(doc, "upsert", r, {}))

(* rename_*, set_*: only a row this device can see.                        *)
UpdateRow ==
  /\ "update" \in lim.kinds /\ Spend("own")
  /\ \E r \in lim.rows : Live(doc, r) /\ Written(Write(doc, "update", r, {}))

(* A null write clears the field (rename_space to nothing).                *)
ClearField ==
  /\ "update" \in lim.kinds /\ Spend("own")
  /\ \E r \in lim.rows : Live(doc, r) /\ Written(Write(doc, "update", r, Fields))

(* delete_chat, delete_space: one stamp for every row of the batch.        *)
DeleteRows ==
  /\ Spend("own")
  /\ \E rs \in SUBSET lim.rows \ {{}} :
       LET s == Stamped(doc)
       IN  /\ IF Cardinality(rs) = 1 THEN "delete" \in lim.kinds ELSE "deleteAll" \in lim.kinds
           /\ Written(Enqueue(s, SetToSeq({DeleteOp(r, StampOf(s.clock, Me)) : r \in rs})))

(* The sidebar's writers first let the clock catch up with the row.        *)
SidebarWrite ==
  /\ "sidebar" \in lim.kinds /\ Spend("own")
  /\ \E r \in lim.rows :
       LET seen == IF Live(doc, r) THEN Observe(doc.clock, MaxClock(Overlay(doc, r))) ELSE doc.clock
           d    == Write([doc EXCEPT !.clock = seen], "upsert", r, {})
       IN  /\ doc' = d /\ nudge' = TRUE
           /\ disk' = [disk EXCEPT !.dirty = TRUE]
           /\ past' = [Issue(d) EXCEPT !.observed = @ \/ seen # doc.clock]
  /\ UNCHANGED <<room, wall, net, c2s, s2c, http, peer>>

-----------------------------------------------------------------------------
(* The actor's session.                                                    *)

Pushes(d) == [i \in DOMAIN Pushable(d) |-> [k |-> "push", id |-> Pushable(d)[i].id,
                                            ops |-> Pushable(d)[i].ops]]

(* push_pending, on the document d: every batch not in flight.             *)
PushPending(d) ==
  /\ doc' = Marked(d, TRUE)
  /\ c2s' = c2s \o Pushes(d)

HttpCarries == http.phase \in {"post", "ack"} /\ http.batches # <<>>
PutsBack(rows) == \E r \in DOMAIN rows : rows[r].seq < doc.auth[r].seq
Mixing(p, d) == [p EXCEPT !.mixed = @ \/ (HttpCarries /\ Pushable(d) # <<>>)]

Dial ==
  /\ net.phase = "down"
  /\ net' = [phase |-> "hello", ready |-> FALSE]
  /\ c2s' = <<[k |-> "hello", cursor |-> doc.cursor,
               anew |-> doc.cursor = 0 /\ doc.pending = <<>> /\ doc.fresh]>>
  /\ UNCHANGED <<lim, room, doc, wall, disk, s2c, nudge, http, peer, past>>

DialFail ==
  /\ net.phase = "down" /\ Spend("fails")
  /\ http' = Spawn(http)
  /\ UNCHANGED <<room, doc, wall, disk, net, c2s, s2c, nudge, peer, past>>

(* The room sends nothing before its answer.                               *)
SessState ==
  /\ net.phase = "hello" /\ s2c # <<>> /\ Head(s2c).k = "state"
  /\ LET d == ApplyState(doc, Head(s2c)) IN doc' = d /\ past' = Issue(d)
  /\ net' = [net EXCEPT !.phase = "joined"]
  /\ s2c' = Tail(s2c)
  /\ disk' = [disk EXCEPT !.dirty = TRUE]
  /\ UNCHANGED <<lim, room, wall, c2s, nudge, http, peer>>

(* What is pending when the answer has been applied is pushed before a frame is
   read: what was written, or marked by the HTTPS task, since then included. *)
SessJoined ==
  /\ net.phase = "joined"
  /\ PushPending(doc)
  /\ past' = Mixing(past, doc)
  /\ net' = [net EXCEPT !.phase = "live"]
  /\ UNCHANGED <<lim, room, wall, disk, s2c, nudge, http, peer>>

SessNudge ==
  /\ net.phase = "live" /\ nudge
  /\ nudge' = FALSE
  /\ PushPending(doc)
  /\ past' = Mixing(past, doc)
  /\ UNCHANGED <<lim, room, wall, disk, net, s2c, http, peer>>

Disconnected ==    \* the session is over: sync over HTTPS, then redial
  /\ net' = [phase |-> "down", ready |-> FALSE]
  /\ c2s' = <<>> /\ s2c' = <<>>
  /\ http' = Spawn(http)

SessRows ==
  /\ net.phase = "live" /\ s2c # <<>> /\ Head(s2c).k = "rows"
  /\ LET f == Head(s2c)
         d == ApplyRows(doc, f)
     IN  /\ past' = [past EXCEPT !.regress = @ \/ PutsBack(f.rows)]
         /\ IF IsGap(doc, f)
            THEN doc' = Marked(d, FALSE) /\ Disconnected
            ELSE doc' = d /\ s2c' = Tail(s2c) /\ UNCHANGED <<net, c2s, http>>
  /\ disk' = [disk EXCEPT !.dirty = TRUE]
  /\ UNCHANGED <<lim, room, wall, nudge, peer>>

SessAck ==
  /\ net.phase = "live" /\ s2c # <<>> /\ Head(s2c).k = "ack"
  /\ doc' = AckBatch(doc, Head(s2c).id)
  /\ s2c' = Tail(s2c)
  /\ disk' = [disk EXCEPT !.dirty = TRUE]
  /\ UNCHANGED <<lim, room, wall, net, c2s, nudge, http, peer, past>>

Drop ==
  /\ net.phase # "down" /\ Spend("drops")
  /\ doc' = Marked(doc, FALSE)
  /\ Disconnected
  /\ UNCHANGED <<room, wall, disk, nudge, peer, past>>

-----------------------------------------------------------------------------
(* The HTTPS task.                                                         *)

HttpTake ==
  /\ http.phase = "start"
  /\ http' = [http EXCEPT !.phase = "post", !.batches = Pushable(doc)]
  /\ doc' = Marked(doc, TRUE)
  /\ past' = [past EXCEPT !.mixed = @ \/ (Pushable(doc) # <<>> /\
                \E i \in DOMAIN doc.pending : doc.pending[i].flying)]
  /\ UNCHANGED <<lim, room, wall, disk, net, c2s, s2c, nudge, peer>>

HttpPost ==
  /\ http.phase = "post" /\ http.batches # <<>>
  /\ LET t == Take(Head(http.batches).ops)
     IN  /\ room' = t.room
         /\ s2c' = IF net.ready THEN s2c \o t.frames ELSE s2c
  /\ past' = Landed(past, Head(http.batches).id)
  /\ http' = [http EXCEPT !.phase = "ack"]
  /\ UNCHANGED <<lim, doc, wall, disk, net, c2s, nudge, peer>>

HttpAck ==
  /\ http.phase = "ack"
  /\ doc' = AckBatch(doc, Head(http.batches).id)
  /\ http' = [http EXCEPT !.phase = "post", !.batches = Tail(@)]
  /\ disk' = [disk EXCEPT !.dirty = TRUE]
  /\ UNCHANGED <<lim, room, wall, net, c2s, s2c, nudge, peer, past>>

(* A push fails, or its answer is lost or unreadable: un-mark everything,  *)
(* and go on to the pull.                                                  *)
HttpPostFail ==
  /\ http.phase \in {"post", "ack"} /\ http.batches # <<>> /\ Spend("fails")
  /\ doc' = Marked(doc, FALSE)
  /\ http' = [http EXCEPT !.phase = "post", !.batches = <<>>]
  /\ past' = [past EXCEPT !.unmarked = @ \/ net.phase = "live"]
  /\ UNCHANGED <<room, wall, disk, net, c2s, s2c, nudge, peer>>

HttpPull ==
  /\ http.phase = "post" /\ http.batches = <<>>
  /\ http' = [http EXCEPT !.phase = "pull", !.since = doc.cursor]
  /\ UNCHANGED <<lim, room, doc, wall, disk, net, c2s, s2c, nudge, peer, past>>

HttpServe ==
  /\ http.phase = "pull"
  /\ http' = [http EXCEPT !.phase = "answer", !.answer = Answer(http.since, FALSE)]
  /\ UNCHANGED <<lim, room, doc, wall, disk, net, c2s, s2c, nudge, peer, past>>

HttpApply ==
  /\ http.phase = "answer"
  /\ LET d == ApplyState(doc, http.answer)
     IN  /\ doc' = d
         /\ past' = [Issue(d) EXCEPT !.regress = @ \/ PutsBack(http.answer.rows)]
  /\ http' = IdleHttp
  /\ disk' = [disk EXCEPT !.dirty = TRUE]
  /\ UNCHANGED <<lim, room, wall, net, c2s, s2c, nudge, peer>>

HttpFail ==
  /\ http.phase \in {"pull", "answer"} /\ Spend("fails")
  /\ http' = IdleHttp
  /\ UNCHANGED <<room, doc, wall, disk, net, c2s, s2c, nudge, peer, past>>

-----------------------------------------------------------------------------
(* The saver: one second after a change; a failed save is not tried again  *)
(* until the next change (the flag was swapped first).                     *)

Save ==
  /\ disk.dirty /\ Spend("saves")
  /\ disk' = [saved |-> doc, dirty |-> FALSE]
  /\ UNCHANGED <<room, doc, wall, net, c2s, s2c, nudge, http, peer, past>>

SaveFail ==
  /\ disk.dirty /\ Spend("fails")
  /\ disk' = [disk EXCEPT !.dirty = FALSE]
  /\ UNCHANGED <<room, doc, wall, net, c2s, s2c, nudge, http, peer, past>>

(* The process is killed and started again, some time later.               *)
Kill ==
  /\ Spend("kills")
  /\ doc' = [Marked(disk.saved, FALSE) EXCEPT !.fresh = TRUE]
  /\ disk' = [disk EXCEPT !.dirty = FALSE]
  /\ wall' = wall + 1
  /\ net' = [phase |-> "down", ready |-> FALSE]
  /\ c2s' = <<>> /\ s2c' = <<>> /\ nudge' = FALSE
  /\ http' = Spawn(IdleHttp)
  /\ past' = [past EXCEPT !.lostWrite =
                @ \cup ({b.id : b \in Range(doc.pending)}
                          \ {b.id : b \in Range(disk.saved.pending)})]
  /\ UNCHANGED <<room, peer>>

Next ==
  \/ ServeHello \/ ServePush \/ PeerWrite \/ LoseBroadcast \/ Wipe \/ Collect
  \/ UpsertRow \/ UpdateRow \/ ClearField \/ DeleteRows \/ SidebarWrite
  \/ Dial \/ DialFail \/ SessState \/ SessJoined \/ SessNudge \/ SessRows \/ SessAck \/ Drop
  \/ HttpTake \/ HttpPost \/ HttpAck \/ HttpPostFail \/ HttpPull \/ HttpServe
  \/ HttpApply \/ HttpFail
  \/ Save \/ SaveFail \/ Kill

Spec == Init /\ [][Next]_vars

(* The room answers, and a running process dials, reads its socket and its *)
(* nudges, and finishes what it sent over HTTPS.                           *)
Fairness ==
  /\ WF_vars(ServeHello) /\ WF_vars(ServePush)
  /\ WF_vars(Dial) /\ WF_vars(SessState) /\ WF_vars(SessJoined) /\ WF_vars(SessNudge)
  /\ WF_vars(SessRows) /\ WF_vars(SessAck)
  /\ WF_vars(HttpTake) /\ WF_vars(HttpPost) /\ WF_vars(HttpAck) /\ WF_vars(HttpPull)
  /\ WF_vars(HttpServe) /\ WF_vars(HttpApply)

FairSpec == Spec /\ Fairness
-----------------------------------------------------------------------------
(* "The last server seq this replica has fully applied": what the room     *)
(* holds at or below the cursor is what the replica holds.                 *)
Applied(d) == \A r \in RowIds :
  (room.rows[r].state # "absent" /\ room.rows[r].seq <= d.cursor) => d.auth[r] = room.rows[r]

(* cursor(): in a session that has nothing left to say.                    *)
CursorApplied ==
  (net.phase = "live" /\ c2s = <<>> /\ s2c = <<>> /\ http.phase = "idle") => Applied(doc)

(* The same at every moment, of the replica in memory and of the one on    *)
(* disk, so long as no late frame put an older row over a newer one and    *)
(* the room was not wiped (its numbers restart).                           *)
CursorHonest == past.wiped \/ past.regress \/ (Applied(doc) /\ Applied(disk.saved))

(* ack_batch, mark_disconnected, to_bytes: a batch leaves the queue only   *)
(* once it reached the room, or with an unsaved process.                   *)
NothingLost ==
  past.issued \subseteq Range(past.order) \cup past.lostWrite
                        \cup {b.id : b \in Range(doc.pending)}

(* Batches reach the room in the order they were made, unless the two      *)
(* transports carry batches at the same time.                              *)
InOrder ==
  past.mixed \/ past.back \/ \A i, j \in DOMAIN past.order :
                  i < j => ~Newer(past.order[i], past.order[j])

(* HlcClock: every stamp is newer than those before it, in one process and *)
(* across a restart, unless a restart forgot a clock taken ahead of the    *)
(* wall by a row it had seen.                                              *)
StampsFresh == past.back => past.observed /\ wall > 1

(* Batches keep the order they were made in: in their stamps and in the room.*)
OrderKept == InOrder /\ StampsFresh

(* An ack over the socket changes nothing the user sees: the rows it       *)
(* speaks of came first.                                                   *)
AckKeepsView ==
  [][SessAck => past.missed \/ past.regress \/ past.mixed \/ past.wiped
                \/ \A r \in RowIds : [Overlay(doc', r) EXCEPT !.seq = 0]
                                       = [Overlay(doc, r) EXCEPT !.seq = 0]]_vars

(* No answer or frame of the room takes a row from the user's sight but by *)
(* a tombstone: not the full state of a wiped room that lacks it, nor one  *)
(* after a collection.  (For the ack of an own batch, see AckKeepsView.)   *)
RowsSurvive ==
  [][\A r \in RowIds : (Live(doc, r) /\ ~Live(doc', r)) =>
       \/ doc'.auth[r].state = "dead"
       \/ DeleteRows \/ SessAck \/ HttpAck \/ Kill]_vars

(* Nothing the room says takes from the user what nobody deleted.          *)
ViewKept == AckKeepsView /\ RowsSurvive

(* Every write reaches the room or dies with its process, unless an HTTPS  *)
(* push that failed under a live session un-marked it with nobody to push. *)
Pushed == (doc.pending # <<>>) ~> (doc.pending = <<>> \/ past.unmarked)

(* Replica and room agree in the end on every row either of them shows,    *)
(* unless the last broadcast was lost with nothing after it, or a late     *)
(* answer put an older row over a newer one.                               *)
Agree == \A r \in RowIds : "live" \in {doc.auth[r].state, room.rows[r].state}
                             => doc.auth[r] = room.rows[r]
Converges == <>[](Agree \/ past.missed \/ past.regress \/ past.wiped)

=============================================================================

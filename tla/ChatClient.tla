----------------------------- MODULE ChatClient -----------------------------
(***************************************************************************)
(* One device's chat2 room client: crates/sync/src/chat_client.rs, the     *)
(* viewer sink and snapshot writer of crates/client/src/live/room.rs, the  *)
(* outbox of crates/sync/src/store.rs, and the room service they talk to.  *)
(*                                                                         *)
(* Two tasks share the state behind one mutex: the socket session and the  *)
(* HTTPS cycle.  Each block of code that runs under the mutex is one step; *)
(* a row is applied in two (the cursor is computed under the lock, the     *)
(* import and the commit follow), so the tasks interleave inside it.       *)
(*                                                                         *)
(* Simplifications.  Time is not modelled: a deadline may fire whenever    *)
(* its wait is pending, as a lost connection (Drop).  The generation and   *)
(* epoch counters of Shared are only ever compared with a value captured   *)
(* earlier, so each capture is a flag "unchanged since", cleared by a      *)
(* bump.  Replay flags (animation), presence, probes' frames and the cached*)
(* server view (statistics) are left out.  Frames that arrive during a     *)
(* checkpoint fetch stay in s2c, up to a mark.  The frames of a lost       *)
(* socket are lost; one that the room had read was handled before.  The    *)
(* loop of push_pending over its clone is one step, and pending batches    *)
(* are kept as a set served in the order of issue.                         *)
(***************************************************************************)
EXTENDS ChatRoom

CONSTANTS
  HttpOn,       \* the HTTPS route to the edge is reachable
  Seeded,       \* the room starts from a seed checkpoint at sequence 0
  Kinds,        \* causal shapes of remote rows: "free", "chained", "orphan"
  MaxRepairs,   \* MAX_GAP_REPAIRS_PER_SESSION
  MaxRefresh,   \* bound: wake receipts (request_catch_up)
  MaxHints,     \* bound: redial and probe hints
  MaxDrops,     \* bound: lost connections and failed requests
  MaxCrashes,   \* bound: process kills
  MaxDisk,      \* bound: failed outbox writes
  MaxQuota,     \* bound: quota rejections
  MaxCkpts,     \* bound: checkpoints the host posts
  MaxFlushes,   \* bound: snapshot writes
  MaxWipes      \* bound: room resets

ASSUME ClientAssumption ==
  /\ {HttpOn, Seeded} \subseteq BOOLEAN
  /\ Kinds \subseteq {"free", "chained", "orphan"}
  /\ {MaxRepairs, MaxRefresh, MaxHints, MaxDrops, MaxCrashes, MaxDisk,
      MaxQuota, MaxCkpts, MaxFlushes, MaxWipes} \subseteq Nat

VARIABLES
  srv,     \* the room: row log, checkpoint, quota window, rows ever written
  needs,   \* causal past of every item
  c2s,     \* socket, client to room
  s2c,     \* socket, room to client
  shared,  \* struct Shared, and the amnesty flag beside it
  sess,    \* the socket task (Actor::run and run_session)
  tok,     \* the one-slot nudge, probe and redial channels
  http,    \* the HTTPS task (spawn_offline_sync)
  sink,    \* document, snapshot writer, and what is on disk
  issued,  \* number of own batches made so far
  env,     \* how often each bounded fault has happened
  asked    \* history: the rows in the room when each wake was received

vars == <<srv, needs, c2s, s2c, shared, sess, tok, http, sink, issued, env, asked>>

NoRow == [id |-> Base, seq |-> 0, cur |-> 0]
Rows(log) == {log[s] : s \in DOMAIN log}
StateOf(room) == [k |-> "STATE", head |-> Len(room.log), on |-> room.on,
                  seq |-> room.ckpt, ids |-> room.ids]
NoState == [k |-> "STATE", head |-> 0, on |-> FALSE, seq |-> 0, ids |-> {}]
NoPlan  == [fetch |-> FALSE, after |-> 0]
NoAck   == [id |-> 0, seq |-> 0]

-----------------------------------------------------------------------------
(* Initial state: a fresh install, or what a process finds after a kill.   *)

NewShared(cursor, pending) ==
  [cursor |-> cursor, caughtUp |-> FALSE, refReq |-> 0, refDone |-> 0,
   pending |-> pending, unsaved |-> {}, quotaBlocked |-> FALSE,
   retryArmed |-> FALSE, gap |-> FALSE, rowsReqOut |-> FALSE,
   needsCkpt |-> FALSE, httpLive |-> FALSE, amnesty |-> FALSE]

NewSess == [phase |-> "down", st |-> NoState, plan |-> NoPlan,
            repair |-> FALSE, causalSame |-> FALSE, ticket |-> 0, head |-> 0, inFlight |-> {},
            repairs |-> 0, refresh |-> 0, row |-> NoRow, resumed |-> FALSE]

IdleHttp == [phase |-> "idle", todo |-> {}, ack |-> NoAck,
             cursor |-> 0, ticket |-> 0, epochSame |-> FALSE, gapSame |-> FALSE,
             causalSame |-> FALSE, st |-> NoState, log |-> <<>>, next |-> 0,
             plan |-> NoPlan, row |-> NoRow]

NoHand == [ids |-> {}, durable |-> FALSE]

NoTok == [nudge |-> FALSE, probe |-> FALSE, redial |-> FALSE]

(* spawn_offline_sync: single flight, over a clone of the pending list.    *)
SpawnHttp(h, pending) ==
  IF HttpOn /\ h.phase = "idle"
    THEN [IdleHttp EXCEPT !.phase = "push", !.todo = pending]
    ELSE h

Init ==
  /\ srv = [log |-> <<>>, on |-> Seeded, ckpt |-> 0, quota |-> MaxQuota,
            ids |-> IF Seeded THEN {Base} ELSE {}, used |-> {}]
  /\ needs = [i \in Items |-> {}]
  /\ c2s = <<>> /\ s2c = <<>>
  /\ shared = NewShared(0, {})
  /\ sess = NewSess
  /\ tok = NoTok
  /\ http = IdleHttp
  /\ sink = [slot |-> "none", unsent |-> {}, hand |-> NoHand, redo |-> {},
             got |-> IF Seeded THEN {} ELSE {Base}, pcur |-> 0, dirty |-> FALSE,
             flush |-> [on |-> FALSE, cur |-> 0],
             saved |-> [on |-> FALSE, cur |-> 0, got |-> IF Seeded THEN {} ELSE {Base}],
             outbox |-> {}, rejected |-> {}]
  /\ issued = 0
  /\ env = [hints |-> 0, drops |-> 0, crashes |-> 0, disk |-> 0, ckpts |-> 0,
            flushes |-> 0, wipes |-> 0]
  /\ asked = <<>>

-----------------------------------------------------------------------------
(* The room service (external): one handler per request, acknowledgements  *)
(* deduplicated by batch id, rows at or below the checkpoint trimmed.      *)

Broadcast(frame) == IF sess.phase = "down" THEN s2c ELSE Append(s2c, frame)

PosIn(log, id) == Least({s \in DOMAIN log : log[s] = id})

ServeHello ==
  /\ c2s # <<>> /\ Head(c2s).k = "HELLO"
  /\ c2s' = Tail(c2s)
  /\ s2c' = Append(s2c, StateOf(srv))
  /\ UNCHANGED <<srv, needs, shared, sess, tok, http, sink, issued, env, asked>>

ServeRows ==
  /\ c2s # <<>> /\ Head(c2s).k = "ROWS_REQ"
  /\ c2s' = Tail(c2s)
  /\ s2c' = Append(s2c, [k |-> "ROWS", next |-> MaxOf(Head(c2s).after, srv.ckpt) + 1,
                         head |-> Len(srv.log), ex |-> Head(c2s).ex])
  /\ UNCHANGED <<srv, needs, shared, sess, tok, http, sink, issued, env, asked>>

ServePush ==
  /\ c2s # <<>> /\ Head(c2s).k = "PUSH"
  /\ LET ids == Head(c2s).ids
         b   == Least(ids)
     IN
     /\ c2s' = IF ids = {b} THEN Tail(c2s)
               ELSE <<[k |-> "PUSH", ids |-> ids \ {b}]>> \o Tail(c2s)
     /\ \/ /\ b \in Rows(srv.log)
           /\ s2c' = Append(s2c, [k |-> "ACK", id |-> b, seq |-> PosIn(srv.log, b)])
           /\ UNCHANGED srv
        \/ /\ b \in Poison
           /\ s2c' = Append(s2c, [k |-> "REJECT", id |-> b])
           /\ UNCHANGED srv
        \/ /\ b \notin Rows(srv.log) \cup Poison
           /\ srv.quota > 0
           /\ s2c' = Append(s2c, [k |-> "QUOTA"])
           /\ srv' = [srv EXCEPT !.quota = @ - 1]
        \/ /\ b \notin Rows(srv.log) \cup Poison
           /\ s2c' = Append(s2c, [k |-> "ACK", id |-> b, seq |-> Len(srv.log) + 1])
           /\ srv' = [srv EXCEPT !.log = Append(@, b), !.used = @ \cup {b}]
  /\ UNCHANGED <<needs, shared, sess, tok, http, sink, issued, env, asked>>

(* Another device's row is accepted and broadcast.                         *)
RemoteAppend(r, kind) ==
  /\ r \notin srv.used
  /\ srv' = [srv EXCEPT !.log = Append(@, r), !.used = @ \cup {r}]
  /\ needs' = [needs EXCEPT ![r] =
       CASE kind = "free"    -> {}
         [] kind = "chained" -> {Base} \cup srv.ids \cup Rows(srv.log)
                                 \cup UNION {needs[i] : i \in Rows(srv.log)}
         [] kind = "orphan"  -> {Base, Hidden}]
  /\ s2c' = Broadcast([k |-> "ROW", id |-> r, seq |-> Len(srv.log) + 1])
  /\ UNCHANGED <<c2s, shared, sess, tok, http, sink, issued, env, asked>>

(* The host commits a checkpoint covering the log; it is not broadcast.    *)
PostCheckpoint ==
  /\ env.ckpts < MaxCkpts
  /\ Len(srv.log) > srv.ckpt
  /\ srv' = [srv EXCEPT !.on = TRUE, !.ckpt = Len(srv.log),
       !.ids = Visible(srv.ids \cup Rows(srv.log) \cup {Base, Hidden}, needs)]
  /\ env' = [env EXCEPT !.ckpts = @ + 1]
  /\ UNCHANGED <<needs, c2s, s2c, shared, sess, tok, http, sink, issued, asked>>

-----------------------------------------------------------------------------
(* How a session ends: run's Reconnect arm.  A session that had joined     *)
(* starts a new replay epoch; the HTTPS cycle is spawned either way.       *)

EndSession(sh, h) ==
  LET joined == sess.phase \notin {"down", "hello"} IN
  /\ shared' = [sh EXCEPT !.httpLive = @ /\ ~joined]
  /\ sess' = [NewSess EXCEPT !.resumed = sess.resumed]
  /\ http' = SpawnHttp([h EXCEPT !.epochSame = @ /\ ~joined], sh.pending)
  /\ c2s' = <<>> /\ s2c' = <<>>

(* The tail of a steady-state turn, on a bundle of the shared state, the   *)
(* session, the frames to send and whether the session goes on.            *)

Turn(sh, se) == [sh |-> sh, se |-> se, out |-> <<>>, ok |-> TRUE]

(* maybe_repair_gap *)
RepairGap(t) ==
  IF t.sh.needsCkpt THEN [t EXCEPT !.ok = FALSE]
  ELSE IF t.sh.rowsReqOut \/ ~t.sh.gap THEN t
  ELSE IF t.se.repairs = MaxRepairs
    THEN [t EXCEPT !.sh.gap = FALSE, !.sh.rowsReqOut = TRUE, !.ok = FALSE]
    ELSE [t EXCEPT !.sh.gap = FALSE, !.sh.rowsReqOut = TRUE, !.se.repairs = @ + 1,
                   !.out = Append(@, RowsReq(t.sh.cursor, FALSE))]

(* Top of the steady loop: one read for the newest wake, never while an    *)
(* older read is outstanding.                                              *)
SendRefresh(t) ==
  IF t.ok /\ t.se.refresh = 0 /\ t.sh.refReq > t.sh.refDone /\ ~t.sh.rowsReqOut
    THEN [t EXCEPT !.sh.rowsReqOut = TRUE, !.se.refresh = t.sh.refReq,
                   !.out = Append(@, RowsReq(t.sh.cursor, FALSE))]
    ELSE t

(* Finish a turn: h is the HTTPS task, rest the frames still to be read.   *)
Finish(t, h, rest) ==
  IF t.ok
    THEN /\ shared' = t.sh /\ sess' = t.se /\ http' = h
         /\ c2s' = c2s \o t.out /\ s2c' = rest
    ELSE EndSession(t.sh, h)

-----------------------------------------------------------------------------
(* Room::start and spawn_join.  Edits made before the client is in the     *)
(* slot wait in unsent; the client is built from the outbox (a retried     *)
(* connect_via_transport), its tasks start, and only then is unsent handed *)
(* over, one batch at a time: enqueue_batch writes it without the client's *)
(* lock and queues it under the lock (hand, between the two).  No edit can *)
(* enter meanwhile: the slot is locked.                                    *)

Connect ==
  /\ sink.slot = "none"
  /\ sink' = [sink EXCEPT !.slot = "made"]
  /\ LET pending == sink.outbox \ (sink.rejected \cup Oversize) IN
     /\ shared' = NewShared(sink.pcur, pending)
     /\ http' = SpawnHttp(IdleHttp, pending)
  /\ UNCHANGED <<srv, needs, c2s, s2c, sess, tok, issued, env, asked>>

(* enqueue_batch, after its write: a batch over the row cap never enters   *)
(* the queue, one already queued is not queued twice.                      *)
EnqueueBatch_NeedsDisk(sh, b, durable) ==
  IF b \in Oversize \cup sh.pending \/ ~durable THEN sh
  ELSE [sh EXCEPT !.pending = @ \cup {b}]

EnqueueBatch(sh, b, durable) ==
  IF b \in Oversize \cup sh.pending THEN sh
  ELSE [sh EXCEPT !.pending = @ \cup {b}, !.unsaved = IF durable THEN @ ELSE @ \cup {b}]

DiskFault == env.disk < MaxDisk /\ env' = [env EXCEPT !.disk = @ + 1]
Attempt(written) == \/ written /\ UNCHANGED env
                    \/ ~written /\ DiskFault

HandOver ==
  /\ sink.slot \in {"made", "handing"} /\ sink.unsent # {} /\ sink.hand = NoHand
  /\ LET b == Least(sink.unsent) IN
     \E written \in BOOLEAN :
       /\ Attempt(written)
       /\ sink' = [sink EXCEPT !.slot = "handing", !.unsent = @ \ {b},
                               !.hand = [ids |-> {b}, durable |-> written],
                               !.outbox = IF written THEN @ \cup {b} ELSE @]
  /\ UNCHANGED <<srv, needs, c2s, s2c, shared, sess, tok, http, issued, asked>>

Handed ==
  \E b \in sink.hand.ids :
     /\ sink' = [sink EXCEPT !.hand = NoHand,
                             !.rejected = @ \cup ({b} \cap sink.outbox \cap Oversize)]
     /\ shared' = EnqueueBatch(shared, b, sink.hand.durable)
     /\ tok' = [tok EXCEPT !.nudge = @ \/ b \notin Oversize]
     /\ UNCHANGED <<srv, needs, c2s, s2c, sess, http, issued, env, asked>>

GoLive ==
  /\ sink.slot \in {"made", "handing"} /\ sink.unsent = {} /\ sink.hand = NoHand
  /\ sink' = [sink EXCEPT !.slot = "live"]
  /\ UNCHANGED <<srv, needs, c2s, s2c, shared, sess, tok, http, issued, env, asked>>

-----------------------------------------------------------------------------
(* Dialling and the handshake.                                             *)

Dial ==
  /\ sink.slot # "none" /\ sess.phase = "down"
  /\ sess' = [sess EXCEPT !.phase = "hello"]
  /\ shared' = [shared EXCEPT !.rowsReqOut = FALSE]
  /\ c2s' = <<[k |-> "HELLO"]>>
  /\ s2c' = <<>>
  /\ UNCHANGED <<srv, needs, tok, http, sink, issued, env, asked>>

(* A refused or timed-out dial only starts another HTTPS cycle.            *)
DialFail ==
  /\ sink.slot # "none" /\ sess.phase = "down" /\ HttpOn /\ http.phase = "idle"
  /\ env.drops < MaxDrops
  /\ env' = [env EXCEPT !.drops = @ + 1]
  /\ http' = SpawnHttp(http, shared.pending)
  /\ UNCHANGED <<srv, needs, c2s, s2c, shared, sess, tok, sink, issued, asked>>

(* The connection is lost, or a deadline of the session fires.             *)
Drop ==
  /\ sess.phase # "down"
  /\ env.drops < MaxDrops
  /\ env' = [env EXCEPT !.drops = @ + 1]
  /\ EndSession(shared, http)
  /\ UNCHANGED <<srv, needs, tok, sink, issued, asked>>

SkipStale ==
  /\ sess.phase = "hello" /\ s2c # <<>> /\ Head(s2c).k # "STATE"
  /\ s2c' = Tail(s2c)
  /\ UNCHANGED <<srv, needs, c2s, shared, sess, tok, http, sink, issued, env, asked>>

(* apply_cursor_amnesty: once per client, on either transport, unless the  *)
(* saved snapshot is verified.  Returns the cursor.                        *)
AmnestyApplies == ~shared.amnesty /\ ~sink.saved.on
Clamp(cursor, st) ==
  LET floor == IF st.on THEN st.seq ELSE 0 IN
  IF AmnestyApplies /\ cursor > floor THEN floor ELSE cursor

(* A reset, detected on the raw cursor, or an amnesty resets the persisted *)
(* cursor to zero.                                                         *)
ResetPersisted(st) == shared.cursor > st.head \/ Clamp(shared.cursor, st) < shared.cursor

Contained(st) == ~st.on \/ (~shared.needsCkpt /\ ContainsFrontier(sink.got, needs, st.ids))

SessState ==
  /\ sess.phase = "hello" /\ s2c # <<>> /\ Head(s2c).k = "STATE"
  /\ LET st  == Head(s2c)
         cur == Clamp(shared.cursor, st)
     IN
     /\ shared' = [shared EXCEPT !.rowsReqOut = FALSE, !.cursor = cur, !.amnesty = TRUE]
     /\ sink' = IF ResetPersisted(st) THEN [sink EXCEPT !.pcur = 0, !.dirty = TRUE] ELSE sink
     /\ sess' = [sess EXCEPT !.phase = "plan", !.st = st, !.repair = shared.needsCkpt,
                             !.causalSame = TRUE,
                             !.plan = PlanCatchUp(cur, st, Contained(st))]
  /\ s2c' = Tail(s2c)
  /\ UNCHANGED <<srv, needs, c2s, tok, http, issued, env, asked>>

(* ensure_durable: the batches of ids whose write has not succeeded yet    *)
(* are written before they are sent.                                       *)
Write(sh, ids) == sink' = [sink EXCEPT !.outbox = @ \cup (ids \cap sh.unsaved)]
Saved(sh, ids) == [sh EXCEPT !.unsaved = @ \ ids]

(* push_pending: everything not in flight, in outbox order, unless head    *)
(* probing owns the quota window.  It stops at the first failing write.    *)
ToPush(sh, inFlight) == IF sh.quotaBlocked THEN {} ELSE sh.pending \ inFlight

PushPending(t) ==
  LET ids == ToPush(t.sh, t.se.inFlight) IN
  [t EXCEPT !.sh = Saved(@, ids),
            !.se.inFlight = (@ \cap t.sh.pending) \cup ids,
            !.out = IF ids = {} THEN @ ELSE Append(@, [k |-> "PUSH", ids |-> ids])]

FailedPush(sh, ids) ==
  \E b \in ids \cap sh.unsaved :
    LET earlier == {a \in ids : a < b} IN
    /\ DiskFault
    /\ Write(sh, earlier)
    /\ EndSession(Saved(sh, earlier), http)

(* The rows request and the outbox go out before the checkpoint is         *)
(* fetched; without a fetch the causal repair flag is settled at once.     *)
Backfilling(se) == [se EXCEPT !.phase = "backfill", !.st = NoState, !.plan = NoPlan,
                              !.repair = FALSE, !.causalSame = FALSE]
SettleCausal(sh, same) == [sh EXCEPT !.needsCkpt = @ /\ ~same]

SessPlan ==
  /\ sess.phase = "plan"
  /\ LET sh == [shared EXCEPT !.cursor = sess.plan.after]
         se == IF sess.plan.fetch
                 THEN [sess EXCEPT !.ticket = shared.refReq, !.phase = "fetch", !.plan = NoPlan]
                 ELSE [Backfilling(sess) EXCEPT !.ticket = shared.refReq]
         t0 == [Turn(sh, se) EXCEPT !.out =
                  <<RowsReq(sess.plan.after, sess.resumed /\ ~sess.repair)>>]
         t1 == PushPending(t0)
     IN
     \/ /\ Write(sh, ToPush(sh, sess.inFlight)) /\ UNCHANGED env
        /\ Finish(IF sess.plan.fetch THEN t1
                  ELSE [t1 EXCEPT !.sh = SettleCausal(@, sess.causalSame)], http, s2c)
     \/ FailedPush(sh, ToPush(sh, sess.inFlight))
  /\ UNCHANGED <<srv, needs, tok, issued, asked>>

(* The checkpoint arrives (whatever the room serves by now) and lands.     *)
(* The mark matters only behind the end of the backfill answer: the frames *)
(* between the two are handled before the session counts as caught up.     *)
Marked(n) == SubSeq(s2c, 1, n) \o <<[k |-> "END"]>> \o SubSeq(s2c, n + 1, Len(s2c))

SessFetch ==
  /\ sess.phase = "fetch"
  /\ sink' = [sink EXCEPT !.got = @ \cup srv.ids, !.pcur = MaxOf(@, sess.st.seq), !.dirty = TRUE]
  /\ shared' = SettleCausal([shared EXCEPT !.cursor = MaxOf(@, sess.st.seq)], sess.causalSame)
  /\ \/ sess' = Backfilling(sess) /\ UNCHANGED s2c
     \/ \E n \in DOMAIN s2c :
          /\ \E i \in 1 .. n - 1 : s2c[i].k = "ROWS"
          /\ sess' = [Backfilling(sess) EXCEPT !.phase = "replay"]
          /\ s2c' = Marked(n)
  /\ UNCHANGED <<srv, needs, c2s, tok, http, issued, env, asked>>

-----------------------------------------------------------------------------
(* Inbound frames, during the backfill and in the steady state.            *)

Joined  == sess.phase \in {"replay", "drain", "backfill", "steady"}
Reading == Joined /\ sess.row = NoRow /\ s2c # <<>>

(* The next row of a backfill answer; past its head, the ROWS_DONE.        *)
NextSeq(f) == Least({s \in f.next .. f.head : ~(f.ex /\ srv.log[s] \in Own)}
                      \cup {MaxOf(f.next, f.head + 1)})
IsRow(f)  == f.k = "ROW" \/ (f.k = "ROWS" /\ NextSeq(f) <= f.head)
IsDone(f) == f.k = "ROWS" /\ NextSeq(f) > f.head
RowSeq(f) == IF f.k = "ROW" THEN f.seq ELSE NextSeq(f)

(* In the steady state every frame ends with a gap check and the loop top. *)
AfterFrame(sh, se, h, rest) ==
  Finish(IF se.phase = "steady" THEN SendRefresh(RepairGap(Turn(sh, se))) ELSE Turn(sh, se), h, rest)

(* apply_remote_row, first lock: the cursor the row may establish.         *)
SessRow ==
  /\ Reading /\ IsRow(Head(s2c))
  /\ LET f   == Head(s2c)
         seq == RowSeq(f)
         gap == IsGap(shared.cursor, seq)
     IN
     /\ sess' = [sess EXCEPT !.row = [id  |-> IF f.k = "ROW" THEN f.id ELSE srv.log[seq],
                                      seq |-> seq, cur |-> Walk(shared.cursor, seq)]]
     /\ shared' = [shared EXCEPT !.gap = @ \/ gap]
     /\ http' = [http EXCEPT !.gapSame = @ /\ ~gap]
     /\ s2c' = IF f.k = "ROW" THEN Tail(s2c)
               ELSE <<[f EXCEPT !.next = seq + 1]>> \o Tail(s2c)
  /\ UNCHANGED <<srv, needs, c2s, tok, sink, issued, env, asked>>

(* ViewerSink::import and the second lock.  A parked row holds the cursor  *)
(* and asks for the checkpoint.  A row whose import fails is skipped and   *)
(* counts as applied: here one that changes nothing and that nothing here  *)
(* depends on.                                                             *)
Parks(row) == row.id \notin Visible(sink.got \cup {row.id}, needs)

Imported_SavesParked(row) ==
  [sink EXCEPT !.got = @ \cup {row.id}, !.pcur = MaxOf(@, row.cur), !.dirty = TRUE]

Imported(row) ==
  IF Parks(row) THEN [sink EXCEPT !.got = @ \cup {row.id}]
  ELSE [sink EXCEPT !.got = @ \cup {row.id}, !.pcur = MaxOf(@, row.cur), !.dirty = TRUE]

RowOutcome(row) ==
  IF Parks(row) THEN [shared EXCEPT !.needsCkpt = TRUE]
  ELSE [shared EXCEPT !.cursor = MaxOf(@, row.cur)]

SessApplyRow ==
  /\ sess.row # NoRow
  /\ sink' = Imported(sess.row)
  /\ LET same == ~Parks(sess.row) IN
     AfterFrame(RowOutcome(sess.row),
                [sess EXCEPT !.row = NoRow, !.causalSame = @ /\ same],
                [http EXCEPT !.causalSame = @ /\ same], s2c)
  /\ UNCHANGED <<srv, needs, tok, issued, env, asked>>

(* ACK: retire the batch if the outbox delete works, walk the cursor, and  *)
(* keep a quota drain going.                                               *)
Retire(sh, ids) == [sh EXCEPT !.pending = @ \ ids, !.unsaved = @ \ ids]

Drain(sh) ==
  IF ~sh.quotaBlocked THEN sh
  ELSE IF sh.pending = {} THEN [sh EXCEPT !.quotaBlocked = FALSE]
  ELSE [sh EXCEPT !.retryArmed = TRUE]

Acked(sh, ack, retired) ==
  Drain([Retire(sh, IF retired THEN {ack.id} ELSE {}) EXCEPT
                   !.retryArmed = @ \/ ~retired,
                   !.gap = @ \/ IsGap(sh.cursor, ack.seq),
                   !.cursor = Walk(@, ack.seq)])

SessAck ==
  /\ Reading /\ Head(s2c).k = "ACK"
  /\ \E retired \in BOOLEAN :
     LET ack == Head(s2c)
         sh  == Acked(shared, ack, retired)
     IN
     /\ \/ retired /\ UNCHANGED env
        \/ ~retired /\ DiskFault
     /\ sink' = [sink EXCEPT !.outbox = IF retired THEN @ \ {ack.id} ELSE @,
                             !.pcur = MaxOf(@, sh.cursor), !.dirty = TRUE]
     /\ AfterFrame(sh, sess, [http EXCEPT !.gapSame = @ /\ ~IsGap(shared.cursor, ack.seq)],
                   Tail(s2c))
  /\ UNCHANGED <<srv, needs, tok, issued, asked>>

(* ERROR, permanent: mark the outbox row, retire the batch.                *)
SessReject ==
  /\ Reading /\ Head(s2c).k = "REJECT"
  /\ LET b == Head(s2c).id IN
     \/ /\ sink' = [sink EXCEPT !.rejected = @ \cup ({b} \cap sink.outbox)]
        /\ AfterFrame(Retire(shared, {b}), sess, http, Tail(s2c))
        /\ UNCHANGED env
     \/ /\ DiskFault
        /\ EndSession(shared, http)
        /\ UNCHANGED sink
  /\ UNCHANGED <<srv, needs, tok, issued, asked>>

(* ERROR, quota: probe with the head batch on the retry clock.             *)
SessQuota ==
  /\ Reading /\ Head(s2c).k = "QUOTA"
  /\ AfterFrame([shared EXCEPT !.quotaBlocked = TRUE, !.retryArmed = TRUE], sess, http, Tail(s2c))
  /\ UNCHANGED <<srv, needs, tok, sink, issued, env, asked>>

(* ROWS_DONE of the join, and no buffered frame left: the session is       *)
(* caught up.                                                              *)
SessDefer ==
  /\ sess.phase = "replay" /\ Reading /\ IsDone(Head(s2c))
  /\ sess' = [sess EXCEPT !.phase = "drain", !.head = Head(s2c).head]
  /\ s2c' = Tail(s2c)
  /\ UNCHANGED <<srv, needs, c2s, shared, tok, http, sink, issued, env, asked>>

CaughtUp(sh, ticket, head) ==
  IF sh.needsCkpt THEN sh
  ELSE [sh EXCEPT !.caughtUp = TRUE,
                  !.refDone = IF ~sh.gap /\ sh.cursor >= head THEN MaxOf(@, ticket) ELSE @]

SessJoin ==
  /\ Reading
  /\ \/ sess.phase = "backfill" /\ IsDone(Head(s2c))
     \/ sess.phase = "drain" /\ Head(s2c).k = "END"
  /\ LET head == IF sess.phase = "drain" THEN sess.head ELSE Head(s2c).head IN
     AfterFrame(CaughtUp(shared, sess.ticket, head),
                [sess EXCEPT !.phase = "steady", !.resumed = TRUE, !.ticket = 0, !.head = 0],
                http, Tail(s2c))
  /\ UNCHANGED <<srv, needs, tok, sink, issued, env, asked>>

(* ROWS_DONE of a repair or a wake read.                                   *)
RefreshRead_Strict(sh, ticket, head) ==
  IF ticket = 0 THEN sh
  ELSE IF sh.cursor > head /\ ~sh.needsCkpt /\ ~sh.gap
    THEN [sh EXCEPT !.refDone = MaxOf(@, ticket)]
  ELSE [sh EXCEPT !.gap = @ \/ sh.cursor < head]

RefreshRead(sh, ticket, head) ==
  IF ticket = 0 THEN sh
  ELSE IF sh.cursor >= head /\ ~sh.needsCkpt /\ ~sh.gap
    THEN [sh EXCEPT !.refDone = MaxOf(@, ticket)]
  ELSE [sh EXCEPT !.gap = @ \/ sh.cursor < head]

SessDone ==
  /\ sess.phase = "steady" /\ Reading /\ IsDone(Head(s2c))
  /\ LET head   == Head(s2c).head
         missed == sess.refresh # 0 /\ shared.cursor < head
     IN AfterFrame(RefreshRead([shared EXCEPT !.rowsReqOut = FALSE], sess.refresh, head),
                   [sess EXCEPT !.refresh = 0],
                   [http EXCEPT !.gapSame = @ /\ ~missed], Tail(s2c))
  /\ UNCHANGED <<srv, needs, tok, sink, issued, env, asked>>

-----------------------------------------------------------------------------
(* The other events of the steady state.                                   *)

Steady == sess.phase = "steady" /\ sess.row = NoRow

SessNudge ==
  /\ Steady /\ tok.nudge
  /\ tok' = [tok EXCEPT !.nudge = FALSE]
  /\ LET ids == ToPush(shared, sess.inFlight) IN
     \/ /\ Write(shared, ids) /\ UNCHANGED env
        /\ Finish(SendRefresh(PushPending(Turn(shared, sess))), http, s2c)
     \/ FailedPush(shared, ids)
  /\ UNCHANGED <<srv, needs, issued, asked>>

SessProbe ==
  /\ Steady /\ tok.probe
  /\ tok' = [tok EXCEPT !.probe = FALSE]
  /\ Finish(SendRefresh(Turn(shared, sess)), http, s2c)
  /\ UNCHANGED <<srv, needs, sink, issued, env, asked>>

SessRedial ==
  /\ Steady /\ tok.redial
  /\ tok' = [tok EXCEPT !.redial = FALSE]
  /\ EndSession(shared, http)
  /\ UNCHANGED <<srv, needs, sink, issued, env, asked>>

(* The retry clock: consume it, push the head batch only.                  *)
HeadOf(pending) == IF pending = {} THEN {} ELSE {Least(pending)}

SessRetry ==
  /\ Steady /\ shared.retryArmed
  /\ LET ids == HeadOf(shared.pending)
         sh  == [shared EXCEPT !.retryArmed = FALSE]
         t   == [Turn(Saved(sh, ids), sess) EXCEPT
                   !.out = IF ids = {} THEN @ ELSE <<[k |-> "PUSH", ids |-> ids]>>]
     IN
     \/ /\ Write(sh, ids) /\ UNCHANGED env
        /\ Finish(SendRefresh(t), http, s2c)
     \/ FailedPush(sh, ids)
  /\ UNCHANGED <<srv, needs, tok, issued, asked>>

-----------------------------------------------------------------------------
(* The client's API: a local edit, a wake receipt, liveness hints.         *)

(* The local-update hook of Room: the edit is in the document, its batch   *)
(* goes to the outbox first, then to the client, whose enqueue_batch writes*)
(* it again (stored: one of the two writes worked; durable: the second     *)
(* did), or to the buffer while the slot is empty.                         *)
LocalEdit(b) ==
  /\ issued' = b
  /\ needs' = [needs EXCEPT ![b] = Visible(sink.got, needs)]

Edited(b, stored, again) ==
  [sink EXCEPT !.got = @ \cup {b}, !.dirty = TRUE,
               !.outbox = IF stored THEN @ \cup {b} ELSE @,
               !.redo = IF again THEN @ \cup {b} ELSE @]

Enqueue ==
  /\ sink.slot = "live" /\ issued < MaxOwn
  /\ LET b == issued + 1 IN
     /\ LocalEdit(b)
     /\ \E stored, durable \in BOOLEAN :
        /\ durable => stored
        /\ Attempt(durable)
        /\ sink' = [Edited(b, stored, stored /\ ~durable) EXCEPT
                      !.rejected = @ \cup (IF stored THEN {b} \cap Oversize ELSE {})]
        /\ shared' = EnqueueBatch(shared, b, durable)
     /\ tok' = [tok EXCEPT !.nudge = @ \/ b \notin Oversize]
  /\ UNCHANGED <<srv, c2s, s2c, sess, http, asked>>

EnqueueEarly ==
  /\ sink.slot \in {"none", "made"} /\ issued < MaxOwn
  /\ LET b == issued + 1 IN
     /\ LocalEdit(b)
     /\ \E stored \in BOOLEAN :
        /\ Attempt(stored)
        /\ sink' = [Edited(b, stored, TRUE) EXCEPT !.unsent = @ \cup {b}]
  /\ UNCHANGED <<srv, c2s, s2c, shared, sess, tok, http, asked>>

RequestCatchUp ==
  /\ sink.slot = "live" /\ shared.refReq < MaxRefresh
  /\ shared' = [shared EXCEPT !.refReq = @ + 1]
  /\ tok' = [tok EXCEPT !.probe = TRUE]
  /\ asked' = Append(asked, Rows(srv.log))
  /\ UNCHANGED <<srv, needs, c2s, s2c, sess, http, sink, issued, env>>

Probe ==
  /\ sink.slot = "live" /\ env.hints < MaxHints
  /\ env' = [env EXCEPT !.hints = @ + 1]
  /\ tok' = [tok EXCEPT !.probe = TRUE]
  /\ shared' = [shared EXCEPT !.httpLive = FALSE]
  /\ http' = [http EXCEPT !.epochSame = FALSE]
  /\ UNCHANGED <<srv, needs, c2s, s2c, sess, sink, issued, asked>>

Redial ==
  /\ sink.slot = "live" /\ env.hints < MaxHints
  /\ env' = [env EXCEPT !.hints = @ + 1]
  /\ tok' = [tok EXCEPT !.redial = TRUE]
  /\ UNCHANGED <<srv, needs, c2s, s2c, shared, sess, http, sink, issued, asked>>

-----------------------------------------------------------------------------
(* The HTTPS cycle: push the cloned outbox, pull the rows, apply them.     *)

(* ensure_durable for the next batch of the clone; a batch retired in the  *)
(* meantime is not written again.                                          *)
ToPersist_Reinserts(b, sh) == {b}
ToPersist(b, sh) == {b} \cap sh.unsaved

HttpPersist ==
  /\ http.phase = "push" /\ http.todo # {}
  /\ LET need == ToPersist(Least(http.todo), shared) IN
     \/ /\ need # {} /\ DiskFault
        /\ http' = [http EXCEPT !.phase = "capture", !.todo = {}]
        /\ UNCHANGED <<shared, sink>>
     \/ /\ sink' = [sink EXCEPT !.outbox = @ \cup need]
        /\ shared' = Saved(shared, need)
        /\ http' = [http EXCEPT !.phase = "post"]
        /\ UNCHANGED env
  /\ UNCHANGED <<srv, needs, c2s, s2c, sess, tok, issued, asked>>

(* One POST.  The request, its effect or its answer may be lost; a refusal *)
(* of any kind ends the push loop.                                         *)
HttpPost ==
  /\ http.phase = "post"
  /\ LET b       == Least(http.todo)
         isNew   == b \notin Rows(srv.log)
         log     == IF isNew THEN Append(srv.log, b) ELSE srv.log
         stopped == [http EXCEPT !.phase = "capture", !.todo = {}]
         lost    == env.drops < MaxDrops /\ env' = [env EXCEPT !.drops = @ + 1]
     IN
     \/ /\ b \in Poison \/ (srv.quota > 0 /\ isNew)
        /\ http' = stopped
        /\ UNCHANGED <<srv, s2c, env>>
     \/ /\ lost /\ http' = stopped
        /\ UNCHANGED <<srv, s2c>>
     \/ /\ b \notin Poison
        /\ srv' = [srv EXCEPT !.log = log, !.used = @ \cup {b}]
        /\ s2c' \in {s2c} \cup (IF isNew
                       THEN {Broadcast([k |-> "ROW", id |-> b, seq |-> Len(log)])} ELSE {})
        /\ \/ /\ http' = [http EXCEPT !.phase = "acked", !.todo = @ \ {b},
                                      !.ack = [id |-> b, seq |-> PosIn(log, b)]]
              /\ UNCHANGED env
           \/ lost /\ http' = stopped
  /\ UNCHANGED <<needs, c2s, shared, sess, tok, sink, issued, asked>>

HttpAck ==
  /\ http.phase = "acked"
  /\ \E retired \in BOOLEAN :
     LET cur == Walk(shared.cursor, http.ack.seq) IN
     /\ \/ retired /\ UNCHANGED env
        \/ ~retired /\ DiskFault
     /\ shared' = [Retire(shared, IF retired THEN {http.ack.id} ELSE {}) EXCEPT !.cursor = cur]
     /\ sink' = [sink EXCEPT !.outbox = IF retired THEN @ \ {http.ack.id} ELSE @,
                             !.pcur = MaxOf(@, cur), !.dirty = TRUE]
     /\ http' = [http EXCEPT !.phase = "push", !.ack = NoAck]
  /\ UNCHANGED <<srv, needs, c2s, s2c, sess, tok, issued, asked>>

(* What the pull may certify is captured before the request is sent.       *)
HttpCapture ==
  /\ http.phase = "capture" \/ (http.phase = "push" /\ http.todo = {})
  /\ http' = [http EXCEPT !.phase = "get", !.cursor = shared.cursor,
                          !.ticket = shared.refReq, !.epochSame = TRUE, !.gapSame = TRUE]
  /\ shared' = [shared EXCEPT !.httpLive = FALSE]
  /\ UNCHANGED <<srv, needs, c2s, s2c, sess, tok, sink, issued, env, asked>>

HttpServe ==
  /\ http.phase = "get"
  /\ http' = [http EXCEPT !.phase = "answer", !.st = StateOf(srv), !.log = srv.log,
                          !.next = MaxOf(http.cursor, srv.ckpt) + 1]
  /\ UNCHANGED <<srv, needs, c2s, s2c, shared, sess, tok, sink, issued, env, asked>>

(* A failed pull or checkpoint fetch ends the cycle; a failed pull also    *)
(* starts a new replay epoch.                                              *)
HttpFail ==
  /\ http.phase \in {"get", "fetch"}
  /\ env.drops < MaxDrops
  /\ env' = [env EXCEPT !.drops = @ + 1]
  /\ shared' = [shared EXCEPT !.httpLive = @ /\ http.phase # "get"]
  /\ http' = IdleHttp
  /\ UNCHANGED <<srv, needs, c2s, s2c, sess, tok, sink, issued, asked>>

(* The state frame of the answer.  An answer asked for above the repaired  *)
(* cursor is discarded.                                                    *)
HttpState ==
  /\ http.phase = "answer"
  /\ LET st   == http.st
         cur  == Clamp(shared.cursor, st)
         late == cur < http.cursor /\ http.cursor <= st.head
         plan == PlanCatchUp(http.cursor, st, Contained(st))
     IN
     /\ shared' = [shared EXCEPT !.cursor = cur, !.amnesty = TRUE]
     /\ sink' = IF cur < shared.cursor \/ (~late /\ http.cursor > st.head)
                THEN [sink EXCEPT !.pcur = 0, !.dirty = TRUE] ELSE sink
     /\ http' = IF late THEN IdleHttp
                ELSE [http EXCEPT !.phase = IF plan.fetch THEN "fetch" ELSE "settle",
                                  !.plan = plan, !.causalSame = TRUE]
  /\ UNCHANGED <<srv, needs, c2s, s2c, sess, tok, issued, env, asked>>

HttpFetch ==
  /\ http.phase = "fetch"
  /\ sink' = [sink EXCEPT !.got = @ \cup srv.ids, !.pcur = MaxOf(@, http.st.seq), !.dirty = TRUE]
  /\ http' = [http EXCEPT !.phase = "settle"]
  /\ UNCHANGED <<srv, needs, c2s, s2c, shared, sess, tok, issued, env, asked>>

HttpSettle ==
  /\ http.phase = "settle"
  /\ shared' = SettleCausal([shared EXCEPT !.cursor =
                  IF @ > http.st.head THEN http.plan.after ELSE MaxOf(@, http.plan.after)],
                  http.causalSame)
  /\ http' = [http EXCEPT !.phase = "rows", !.cursor = 0, !.plan = NoPlan,
                          !.causalSame = FALSE]
  /\ UNCHANGED <<srv, needs, c2s, s2c, sess, tok, sink, issued, env, asked>>

HttpRow ==
  /\ http.phase = "rows" /\ http.row = NoRow /\ http.next <= http.st.head
  /\ LET gap == IsGap(shared.cursor, http.next) IN
     /\ http' = [http EXCEPT !.row = [id |-> http.log[http.next], seq |-> http.next,
                                      cur |-> Walk(shared.cursor, http.next)],
                             !.next = @ + 1, !.gapSame = @ /\ ~gap]
     /\ shared' = [shared EXCEPT !.gap = @ \/ gap]
  /\ UNCHANGED <<srv, needs, c2s, s2c, sess, tok, sink, issued, env, asked>>

HttpApplyRow ==
  /\ http.row # NoRow
  /\ LET same == ~Parks(http.row) IN
     /\ sink' = Imported(http.row)
     /\ shared' = RowOutcome(http.row)
     /\ http' = [http EXCEPT !.row = NoRow, !.causalSame = @ /\ same]
     /\ sess' = [sess EXCEPT !.causalSame = @ /\ same]
  /\ UNCHANGED <<srv, needs, c2s, s2c, tok, issued, env, asked>>

(* ROWS_DONE: a pull that reached its head, in the epoch it started in,    *)
(* is a live baseline; it clears a gap no newer than itself.               *)
Certified_CountsTickets(sh, h) ==
  IF h.epochSame /\ sh.cursor >= h.st.head /\ ~sh.needsCkpt
    THEN LET gap == sh.gap /\ ~h.gapSame IN
         [sh EXCEPT !.httpLive = TRUE, !.caughtUp = TRUE, !.gap = gap,
                    !.refDone = IF gap THEN @ ELSE @ + 1]
    ELSE sh

Certified_NewestTicket(sh, h) ==
  IF h.epochSame /\ sh.cursor >= h.st.head /\ ~sh.needsCkpt
    THEN LET gap == sh.gap /\ ~h.gapSame IN
         [sh EXCEPT !.httpLive = TRUE, !.caughtUp = TRUE, !.gap = gap,
                    !.refDone = IF gap THEN @ ELSE sh.refReq]
    ELSE sh

Certified(sh, h) ==
  IF h.epochSame /\ sh.cursor >= h.st.head /\ ~sh.needsCkpt
    THEN LET gap == sh.gap /\ ~h.gapSame IN
         [sh EXCEPT !.httpLive = TRUE, !.caughtUp = TRUE, !.gap = gap,
                    !.refDone = IF gap THEN @ ELSE MaxOf(@, h.ticket)]
    ELSE sh

HttpDone ==
  /\ http.phase = "rows" /\ http.row = NoRow /\ http.next > http.st.head
  /\ shared' = Certified(shared, http)
  /\ http' = IdleHttp
  /\ UNCHANGED <<srv, needs, c2s, s2c, sess, tok, sink, issued, env, asked>>

-----------------------------------------------------------------------------
(* Persister::flush: the cursor is sampled before the document is          *)
(* exported, both are saved in one transaction.                            *)

FlushSample ==
  /\ sink.dirty /\ ~sink.flush.on /\ env.flushes < MaxFlushes
  /\ env' = [env EXCEPT !.flushes = @ + 1]
  /\ sink' = [sink EXCEPT !.dirty = FALSE, !.flush = [on |-> TRUE, cur |-> sink.pcur]]
  /\ UNCHANGED <<srv, needs, c2s, s2c, shared, sess, tok, http, issued, asked>>

FlushSave ==
  /\ sink.flush.on
  /\ sink' = [sink EXCEPT !.flush = [on |-> FALSE, cur |-> 0],
                          !.saved = [on |-> TRUE, cur |-> sink.flush.cur,
                                     got |-> Visible(sink.got, needs)]]
  /\ UNCHANGED <<srv, needs, c2s, s2c, shared, sess, tok, http, issued, env, asked>>

(* The process is killed; load_local rebuilds the document from the        *)
(* snapshot and the outbox.                                                *)
Crash ==
  /\ env.crashes < MaxCrashes
  /\ env' = [env EXCEPT !.crashes = @ + 1]
  /\ sink' = [sink EXCEPT !.slot = "none", !.unsent = {}, !.hand = NoHand, !.redo = {},
                          !.got = sink.saved.got \cup sink.outbox, !.pcur = sink.saved.cur,
                          !.dirty = FALSE, !.flush = [on |-> FALSE, cur |-> 0]]
  /\ shared' = NewShared(sink.saved.cur, {})
  /\ http' = IdleHttp
  /\ sess' = NewSess /\ tok' = NoTok
  /\ c2s' = <<>> /\ s2c' = <<>>
  /\ asked' = <<>>
  /\ UNCHANGED <<srv, needs, issued>>

(* The room is wiped and re-seeded by the host; its sockets close.         *)
Wipe ==
  /\ env.wipes < MaxWipes /\ srv.log # <<>>
  /\ env' = [env EXCEPT !.wipes = @ + 1]
  /\ srv' = [srv EXCEPT !.log = <<>>, !.on = TRUE, !.ckpt = 0,
               !.ids = Visible(@ \cup Rows(srv.log) \cup {Base}, needs)]
  /\ IF sess.phase = "down" THEN UNCHANGED <<shared, sess, http, c2s, s2c>>
     ELSE EndSession(shared, http)
  /\ UNCHANGED <<needs, tok, sink, issued, asked>>

-----------------------------------------------------------------------------

Server  == ServeHello \/ ServeRows \/ ServePush
Room    == (\E r \in Remote, kind \in Kinds : RemoteAppend(r, kind)) \/ PostCheckpoint \/ Wipe
Session == Dial \/ SkipStale \/ SessState \/ SessPlan \/ SessFetch \/ SessRow \/ SessApplyRow
           \/ SessAck \/ SessReject \/ SessQuota \/ SessDefer \/ SessJoin \/ SessDone
           \/ SessNudge \/ SessProbe \/ SessRedial \/ SessRetry
Https   == HttpPersist \/ HttpPost \/ HttpAck \/ HttpCapture \/ HttpServe \/ HttpFail \/ HttpState
           \/ HttpFetch \/ HttpSettle \/ HttpRow \/ HttpApplyRow \/ HttpDone
Join    == Connect \/ HandOver \/ Handed \/ GoLive
Api     == Enqueue \/ EnqueueEarly \/ RequestCatchUp \/ Probe \/ Redial
Disk    == FlushSample \/ FlushSave
Fault   == DialFail \/ Drop \/ Crash

Next == Server \/ Room \/ Join \/ Session \/ Https \/ Api \/ Disk \/ Fault

Spec == Init /\ [][Next]_vars

(* Fairness: the room answers, the join and session tasks run, a request   *)
(* that is not lost is answered.  Nothing is assumed of faults, of other devices,  *)
(* or of the user.                                                         *)
HttpsProgress == HttpPersist \/ HttpPost \/ HttpAck \/ HttpCapture \/ HttpServe \/ HttpState
                 \/ HttpFetch \/ HttpSettle \/ HttpRow \/ HttpApplyRow \/ HttpDone

Fairness == WF_vars(Server) /\ WF_vars(Join) /\ WF_vars(Session) /\ WF_vars(HttpsProgress)
FairSpec == Spec /\ Fairness


(***************************************************************************)
(* Properties.                                                             *)
(***************************************************************************)

PlanType   == [fetch : BOOLEAN, after : Nat]
RowType    == [id : Ids \cup {Base}, seq : Nat, cur : Nat]
SharedType == [cursor : Nat, caughtUp : BOOLEAN, refReq : 0 .. MaxRefresh, refDone : 0 .. MaxRefresh,
               pending : SUBSET Own, unsaved : SUBSET Own, quotaBlocked : BOOLEAN,
               retryArmed : BOOLEAN, gap : BOOLEAN, rowsReqOut : BOOLEAN,
               needsCkpt : BOOLEAN, httpLive : BOOLEAN, amnesty : BOOLEAN]
SessType   == [phase : {"down", "hello", "plan", "fetch", "replay", "drain", "backfill", "steady"},
               st : StateFrame, plan : PlanType, repair : BOOLEAN, causalSame : BOOLEAN,
               ticket : 0 .. MaxRefresh, head : Nat, inFlight : SUBSET Own,
               repairs : 0 .. MaxRepairs,
               refresh : 0 .. MaxRefresh, row : RowType, resumed : BOOLEAN]
HttpType   == [phase : {"idle", "push", "post", "acked", "capture", "get", "answer", "fetch",
                        "settle", "rows"},
               todo : SUBSET Own, ack : [id : 0 .. MaxOwn, seq : Nat], cursor : Nat,
               ticket : 0 .. MaxRefresh, epochSame : BOOLEAN, gapSame : BOOLEAN,
               causalSame : BOOLEAN, st : StateFrame, log : Seq(Ids), next : Nat,
               plan : PlanType, row : RowType]
SinkType   == [slot : {"none", "made", "handing", "live"}, unsent : SUBSET Own,
               hand : [ids : SUBSET Own, durable : BOOLEAN], redo : SUBSET Own,
               got : SUBSET Items, pcur : Nat, dirty : BOOLEAN,
               flush : [on : BOOLEAN, cur : Nat],
               saved : [on : BOOLEAN, cur : Nat, got : SUBSET Items],
               outbox : SUBSET Own, rejected : SUBSET Own]

SrvType    == [log : Seq(Ids), on : BOOLEAN, ckpt : Nat, quota : Nat,
               ids : SUBSET Items, used : SUBSET Ids]
TokType    == [nudge : BOOLEAN, probe : BOOLEAN, redial : BOOLEAN]
EnvType    == [hints : 0 .. MaxHints, drops : 0 .. MaxDrops, crashes : 0 .. MaxCrashes,
               disk : 0 .. MaxDisk, ckpts : 0 .. MaxCkpts, flushes : 0 .. MaxFlushes,
               wipes : 0 .. MaxWipes]

(* Every variable has its type and every bounded counter its bound; a      *)
(* session never outlives MAX_GAP_REPAIRS_PER_SESSION repairs.             *)
TypeOK ==
  /\ srv \in SrvType
  /\ needs \in [Items -> SUBSET Items]
  /\ c2s \in Seq(ClientFrame)
  /\ s2c \in Seq(ServerFrame)
  /\ shared \in SharedType
  /\ sess \in SessType
  /\ tok \in TokType
  /\ http \in HttpType
  /\ sink \in SinkType
  /\ issued \in 0 .. MaxOwn
  /\ env \in EnvType
  /\ asked \in Seq(SUBSET Ids)

(* What the proofs need besides: a backfill answer ends at a row the room  *)
(* has, the HTTPS answer is complete, and a closed socket carries nothing. *)
FramesUpTo(n) == {f \in ServerFrame : f.k = "ROWS" => f.head <= n}
CycleComplete(h) ==
  /\ h.phase = "post" => h.todo # {}
  /\ h.phase \in {"answer", "fetch", "settle", "rows"}
       => h.next > 0 /\ h.st.head <= Len(h.log)

TypeInv ==
  /\ TypeOK
  /\ s2c \in Seq(FramesUpTo(Len(srv.log)))
  /\ CycleComplete(http)
  /\ sess.phase = "down" => sess.row = NoRow /\ c2s = <<>> /\ s2c = <<>>

(* Why the outbox is kept.  A pending batch is safe (on disk or in the     *)
(* room) or still unwritten, and both only if it is one of those handed    *)
(* over twice (redo); only safe batches are on the wire or refused, and    *)
(* only batches the room has are acknowledged.                             *)
Safe == sink.outbox \cup srv.used
SafePush(safe)  == {f \in ClientFrame : f.k = "PUSH" => f.ids \subseteq safe}
TrueReply(used, safe) == {f \in ServerFrame : /\ f.k = "ACK" => f.id \in used
                                              /\ f.k = "REJECT" => f.id \in safe}

Unwritten(sh, safe, redo, n) ==
  /\ Own \cap (safe \cup sh.pending \cup sh.unsaved \cup redo) \subseteq 1 .. n
  /\ sh.unsaved \cap safe \subseteq redo
  /\ sh.pending \subseteq safe \cup sh.unsaved
BuffersSafe(sk, safe) ==
  /\ sk.unsent \cup sk.hand.ids \subseteq sk.redo
  /\ sk.hand.durable => sk.hand.ids \subseteq safe
CycleIsSafe(h, sh, safe, used) ==
  /\ h.todo \subseteq safe \cup sh.unsaved
  /\ h.phase = "post" => Least(h.todo) \in safe
  /\ h.phase = "acked" => h.ack.id \in used

OutboxInv ==
  /\ Unwritten(shared, Safe, sink.redo, issued)
  /\ BuffersSafe(sink, Safe)
  /\ CycleIsSafe(http, shared, Safe, srv.used)
  /\ srv.log \in Seq(srv.used)
  /\ c2s \in Seq(SafePush(Safe))
  /\ s2c \in Seq(TrueReply(srv.used, Safe))

(* Rows the room still holds at or below a cursor.                         *)
HeldUpTo(cur) == {srv.log[s] : s \in {x \in DOMAIN srv.log : srv.ckpt < x /\ x <= cur}}

(* The cursor claims that every row at or below it is reflected in the     *)
(* document (the contiguity rule at ROW and ACK, and the parked-row rule of*)
(* apply_remote_row).  A row the room still serves, at or below the cursor *)
(* and not visible in the document, would never be asked for again.  Rows  *)
(* trimmed into a checkpoint are guarded by its frontier instead.          *)
CursorHonest ==
  env.wipes = 0 => HeldUpTo(shared.cursor) \subseteq Visible(sink.got, needs)

(* The same for the pair on disk: what a process finds after a kill.  The  *)
(* snapshot writer samples the cursor first and exports the document       *)
(* second; own rows may also be in the outbox.                             *)
SavedHonest ==
  env.wipes = 0 => HeldUpTo(sink.saved.cur) \subseteq sink.saved.got \cup sink.outbox

(* catch_up_completed(ticket) answers a wake receipt: every row that was   *)
(* in the room when the wake arrived must be visible.  Reads that started  *)
(* before the wake, on either transport, must not complete it.             *)
Completed(t) == /\ shared.refDone >= t /\ shared.caughtUp
                /\ ~shared.needsCkpt /\ ~shared.gap
RefreshFresh ==
  \A t \in DOMAIN asked : Completed(t) => asked[t] \subseteq Visible(sink.got, needs)

(* A joined session that holds a later row of another device but not an    *)
(* earlier one knows it: a gap is flagged, a rows request is outstanding,  *)
(* or the checkpoint is wanted.  Otherwise nothing would fill the hole.    *)
Hole == \E s, t \in DOMAIN srv.log : srv.ckpt < s /\ s < t
           /\ srv.log[s] \notin sink.got /\ srv.log[t] \in Remote \cap sink.got
GapRemembered ==
  sess.phase = "steady" /\ sess.row = NoRow /\ http.row = NoRow /\ Hole
  => shared.gap \/ shared.rowsReqOut \/ shared.needsCkpt

(* After the handshake the cursor is never ahead of the room, whatever was *)
(* wiped while the client was away: a cursor beyond the head would make    *)
(* every new row look like one already applied.                            *)
CursorNotAhead ==
  Joined => shared.cursor <= Len(srv.log)

(* A cursor ahead of the server's head means the room lost its state, and  *)
(* only then is it thrown back; otherwise it falls only with the one-time  *)
(* amnesty, a checkpoint refetch, or a restart.                            *)
ResetIsReal ==
  [][shared'.cursor < shared.cursor =>
       \/ env.wipes # 0
       \/ ~shared.amnesty /\ shared'.amnesty
       \/ sess.plan.fetch
       \/ env'.crashes # env.crashes]_vars

(* Whatever drops, disk failures, permanent refusals and restarts happen   *)
(* (each a bounded number of times), a batch of the outbox that fits a row *)
(* is in the end accepted by the room, or marked as the checkpoint's to    *)
(* carry.                                                                  *)
Delivered == \A b \in Own \ Oversize :
  b \in sink.outbox ~> b \in sink.rejected \cup srv.used

(* Every wake receipt is completed in the end.                             *)
RefreshCompletes == \A t \in 1 .. MaxRefresh :
  shared.refReq >= t ~> Completed(t)

(* When the faults are over, every row of the room is in the document.     *)
Converges == <>[](Rows(srv.log) \subseteq Visible(sink.got, needs))

(* store.rs, invalidate_failed_publication: a snapshot must retain a       *)
(* replay obligation for operations whose outbox write failed.  So an own  *)
(* edit in the document has reached the room, or is on its way there.      *)
NoEditStranded ==
  \A b \in Own \cap sink.got : 
    b \in sink.outbox \cup sink.unsent \cup sink.hand.ids \cup shared.pending \cup srv.used

(* The outbox, the two push transports and the room together implement     *)
(* the abstract outbox: on disk before the room sees a batch, off the disk *)
(* only once the room has it, never written again afterwards (but for a    *)
(* batch in redo, which the client is handed a second time).               *)
Promise == INSTANCE Outbox WITH Batch <- Own, journal <- sink.outbox, redo <- sink.redo,
                                landed <- srv.used \cap Own
OutboxKept == Promise!Spec

=============================================================================

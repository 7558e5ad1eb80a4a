-------------------------- MODULE ChatCursor_proofs --------------------------
(***************************************************************************)
(* The cursors of ChatClient: what a cursor claims to cover the document   *)
(* has, and no cursor is ahead of the room.  A cursor is copied between    *)
(* the client, the sink, its snapshot and the two transports, and each     *)
(* copy is used after the others have moved.  So the invariant says of     *)
(* every copy, and of every cursor a plan or a row is about to establish,  *)
(* that it is sound; the room and the document only grow under it, as long *)
(* as the room is not wiped and the process not killed.                    *)
(*                                                                         *)
(* The second half is about the reads that move the cursors: what each     *)
(* read under way covers, which wakes it may complete, and where the rows  *)
(* it has not brought yet may leave a hole (LedgerInv, over CursorInv).    *)
(***************************************************************************)
EXTENDS ChatClient_proofs

(* The rows room r still serves at or below cursor c.                      *)
Held(r, c) == {r.log[s] : s \in {x \in DOMAIN r.log : r.ckpt < x /\ x <= c}}

Unwiped(e) == e.wipes = 0
Calm(e)    == e.wipes = 0 /\ e.crashes = 0

(* Cursor c is no further than room r, and document d has what it covers.  *)
Sound(c, r, d, e) ==
  /\ Unwiped(e) => c <= Len(r.log)
  /\ Calm(e) => Held(r, c) \subseteq d

Doc == Visible(sink.got, needs)

(* Between two states that neither a wipe nor a kill parts, a room and a   *)
(* document only grow.                                                     *)
Onward(r, d, e, r2, d2, e2) ==
  /\ r.ckpt <= r2.ckpt /\ Len(r.log) <= Len(r2.log) /\ r.used \subseteq r2.used
  /\ \A s \in DOMAIN r.log : r2.log[s] = r.log[s]
  /\ e2.wipes = e.wipes /\ e2.crashes = e.crashes
  /\ Calm(e) => d \subseteq d2

TrueFrames(r) == {f \in ServerFrame :
  /\ f.k = "STATE" => f.head <= Len(r.log) /\ f.seq <= r.ckpt
  /\ f.k \in {"ROW", "ACK"} => f.seq \in DOMAIN r.log /\ r.log[f.seq] = f.id}

RoomTrue(r) == r.ckpt <= Len(r.log) /\ r.ids \subseteq r.used \cup {Base, Hidden}

(* Whatever the client holds came out of the room, or is an edit of its own, *)
(* and of those none is parked.                                            *)
DocTrue(got, d, r, n, e) == Calm(e) =>
  got \subseteq r.used \cup (1 .. n) \cup {Base, Hidden} /\ 1 .. n \subseteq d

SinkTrue(sk, r, d, e) ==
  /\ Sound(sk.pcur, r, d, e) /\ Sound(sk.flush.cur, r, d, e)
  /\ Sound(sk.saved.cur, r, sk.saved.got, e)

(* A row on its way in is about to establish a cursor that covers it too.  *)
RowTrue(row, r, d, e) == row.id \in r.used \cup {Base} /\ Sound(row.cur, r, d \cup {row.id}, e)

SessTrue(se, r, d, e) ==
  /\ se.st.seq <= r.ckpt /\ se.plan.after <= Len(r.log)
  /\ Sound(se.plan.after, r, d, e) /\ RowTrue(se.row, r, d, e)
  /\ se.phase = "down" => se.st = NoState /\ se.plan = NoPlan

(* After a wipe the cycle may still hold what it read before.              *)
HttpTrue(h, r, d, e) == Unwiped(e) =>
  /\ Sound(h.cursor, r, d, e) /\ Sound(h.plan.after, r, d, e) /\ RowTrue(h.row, r, d, e)
  /\ h.st.seq <= r.ckpt
  /\ Len(h.log) <= Len(r.log) /\ \A s \in DOMAIN h.log : r.log[s] = h.log[s]
  /\ h.phase = "acked" => h.ack.seq \in DOMAIN r.log /\ r.log[h.ack.seq] = h.ack.id

(* Without HTTPS the session alone moves the cursor, and no wipe survives it. *)
Planned == {"fetch", "replay", "drain", "backfill", "steady"}
SocketOnly(sh, se, h, r) == ~HttpOn =>
  /\ se.phase \in Planned => sh.cursor <= Len(r.log)
  /\ se.row.cur <= Len(r.log)
  /\ h.phase = "idle" /\ h.row = NoRow

WorldTrue ==
  /\ RoomTrue(srv) /\ DocTrue(sink.got, Doc, srv, issued, env)
  /\ SinkTrue(sink, srv, Doc, env)
TalkTrue ==
  /\ s2c \in Seq(TrueFrames(srv))
  /\ Sound(shared.cursor, srv, Doc, env)
  /\ SessTrue(sess, srv, Doc, env) /\ HttpTrue(http, srv, Doc, env)
  /\ SocketOnly(shared, sess, http, srv)
CursorInv ==
  /\ WorldTrue /\ TalkTrue
  /\ sink.slot = "none" => sess.phase = "down"

-----------------------------------------------------------------------------
(* What moves a cursor keeps it sound.                                     *)

LEMMA SoundOnward ==
  ASSUME NEW r \in SrvType, NEW d, NEW e, NEW r2 \in SrvType, NEW d2, NEW e2,
         Onward(r, d, e, r2, d2, e2), NEW c \in Nat, Sound(c, r, d, e)
  PROVE  Sound(c, r2, d2, e2)
<1>1. r.log \in Seq(Ids) /\ r2.log \in Seq(Ids) /\ r.ckpt \in Nat /\ r2.ckpt \in Nat
  BY DEF SrvType
<1>2. Unwiped(e2) => c <= Len(r2.log)
  BY <1>1 DEF Sound, Onward, Unwiped
<1>3. ASSUME Calm(e2)  PROVE Held(r2, c) \subseteq d2
  <2>1. Calm(e) /\ c <= Len(r.log)
    BY <1>3 DEF Sound, Onward, Unwiped, Calm
  <2>2. Held(r2, c) \subseteq Held(r, c)
    BY <1>1, <2>1 DEF Held, Onward
  <2>. QED
    BY <2>1, <2>2 DEF Sound, Onward
<1>. QED
  BY <1>2, <1>3 DEF Sound

LEMMA OnwardWith ==
  ASSUME NEW r, NEW d, NEW e, NEW r2, NEW d2, NEW e2, Onward(r, d, e, r2, d2, e2), NEW x
  PROVE  Onward(r, d \cup {x}, e, r2, d2 \cup {x}, e2)
BY DEF Onward

LEMMA SoundMore ==
  ASSUME NEW r, NEW d, NEW e, NEW d2, d \subseteq d2, NEW c, Sound(c, r, d, e)
  PROVE  Sound(c, r, d2, e)
BY DEF Sound

LEMMA SoundMax ==
  ASSUME NEW r, NEW d, NEW e, NEW a \in Nat, NEW b \in Nat, Sound(a, r, d, e), Sound(b, r, d, e)
  PROVE  Sound(MaxOf(a, b), r, d, e)
BY DEF MaxOf

(* What a checkpoint covers is not in the log any more.                    *)
LEMMA SoundFloor ==
  ASSUME NEW r \in SrvType, NEW d, NEW e, NEW c \in Nat, Unwiped(e) => c <= r.ckpt, RoomTrue(r)
  PROVE  Sound(c, r, d, e)
<1>1. r.log \in Seq(Ids) /\ r.ckpt \in Nat
  BY DEF SrvType
<1>. QED
  BY <1>1 DEF Sound, Held, RoomTrue, Unwiped, Calm

LEMMA SoundZero ==
  ASSUME NEW r \in SrvType, NEW d, NEW e
  PROVE  Sound(0, r, d, e)
<1>1. r.log \in Seq(Ids) /\ r.ckpt \in Nat
  BY DEF SrvType
<1>. QED
  BY <1>1 DEF Sound, Held

(* The contiguity rule: the cursor takes in no row but seq.                *)
LEMMA SoundWalk ==
  ASSUME NEW r \in SrvType, NEW d, NEW e, NEW a \in Nat, NEW seq \in Nat, Sound(a, r, d, e),
         Unwiped(e) => seq \in DOMAIN r.log, Calm(e) => r.log[seq] \in d
  PROVE  Sound(Walk(a, seq), r, d, e)
<1>1. r.log \in Seq(Ids) /\ r.ckpt \in Nat
  BY DEF SrvType
<1>2. CASE Walk(a, seq) = a
  BY <1>2
<1>3. CASE Walk(a, seq) = seq /\ seq = a + 1
  <2>1. Unwiped(e) => seq <= Len(r.log)
    BY <1>1
  <2>2. Held(r, seq) \subseteq Held(r, a) \cup {r.log[seq]}
    BY <1>1, <1>3 DEF Held
  <2>. QED
    BY <1>3, <2>1, <2>2 DEF Sound
<1>. QED
  BY <1>2, <1>3 DEF Walk, IsGap, MaxOf

LEMMA SoundPlan ==
  ASSUME NEW r \in SrvType, NEW d, NEW e, NEW c \in Nat, NEW st \in StateFrame, NEW contained,
         Sound(c, r, d, e), RoomTrue(r), Unwiped(e) => st.seq <= r.ckpt
  PROVE  Sound(PlanCatchUp(c, st, contained).after, r, d, e)
<1>1. st.seq \in Nat /\ st.head \in Nat
  BY DEF StateFrame
<1>2. Sound(st.seq, r, d, e) /\ Sound(0, r, d, e)
  BY <1>1, SoundFloor, SoundZero
<1>3. PlanCatchUp(c, st, contained).after \in {0, c, st.seq, MaxOf(0, st.seq), MaxOf(c, st.seq)}
  BY DEF PlanCatchUp
<1>4. Sound(MaxOf(0, st.seq), r, d, e) /\ Sound(MaxOf(c, st.seq), r, d, e)
  BY <1>1, <1>2, SoundMax
<1>. QED
  BY <1>2, <1>3, <1>4

(* A plan made from a true state is within the room, whatever the cursor.  *)
LEMMA PlanWithin ==
  ASSUME NEW r \in SrvType, NEW c \in Nat, NEW st \in StateFrame, NEW contained,
         RoomTrue(r), st.seq <= r.ckpt, st.head <= Len(r.log)
  PROVE  PlanCatchUp(c, st, contained).after <= Len(r.log)
<1>1. st.seq \in Nat /\ st.head \in Nat /\ r.ckpt \in Nat /\ Len(r.log) \in Nat
  BY DEF StateFrame, SrvType
<1>. QED
  BY <1>1 DEF PlanCatchUp, MaxOf, RoomTrue

LEMMA SoundClamp ==
  ASSUME NEW r \in SrvType, NEW d, NEW e, NEW c \in Nat, NEW st \in StateFrame,
         Sound(c, r, d, e), RoomTrue(r), Unwiped(e) => st.seq <= r.ckpt
  PROVE  Clamp(c, st) \in Nat /\ Sound(Clamp(c, st), r, d, e)
<1>1. st.seq \in Nat
  BY DEF StateFrame
<1>2. Sound(st.seq, r, d, e) /\ Sound(0, r, d, e)
  BY <1>1, SoundFloor, SoundZero
<1>3. Clamp(c, st) \in {0, c, st.seq}
  BY DEF Clamp
<1>. QED
  BY <1>1, <1>2, <1>3

-----------------------------------------------------------------------------
(* The parts of the invariant stand while room and document grow.          *)

LEMMA RowOnward ==
  ASSUME NEW r \in SrvType, NEW d, NEW e, NEW r2 \in SrvType, NEW d2, NEW e2,
         Onward(r, d, e, r2, d2, e2), NEW row \in RowType, RowTrue(row, r, d, e)
  PROVE  RowTrue(row, r2, d2, e2)
<1>1. row.cur \in Nat
  BY DEF RowType
<1>2. Onward(r, d \cup {row.id}, e, r2, d2 \cup {row.id}, e2)
  BY OnwardWith
<1>3. Sound(row.cur, r2, d2 \cup {row.id}, e2)
  BY <1>1, <1>2, SoundOnward DEF RowTrue
<1>. QED
  BY <1>3 DEF RowTrue, Onward

LEMMA SessOnward ==
  ASSUME NEW r \in SrvType, NEW d, NEW e, NEW r2 \in SrvType, NEW d2, NEW e2,
         Onward(r, d, e, r2, d2, e2), NEW se \in SessType, SessTrue(se, r, d, e)
  PROVE  SessTrue(se, r2, d2, e2)
<1>1. se.row \in RowType /\ se.plan.after \in Nat /\ se.st.seq \in Nat
  BY DEF SessType, PlanType, StateFrame
<1>2. r.ckpt \in Nat /\ r2.ckpt \in Nat /\ Len(r.log) \in Nat /\ Len(r2.log) \in Nat
  BY DEF SrvType
<1>3. RowTrue(se.row, r2, d2, e2) /\ Sound(se.plan.after, r2, d2, e2)
  BY <1>1, RowOnward, SoundOnward DEF SessTrue
<1>4. se.st.seq <= r2.ckpt /\ se.plan.after <= Len(r2.log)
  BY <1>1, <1>2 DEF SessTrue, Onward
<1>. QED
  BY <1>3, <1>4 DEF SessTrue

LEMMA HttpOnward ==
  ASSUME NEW r \in SrvType, NEW d, NEW e, NEW r2 \in SrvType, NEW d2, NEW e2,
         Onward(r, d, e, r2, d2, e2), NEW h \in HttpType, HttpTrue(h, r, d, e)
  PROVE  HttpTrue(h, r2, d2, e2)
<1>. SUFFICES ASSUME Unwiped(e2)  PROVE HttpTrue(h, r2, d2, e2)
  BY DEF HttpTrue
<1>1. h.row \in RowType /\ h.plan.after \in Nat /\ h.st.seq \in Nat /\ h.cursor \in Nat
      /\ h.log \in Seq(Ids) /\ h.ack.seq \in Nat
  BY DEF HttpType, PlanType, StateFrame
<1>2. r.ckpt \in Nat /\ r2.ckpt \in Nat /\ r.log \in Seq(Ids) /\ r2.log \in Seq(Ids)
  BY DEF SrvType
<1>3. Unwiped(e)
  BY DEF Onward, Unwiped
<1>4. RowTrue(h.row, r2, d2, e2) /\ Sound(h.plan.after, r2, d2, e2) /\ Sound(h.cursor, r2, d2, e2)
  BY <1>1, <1>3, RowOnward, SoundOnward DEF HttpTrue
<1>5. h.st.seq <= r2.ckpt /\ Len(h.log) <= Len(r2.log)
  BY <1>1, <1>2, <1>3 DEF HttpTrue, Onward
<1>6. \A s \in DOMAIN h.log : r2.log[s] = h.log[s]
  BY <1>1, <1>2, <1>3 DEF HttpTrue, Onward
<1>7. h.phase = "acked" => h.ack.seq \in DOMAIN r2.log /\ r2.log[h.ack.seq] = h.ack.id
  BY <1>1, <1>2, <1>3 DEF HttpTrue, Onward
<1>. QED
  BY <1>4, <1>5, <1>6, <1>7 DEF HttpTrue

LEMMA FramesOnward ==
  ASSUME NEW r \in SrvType, NEW d, NEW e, NEW r2 \in SrvType, NEW d2, NEW e2,
         Onward(r, d, e, r2, d2, e2), NEW fs \in Seq(TrueFrames(r))
  PROVE  fs \in Seq(TrueFrames(r2))
<1>1. r.ckpt \in Nat /\ r2.ckpt \in Nat /\ r.log \in Seq(Ids) /\ r2.log \in Seq(Ids)
  BY DEF SrvType
<1>2. ASSUME NEW f \in TrueFrames(r)  PROVE f \in TrueFrames(r2)
  <2>1. f \in ServerFrame
    BY DEF TrueFrames
  <2>2. CASE f.k = "STATE"
    <3>1. f.head \in Nat /\ f.seq \in Nat
      BY <2>1, <2>2, FrameKinds DEF StateFrame
    <3>. QED
      BY <1>1, <2>2, <3>1 DEF TrueFrames, Onward
  <2>3. CASE f.k # "STATE"
    BY <1>1, <2>3 DEF TrueFrames, Onward
  <2>. QED
    BY <2>2, <2>3
<1>3. TrueFrames(r) \subseteq TrueFrames(r2)
  BY <1>2
<1>. QED
  BY <1>3, SeqMono

(* What the client and its socket held is true of the new room and document. *)
Forward == Onward(srv, Doc, env, srv', Doc', env')

LEMMA TalkOnward ==
  ASSUME WorldInv, TalkInv, WorldInv', TalkTrue, Forward
  PROVE  /\ s2c \in Seq(TrueFrames(srv'))
         /\ Sound(shared.cursor, srv', Doc', env')
         /\ SessTrue(sess, srv', Doc', env') /\ HttpTrue(http, srv', Doc', env')
         /\ SocketOnly(shared, sess, http, srv')
<1>1. srv \in SrvType /\ srv' \in SrvType /\ shared \in SharedType /\ sess \in SessType
      /\ http \in HttpType
  BY DEF WorldInv, TalkInv
<1>2. shared.cursor \in Nat /\ sess.row.cur \in Nat
  BY <1>1 DEF SharedType, SessType, RowType
<1>3. Len(srv.log) \in Nat /\ Len(srv'.log) \in Nat /\ Len(srv.log) <= Len(srv'.log)
  BY <1>1 DEF SrvType, Forward, Onward
<1>4. SocketOnly(shared, sess, http, srv')
  BY <1>2, <1>3 DEF TalkTrue, SocketOnly
<1>. QED
  BY <1>1, <1>2, <1>4, SoundOnward, SessOnward, HttpOnward, FramesOnward DEF TalkTrue, Forward

LEMMA SinkOnward ==
  ASSUME WorldInv, WorldInv', WorldTrue, Forward,
         sink'.pcur = sink.pcur, sink'.flush = sink.flush, sink'.saved = sink.saved
  PROVE  SinkTrue(sink', srv', Doc', env')
<1>1. srv \in SrvType /\ srv' \in SrvType /\ sink.pcur \in Nat /\ sink.flush.cur \in Nat
      /\ sink.saved.cur \in Nat
  BY DEF WorldInv, SinkType
<1>2. Onward(srv, sink.saved.got, env, srv', sink.saved.got, env')
  BY DEF Forward, Onward
<1>3. Sound(sink.saved.cur, srv', sink.saved.got, env')
  BY <1>1, <1>2, SoundOnward DEF WorldTrue, SinkTrue
<1>4. Sound(sink.pcur, srv', Doc', env') /\ Sound(sink.flush.cur, srv', Doc', env')
  BY <1>1, SoundOnward DEF WorldTrue, SinkTrue, Forward
<1>. QED
  BY <1>3, <1>4 DEF SinkTrue

(* A step that neither the room nor the document feels.                    *)
SameWorld ==
  /\ UNCHANGED <<srv, needs, issued>> /\ env'.wipes = env.wipes /\ env'.crashes = env.crashes
  /\ sink'.got = sink.got

LEMMA SameWorldForward ==
  ASSUME WorldInv, SameWorld
  PROVE  Forward /\ Doc' = Doc
<1>1. Doc' = Doc
  BY DEF SameWorld, Doc, Visible
<1>2. srv.ckpt \in Nat /\ Len(srv.log) \in Nat
  BY DEF WorldInv, SrvType
<1>. QED
  BY <1>1, <1>2 DEF Forward, Onward, SameWorld

LEMMA SameWorldTrue ==
  ASSUME WorldInv, WorldTrue, SameWorld, SinkTrue(sink', srv', Doc', env')
  PROVE  WorldTrue'
<1>1. Doc' = Doc
  BY SameWorldForward
<1>. QED
  BY <1>1 DEF WorldTrue, SameWorld, DocTrue, Calm

LEMMA SameCursorsTrue ==
  ASSUME WorldInv, WorldInv', WorldTrue, SameWorld,
         sink'.pcur = sink.pcur, sink'.flush = sink.flush, sink'.saved = sink.saved
  PROVE  WorldTrue'
BY SameWorldForward, SameWorldTrue, SinkOnward

LEMMA EnvCounts ==
  ASSUME WorldInv
  PROVE  /\ UNCHANGED env => env'.wipes = env.wipes /\ env'.crashes = env.crashes
         /\ DiskFault => env'.wipes = env.wipes /\ env'.crashes = env.crashes
         /\ env' = [env EXCEPT !.drops = @ + 1] => env'.wipes = env.wipes /\ env'.crashes = env.crashes
BY DEF WorldInv, EnvType, DiskFault

-----------------------------------------------------------------------------
(* A session that ends, and a turn that goes on.                           *)

(* What the invariant says of a cycle depends on these parts of it alone.  *)
SameCycle(h, h2) ==
  /\ h2.cursor = h.cursor /\ h2.plan = h.plan /\ h2.row = h.row /\ h2.st = h.st /\ h2.log = h.log
  /\ h2.phase = "acked" => h.phase = "acked" /\ h2.ack = h.ack

LEMMA HttpSame ==
  ASSUME NEW h, NEW h2, SameCycle(h, h2), NEW r, NEW d, NEW e, HttpTrue(h, r, d, e)
  PROVE  HttpTrue(h2, r, d, e)
BY DEF SameCycle, HttpTrue

LEMMA NoRowTrue ==
  ASSUME NEW r \in SrvType, NEW d, NEW e
  PROVE  RowTrue(NoRow, r, d, e) /\ Sound(NoPlan.after, r, d, e)
<1>1. NoRow.id = Base /\ NoRow.cur = 0 /\ NoPlan.after = 0
  BY DEF NoRow, NoPlan
<1>. QED
  BY <1>1, SoundZero DEF RowTrue

LEMMA FreshCycle ==
  ASSUME NEW r \in SrvType, NEW d, NEW e, NEW h, h.cursor = 0, h.plan = NoPlan, h.row = NoRow,
         h.st = NoState, h.log = <<>>, h.phase # "acked"
  PROVE  HttpTrue(h, r, d, e)
<1>1. r.ckpt \in Nat /\ Len(r.log) \in Nat
  BY DEF SrvType
<1>2. NoState.seq = 0
  BY DEF NoState
<1>. QED
  BY <1>1, <1>2, NoRowTrue, SoundZero DEF HttpTrue

LEMMA SpawnTrue ==
  ASSUME NEW r \in SrvType, NEW d, NEW e, NEW h, HttpTrue(h, r, d, e), NEW pending
  PROVE  HttpTrue(SpawnHttp(h, pending), r, d, e)
<1>. DEFINE fresh == [IdleHttp EXCEPT !.phase = "push", !.todo = pending]
<1>1. HttpTrue(fresh, r, d, e)
  BY FreshCycle DEF IdleHttp
<1>. QED
  BY <1>1 DEF SpawnHttp

LEMMA NewSessTrue ==
  ASSUME NEW r \in SrvType, NEW d, NEW e, NEW se, se.st = NoState, se.plan = NoPlan, se.row = NoRow
  PROVE  SessTrue(se, r, d, e)
<1>1. r.ckpt \in Nat /\ Len(r.log) \in Nat /\ NoState.seq = 0 /\ NoPlan.after = 0
  BY DEF SrvType, NoState, NoPlan
<1>. QED
  BY <1>1, NoRowTrue DEF SessTrue

LEMMA EndSessionCursor ==
  ASSUME NEW sh \in SharedType, NEW h \in HttpType, EndSession(sh, h), srv' \in SrvType, WorldTrue',
         Sound(sh.cursor, srv', Doc', env'), HttpTrue(h, srv', Doc', env'),
         ~HttpOn => h.phase = "idle" /\ h.row = NoRow
  PROVE  CursorInv'
<1>1. shared'.cursor = sh.cursor
  BY DEF EndSession, SharedType
<1>2. sess'.phase = "down" /\ sess'.st = NoState /\ sess'.plan = NoPlan /\ sess'.row = NoRow
  BY DEF EndSession, NewSess
<1>3. HttpTrue(http', srv', Doc', env') /\ (~HttpOn => http'.phase = "idle" /\ http'.row = NoRow)
  <2>. DEFINE joined == sess.phase \notin {"down", "hello"}
              h1 == [h EXCEPT !.epochSame = @ /\ ~joined]
  <2>1. http' = SpawnHttp(h1, sh.pending)
    BY DEF EndSession
  <2>2. SameCycle(h, h1) /\ h1.phase = h.phase /\ h1.row = h.row
    BY DEF HttpType, SameCycle
  <2>. HIDE DEF h1
  <2>3. HttpTrue(h1, srv', Doc', env')
    BY <2>2, HttpSame
  <2>4. HttpTrue(SpawnHttp(h1, sh.pending), srv', Doc', env')
    BY <2>3, SpawnTrue
  <2>. QED
    BY <2>1, <2>2, <2>4 DEF SpawnHttp
<1>4. SessTrue(sess', srv', Doc', env')
  BY <1>2, NewSessTrue
<1>5. SocketOnly(shared', sess', http', srv')
  <2>1. NoRow.cur = 0 /\ Len(srv'.log) \in Nat
    BY DEF NoRow, SrvType
  <2>. QED
    BY <1>2, <1>3, <2>1 DEF SocketOnly, Planned
<1>6. s2c' \in Seq(TrueFrames(srv'))
  BY DEF EndSession
<1>. QED
  BY <1>1, <1>2, <1>3, <1>4, <1>5, <1>6 DEF CursorInv, TalkTrue

LEMMA FinishCursor ==
  ASSUME NEW t \in TurnType, NEW h \in HttpType, NEW rest \in Seq(TrueFrames(srv')), Finish(t, h, rest),
         srv' \in SrvType, WorldTrue', sink'.slot # "none",
         Sound(t.sh.cursor, srv', Doc', env'), SessTrue(t.se, srv', Doc', env'),
         HttpTrue(h, srv', Doc', env'), SocketOnly(t.sh, t.se, h, srv')
  PROVE  CursorInv'
<1>1. CASE t.ok
  <2>1. shared' = t.sh /\ sess' = t.se /\ http' = h /\ s2c' = rest
    BY <1>1 DEF Finish
  <2>. QED
    BY <2>1 DEF CursorInv, TalkTrue
<1>2. CASE ~t.ok
  <2>1. EndSession(t.sh, h) /\ t.sh \in SharedType
    BY <1>2 DEF Finish, TurnType
  <2>. QED
    BY <2>1, EndSessionCursor DEF SocketOnly
<1>. QED
  BY <1>1, <1>2 DEF TurnType

(* What a turn sends and counts is not what the invariant speaks of.       *)
SameCourse(se, se2) ==
  se2.phase = se.phase /\ se2.st = se.st /\ se2.plan = se.plan /\ se2.row = se.row
SameTurn(t, t2) == t2.sh.cursor = t.sh.cursor /\ SameCourse(t.se, t2.se)

LEMMA SessSame ==
  ASSUME NEW se, NEW se2, SameCourse(se, se2), NEW sh, NEW sh2, sh2.cursor = sh.cursor,
         NEW r, NEW d, NEW e, NEW h
  PROVE  /\ SessTrue(se, r, d, e) => SessTrue(se2, r, d, e)
         /\ SocketOnly(sh, se, h, r) => SocketOnly(sh2, se2, h, r)
BY DEF SameCourse, SessTrue, SocketOnly

LEMMA TurnsAreSame ==
  ASSUME NEW t \in TurnType
  PROVE  SameTurn(t, RepairGap(t)) /\ SameTurn(t, SendRefresh(t)) /\ SameTurn(t, PushPending(t))
<1>1. SameTurn(t, RepairGap(t))
  BY DEF SameTurn, SameCourse, RepairGap, TurnType, SharedType, SessType
<1>2. SameTurn(t, SendRefresh(t))
  BY DEF SameTurn, SameCourse, SendRefresh, TurnType, SharedType, SessType
<1>3. SameTurn(t, PushPending(t))
  <2>1. Saved(t.sh, ToPush(t.sh, t.se.inFlight)).cursor = t.sh.cursor
    BY DEF Saved, TurnType, SharedType
  <2>. QED
    BY <2>1 DEF SameTurn, SameCourse, PushPending, TurnType, SessType
<1>. QED
  BY <1>1, <1>2, <1>3

LEMMA AfterFrameCursor ==
  ASSUME NEW sh \in SharedType, NEW se \in SessType, NEW h \in HttpType,
         NEW rest \in Seq(TrueFrames(srv')), AfterFrame(sh, se, h, rest),
         srv' \in SrvType, WorldTrue', sink'.slot # "none",
         Sound(sh.cursor, srv', Doc', env'), SessTrue(se, srv', Doc', env'),
         HttpTrue(h, srv', Doc', env'), SocketOnly(sh, se, h, srv')
  PROVE  CursorInv'
<1>. DEFINE t0 == Turn(sh, se)
            t1 == RepairGap(t0)
            t  == IF se.phase = "steady" THEN SendRefresh(t1) ELSE t0
<1>1. t0 \in TurnType /\ t0.sh = sh /\ t0.se = se
  BY TurnIsTurn DEF Turn
<1>2. t1 \in TurnType /\ SameTurn(t0, t1)
  <2>. HIDE DEF t0
  <2>. QED  BY <1>1, RepairGapType, TurnsAreSame
<1>3. t \in TurnType /\ SameTurn(t0, t)
  <2>. HIDE DEF t0, t1
  <2>1. SendRefresh(t1) \in TurnType /\ SameTurn(t1, SendRefresh(t1))
    BY <1>2, SendRefreshType, TurnsAreSame
  <2>. QED  BY <1>1, <1>2, <2>1 DEF SameTurn, SameCourse
<1>4. Finish(t, h, rest)
  BY DEF AfterFrame
<1>. HIDE DEF t, t0
<1>5. SessTrue(t.se, srv', Doc', env') /\ SocketOnly(t.sh, t.se, h, srv')
      /\ Sound(t.sh.cursor, srv', Doc', env')
  BY <1>1, <1>3, SessSame DEF SameTurn
<1>. QED
  BY <1>3, <1>4, <1>5, FinishCursor

-----------------------------------------------------------------------------
(* The steps that move no cursor.                                          *)

SameCursors == sink'.pcur = sink.pcur /\ sink'.flush = sink.flush /\ sink'.saved = sink.saved

(* What the talk of the last state is worth in the next one.               *)
StillTrue ==
  /\ s2c \in Seq(TrueFrames(srv'))
  /\ Sound(shared.cursor, srv', Doc', env')
  /\ SessTrue(sess, srv', Doc', env') /\ HttpTrue(http, srv', Doc', env')
  /\ SocketOnly(shared, sess, http, srv')

LEMMA Standing ==
  ASSUME WorldInv, TalkInv, WorldInv', CursorInv, SameWorld
  PROVE  StillTrue /\ Doc' = Doc /\ (SameCursors => WorldTrue')
<1>1. Forward /\ Doc' = Doc
  BY SameWorldForward
<1>2. StillTrue
  BY <1>1, TalkOnward DEF CursorInv, StillTrue
<1>3. SameCursors => WorldTrue'
  BY SameCursorsTrue DEF CursorInv, SameCursors
<1>. QED
  BY <1>1, <1>2, <1>3

LEMMA QuietCursor ==
  ASSUME WorldInv, TalkInv, WorldInv', CursorInv, SameWorld, SameCursors,
         sink'.slot = "none" => sess'.phase = "down",
         shared'.cursor = shared.cursor, SameCourse(sess, sess'),
         SameCycle(http, http') \/ HttpTrue(http', srv', Doc', env'),
         ~HttpOn => http'.phase = "idle" /\ http'.row = NoRow,
         s2c' \in Seq(TrueFrames(srv))
  PROVE  CursorInv'
<1>1. StillTrue /\ WorldTrue'
  BY Standing
<1>2. HttpTrue(http', srv', Doc', env')
  BY <1>1, HttpSame DEF StillTrue
<1>3. SessTrue(sess', srv', Doc', env') /\ SocketOnly(shared', sess', http, srv')
  BY <1>1, SessSame DEF StillTrue
<1>4. SocketOnly(shared', sess', http', srv')
  BY <1>3 DEF SocketOnly
<1>5. s2c' \in Seq(TrueFrames(srv'))
  BY DEF SameWorld
<1>. QED
  BY <1>1, <1>2, <1>3, <1>4, <1>5 DEF CursorInv, TalkTrue, StillTrue

(* A frame that says what the room is may be sent.                         *)
LEMMA SendTrue ==
  ASSUME NEW r, NEW fs \in Seq(TrueFrames(r)), NEW f \in TrueFrames(r)
  PROVE  Append(fs, f) \in Seq(TrueFrames(r))
BY AppendProperties

LEMMA ReadTrue ==
  ASSUME NEW r, NEW fs \in Seq(TrueFrames(r)), fs # <<>>
  PROVE  Head(fs) \in TrueFrames(r) /\ Tail(fs) \in Seq(TrueFrames(r))
BY HeadTailProperties

LEMMA StateIsTrue ==
  ASSUME WorldInv, RoomTrue(srv)
  PROVE  StateOf(srv) \in StateFrame /\ StateOf(srv) \in TrueFrames(srv)
<1>1. srv.log \in Seq(Ids) /\ srv.on \in BOOLEAN /\ srv.ckpt \in Nat /\ srv.ids \in SUBSET Items
      /\ Len(srv.log) \in Nat
  BY DEF WorldInv, SrvType
<1>2. StateOf(srv) \in StateFrame
  BY <1>1 DEF StateOf, StateFrame
<1>3. StateOf(srv).head = Len(srv.log) /\ StateOf(srv).seq = srv.ckpt /\ StateOf(srv).k = "STATE"
  BY DEF StateOf
<1>. QED
  BY <1>1, <1>2, <1>3 DEF TrueFrames, ServerFrame

LEMMA ServeCursor ==
  ASSUME WorldInv, TalkInv, WorldInv', TalkInv', CursorInv, ServeHello \/ ServeRows
  PROVE  CursorInv'
<1>1. SameWorld /\ SameCursors /\ UNCHANGED <<sink, shared, sess, http>>
  BY DEF ServeHello, ServeRows, SameWorld, SameCursors
<1>2. s2c' \in Seq(TrueFrames(srv))
  <2>1. CASE ServeHello
    BY <2>1, StateIsTrue, SendTrue DEF ServeHello, CursorInv, TalkTrue, WorldTrue
  <2>2. CASE ServeRows
    <3>. DEFINE f == [k |-> "ROWS", next |-> MaxOf(Head(c2s).after, srv.ckpt) + 1,
                      head |-> Len(srv.log), ex |-> Head(c2s).ex]
    <3>1. s2c' = Append(s2c, f)
      BY <2>2 DEF ServeRows
    <3>3. Head(c2s) \in ClientFrame /\ Head(c2s).k = "ROWS_REQ"
      BY <2>2 DEF ServeRows, TalkInv
    <3>4. Head(c2s).after \in Nat /\ Head(c2s).ex \in BOOLEAN
      BY <3>3, PushKind
    <3>5. srv.ckpt \in Nat /\ Len(srv.log) \in Nat
      BY DEF WorldInv, SrvType
    <3>2. MaxOf(Head(c2s).after, srv.ckpt) \in Nat
      BY <3>4, <3>5, MaxOfNat
    <3>6. MaxOf(Head(c2s).after, srv.ckpt) + 1 \in Nat \ {0}
      BY <3>2
    <3>7. f \in RowsFrame /\ f.k = "ROWS"
      BY <3>4, <3>5, <3>6 DEF RowsFrame
    <3>8. f \in TrueFrames(srv)
      <4>. HIDE DEF f
      <4>. QED  BY <3>7 DEF TrueFrames, ServerFrame
    <3>. HIDE DEF f
    <3>. QED
      BY <3>1, <3>8, SendTrue DEF CursorInv, TalkTrue
  <2>. QED
    BY <2>1, <2>2
<1>. QED
  BY <1>1, <1>2, QuietCursor DEF SameCourse, SameCycle, CursorInv, TalkTrue, SocketOnly

LEMMA QuietTalkCursor ==
  ASSUME WorldInv, TalkInv, WorldInv', TalkInv', CursorInv,
         \/ HandOver \/ Handed \/ GoLive \/ SkipStale \/ DialFail
         \/ RequestCatchUp \/ Probe \/ Redial \/ HttpPersist \/ HttpFail \/ HttpDone
  PROVE  CursorInv'
<1>1. sink \in SinkType /\ shared \in SharedType /\ http \in HttpType /\ env \in EnvType
  BY DEF WorldInv, TalkInv
<1>2. SameWorld /\ SameCursors
  <2>1. CASE HandOver
    <3>. DEFINE b == Least(sink.unsent)
    <3>1. UNCHANGED <<srv, needs, issued>>
      BY <2>1 DEF HandOver
    <3>2. env' = env \/ env' = [env EXCEPT !.disk = @ + 1]
      BY <2>1 DEF HandOver, Attempt, DiskFault
    <3>3. PICK written \in BOOLEAN :
            sink' = [sink EXCEPT !.slot = "handing", !.unsent = @ \ {b},
                                 !.hand = [ids |-> {b}, durable |-> written],
                                 !.outbox = IF written THEN @ \cup {b} ELSE @]
      BY <2>1 DEF HandOver
    <3>. HIDE DEF b
    <3>4. sink'.got = sink.got /\ SameCursors
      BY <1>1, <3>3 DEF SameCursors, SinkType
    <3>. QED
      BY <1>1, <3>1, <3>2, <3>4 DEF SameWorld, EnvType
  <2>2. CASE Handed \/ GoLive
    BY <1>1, <2>2 DEF Handed, GoLive, SameWorld, SameCursors, SinkType
  <2>3. CASE SkipStale \/ RequestCatchUp \/ HttpDone
    BY <2>3 DEF SkipStale, RequestCatchUp, HttpDone, SameWorld, SameCursors
  <2>4. CASE DialFail \/ HttpFail
    <3>1. UNCHANGED <<srv, needs, issued, sink>> /\ env' = [env EXCEPT !.drops = @ + 1]
      BY <2>4 DEF DialFail, HttpFail
    <3>. QED
      BY <1>1, <3>1 DEF SameWorld, SameCursors, EnvType
  <2>5. CASE Probe \/ Redial
    <3>1. UNCHANGED <<srv, needs, issued, sink>> /\ env' = [env EXCEPT !.hints = @ + 1]
      BY <2>5 DEF Probe, Redial
    <3>. QED
      BY <1>1, <3>1 DEF SameWorld, SameCursors, EnvType
  <2>6. CASE HttpPersist
    BY <1>1, <2>6 DEF HttpPersist, DiskFault, SameWorld, SameCursors, SinkType, EnvType
  <2>. QED
    BY <2>1, <2>2, <2>3, <2>4, <2>5, <2>6
<1>3. shared'.cursor = shared.cursor
  <2>1. CASE HandOver \/ GoLive \/ SkipStale \/ DialFail \/ Redial
    BY <2>1 DEF HandOver, GoLive, SkipStale, DialFail, Redial
  <2>2. CASE Handed
    BY <1>1, <2>2 DEF Handed, EnqueueBatch, SharedType
  <2>3. CASE RequestCatchUp \/ Probe \/ HttpFail
    BY <1>1, <2>3 DEF RequestCatchUp, Probe, HttpFail, SharedType
  <2>4. CASE HttpPersist
    BY <1>1, <2>4 DEF HttpPersist, Saved, SharedType
  <2>5. CASE HttpDone
    BY <1>1, <2>5 DEF HttpDone, Certified, SharedType
  <2>. QED
    BY <2>1, <2>2, <2>3, <2>4, <2>5
<1>4. UNCHANGED sess
  BY DEF HandOver, Handed, GoLive, SkipStale, DialFail, RequestCatchUp, Probe, Redial,
     HttpPersist, HttpFail, HttpDone
<1>5. sink'.slot = "none" => sess.phase = "down"
  <2>1. CASE HandOver \/ GoLive
    BY <1>1, <2>1 DEF HandOver, GoLive, SinkType
  <2>2. CASE ~(HandOver \/ GoLive)
    <3>1. sink'.slot = sink.slot
      BY <1>1, <2>2 DEF Handed, SkipStale, DialFail, RequestCatchUp, Probe, Redial,
         HttpPersist, HttpFail, HttpDone, SinkType
    <3>. QED
      BY <3>1 DEF CursorInv
  <2>. QED
    BY <2>1, <2>2
<1>6. s2c' \in Seq(TrueFrames(srv))
  <2>1. CASE SkipStale
    BY <2>1, ReadTrue DEF SkipStale, CursorInv, TalkTrue
  <2>2. CASE ~SkipStale
    <3>1. UNCHANGED s2c
      BY <2>2 DEF HandOver, Handed, GoLive, DialFail, RequestCatchUp, Probe, Redial, HttpPersist,
         HttpFail, HttpDone
    <3>. QED
      BY <3>1 DEF CursorInv, TalkTrue
  <2>. QED
    BY <2>1, <2>2
<1>7. StillTrue /\ srv' \in SrvType
  BY <1>2, Standing DEF WorldInv
<1>8. SameCycle(http, http') \/ HttpTrue(http', srv', Doc', env')
  <2>1. CASE HandOver \/ Handed \/ GoLive \/ SkipStale \/ RequestCatchUp \/ Redial
    BY <2>1 DEF HandOver, Handed, GoLive, SkipStale, RequestCatchUp, Redial, SameCycle
  <2>2. CASE Probe
    BY <1>1, <2>2 DEF Probe, SameCycle, HttpType
  <2>3. CASE HttpPersist
    <3>1. http' = [http EXCEPT !.phase = "capture", !.todo = {}] \/ http' = [http EXCEPT !.phase = "post"]
      BY <2>3 DEF HttpPersist
    <3>. QED
      BY <1>1, <3>1 DEF SameCycle, HttpType
  <2>4. CASE DialFail
    BY <1>7, <2>4, SpawnTrue DEF DialFail, StillTrue
  <2>5. CASE HttpFail \/ HttpDone
    <3>1. http' = IdleHttp
      BY <2>5 DEF HttpFail, HttpDone
    <3>. QED
      BY <1>7, <3>1, FreshCycle DEF IdleHttp
  <2>. QED
    BY <2>1, <2>2, <2>3, <2>4, <2>5
<1>9. ~HttpOn => http'.phase = "idle" /\ http'.row = NoRow
  <2>. SUFFICES ASSUME ~HttpOn  PROVE http'.phase = "idle" /\ http'.row = NoRow
    OBVIOUS
  <2>1. http.phase = "idle" /\ http.row = NoRow
    BY DEF CursorInv, TalkTrue, SocketOnly
  <2>. QED
    BY <1>1, <2>1 DEF HandOver, Handed, GoLive, SkipStale, DialFail, RequestCatchUp, Probe, Redial,
       HttpPersist, HttpFail, HttpDone, HttpType
<1>. QED
  BY <1>2, <1>3, <1>4, <1>5, <1>6, <1>8, <1>9, QuietCursor DEF SameCourse

(* The cycle looks at the room.                                            *)
LEMMA HttpLooksCursor ==
  ASSUME WorldInv, TalkInv, WorldInv', TalkInv', CursorInv, HttpCapture \/ HttpServe
  PROVE  CursorInv'
<1>1. shared \in SharedType /\ http \in HttpType
  BY DEF TalkInv
<1>2. SameWorld /\ SameCursors /\ UNCHANGED <<sess, s2c, srv, sink>>
  BY DEF HttpCapture, HttpServe, SameWorld, SameCursors
<1>3. StillTrue /\ RoomTrue(srv) /\ srv' \in SrvType
  BY <1>2, Standing DEF CursorInv, WorldTrue, WorldInv
<1>4. shared'.cursor = shared.cursor
  BY <1>1 DEF HttpCapture, HttpServe, SharedType
<1>5. http.phase # "idle" /\ HttpOn
  BY DEF HttpCapture, HttpServe, CursorInv, TalkTrue, SocketOnly
<1>6. HttpTrue(http', srv', Doc', env')
  <2>1. CASE HttpCapture
    <3>1. http'.cursor = shared.cursor /\ http'.phase = "get" /\ http'.plan = http.plan
          /\ http'.row = http.row /\ http'.st = http.st /\ http'.log = http.log
      BY <1>1, <2>1 DEF HttpCapture, HttpType
    <3>. QED
      BY <1>3, <3>1 DEF StillTrue, HttpTrue
  <2>2. CASE HttpServe
    <3>1. http'.cursor = http.cursor /\ http'.phase = "answer" /\ http'.plan = http.plan
          /\ http'.row = http.row /\ http'.st = StateOf(srv) /\ http'.log = srv.log
      BY <1>1, <2>2 DEF HttpServe, HttpType
    <3>2. StateOf(srv).seq = srv.ckpt /\ srv.ckpt \in Nat /\ Len(srv.log) \in Nat
      BY DEF StateOf, WorldInv, SrvType
    <3>. QED
      BY <1>2, <1>3, <3>1, <3>2 DEF StillTrue, HttpTrue
  <2>. QED
    BY <2>1, <2>2
<1>. QED
  BY <1>2, <1>4, <1>5, <1>6, QuietCursor DEF SameCourse, CursorInv, TalkTrue

-----------------------------------------------------------------------------
(* The room grows.                                                         *)

LEMMA GrownLog ==
  ASSUME WorldInv, RoomTrue(srv), NEW b \in Ids,
         srv' = [srv EXCEPT !.log = Append(srv.log, b), !.used = srv.used \cup {b}]
  PROVE  /\ RoomTrue(srv') /\ srv.ckpt = srv'.ckpt /\ Len(srv'.log) = Len(srv.log) + 1
         /\ srv'.log[Len(srv.log) + 1] = b /\ srv'.used = srv.used \cup {b}
         /\ \A s \in DOMAIN srv.log : srv'.log[s] = srv.log[s]
<1>1. srv.log \in Seq(Ids) /\ srv.ckpt \in Nat /\ Len(srv.log) \in Nat
  BY DEF WorldInv, SrvType
<1>2. srv'.log = Append(srv.log, b) /\ srv'.ckpt = srv.ckpt /\ srv'.used = srv.used \cup {b}
      /\ srv'.ids = srv.ids
  BY DEF WorldInv, SrvType
<1>3. Len(srv'.log) = Len(srv.log) + 1 /\ srv'.log[Len(srv.log) + 1] = b
      /\ \A s \in DOMAIN srv.log : srv'.log[s] = srv.log[s]
  BY <1>1, <1>2, AppendProperties
<1>. QED
  BY <1>1, <1>2, <1>3 DEF RoomTrue

(* The document stands still while a row is added.                         *)
LEMMA GrownRoom ==
  ASSUME WorldInv, TalkInv, WorldInv', CursorInv, RoomTrue(srv'), UNCHANGED issued,
         env'.wipes = env.wipes, env'.crashes = env.crashes, UNCHANGED sink,
         srv.ckpt <= srv'.ckpt, Len(srv.log) <= Len(srv'.log), srv.used \subseteq srv'.used,
         \A s \in DOMAIN srv.log : srv'.log[s] = srv.log[s],
         Calm(env) => Doc' = Doc
  PROVE  WorldTrue' /\ StillTrue
<1>1. Forward
  BY DEF Forward, Onward
<1>2. StillTrue
  BY <1>1, TalkOnward DEF CursorInv, StillTrue
<1>3. SinkTrue(sink', srv', Doc', env')
  BY <1>1, SinkOnward DEF CursorInv
<1>4. DocTrue(sink.got, Doc', srv', issued, env')
  BY DEF CursorInv, WorldTrue, DocTrue, Calm
<1>. QED
  BY <1>2, <1>3, <1>4 DEF WorldTrue

LEMMA AckIsTrue ==
  ASSUME NEW r \in SrvType, NEW b \in Own, b \in Rows(r.log)
  PROVE  [k |-> "ACK", id |-> b, seq |-> PosIn(r.log, b)] \in TrueFrames(r)
<1>. DEFINE S == {s \in DOMAIN r.log : r.log[s] = b}
            f == [k |-> "ACK", id |-> b, seq |-> PosIn(r.log, b)]
<1>1. S \in SUBSET Nat /\ S # {}
  BY DEF Rows, SrvType
<1>2. Least(S) \in S
  <2>. HIDE DEF S
  <2>. QED  BY <1>1, LeastIsMember
<1>3. PosIn(r.log, b) \in DOMAIN r.log /\ r.log[PosIn(r.log, b)] = b /\ PosIn(r.log, b) \in Nat
  BY <1>1, <1>2 DEF PosIn
<1>4. f \in AckFrame
  BY <1>3 DEF AckFrame
<1>. QED
  BY <1>3, <1>4 DEF TrueFrames, ServerFrame

LEMMA LastIsTrue ==
  ASSUME NEW r \in SrvType, NEW n \in Nat, n \in DOMAIN r.log, NEW b \in Ids, r.log[n] = b
  PROVE  /\ [k |-> "ROW", id |-> b, seq |-> n] \in TrueFrames(r)
         /\ b \in Own => [k |-> "ACK", id |-> b, seq |-> n] \in TrueFrames(r)
<1>1. [k |-> "ROW", id |-> b, seq |-> n] \in RowFrame
  BY DEF RowFrame
<1>2. b \in Own => [k |-> "ACK", id |-> b, seq |-> n] \in AckFrame
  BY DEF AckFrame
<1>. QED
  BY <1>1, <1>2 DEF TrueFrames, ServerFrame

LEMMA ErrorIsTrue ==
  ASSUME NEW r, NEW b \in Own
  PROVE  [k |-> "QUOTA"] \in TrueFrames(r) /\ [k |-> "REJECT", id |-> b] \in TrueFrames(r)
<1>1. [k |-> "QUOTA"] \in ErrorFrame /\ [k |-> "REJECT", id |-> b] \in ErrorFrame
  BY DEF ErrorFrame
<1>. QED
  BY <1>1 DEF TrueFrames, ServerFrame

LEMMA ServePushCursor ==
  ASSUME WorldInv, TalkInv, WorldInv', TalkInv', CursorInv, ServePush
  PROVE  CursorInv'
<1>. DEFINE b == Least(Head(c2s).ids)
<1>1. UNCHANGED <<needs, shared, sess, http, sink, issued, env>> /\ RoomTrue(srv)
      /\ s2c \in Seq(TrueFrames(srv)) /\ srv \in SrvType /\ srv' \in SrvType
  BY DEF ServePush, CursorInv, WorldTrue, TalkTrue, WorldInv
<1>2. b \in Own /\ b \in Ids
  <2>1. Head(c2s) \in ClientFrame /\ Head(c2s).k = "PUSH"
    BY DEF ServePush, TalkInv
  <2>. QED
    BY <2>1, PushKind, LeastOwn DEF Ids
<1>3. Doc' = Doc
  BY <1>1 DEF Doc
<1>. HIDE DEF b
<1>4. CASE /\ UNCHANGED srv
           /\ \/ /\ b \in Rows(srv.log)
                 /\ s2c' = Append(s2c, [k |-> "ACK", id |-> b, seq |-> PosIn(srv.log, b)])
              \/ s2c' = Append(s2c, [k |-> "REJECT", id |-> b])
  <2>1. s2c' \in Seq(TrueFrames(srv))
    BY <1>1, <1>2, <1>4, AckIsTrue, ErrorIsTrue, SendTrue
  <2>. QED
    BY <1>1, <1>4, <2>1, QuietCursor
    DEF SameWorld, SameCursors, SameCourse, SameCycle, CursorInv, TalkTrue, SocketOnly
<1>5. CASE srv' = [srv EXCEPT !.quota = @ - 1] /\ s2c' = Append(s2c, [k |-> "QUOTA"])
  <2>1. srv'.log = srv.log /\ srv'.ckpt = srv.ckpt /\ srv'.ids = srv.ids /\ srv'.used = srv.used
    BY <1>1, <1>5 DEF SrvType
  <2>2. RoomTrue(srv') /\ srv.ckpt <= srv'.ckpt /\ Len(srv.log) <= Len(srv'.log)
    BY <1>1, <2>1 DEF RoomTrue, SrvType
  <2>3. WorldTrue' /\ StillTrue
    BY <1>1, <1>3, <2>1, <2>2, GrownRoom
  <2>4. s2c' \in Seq(TrueFrames(srv'))
    BY <1>2, <1>5, <2>3, ErrorIsTrue, SendTrue DEF StillTrue
  <2>. QED
    BY <1>1, <2>3, <2>4 DEF CursorInv, TalkTrue, StillTrue
<1>6. CASE srv' = [srv EXCEPT !.log = Append(@, b), !.used = @ \cup {b}]
           /\ s2c' = Append(s2c, [k |-> "ACK", id |-> b, seq |-> Len(srv.log) + 1])
  <2>0. srv' = [srv EXCEPT !.log = Append(srv.log, b), !.used = srv.used \cup {b}]
        /\ Len(srv.log) \in Nat /\ srv.ckpt \in Nat
    BY <1>1, <1>6 DEF SrvType
  <2>1. /\ RoomTrue(srv') /\ srv.ckpt = srv'.ckpt /\ Len(srv'.log) = Len(srv.log) + 1
        /\ srv'.log[Len(srv.log) + 1] = b /\ srv'.used = srv.used \cup {b}
        /\ \A s \in DOMAIN srv.log : srv'.log[s] = srv.log[s]
    BY <1>1, <1>2, <2>0, GrownLog
  <2>2. WorldTrue' /\ StillTrue
    BY <1>1, <1>3, <2>0, <2>1, GrownRoom
  <2>3. Len(srv.log) + 1 \in DOMAIN srv'.log
    BY <1>1, <2>0, <2>1 DEF SrvType
  <2>4. s2c' \in Seq(TrueFrames(srv'))
    <3>1. [k |-> "ACK", id |-> b, seq |-> Len(srv.log) + 1] \in TrueFrames(srv')
      <4>. DEFINE n == Len(srv.log) + 1
      <4>1. n \in Nat /\ n \in DOMAIN srv'.log /\ srv'.log[n] = b
        BY <2>0, <2>1, <2>3
      <4>. HIDE DEF n
      <4>2. [k |-> "ACK", id |-> b, seq |-> n] \in TrueFrames(srv')
        BY <1>1, <1>2, <4>1, LastIsTrue
      <4>. QED
        BY <4>2 DEF n
    <3>. QED
      BY <1>6, <2>2, <3>1, SendTrue DEF StillTrue
  <2>. QED
    BY <1>1, <2>2, <2>4 DEF CursorInv, TalkTrue, StillTrue
<1>. QED
  BY <1>4, <1>5, <1>6 DEF ServePush, b

(* What another device writes is not in the document yet.                  *)
LEMMA RemoteAppendDoc ==
  ASSUME WorldInv, CursorInv, Calm(env), NEW r \in Remote, NEW kind \in Kinds, RemoteAppend(r, kind)
  PROVE  Doc' = Doc /\ r \notin sink.got
<1>1. UNCHANGED sink /\ r \in Ids /\ r \notin srv.used
  BY DEF RemoteAppend, Ids
<1>2. sink.got \subseteq srv.used \cup (1 .. issued) \cup {Base, Hidden}
  BY DEF CursorInv, WorldTrue, DocTrue
<1>3. r \notin Nat /\ r # Base /\ r # Hidden
  BY RoomAssumption
<1>4. r \notin sink.got
  BY <1>1, <1>2, <1>3 DEF WorldInv
<1>5. \A i \in Items \ {r} : needs'[i] = needs[i]
  <2>1. PICK v : needs' = [needs EXCEPT ![r] = v]
    BY DEF RemoteAppend
  <2>. QED
    BY <2>1 DEF WorldInv
<1>. QED
  BY <1>1, <1>4, <1>5 DEF Doc, Visible, WorldInv, SinkType

LEMMA RemoteAppendCursor ==
  ASSUME WorldInv, TalkInv, WorldInv', TalkInv', CursorInv,
         NEW r \in Remote, NEW kind \in Kinds, RemoteAppend(r, kind)
  PROVE  CursorInv'
<1>1. UNCHANGED <<shared, sess, http, sink, issued, env>> /\ RoomTrue(srv)
      /\ srv \in SrvType /\ srv' \in SrvType /\ r \in Ids /\ r \notin srv.used
  BY DEF RemoteAppend, CursorInv, WorldTrue, WorldInv, Ids
<1>2. srv' = [srv EXCEPT !.log = Append(srv.log, r), !.used = srv.used \cup {r}]
      /\ Len(srv.log) \in Nat /\ srv.ckpt \in Nat
  BY <1>1 DEF RemoteAppend, SrvType
<1>3. /\ RoomTrue(srv') /\ srv.ckpt = srv'.ckpt /\ Len(srv'.log) = Len(srv.log) + 1
      /\ srv'.log[Len(srv.log) + 1] = r /\ srv'.used = srv.used \cup {r}
      /\ \A s \in DOMAIN srv.log : srv'.log[s] = srv.log[s]
  BY <1>1, <1>2, GrownLog
<1>4. Calm(env) => Doc' = Doc
  BY RemoteAppendDoc
<1>5. WorldTrue' /\ StillTrue
  BY <1>1, <1>2, <1>3, <1>4, GrownRoom
<1>6. Len(srv.log) + 1 \in DOMAIN srv'.log
  BY <1>1, <1>2, <1>3 DEF SrvType
<1>7. s2c' \in Seq(TrueFrames(srv'))
  <2>1. s2c' \in {s2c, Append(s2c, [k |-> "ROW", id |-> r, seq |-> Len(srv.log) + 1])}
    BY DEF RemoteAppend, Broadcast
  <2>2. [k |-> "ROW", id |-> r, seq |-> Len(srv.log) + 1] \in TrueFrames(srv')
    <3>. DEFINE n == Len(srv.log) + 1
    <3>1. n \in Nat /\ n \in DOMAIN srv'.log /\ srv'.log[n] = r
      BY <1>2, <1>3, <1>6
    <3>. HIDE DEF n
    <3>2. [k |-> "ROW", id |-> r, seq |-> n] \in TrueFrames(srv')
      BY <1>1, <3>1, LastIsTrue
    <3>. QED
      BY <3>2 DEF n
  <2>. QED
    BY <1>5, <2>1, <2>2, SendTrue DEF StillTrue
<1>. QED
  BY <1>1, <1>5, <1>7 DEF CursorInv, TalkTrue, StillTrue

LEMMA PostCheckpointCursor ==
  ASSUME WorldInv, TalkInv, WorldInv', TalkInv', OutboxInv, CursorInv, PostCheckpoint
  PROVE  CursorInv'
<1>1. UNCHANGED <<needs, s2c, shared, sess, http, sink, issued>> /\ RoomTrue(srv)
      /\ srv \in SrvType /\ srv' \in SrvType /\ srv.log \in Seq(srv.used)
  BY DEF PostCheckpoint, CursorInv, WorldTrue, WorldInv, OutboxInv
<1>2. env'.wipes = env.wipes /\ env'.crashes = env.crashes
  BY DEF PostCheckpoint, WorldInv, EnvType
<1>3. srv'.log = srv.log /\ srv'.ckpt = Len(srv.log) /\ srv'.used = srv.used
      /\ srv'.ids \subseteq srv.ids \cup Rows(srv.log) \cup {Base, Hidden}
  BY <1>1 DEF PostCheckpoint, SrvType, Visible
<1>4. Rows(srv.log) \subseteq srv.used
  BY <1>1 DEF Rows
<1>5. srv.ckpt \in Nat /\ Len(srv.log) \in Nat /\ srv.ckpt <= Len(srv.log)
  BY <1>1 DEF RoomTrue, SrvType
<1>6. RoomTrue(srv') /\ srv.ckpt <= srv'.ckpt /\ Len(srv.log) <= Len(srv'.log)
  BY <1>1, <1>3, <1>4, <1>5 DEF RoomTrue
<1>7. Doc' = Doc
  BY <1>1 DEF Doc
<1>8. WorldTrue' /\ StillTrue
  BY <1>1, <1>2, <1>3, <1>6, <1>7, GrownRoom
<1>. QED
  BY <1>1, <1>8 DEF CursorInv, TalkTrue, StillTrue

LEMMA HttpPostCursor ==
  ASSUME WorldInv, TalkInv, WorldInv', TalkInv', CursorInv, HttpPost
  PROVE  CursorInv'
<1>. DEFINE b   == Least(http.todo)
            log == IF b \notin Rows(srv.log) THEN Append(srv.log, b) ELSE srv.log
            stopped == [http EXCEPT !.phase = "capture", !.todo = {}]
<1>1. UNCHANGED <<needs, shared, sess, sink, issued>> /\ RoomTrue(srv)
      /\ srv \in SrvType /\ srv' \in SrvType /\ http \in HttpType
  BY DEF HttpPost, CursorInv, WorldTrue, WorldInv, TalkInv
<1>2. env'.wipes = env.wipes /\ env'.crashes = env.crashes
  BY DEF HttpPost, WorldInv, EnvType
<1>3. http.phase = "post" /\ HttpOn /\ b \in Own /\ b \in Ids
  <2>1. http.phase = "post" /\ http.todo # {} /\ http.todo \in SUBSET Own
    BY <1>1 DEF HttpPost, TalkInv, CycleComplete, HttpType
  <2>2. HttpOn
    BY <2>1 DEF CursorInv, TalkTrue, SocketOnly
  <2>. QED
    BY <2>1, <2>2, LeastOwn DEF Ids
<1>4. Doc' = Doc
  BY <1>1 DEF Doc
<1>5. SameCycle(http, stopped)
  BY <1>1 DEF SameCycle, HttpType
<1>. HIDE DEF b
<1>6. CASE UNCHANGED <<srv, s2c>> /\ http' = stopped
  <2>. HIDE DEF stopped
  <2>. QED
    BY <1>1, <1>2, <1>3, <1>5, <1>6, QuietCursor
    DEF SameWorld, SameCursors, SameCourse, CursorInv, TalkTrue
<1>7. CASE /\ srv' = [srv EXCEPT !.log = log, !.used = @ \cup {b}]
           /\ s2c' \in {s2c} \cup (IF b \notin Rows(srv.log)
                THEN {Broadcast([k |-> "ROW", id |-> b, seq |-> Len(log)])} ELSE {})
           /\ \/ http' = stopped
              \/ http' = [http EXCEPT !.phase = "acked", !.todo = @ \ {b},
                                      !.ack = [id |-> b, seq |-> PosIn(log, b)]]
  <2>1. srv.log \in Seq(Ids) /\ Len(srv.log) \in Nat /\ srv.ckpt \in Nat
    BY <1>1 DEF SrvType
  <2>2. /\ RoomTrue(srv') /\ srv.ckpt = srv'.ckpt /\ Len(srv.log) <= Len(srv'.log)
        /\ srv.used \subseteq srv'.used /\ srv'.log = log
        /\ \A s \in DOMAIN srv.log : srv'.log[s] = srv.log[s]
        /\ b \notin Rows(srv.log) => srv'.log[Len(srv'.log)] = b /\ Len(srv'.log) \in DOMAIN srv'.log
    <3>1. CASE b \in Rows(srv.log)
      <4>1. srv'.log = srv.log /\ srv'.ckpt = srv.ckpt /\ srv'.ids = srv.ids
            /\ srv'.used = srv.used \cup {b}
        BY <1>1, <1>7, <3>1 DEF SrvType
      <4>. QED
        BY <1>1, <2>1, <3>1, <4>1 DEF RoomTrue
    <3>2. CASE b \notin Rows(srv.log)
      <4>1. srv' = [srv EXCEPT !.log = Append(srv.log, b), !.used = srv.used \cup {b}]
        BY <1>1, <1>7, <3>2 DEF SrvType
      <4>2. /\ RoomTrue(srv') /\ srv.ckpt = srv'.ckpt /\ Len(srv'.log) = Len(srv.log) + 1
            /\ srv'.log[Len(srv.log) + 1] = b /\ srv'.used = srv.used \cup {b}
            /\ \A s \in DOMAIN srv.log : srv'.log[s] = srv.log[s]
        BY <1>1, <1>3, <2>1, <4>1, GrownLog
      <4>3. srv'.log = log
        BY <1>1, <1>7 DEF SrvType
      <4>. QED
        BY <1>1, <2>1, <4>2, <4>3 DEF SrvType
    <3>. QED
      BY <3>1, <3>2
  <2>3. WorldTrue' /\ StillTrue
    BY <1>1, <1>2, <1>4, <2>1, <2>2, GrownRoom
  <2>4. b \in Rows(srv'.log)
    <3>1. CASE b \in Rows(srv.log)
      BY <2>2, <3>1
    <3>2. CASE b \notin Rows(srv.log)
      BY <2>2, <3>2 DEF Rows
    <3>. QED
      BY <3>1, <3>2
  <2>5. s2c' \in Seq(TrueFrames(srv'))
    <3>1. s2c' = s2c \/ (b \notin Rows(srv.log)
             /\ s2c' = Append(s2c, [k |-> "ROW", id |-> b, seq |-> Len(srv'.log)]))
      BY <1>7, <2>2 DEF Broadcast
    <3>2. Len(srv'.log) \in Nat
      BY <1>1 DEF SrvType
    <3>. QED
      BY <1>1, <1>3, <2>2, <2>3, <3>1, <3>2, LastIsTrue, SendTrue DEF StillTrue
  <2>6. HttpTrue(http', srv', Doc', env')
    <3>1. CASE http' = stopped
      <4>. HIDE DEF stopped
      <4>. QED  BY <1>5, <2>3, <3>1, HttpSame DEF StillTrue
    <3>2. CASE http' = [http EXCEPT !.phase = "acked", !.todo = @ \ {b},
                                    !.ack = [id |-> b, seq |-> PosIn(log, b)]]
      <4>1. http'.cursor = http.cursor /\ http'.plan = http.plan /\ http'.row = http.row
            /\ http'.st = http.st /\ http'.log = http.log
            /\ http'.ack.id = b /\ http'.ack.seq = PosIn(srv'.log, b)
        BY <1>1, <2>2, <3>2 DEF HttpType
      <4>2. PosIn(srv'.log, b) \in DOMAIN srv'.log /\ srv'.log[PosIn(srv'.log, b)] = b
        BY <1>1, <1>3, <2>4, AckIsTrue DEF TrueFrames
      <4>. QED
        BY <2>3, <4>1, <4>2 DEF StillTrue, HttpTrue
    <3>. QED
      BY <1>7, <3>1, <3>2
  <2>7. SocketOnly(shared', sess', http', srv')
    BY <1>1, <1>3, <2>3 DEF StillTrue, SocketOnly
  <2>. QED
    BY <1>1, <2>3, <2>5, <2>6, <2>7 DEF CursorInv, TalkTrue, StillTrue
<1>. QED
  BY <1>6, <1>7 DEF HttpPost, b

-----------------------------------------------------------------------------
(* The session.                                                            *)

LEMMA DialCursor ==
  ASSUME WorldInv, TalkInv, WorldInv', TalkInv', CursorInv, Dial
  PROVE  CursorInv'
<1>1. SameWorld /\ SameCursors /\ UNCHANGED <<sink, http>> /\ s2c' = <<>> /\ sink.slot # "none"
  BY DEF Dial, SameWorld, SameCursors
<1>2. shared'.cursor = shared.cursor /\ sess'.phase = "hello" /\ sess'.st = sess.st
      /\ sess'.plan = sess.plan /\ sess'.row = sess.row
  BY DEF Dial, TalkInv, SharedType, SessType
<1>3. StillTrue /\ WorldTrue'
  BY <1>1, Standing
<1>4. SessTrue(sess', srv', Doc', env') /\ SocketOnly(shared', sess', http', srv')
  BY <1>1, <1>2, <1>3 DEF StillTrue, SessTrue, SocketOnly, Planned
<1>5. s2c' \in Seq(TrueFrames(srv'))
  BY <1>1
<1>. QED
  BY <1>1, <1>2, <1>3, <1>4, <1>5 DEF CursorInv, TalkTrue, StillTrue

(* The session ends and nothing else happens.                              *)
LEMMA LostCursor ==
  ASSUME WorldInv, TalkInv, WorldInv', TalkInv', CursorInv, SameWorld, SameCursors,
         NEW sh \in SharedType, sh.cursor = shared.cursor, EndSession(sh, http)
  PROVE  CursorInv'
<1>1. StillTrue /\ WorldTrue' /\ srv' \in SrvType /\ http \in HttpType
  BY Standing DEF WorldInv, TalkInv
<1>2. ~HttpOn => http.phase = "idle" /\ http.row = NoRow
  BY DEF CursorInv, TalkTrue, SocketOnly
<1>. QED
  BY <1>1, <1>2, EndSessionCursor DEF StillTrue

LEMMA FailedPushCursor ==
  ASSUME WorldInv, TalkInv, WorldInv', TalkInv', CursorInv, UNCHANGED <<srv, needs, issued>>,
         NEW sh \in SharedType, Sound(sh.cursor, srv, Doc, env), NEW ids, FailedPush(sh, ids)
  PROVE  CursorInv'
<1>1. PICK b \in ids \cap sh.unsaved :
        LET earlier == {a \in ids : a < b} IN
        /\ DiskFault /\ Write(sh, earlier) /\ EndSession(Saved(sh, earlier), http)
  BY DEF FailedPush
<1>. DEFINE earlier == {a \in ids : a < b}
            sh2 == Saved(sh, earlier)
<1>2. DiskFault /\ Write(sh, earlier) /\ EndSession(sh2, http)
  BY <1>1
<1>. HIDE DEF earlier
<1>3. sh2 \in SharedType /\ sh2.cursor = sh.cursor
  BY SavedType DEF Saved, SharedType
<1>4. SameWorld /\ SameCursors
  BY <1>2, EnvCounts DEF Write, WorldInv, SinkType, SameWorld, SameCursors
<1>5. StillTrue /\ WorldTrue' /\ srv' \in SrvType /\ http \in HttpType /\ Doc' = Doc
  BY <1>4, Standing DEF WorldInv, TalkInv
<1>6. Sound(sh2.cursor, srv', Doc', env')
  BY <1>3, <1>4, <1>5 DEF SameWorld, Sound, Unwiped, Calm
<1>7. ~HttpOn => http.phase = "idle" /\ http.row = NoRow
  BY DEF CursorInv, TalkTrue, SocketOnly
<1>. HIDE DEF sh2
<1>. QED
  BY <1>2, <1>3, <1>5, <1>6, <1>7, EndSessionCursor DEF StillTrue

(* A turn of the loop, or a frame, that leaves the cursor where it is.     *)
LEMMA TurnCursor ==
  ASSUME WorldInv, TalkInv, WorldInv', TalkInv', CursorInv, SameWorld, SameCursors,
         NEW t \in TurnType, t.sh.cursor = shared.cursor, SameCourse(sess, t.se),
         Finish(t, http, s2c), sink'.slot # "none"
  PROVE  CursorInv'
<1>1. StillTrue /\ WorldTrue' /\ srv' \in SrvType /\ http \in HttpType
  BY Standing DEF WorldInv, TalkInv
<1>2. SessTrue(t.se, srv', Doc', env') /\ SocketOnly(t.sh, t.se, http, srv')
  BY <1>1, SessSame DEF StillTrue
<1>. QED
  BY <1>1, <1>2, FinishCursor DEF StillTrue

LEMMA FrameCursor ==
  ASSUME WorldInv, TalkInv, WorldInv', TalkInv', CursorInv, SameWorld, SameCursors,
         sink'.slot = sink.slot, s2c # <<>>, sess.phase \in Planned,
         NEW sh \in SharedType, sh.cursor = shared.cursor,
         NEW se \in SessType, se.phase # "down", se.st = sess.st, se.plan = sess.plan, se.row = sess.row,
         NEW h \in HttpType, SameCycle(http, h), h.phase = http.phase,
         AfterFrame(sh, se, h, Tail(s2c))
  PROVE  CursorInv'
<1>1. StillTrue /\ WorldTrue' /\ srv' \in SrvType
  BY Standing DEF WorldInv
<1>2. HttpTrue(h, srv', Doc', env') /\ SessTrue(se, srv', Doc', env')
  BY <1>1, HttpSame DEF StillTrue, SessTrue
<1>3. SocketOnly(sh, se, h, srv')
  BY <1>1 DEF StillTrue, SocketOnly, SameCycle
<1>4. Tail(s2c) \in Seq(TrueFrames(srv'))
  BY <1>1, ReadTrue DEF StillTrue
<1>5. sink'.slot # "none" /\ Sound(sh.cursor, srv', Doc', env')
  BY <1>1 DEF StillTrue, CursorInv, Planned
<1>. QED
  BY <1>1, <1>2, <1>3, <1>4, <1>5, AfterFrameCursor

LEMMA JoinedPlanned == Joined => sess.phase \in Planned /\ sess.phase # "down"
BY DEF Joined, Planned

LEMMA FlagKeepsCycle ==
  ASSUME NEW h \in HttpType, NEW f \in BOOLEAN
  PROVE  /\ SameCycle(h, [h EXCEPT !.gapSame = @ /\ f])
         /\ [h EXCEPT !.gapSame = @ /\ f].phase = h.phase
         /\ SameCycle(h, [h EXCEPT !.causalSame = @ /\ f])
         /\ [h EXCEPT !.causalSame = @ /\ f].phase = h.phase
BY DEF HttpType, SameCycle

LEMMA SessQuotaCursor ==
  ASSUME WorldInv, TalkInv, WorldInv', TalkInv', CursorInv, SessQuota
  PROVE  CursorInv'
<1>. DEFINE sh == [shared EXCEPT !.quotaBlocked = TRUE, !.retryArmed = TRUE]
<1>1. SameWorld /\ SameCursors /\ UNCHANGED sink /\ s2c # <<>> /\ sess.phase \in Planned
      /\ sess.phase # "down" /\ AfterFrame(sh, sess, http, Tail(s2c))
  BY JoinedPlanned DEF SessQuota, Reading, SameWorld, SameCursors
<1>2. sh \in SharedType /\ sh.cursor = shared.cursor /\ sess \in SessType /\ http \in HttpType
  BY DEF TalkInv, SharedType
<1>. HIDE DEF sh
<1>. QED
  BY <1>1, <1>2, FrameCursor DEF SameCycle

LEMMA SessRejectCursor ==
  ASSUME WorldInv, TalkInv, WorldInv', TalkInv', CursorInv, SessReject
  PROVE  CursorInv'
<1>. DEFINE b  == Head(s2c).id
            sh == Retire(shared, {b})
<1>1. s2c # <<>> /\ sess.phase \in Planned /\ sess.phase # "down" /\ shared \in SharedType
      /\ sess \in SessType /\ http \in HttpType /\ UNCHANGED <<srv, needs, issued>>
  BY JoinedPlanned DEF SessReject, Reading, TalkInv
<1>2. sh \in SharedType /\ sh.cursor = shared.cursor
  BY <1>1, RetireType DEF Retire, SharedType
<1>3. CASE /\ sink' = [sink EXCEPT !.rejected = @ \cup ({b} \cap sink.outbox)]
           /\ AfterFrame(sh, sess, http, Tail(s2c)) /\ UNCHANGED env
  <2>1. SameWorld /\ SameCursors /\ sink'.slot = sink.slot
    BY <1>1, <1>3 DEF SameWorld, SameCursors, WorldInv, SinkType
  <2>. HIDE DEF sh
  <2>. QED
    BY <1>1, <1>2, <1>3, <2>1, FrameCursor DEF SameCycle
<1>4. CASE DiskFault /\ EndSession(shared, http) /\ UNCHANGED sink
  <2>1. SameWorld /\ SameCursors
    BY <1>1, <1>4, EnvCounts DEF SameWorld, SameCursors
  <2>. QED
    BY <1>1, <1>4, <2>1, LostCursor
<1>. QED
  BY <1>3, <1>4 DEF SessReject

LEMMA SessDeferCursor ==
  ASSUME WorldInv, TalkInv, WorldInv', TalkInv', CursorInv, SessDefer
  PROVE  CursorInv'
<1>1. SameWorld /\ SameCursors /\ UNCHANGED <<shared, http, sink>> /\ s2c # <<>> /\ s2c' = Tail(s2c)
  BY DEF SessDefer, Reading, SameWorld, SameCursors
<1>2. sess.phase = "replay" /\ sess'.phase = "drain" /\ sess'.st = sess.st
      /\ sess'.plan = sess.plan /\ sess'.row = sess.row
  BY DEF SessDefer, TalkInv, SessType
<1>3. StillTrue /\ WorldTrue'
  BY <1>1, Standing
<1>4. SessTrue(sess', srv', Doc', env') /\ SocketOnly(shared', sess', http', srv')
  BY <1>1, <1>2, <1>3 DEF StillTrue, SessTrue, SocketOnly, Planned
<1>5. s2c' \in Seq(TrueFrames(srv')) /\ sink'.slot # "none"
  BY <1>1, <1>2, <1>3, ReadTrue DEF StillTrue, CursorInv
<1>. QED
  BY <1>1, <1>3, <1>4, <1>5 DEF CursorInv, TalkTrue, StillTrue

LEMMA SessJoinCursor ==
  ASSUME WorldInv, TalkInv, WorldInv', TalkInv', CursorInv, SessJoin
  PROVE  CursorInv'
<1>. DEFINE head == IF sess.phase = "drain" THEN sess.head ELSE Head(s2c).head
            sh == CaughtUp(shared, sess.ticket, head)
            se == [sess EXCEPT !.phase = "steady", !.resumed = TRUE, !.ticket = 0, !.head = 0]
<1>1. SameWorld /\ SameCursors /\ UNCHANGED sink /\ s2c # <<>> /\ sess.phase \in Planned
      /\ AfterFrame(sh, se, http, Tail(s2c))
  BY JoinedPlanned DEF SessJoin, Reading, SameWorld, SameCursors
<1>2. shared \in SharedType /\ sess \in SessType /\ http \in HttpType
  BY DEF TalkInv
<1>3. sh \in SharedType /\ sh.cursor = shared.cursor
  <2>1. sess.ticket \in 0 .. MaxRefresh
    BY <1>2 DEF SessType
  <2>2. sh.cursor = shared.cursor
    BY <1>2 DEF CaughtUp, SharedType
  <2>. HIDE DEF head
  <2>. QED
    BY <1>2, <2>1, <2>2, CaughtUpType
<1>4. se \in SessType /\ se.phase = "steady" /\ se.st = sess.st /\ se.plan = sess.plan /\ se.row = sess.row
  <2>1. 0 \in 0 .. MaxRefresh
    BY BoundsAreNat
  <2>. QED
    BY <1>2, <2>1 DEF SessType
<1>. HIDE DEF sh, se
<1>. QED
  BY <1>1, <1>2, <1>3, <1>4, FrameCursor DEF SameCycle

LEMMA SessDoneCursor ==
  ASSUME WorldInv, TalkInv, WorldInv', TalkInv', CursorInv, SessDone
  PROVE  CursorInv'
<1>. DEFINE head   == Head(s2c).head
            missed == sess.refresh # 0 /\ shared.cursor < head
            sh0 == [shared EXCEPT !.rowsReqOut = FALSE]
            sh  == RefreshRead(sh0, sess.refresh, head)
            se  == [sess EXCEPT !.refresh = 0]
            h   == [http EXCEPT !.gapSame = @ /\ ~missed]
<1>1. SameWorld /\ SameCursors /\ UNCHANGED sink /\ s2c # <<>> /\ sess.phase = "steady"
      /\ AfterFrame(sh, se, h, Tail(s2c)) /\ IsDone(Head(s2c))
  BY DEF SessDone, Reading, SameWorld, SameCursors
<1>2. shared \in SharedType /\ sess \in SessType /\ http \in HttpType /\ CycleComplete(http)
  BY DEF TalkInv
<1>3. head \in Nat
  <2>1. Head(s2c).k = "ROWS" => Head(s2c) \in RowsFrame
    BY <1>1, LogLength, ReadFrames DEF TalkInv
  <2>. QED
    BY <1>1, <2>1 DEF IsDone, RowsFrame
<1>4. sh \in SharedType /\ sh.cursor = shared.cursor
  <2>1. sh0 \in SharedType /\ sh0.cursor = shared.cursor /\ sess.refresh \in 0 .. MaxRefresh
    BY <1>2 DEF SharedType, SessType
  <2>. HIDE DEF sh0, head
  <2>2. sh.cursor = sh0.cursor
    BY <2>1 DEF RefreshRead, SharedType
  <2>. QED
    BY <1>3, <2>1, <2>2, RefreshReadType
<1>5. se \in SessType /\ se.phase = "steady" /\ se.st = sess.st /\ se.plan = sess.plan /\ se.row = sess.row
  <2>1. 0 \in 0 .. MaxRefresh
    BY BoundsAreNat
  <2>. QED
    BY <1>1, <1>2, <2>1 DEF SessType
<1>6. h \in HttpType /\ SameCycle(http, h) /\ h.phase = http.phase
  <2>0. missed \in BOOLEAN
    OBVIOUS
  <2>. HIDE DEF missed
  <2>1. h \in HttpType
    BY <1>2, <2>0, CycleFlags
  <2>2. SameCycle(http, h) /\ h.phase = http.phase
    BY <1>2, <2>0, FlagKeepsCycle
  <2>. QED
    BY <2>1, <2>2
<1>. HIDE DEF sh, se, h
<1>. QED
  BY <1>1, <1>2, <1>4, <1>5, <1>6, FrameCursor DEF Planned

LEMMA SessNudgeCursor ==
  ASSUME WorldInv, TalkInv, WorldInv', TalkInv', CursorInv, SessNudge
  PROVE  CursorInv'
<1>. DEFINE ids == ToPush(shared, sess.inFlight)
            t0 == Turn(shared, sess)
            t1 == PushPending(t0)
            t  == SendRefresh(t1)
<1>1. shared \in SharedType /\ sess \in SessType /\ UNCHANGED <<srv, needs, issued>>
      /\ sess.phase # "down"
  BY DEF SessNudge, Steady, TalkInv
<1>2. CASE Write(shared, ids) /\ UNCHANGED env /\ Finish(t, http, s2c)
  <2>1. SameWorld /\ SameCursors /\ sink'.slot # "none"
    BY <1>1, <1>2 DEF Write, WorldInv, SinkType, SameWorld, SameCursors, CursorInv
  <2>2. t0 \in TurnType /\ t0.sh = shared /\ t0.se = sess
    BY <1>1, TurnIsTurn DEF Turn
  <2>. HIDE DEF t0
  <2>3. t1 \in TurnType /\ SameTurn(t0, t1)
    BY <2>2, PushPendingType, TurnsAreSame
  <2>. HIDE DEF t1
  <2>4. t \in TurnType /\ SameTurn(t1, t)
    BY <2>3, SendRefreshType, TurnsAreSame
  <2>. HIDE DEF t
  <2>. QED
    BY <1>2, <2>1, <2>2, <2>3, <2>4, TurnCursor DEF SameTurn, SameCourse
<1>3. CASE FailedPush(shared, ids)
  <2>. HIDE DEF ids
  <2>. QED
    BY <1>1, <1>3, FailedPushCursor DEF CursorInv, TalkTrue
<1>. QED
  BY <1>2, <1>3 DEF SessNudge

LEMMA SessProbeCursor ==
  ASSUME WorldInv, TalkInv, WorldInv', TalkInv', CursorInv, SessProbe
  PROVE  CursorInv'
<1>. DEFINE t0 == Turn(shared, sess)
            t  == SendRefresh(t0)
<1>1. shared \in SharedType /\ sess \in SessType /\ SameWorld /\ SameCursors
      /\ sink'.slot # "none" /\ Finish(t, http, s2c)
  BY DEF SessProbe, Steady, TalkInv, SameWorld, SameCursors, CursorInv
<1>2. t0 \in TurnType /\ t0.sh = shared /\ t0.se = sess
  BY <1>1, TurnIsTurn DEF Turn
<1>. HIDE DEF t0
<1>3. t \in TurnType /\ SameTurn(t0, t)
  BY <1>2, SendRefreshType, TurnsAreSame
<1>. HIDE DEF t
<1>. QED
  BY <1>1, <1>2, <1>3, TurnCursor DEF SameTurn

LEMMA SessRetryCursor ==
  ASSUME WorldInv, TalkInv, WorldInv', TalkInv', CursorInv, SessRetry
  PROVE  CursorInv'
<1>. DEFINE ids == HeadOf(shared.pending)
            sh  == [shared EXCEPT !.retryArmed = FALSE]
            t0  == [Turn(Saved(sh, ids), sess) EXCEPT
                      !.out = IF ids = {} THEN @ ELSE <<[k |-> "PUSH", ids |-> ids]>>]
            t   == SendRefresh(t0)
<1>1. shared \in SharedType /\ sess \in SessType /\ UNCHANGED <<srv, needs, issued>>
      /\ sess.phase # "down"
  BY DEF SessRetry, Steady, TalkInv
<1>2. sh \in SharedType /\ sh.cursor = shared.cursor /\ ids \in SUBSET Own
  BY <1>1, HeadOfType DEF SharedType
<1>3. CASE Write(sh, ids) /\ UNCHANGED env /\ Finish(t, http, s2c)
  <2>1. SameWorld /\ SameCursors /\ sink'.slot # "none"
    BY <1>1, <1>3 DEF Write, WorldInv, SinkType, SameWorld, SameCursors, CursorInv
  <2>2. t0 \in TurnType /\ t0.sh = Saved(sh, ids) /\ t0.se = sess
    <3>. DEFINE out == IF ids = {} THEN <<>> ELSE <<[k |-> "PUSH", ids |-> ids]>>
    <3>1. Turn(Saved(sh, ids), sess) \in TurnType /\ Turn(Saved(sh, ids), sess).sh = Saved(sh, ids)
          /\ Turn(Saved(sh, ids), sess).se = sess
      <4>. HIDE DEF sh, ids
      <4>. QED  BY <1>1, <1>2, SavedType, TurnIsTurn DEF Turn
    <3>2. t0 = [Turn(Saved(sh, ids), sess) EXCEPT !.out = out]
      BY DEF Turn
    <3>3. out \in Seq(ClientFrame)
      <4>. HIDE DEF ids
      <4>1. CASE ids = {}
        BY <4>1
      <4>2. CASE ids # {}
        <5>1. [k |-> "PUSH", ids |-> ids] \in ClientFrame
          BY <1>2, <4>2 DEF ClientFrame, PushFrame
        <5>. QED
          BY <4>2, <5>1
      <4>. QED
        BY <4>1, <4>2
    <3>. HIDE DEF sh, ids, out, t0
    <3>. QED
      BY <3>1, <3>2, <3>3 DEF TurnType
  <2>3. Saved(sh, ids).cursor = shared.cursor
    <3>. HIDE DEF sh, ids
    <3>. QED  BY <1>2 DEF Saved, SharedType
  <2>. HIDE DEF t0, sh, ids
  <2>4. t \in TurnType /\ SameTurn(t0, t)
    BY <2>2, SendRefreshType, TurnsAreSame
  <2>. HIDE DEF t
  <2>. QED
    BY <1>3, <2>1, <2>2, <2>3, <2>4, TurnCursor DEF SameTurn
<1>4. CASE FailedPush(sh, ids)
  <2>1. Sound(sh.cursor, srv, Doc, env)
    BY <1>2 DEF CursorInv, TalkTrue
  <2>. HIDE DEF ids, sh
  <2>. QED
    BY <1>1, <1>2, <1>4, <2>1, FailedPushCursor
<1>. QED
  BY <1>3, <1>4 DEF SessRetry

LEMMA LossCursor ==
  ASSUME WorldInv, TalkInv, WorldInv', TalkInv', CursorInv, Drop \/ SessRedial
  PROVE  CursorInv'
<1>1. SameWorld /\ SameCursors /\ EndSession(shared, http) /\ shared \in SharedType
  BY EnvCounts DEF Drop, SessRedial, SameWorld, SameCursors, TalkInv
<1>. QED
  BY <1>1, LostCursor

-----------------------------------------------------------------------------
(* The steps that move a cursor.                                           *)

LEMMA SessStateCursor ==
  ASSUME WorldInv, TalkInv, WorldInv', TalkInv', CursorInv, SessState
  PROVE  CursorInv'
<1>. DEFINE st  == Head(s2c)
            cur == Clamp(shared.cursor, st)
            plan == PlanCatchUp(cur, st, Contained(st))
<1>1. s2c # <<>> /\ st.k = "STATE" /\ UNCHANGED <<srv, needs, http, issued, env>> /\ s2c' = Tail(s2c)
      /\ srv \in SrvType /\ shared \in SharedType /\ sess \in SessType /\ sink \in SinkType
      /\ sess.phase = "hello"
  BY DEF SessState, WorldInv, TalkInv
<1>2. SameWorld
  BY <1>1 DEF SessState, SameWorld, SinkType
<1>3. StillTrue /\ Doc' = Doc /\ RoomTrue(srv)
  BY <1>2, Standing DEF CursorInv, WorldTrue
<1>4. st \in StateFrame /\ st.seq \in Nat /\ st.seq <= srv.ckpt /\ st.head <= Len(srv.log)
      /\ s2c' \in Seq(TrueFrames(srv))
  <2>1. st \in TrueFrames(srv) /\ Tail(s2c) \in Seq(TrueFrames(srv))
    BY <1>1, ReadTrue DEF CursorInv, TalkTrue
  <2>2. st \in ServerFrame /\ st.seq <= srv.ckpt /\ st.head <= Len(srv.log)
    BY <1>1, <2>1 DEF TrueFrames
  <2>3. st \in StateFrame
    BY <1>1, <2>2, FrameKinds
  <2>. QED
    BY <1>1, <2>1, <2>2, <2>3 DEF StateFrame
<1>5. shared'.cursor = cur
  BY <1>1 DEF SessState, SharedType
<1>6. sess'.phase = "plan" /\ sess'.st = st /\ sess'.plan = plan /\ sess'.row = sess.row
  BY <1>1 DEF SessState, SessType
<1>7. Sound(shared.cursor, srv, Doc, env) /\ shared.cursor \in Nat
  BY <1>1 DEF CursorInv, TalkTrue, SharedType
<1>. HIDE DEF st, plan, cur
<1>8. cur \in Nat /\ Sound(cur, srv, Doc, env)
  BY <1>1, <1>3, <1>4, <1>7, SoundClamp DEF cur
<1>9. Sound(plan.after, srv, Doc, env) /\ plan.after <= Len(srv.log)
  BY <1>1, <1>3, <1>4, <1>8, SoundPlan, PlanWithin DEF plan
<1>10. /\ srv' = srv /\ \A c, d : Sound(c, srv, d, env) => Sound(c, srv, d, env')
  BY <1>1
<1>11. WorldTrue'
  <2>1. sink'.flush = sink.flush /\ sink'.saved = sink.saved /\ sink'.pcur \in {0, sink.pcur}
    BY <1>1 DEF SessState, SinkType
  <2>2. Sound(0, srv, Doc, env)
    BY <1>1, SoundZero
  <2>3. SinkTrue(sink', srv', Doc', env')
    BY <1>1, <1>3, <2>1, <2>2 DEF CursorInv, WorldTrue, SinkTrue
  <2>. QED
    BY <1>2, <2>3, SameWorldTrue DEF CursorInv
<1>12. SessTrue(sess', srv', Doc', env')
  BY <1>1, <1>3, <1>4, <1>6, <1>9 DEF StillTrue, SessTrue
<1>13. SocketOnly(shared', sess', http', srv')
  BY <1>1, <1>3, <1>6 DEF StillTrue, SocketOnly, Planned
<1>14. sink'.slot # "none"
  BY <1>1 DEF SessState, SinkType, CursorInv
<1>. QED
  BY <1>1, <1>3, <1>4, <1>5, <1>8, <1>11, <1>12, <1>13, <1>14 DEF CursorInv, TalkTrue, StillTrue

LEMMA SessPlanCursor ==
  ASSUME WorldInv, TalkInv, WorldInv', TalkInv', CursorInv, SessPlan
  PROVE  CursorInv'
<1>. DEFINE sh == [shared EXCEPT !.cursor = sess.plan.after]
            se == IF sess.plan.fetch
                    THEN [sess EXCEPT !.ticket = shared.refReq, !.phase = "fetch", !.plan = NoPlan]
                    ELSE [Backfilling(sess) EXCEPT !.ticket = shared.refReq]
            out == <<RowsReq(sess.plan.after, sess.resumed /\ ~sess.repair)>>
            t0 == [Turn(sh, se) EXCEPT !.out = out]
            t1 == PushPending(t0)
            t2 == IF sess.plan.fetch THEN t1
                  ELSE [t1 EXCEPT !.sh = SettleCausal(@, sess.causalSame)]
            ids == ToPush(sh, sess.inFlight)
<1>1. sess.plan.after \in Nat /\ sess.resumed \in BOOLEAN /\ sess.repair \in BOOLEAN
      /\ sess.causalSame \in BOOLEAN /\ sess \in SessType /\ shared.refReq \in 0 .. MaxRefresh
      /\ UNCHANGED <<srv, needs, issued>> /\ sess.phase = "plan" /\ srv \in SrvType
      /\ http \in HttpType /\ shared \in SharedType
  BY DEF SessPlan, TalkInv, SessType, PlanType, SharedType, WorldInv
<1>2. sh \in SharedType /\ sh.cursor = sess.plan.after
  BY <1>1 DEF SharedType
<1>3. Sound(sess.plan.after, srv, Doc, env) /\ sess.plan.after <= Len(srv.log)
  BY DEF CursorInv, TalkTrue, SessTrue
<1>4. CASE FailedPush(sh, ids)
  <2>. HIDE DEF sh, ids
  <2>. QED  BY <1>1, <1>2, <1>3, <1>4, FailedPushCursor
<1>5. CASE Write(sh, ids) /\ UNCHANGED env /\ Finish(t2, http, s2c)
  <2>1. SameWorld /\ SameCursors /\ sink'.slot # "none"
    <3>. HIDE DEF sh, ids
    <3>. QED  BY <1>1, <1>5 DEF Write, WorldInv, SinkType, SameWorld, SameCursors, CursorInv
  <2>2. StillTrue /\ WorldTrue' /\ srv' = srv /\ env' = env /\ Doc' = Doc
    BY <1>1, <1>5, <2>1, Standing
  <2>3. se \in SessType /\ se.row = sess.row /\ se.phase \in {"fetch", "backfill"}
        /\ se.st \in {sess.st, NoState} /\ se.plan = NoPlan
    <3>1. Backfilling(sess) \in SessType
      BY <1>1, BackfillingType
    <3>2. Backfilling(sess).row = sess.row /\ Backfilling(sess).phase = "backfill"
          /\ Backfilling(sess).st = NoState /\ Backfilling(sess).plan = NoPlan
      BY <1>1 DEF Backfilling, SessType
    <3>. QED
      BY <1>1, <3>1, <3>2, RestTypes DEF SessType
  <2>4. t0 \in TurnType /\ t0.se = se /\ t0.sh = sh
    <3>1. Turn(sh, se) \in TurnType /\ Turn(sh, se).se = se /\ Turn(sh, se).sh = sh
      <4>. HIDE DEF sh, se
      <4>. QED  BY <1>2, <2>3, TurnIsTurn DEF Turn
    <3>2. t0 = [Turn(sh, se) EXCEPT !.out = out]
      OBVIOUS
    <3>3. out \in Seq(ClientFrame)
      <4>1. RowsReq(sess.plan.after, sess.resumed /\ ~sess.repair) \in ClientFrame
        BY <1>1, RowsReqType
      <4>. QED
        BY <4>1
    <3>. HIDE DEF sh, se, t0, out
    <3>. QED
      BY <3>1, <3>2, <3>3 DEF TurnType
  <2>. HIDE DEF t0
  <2>5. t1 \in TurnType /\ SameTurn(t0, t1)
    BY <2>4, PushPendingType, TurnsAreSame
  <2>. HIDE DEF t1, se, sh
  <2>6. t2 \in TurnType /\ SameTurn(t1, t2)
    <3>1. CASE sess.plan.fetch
      BY <2>5, <3>1 DEF SameTurn, SameCourse
    <3>2. CASE ~sess.plan.fetch
      <4>1. SettleCausal(t1.sh, sess.causalSame) \in SharedType
            /\ SettleCausal(t1.sh, sess.causalSame).cursor = t1.sh.cursor
        <5>1. t1.sh \in SharedType
          BY <2>5 DEF TurnType
        <5>2. sess.causalSame \in BOOLEAN
          BY <1>1 DEF SessType
        <5>3. SettleCausal(t1.sh, sess.causalSame) \in SharedType
          BY <5>1, <5>2, SettleCausalType
        <5>. QED
          BY <5>1, <5>3 DEF SettleCausal, SharedType
      <4>2. t2 = [t1 EXCEPT !.sh = SettleCausal(t1.sh, sess.causalSame)]
        BY <2>5, <3>2 DEF TurnType
      <4>. HIDE DEF t2
      <4>. QED
        BY <2>5, <4>1, <4>2 DEF TurnType, SameTurn, SameCourse
    <3>. QED
      BY <3>1, <3>2
  <2>. HIDE DEF t2
  <2>7. t2.sh.cursor = sess.plan.after /\ SameCourse(se, t2.se)
    BY <1>2, <2>4, <2>5, <2>6 DEF SameTurn, SameCourse
  <2>8. SessTrue(se, srv', Doc', env')
    <3>1. Sound(NoPlan.after, srv', Doc', env') /\ NoPlan.after = 0 /\ NoState.seq = 0
          /\ srv.ckpt \in Nat /\ Len(srv.log) \in Nat
      BY <1>1, <2>2, NoRowTrue DEF NoPlan, NoState, SrvType
    <3>. QED
      BY <2>2, <2>3, <3>1 DEF StillTrue, SessTrue
  <2>9. SocketOnly(t2.sh, t2.se, http, srv') /\ SessTrue(t2.se, srv', Doc', env')
    <3>1. t2.se.row = sess.row
      BY <2>3, <2>7 DEF SameCourse
    <3>. QED
      BY <1>3, <2>2, <2>7, <2>8, <3>1, SessSame DEF StillTrue, SocketOnly
  <2>. QED
    BY <1>1, <1>3, <1>5, <2>1, <2>2, <2>6, <2>7, <2>9, FinishCursor DEF StillTrue
<1>. QED
  BY <1>4, <1>5 DEF SessPlan

(* A checkpoint lands: the document takes in what the room's covers.       *)
LEMMA LandsForward ==
  ASSUME WorldInv, CursorInv, UNCHANGED <<srv, needs, issued, env>>,
         NEW s \in Nat, Unwiped(env) => s <= srv.ckpt,
         sink' = [sink EXCEPT !.got = @ \cup srv.ids, !.pcur = MaxOf(@, s), !.dirty = TRUE]
  PROVE  Forward /\ WorldTrue' /\ Sound(s, srv', Doc', env')
<1>1. srv \in SrvType /\ sink \in SinkType /\ sink.pcur \in Nat /\ sink.flush.cur \in Nat
      /\ sink.saved.cur \in Nat /\ srv.ckpt \in Nat /\ Len(srv.log) \in Nat
  BY DEF WorldInv, SinkType, SrvType
<1>2. sink'.got = sink.got \cup srv.ids /\ sink'.pcur = MaxOf(sink.pcur, s)
      /\ sink'.flush = sink.flush /\ sink'.saved = sink.saved
  BY <1>1 DEF SinkType
<1>3. Doc \subseteq Doc'
  BY <1>2 DEF Doc, Visible
<1>4. Forward
  BY <1>1, <1>3 DEF Forward, Onward
<1>5. Sound(s, srv, Doc', env)
  BY <1>1, SoundFloor DEF CursorInv, WorldTrue
<1>6. Sound(sink'.pcur, srv, Doc', env)
  <2>1. Sound(sink.pcur, srv, Doc', env)
    BY <1>3, SoundMore DEF CursorInv, WorldTrue, SinkTrue
  <2>. QED
    BY <1>1, <1>2, <1>5, <2>1, SoundMax
<1>7. Sound(sink'.flush.cur, srv, Doc', env)
  BY <1>2, <1>3, SoundMore DEF CursorInv, WorldTrue, SinkTrue
<1>8. SinkTrue(sink', srv', Doc', env')
  BY <1>2, <1>6, <1>7 DEF CursorInv, WorldTrue, SinkTrue
<1>9. DocTrue(sink'.got, Doc', srv', issued', env')
  BY <1>2, <1>3 DEF CursorInv, WorldTrue, DocTrue, RoomTrue
<1>. QED
  BY <1>4, <1>5, <1>8, <1>9 DEF CursorInv, WorldTrue

LEMMA SessFetchCursor ==
  ASSUME WorldInv, TalkInv, WorldInv', TalkInv', CursorInv, SessFetch
  PROVE  CursorInv'
<1>1. UNCHANGED <<srv, needs, http, issued, env>> /\ sess \in SessType /\ shared \in SharedType
      /\ srv \in SrvType /\ sess.phase = "fetch" /\ sess.st.seq \in Nat /\ sess.st.seq <= srv.ckpt
  BY DEF SessFetch, WorldInv, TalkInv, SessType, StateFrame, CursorInv, TalkTrue, SessTrue
<1>2. Forward /\ WorldTrue' /\ Sound(sess.st.seq, srv', Doc', env')
  BY <1>1, LandsForward DEF SessFetch
<1>3. StillTrue
  BY <1>2, TalkOnward DEF CursorInv, StillTrue
<1>4. shared'.cursor = MaxOf(shared.cursor, sess.st.seq) /\ shared.cursor \in Nat
  BY <1>1 DEF SessFetch, SettleCausal, SharedType
<1>5. Sound(shared'.cursor, srv', Doc', env')
  BY <1>1, <1>2, <1>3, <1>4, SoundMax DEF StillTrue
<1>6. sess'.row = sess.row /\ sess'.st = NoState /\ sess'.plan = NoPlan
      /\ sess'.phase \in {"backfill", "replay"}
  BY <1>1 DEF SessFetch, Backfilling, SessType
<1>7. SessTrue(sess', srv', Doc', env')
  <2>1. Sound(NoPlan.after, srv', Doc', env') /\ NoPlan.after = 0 /\ NoState.seq = 0
        /\ srv.ckpt \in Nat /\ Len(srv.log) \in Nat
    BY <1>1, NoRowTrue DEF NoPlan, NoState, SrvType
  <2>. QED
    BY <1>1, <1>3, <1>6, <2>1 DEF StillTrue, SessTrue
<1>8. SocketOnly(shared', sess', http', srv')
  <2>1. srv.ckpt <= Len(srv.log) /\ srv.ckpt \in Nat /\ Len(srv.log) \in Nat
    BY <1>1 DEF CursorInv, WorldTrue, RoomTrue, SrvType
  <2>2. ~HttpOn => shared.cursor <= Len(srv.log)
    BY <1>1 DEF CursorInv, TalkTrue, SocketOnly, Planned
  <2>3. ~HttpOn => shared'.cursor <= Len(srv.log)
    BY <1>1, <1>4, <2>1, <2>2 DEF MaxOf
  <2>. QED
    BY <1>1, <1>3, <1>6, <2>3 DEF StillTrue, SocketOnly
<1>9. s2c' \in Seq(TrueFrames(srv'))
  <2>1. CASE UNCHANGED s2c
    BY <1>3, <2>1 DEF StillTrue
  <2>2. CASE \E n \in DOMAIN s2c : s2c' = Marked(n)
    <3>1. [k |-> "END"] \in TrueFrames(srv)
      BY MarkIsFrame DEF TrueFrames
    <3>2. s2c \in Seq(TrueFrames(srv))
      BY DEF CursorInv, TalkTrue
    <3>. QED
      BY <1>1, <2>2, <3>1, <3>2, MarkedType
  <2>. QED
    BY <2>1, <2>2 DEF SessFetch
<1>10. sink'.slot # "none"
  <2>1. sink'.slot = sink.slot
    BY DEF SessFetch, WorldInv, SinkType
  <2>. QED
    BY <1>1, <2>1 DEF CursorInv
<1>. QED
  BY <1>1, <1>2, <1>3, <1>5, <1>7, <1>8, <1>9, <1>10 DEF CursorInv, TalkTrue, StillTrue

LEMMA SessRowCursor ==
  ASSUME WorldInv, TalkInv, WorldInv', TalkInv', OutboxInv, CursorInv, SessRow
  PROVE  CursorInv'
<1>. DEFINE f   == Head(s2c)
            seq == RowSeq(f)
            id  == IF f.k = "ROW" THEN f.id ELSE srv.log[seq]
            cur == Walk(shared.cursor, seq)
<1>1. s2c # <<>> /\ IsRow(f) /\ sess.phase \in Planned /\ sess.phase # "down"
      /\ SameWorld /\ SameCursors /\ UNCHANGED sink /\ srv \in SrvType
  BY JoinedPlanned DEF SessRow, Reading, SameWorld, SameCursors, WorldInv
<1>2. f \in TrueFrames(srv) /\ Tail(s2c) \in Seq(TrueFrames(srv)) /\ f \in ServerFrame
      /\ (f.k = "ROWS" => f \in RowsFrame /\ f.head <= Len(srv.log))
  BY <1>1, LogLength, ReadFrames, ReadTrue DEF TalkInv, CursorInv, TalkTrue
<1>3. seq \in DOMAIN srv.log /\ srv.log[seq] = id
  <2>1. CASE f.k = "ROW"
    BY <1>2, <2>1 DEF TrueFrames, RowSeq
  <2>2. CASE f.k # "ROW"
    <3>1. f.k = "ROWS" /\ NextSeq(f) <= f.head /\ seq = NextSeq(f) /\ id = srv.log[seq]
      BY <1>1, <2>2 DEF IsRow, RowSeq
    <3>2. f \in RowsFrame /\ f.head <= Len(srv.log) /\ f.head \in Nat
      BY <1>2, <3>1 DEF RowsFrame
    <3>3. NextSeq(f) \in Nat /\ NextSeq(f) > 0
      BY <3>2, NextSeqType
    <3>. QED
      BY <3>1, <3>2, <3>3, LogLength
  <2>. QED
    BY <2>1, <2>2
<1>4. seq \in Nat /\ seq <= Len(srv.log) /\ shared.cursor \in Nat /\ Len(srv.log) \in Nat
  BY <1>1, <1>3 DEF SrvType, TalkInv, SharedType
<1>5. shared'.cursor = shared.cursor
  <2>1. shared \in SharedType
    BY DEF TalkInv
  <2>2. PICK gap : shared' = [shared EXCEPT !.gap = @ \/ gap]
    BY DEF SessRow
  <2>. QED
    BY <2>1, <2>2 DEF SharedType
<1>6. sess'.phase = sess.phase /\ sess'.st = sess.st /\ sess'.plan = sess.plan
      /\ sess'.row.id = id /\ sess'.row.cur = cur
  <2>. DEFINE row == [id |-> id, seq |-> seq, cur |-> cur]
  <2>1. sess' = [sess EXCEPT !.row = row] /\ sess \in SessType
    BY DEF SessRow, TalkInv
  <2>2. row.id = id /\ row.cur = cur
    OBVIOUS
  <2>. HIDE DEF row, id, cur
  <2>. QED
    BY <2>1, <2>2 DEF SessType
<1>. HIDE DEF f, seq, id, cur
<1>7. id \in srv.used
  BY <1>3 DEF OutboxInv
<1>8. StillTrue /\ WorldTrue' /\ Doc' = Doc /\ srv' = srv /\ env'.wipes = env.wipes
      /\ env'.crashes = env.crashes
  BY <1>1, Standing DEF SameWorld
<1>9. RowTrue(sess'.row, srv', Doc', env')
  <2>1. Sound(shared.cursor, srv', Doc' \cup {id}, env')
    BY <1>8, SoundMore DEF StillTrue
  <2>2. Sound(cur, srv', Doc' \cup {id}, env')
    BY <1>1, <1>3, <1>4, <1>8, <2>1, SoundWalk DEF cur
  <2>. QED
    BY <1>6, <1>7, <1>8, <2>2 DEF RowTrue
<1>10. SessTrue(sess', srv', Doc', env')
  BY <1>1, <1>6, <1>8, <1>9 DEF StillTrue, SessTrue
<1>11. SocketOnly(shared', sess', http', srv')
  <2>1. ~HttpOn => shared.cursor <= Len(srv.log)
    BY <1>1 DEF CursorInv, TalkTrue, SocketOnly
  <2>2. ~HttpOn => cur <= Len(srv.log)
    BY <1>4, <2>1 DEF cur, Walk, MaxOf
  <2>3. http'.phase = http.phase /\ http'.row = http.row
    BY DEF SessRow, TalkInv, HttpType
  <2>. QED
    BY <1>5, <1>6, <1>8, <2>1, <2>2, <2>3 DEF StillTrue, SocketOnly
<1>12. HttpTrue(http', srv', Doc', env')
  <2>1. SameCycle(http, http')
    BY DEF SessRow, TalkInv, HttpType, SameCycle
  <2>. QED
    BY <1>8, <2>1, HttpSame DEF StillTrue
<1>13. s2c' \in Seq(TrueFrames(srv'))
  <2>1. CASE f.k = "ROW"
    BY <1>2, <1>8, <2>1 DEF SessRow, f
  <2>2. CASE f.k # "ROW"
    <3>. DEFINE g == [f EXCEPT !.next = seq + 1]
    <3>1. f.k = "ROWS" /\ f \in RowsFrame
      BY <1>1, <1>2, <2>2 DEF IsRow
    <3>2. g \in RowsFrame
      BY <1>4, <3>1 DEF RowsFrame
    <3>3. s2c' = <<g>> \o Tail(s2c)
      BY <2>2 DEF SessRow, f, seq
    <3>. HIDE DEF g
    <3>4. g \in TrueFrames(srv)
      BY <3>2 DEF TrueFrames, RowsFrame, ServerFrame
    <3>. QED
      BY <1>2, <1>8, <3>3, <3>4
  <2>. QED
    BY <2>1, <2>2
<1>. QED
  BY <1>1, <1>5, <1>8, <1>10, <1>11, <1>12, <1>13 DEF CursorInv, TalkTrue, StillTrue

(* A row lands, on either transport.  A parked one moves no cursor.        *)
LEMMA ImportLands ==
  ASSUME WorldInv, TalkInv, WorldInv', CursorInv, UNCHANGED <<srv, needs, issued, env>>,
         NEW row \in RowType, Calm(env) => row.id \in srv.used \cup {Base},
         Sound(row.cur, srv, Doc \cup {row.id}, env), sink' = Imported(row)
  PROVE  /\ WorldTrue' /\ StillTrue /\ sink'.slot = sink.slot
         /\ RowOutcome(row) \in SharedType
         /\ RowOutcome(row).cursor \in {shared.cursor, MaxOf(shared.cursor, row.cur)}
         /\ Sound(RowOutcome(row).cursor, srv', Doc', env')
<1>1. srv \in SrvType /\ sink \in SinkType /\ shared \in SharedType /\ row.cur \in Nat
      /\ sink.pcur \in Nat /\ shared.cursor \in Nat
  BY DEF WorldInv, TalkInv, RowType, SinkType, SharedType
<1>2. sink'.got = sink.got \cup {row.id} /\ sink'.flush = sink.flush /\ sink'.saved = sink.saved
      /\ sink'.slot = sink.slot
      /\ sink'.pcur = IF Parks(row) THEN sink.pcur ELSE MaxOf(sink.pcur, row.cur)
  BY <1>1 DEF Imported, SinkType
<1>3. Doc \subseteq Doc'
  BY <1>2 DEF Doc, Visible
<1>4. ~Parks(row) => row.id \in Doc'
  BY <1>2 DEF Parks, Doc, Visible
<1>5. Forward
  <2>1. srv.ckpt \in Nat /\ Len(srv.log) \in Nat
    BY <1>1 DEF SrvType
  <2>. QED
    BY <1>3, <2>1 DEF Forward, Onward
<1>6. ~Parks(row) => Sound(row.cur, srv', Doc', env')
  BY <1>3, <1>4, SoundMore
<1>7. Sound(sink.pcur, srv', Doc', env') /\ Sound(sink'.flush.cur, srv', Doc', env')
  BY <1>2, <1>3, SoundMore DEF CursorInv, WorldTrue, SinkTrue
<1>8. Sound(sink'.pcur, srv', Doc', env')
  BY <1>1, <1>2, <1>6, <1>7, SoundMax
<1>9. SinkTrue(sink', srv', Doc', env')
  BY <1>2, <1>7, <1>8 DEF CursorInv, WorldTrue, SinkTrue
<1>10. DocTrue(sink'.got, Doc', srv', issued', env')
  BY <1>2, <1>3 DEF CursorInv, WorldTrue, DocTrue
<1>11. WorldTrue'
  BY <1>9, <1>10 DEF CursorInv, WorldTrue
<1>12. StillTrue
  BY <1>5, TalkOnward DEF CursorInv, StillTrue
<1>13. RowOutcome(row) \in SharedType
       /\ RowOutcome(row).cursor = IF Parks(row) THEN shared.cursor ELSE MaxOf(shared.cursor, row.cur)
  <2>1. RowOutcome(row) \in SharedType
    BY ImportType
  <2>. QED
    BY <1>1, <2>1 DEF RowOutcome, SharedType
<1>14. Sound(RowOutcome(row).cursor, srv', Doc', env')
  BY <1>1, <1>6, <1>12, <1>13, SoundMax DEF StillTrue
<1>. QED
  BY <1>2, <1>11, <1>12, <1>13, <1>14

LEMMA NoRowLeft ==
  ASSUME NEW r \in SrvType, NEW d, NEW e, NEW se, NEW se2, SessTrue(se, r, d, e),
         se2.phase = se.phase, se2.st = se.st, se2.plan = se.plan, se2.row = NoRow
  PROVE  SessTrue(se2, r, d, e)
BY NoRowTrue DEF SessTrue

LEMMA SessApplyRowCursor ==
  ASSUME WorldInv, TalkInv, WorldInv', TalkInv', CursorInv, SessApplyRow
  PROVE  CursorInv'
<1>. DEFINE same == ~Parks(sess.row)
            sh == RowOutcome(sess.row)
            se == [sess EXCEPT !.row = NoRow, !.causalSame = @ /\ same]
            h  == [http EXCEPT !.causalSame = @ /\ same]
<1>1. UNCHANGED <<srv, needs, issued, env>> /\ sess.row # NoRow /\ sink' = Imported(sess.row)
      /\ AfterFrame(sh, se, h, s2c)
  BY DEF SessApplyRow
<1>2. sess \in SessType /\ http \in HttpType /\ CycleComplete(http) /\ sess.row \in RowType
      /\ srv \in SrvType /\ shared \in SharedType
  BY DEF TalkInv, SessType, WorldInv
<1>3. sess.phase # "down" /\ RowTrue(sess.row, srv, Doc, env)
  BY <1>1 DEF TalkInv, CursorInv, TalkTrue, SessTrue
<1>4. /\ WorldTrue' /\ StillTrue /\ sink'.slot = sink.slot
      /\ sh \in SharedType
      /\ sh.cursor \in {shared.cursor, MaxOf(shared.cursor, sess.row.cur)}
      /\ Sound(sh.cursor, srv', Doc', env')
  BY <1>1, <1>2, <1>3, ImportLands DEF RowTrue
<1>5. same \in BOOLEAN
  BY <1>2, ImportType
<1>. HIDE DEF same, sh
<1>6. se \in SessType /\ se.phase = sess.phase /\ se.st = sess.st /\ se.plan = sess.plan /\ se.row = NoRow
  BY <1>2, <1>5, RestTypes DEF SessType
<1>7. h \in HttpType /\ SameCycle(http, h) /\ h.phase = http.phase
  BY <1>2, <1>5, CycleFlags, FlagKeepsCycle
<1>. HIDE DEF se, h
<1>8. SessTrue(se, srv', Doc', env') /\ HttpTrue(h, srv', Doc', env')
  BY <1>1, <1>2, <1>4, <1>6, <1>7, NoRowLeft, HttpSame DEF StillTrue
<1>9. SocketOnly(sh, se, h, srv')
  <2>1. NoRow.cur = 0 /\ Len(srv.log) \in Nat /\ shared.cursor \in Nat /\ sess.row.cur \in Nat
    BY <1>2 DEF NoRow, SrvType, SharedType, RowType
  <2>2. ASSUME ~HttpOn, sess.phase \in Planned  PROVE sh.cursor <= Len(srv.log)
    <3>1. shared.cursor <= Len(srv.log) /\ sess.row.cur <= Len(srv.log)
      BY <2>2 DEF CursorInv, TalkTrue, SocketOnly
    <3>. QED
      BY <1>4, <2>1, <3>1 DEF MaxOf
  <2>. QED
    BY <1>1, <1>4, <1>6, <1>7, <2>1, <2>2 DEF StillTrue, SocketOnly, SameCycle
<1>10. sink'.slot # "none" /\ srv' \in SrvType
  BY <1>1, <1>2, <1>3, <1>4 DEF CursorInv
<1>. QED
  BY <1>1, <1>4, <1>6, <1>7, <1>8, <1>9, <1>10, AfterFrameCursor DEF StillTrue

LEMMA HttpApplyRowCursor ==
  ASSUME WorldInv, TalkInv, WorldInv', TalkInv', CursorInv, HttpApplyRow
  PROVE  CursorInv'
<1>. DEFINE same == ~Parks(http.row)
<1>1. UNCHANGED <<srv, needs, s2c, issued, env>> /\ http.row # NoRow /\ sink' = Imported(http.row)
      /\ shared' = RowOutcome(http.row) /\ HttpOn
  BY DEF HttpApplyRow, CursorInv, TalkTrue, SocketOnly
<1>2. sess \in SessType /\ http \in HttpType /\ http.row \in RowType /\ srv \in SrvType
  BY DEF TalkInv, HttpType, WorldInv
<1>3. Unwiped(env) => RowTrue(http.row, srv, Doc, env)
  BY DEF CursorInv, TalkTrue, HttpTrue
<1>4. Sound(http.row.cur, srv, Doc \cup {http.row.id}, env)
  BY <1>3 DEF RowTrue, Sound, Unwiped, Calm
<1>5. Calm(env) => http.row.id \in srv.used \cup {Base}
  BY <1>3 DEF RowTrue, Unwiped, Calm
<1>6. /\ WorldTrue' /\ StillTrue /\ sink'.slot = sink.slot
      /\ Sound(shared'.cursor, srv', Doc', env')
  BY <1>1, <1>2, <1>4, <1>5, ImportLands
<1>7. SameCourse(sess, sess')
  BY <1>2 DEF HttpApplyRow, SameCourse, SessType
<1>8. http'.cursor = http.cursor /\ http'.plan = http.plan /\ http'.row = NoRow /\ http'.st = http.st
      /\ http'.log = http.log /\ http'.phase = http.phase /\ http'.ack = http.ack
  BY <1>2 DEF HttpApplyRow, HttpType
<1>9. HttpTrue(http', srv', Doc', env')
  BY <1>1, <1>2, <1>6, <1>8, NoRowTrue DEF StillTrue, HttpTrue
<1>10. SessTrue(sess', srv', Doc', env') /\ SocketOnly(shared', sess', http', srv')
  BY <1>1, <1>6, <1>7, SessSame DEF StillTrue, SocketOnly
<1>11. sink'.slot = "none" => sess'.phase = "down"
  BY <1>6, <1>7 DEF CursorInv, SameCourse
<1>. QED
  BY <1>1, <1>6, <1>9, <1>10, <1>11 DEF CursorInv, TalkTrue, StillTrue

(* An acknowledged batch is one this device issued: it is in the document. *)
LEMMA OwnIsSeen ==
  ASSUME OutboxInv, CursorInv, NEW b \in Own, b \in srv.used
  PROVE  Calm(env) => b \in Doc
<1>1. b \in 1 .. issued
  BY DEF OutboxInv, Unwritten, Safe
<1>. QED
  BY <1>1 DEF CursorInv, WorldTrue, DocTrue

LEMMA AckedCursor ==
  ASSUME NEW sh \in SharedType, NEW ack \in AckFrame, NEW retired \in BOOLEAN
  PROVE  Acked(sh, ack, retired).cursor = Walk(sh.cursor, ack.seq)
<1>. DEFINE sh1 == Retire(sh, IF retired THEN {ack.id} ELSE {})
            sh2 == [sh1 EXCEPT !.retryArmed = @ \/ ~retired,
                               !.gap = @ \/ IsGap(sh.cursor, ack.seq),
                               !.cursor = Walk(@, ack.seq)]
<1>1. sh1 \in SharedType /\ sh1.cursor = sh.cursor
  BY RetireType DEF Retire, SharedType
<1>2. sh2.cursor = Walk(sh.cursor, ack.seq) /\ DOMAIN sh2 = DOMAIN sh1
  <2>. HIDE DEF sh1
  <2>. QED  BY <1>1 DEF SharedType
<1>3. Drain(sh2).cursor = sh2.cursor
  <2>1. "cursor" \in DOMAIN sh1
    <3>. HIDE DEF sh1
    <3>. QED  BY <1>1 DEF SharedType
  <2>. HIDE DEF sh2, sh1
  <2>. QED  BY <1>2, <2>1 DEF Drain
<1>4. Acked(sh, ack, retired) = Drain(sh2)
  BY DEF Acked
<1>. QED
  BY <1>2, <1>3, <1>4

LEMMA SessAckCursor ==
  ASSUME WorldInv, TalkInv, WorldInv', TalkInv', OutboxInv, CursorInv, SessAck
  PROVE  CursorInv'
<1>1. PICK retired \in BOOLEAN :
        LET ack == Head(s2c)
            sh  == Acked(shared, ack, retired)
        IN
        /\ \/ retired /\ UNCHANGED env
           \/ ~retired /\ DiskFault
        /\ sink' = [sink EXCEPT !.outbox = IF retired THEN @ \ {ack.id} ELSE @,
                                !.pcur = MaxOf(@, sh.cursor), !.dirty = TRUE]
        /\ AfterFrame(sh, sess, [http EXCEPT !.gapSame = @ /\ ~IsGap(shared.cursor, ack.seq)],
                      Tail(s2c))
  BY DEF SessAck
<1>. DEFINE ack == Head(s2c)
            sh  == Acked(shared, ack, retired)
            gap == IsGap(shared.cursor, ack.seq)
            h   == [http EXCEPT !.gapSame = @ /\ ~gap]
<1>2. s2c # <<>> /\ ack.k = "ACK" /\ sess.phase \in Planned /\ sess.phase # "down"
      /\ UNCHANGED <<srv, needs, issued>>
  BY JoinedPlanned DEF SessAck, Reading
<1>3. srv \in SrvType /\ shared \in SharedType /\ sess \in SessType /\ http \in HttpType
      /\ CycleComplete(http) /\ sink \in SinkType
  BY DEF WorldInv, TalkInv
<1>4. ack \in TrueFrames(srv) /\ Tail(s2c) \in Seq(TrueFrames(srv))
  BY <1>2, ReadTrue DEF CursorInv, TalkTrue
<1>5. ack.seq \in DOMAIN srv.log /\ srv.log[ack.seq] = ack.id /\ ack \in ServerFrame
  BY <1>2, <1>4 DEF TrueFrames
<1>6. ack.id \in Own /\ ack.seq \in Nat /\ ack \in AckFrame /\ ack.id \in srv.used
  <2>1. ack.id \in Own /\ ack.seq \in Nat
    BY <1>2, <1>5, FrameKinds
  <2>2. ack \in AckFrame
    BY <1>2, <1>5 DEF ServerFrame, StateFrame, RowFrame, RowsFrame, AckFrame, ErrorFrame, MarkFrame
  <2>3. ack.id \in srv.used
    BY <1>5 DEF OutboxInv
  <2>. QED
    BY <2>1, <2>2, <2>3
<1>7. sink' = [sink EXCEPT !.outbox = IF retired THEN @ \ {ack.id} ELSE @,
                           !.pcur = MaxOf(@, sh.cursor), !.dirty = TRUE]
      /\ AfterFrame(sh, sess, h, Tail(s2c)) /\ env'.wipes = env.wipes /\ env'.crashes = env.crashes
  BY <1>1, EnvCounts
<1>. HIDE DEF ack
<1>8. sh \in SharedType /\ sh.cursor = Walk(shared.cursor, ack.seq)
  <2>1. sh \in SharedType
    BY <1>3, <1>6, AckedType
  <2>. QED
    BY <1>3, <1>6, <2>1, AckedCursor
<1>9. h \in HttpType /\ SameCycle(http, h) /\ h.phase = http.phase
  <2>1. gap \in BOOLEAN
    BY DEF IsGap
  <2>. HIDE DEF gap
  <2>2. h \in HttpType
    BY <1>3, <2>1, CycleFlags
  <2>3. SameCycle(http, h) /\ h.phase = http.phase
    BY <1>3, <2>1, FlagKeepsCycle
  <2>. QED
    BY <2>2, <2>3
<1>. HIDE DEF sh, h
<1>10. SameWorld
  BY <1>2, <1>3, <1>7 DEF SameWorld, SinkType
<1>11. StillTrue /\ Doc' = Doc /\ srv' = srv
  BY <1>2, <1>10, Standing
<1>12. Sound(sh.cursor, srv', Doc', env') /\ sh.cursor \in Nat
  <2>1. Sound(shared.cursor, srv', Doc', env') /\ shared.cursor \in Nat
    BY <1>3, <1>11 DEF StillTrue, SharedType
  <2>2. Calm(env') => srv'.log[ack.seq] \in Doc'
    BY <1>5, <1>6, <1>7, <1>11, OwnIsSeen DEF Calm
  <2>3. Sound(Walk(shared.cursor, ack.seq), srv', Doc', env')
    BY <1>3, <1>5, <1>6, <1>11, <2>1, <2>2, SoundWalk
  <2>. QED
    BY <1>6, <1>8, <2>1, <2>3, WalkNat
<1>13. sink'.flush = sink.flush /\ sink'.saved = sink.saved /\ sink'.slot = sink.slot
       /\ sink'.pcur = MaxOf(sink.pcur, sh.cursor) /\ sink.pcur \in Nat
  BY <1>3, <1>7 DEF SinkType
<1>14. WorldTrue'
  <2>1. \A c, d : Sound(c, srv, d, env) => Sound(c, srv', d, env')
    BY <1>7, <1>11 DEF Sound, Unwiped, Calm
  <2>2. Sound(sink.pcur, srv', Doc', env') /\ Sound(sink.flush.cur, srv', Doc', env')
        /\ Sound(sink.saved.cur, srv', sink.saved.got, env')
    BY <1>11, <2>1 DEF CursorInv, WorldTrue, SinkTrue
  <2>3. Sound(sink'.pcur, srv', Doc', env')
    BY <1>3, <1>11, <1>12, <1>13, <2>2, SoundMax
  <2>4. SinkTrue(sink', srv', Doc', env')
    BY <1>13, <2>2, <2>3 DEF SinkTrue
  <2>. QED
    BY <1>10, <2>4, SameWorldTrue DEF CursorInv
<1>15. SocketOnly(sh, sess, h, srv')
  <2>1. ~HttpOn => shared.cursor <= Len(srv.log)
    BY <1>2 DEF CursorInv, TalkTrue, SocketOnly
  <2>2. ~HttpOn => sh.cursor <= Len(srv.log)
    <3>1. ack.seq <= Len(srv.log) /\ Len(srv.log) \in Nat /\ shared.cursor \in Nat
      BY <1>3, <1>5 DEF SrvType, SharedType
    <3>. QED
      BY <1>6, <1>8, <2>1, <3>1 DEF Walk, MaxOf
  <2>. QED
    BY <1>9, <1>11, <2>2 DEF StillTrue, SocketOnly, SameCycle
<1>16. HttpTrue(h, srv', Doc', env') /\ sink'.slot # "none"
  BY <1>2, <1>9, <1>11, <1>13, HttpSame DEF StillTrue, CursorInv
<1>. QED
  BY <1>3, <1>4, <1>7, <1>8, <1>9, <1>11, <1>12, <1>14, <1>15, <1>16, AfterFrameCursor
  DEF StillTrue

LEMMA HttpAckCursor ==
  ASSUME WorldInv, TalkInv, WorldInv', TalkInv', OutboxInv, CursorInv, HttpAck
  PROVE  CursorInv'
<1>. DEFINE cur == Walk(shared.cursor, http.ack.seq)
<1>1. srv \in SrvType /\ shared \in SharedType /\ http \in HttpType /\ sink \in SinkType
      /\ UNCHANGED <<srv, needs, s2c, sess, issued>> /\ http.phase = "acked" /\ HttpOn
  BY DEF HttpAck, WorldInv, TalkInv, CursorInv, TalkTrue, SocketOnly
<1>2. env'.wipes = env.wipes /\ env'.crashes = env.crashes
  BY EnvCounts DEF HttpAck
<1>3. shared'.cursor = cur
  <2>1. PICK retired \in BOOLEAN :
          shared' = [Retire(shared, IF retired THEN {http.ack.id} ELSE {}) EXCEPT !.cursor = cur]
    BY DEF HttpAck
  <2>2. Retire(shared, IF retired THEN {http.ack.id} ELSE {}) \in SharedType
    BY <1>1, RetireType
  <2>. QED
    BY <2>1, <2>2 DEF SharedType
<1>4. sink'.got = sink.got /\ sink'.flush = sink.flush /\ sink'.saved = sink.saved
      /\ sink'.slot = sink.slot /\ sink'.pcur = MaxOf(sink.pcur, cur) /\ sink.pcur \in Nat
  BY <1>1 DEF HttpAck, SinkType
<1>5. http'.cursor = http.cursor /\ http'.plan = http.plan /\ http'.row = http.row
      /\ http'.st = http.st /\ http'.log = http.log /\ http'.phase = "push"
  BY <1>1 DEF HttpAck, HttpType
<1>6. SameWorld
  BY <1>1, <1>2, <1>4 DEF SameWorld
<1>7. StillTrue /\ Doc' = Doc
  BY <1>6, Standing
<1>8. http.ack.seq \in Nat /\ shared.cursor \in Nat
  BY <1>1 DEF HttpType, SharedType
<1>9. Unwiped(env') => http.ack.seq \in DOMAIN srv.log /\ srv.log[http.ack.seq] = http.ack.id
  BY <1>1, <1>2 DEF CursorInv, TalkTrue, HttpTrue, Unwiped
<1>10. Calm(env') => srv.log[http.ack.seq] \in Doc
  <2>1. http.ack.id \in srv.used /\ http.ack.id \in Nat
    BY <1>1 DEF OutboxInv, CycleIsSafe, HttpType
  <2>2. http.ack.id \in Own
    BY <1>1, <2>1, RoomAssumption DEF SrvType, Ids
  <2>3. Calm(env) => http.ack.id \in Doc
    BY <2>1, <2>2, OwnIsSeen
  <2>. QED
    BY <1>2, <1>9, <2>3 DEF Calm, Unwiped
<1>11. Sound(cur, srv', Doc', env') /\ cur \in Nat
  <2>1. Sound(shared.cursor, srv', Doc', env')
    BY <1>7 DEF StillTrue
  <2>. QED
    BY <1>1, <1>7, <1>8, <1>9, <1>10, <2>1, SoundWalk, WalkNat
<1>. HIDE DEF cur
<1>12. WorldTrue'
  <2>1. \A c, d : Sound(c, srv, d, env) => Sound(c, srv', d, env')
    BY <1>1, <1>2 DEF Sound, Unwiped, Calm
  <2>2. Sound(sink.pcur, srv', Doc', env') /\ Sound(sink.flush.cur, srv', Doc', env')
        /\ Sound(sink.saved.cur, srv', sink.saved.got, env')
    BY <1>7, <2>1 DEF CursorInv, WorldTrue, SinkTrue
  <2>3. Sound(sink'.pcur, srv', Doc', env')
    BY <1>1, <1>4, <1>11, <2>2, SoundMax
  <2>4. SinkTrue(sink', srv', Doc', env')
    BY <1>4, <2>2, <2>3 DEF SinkTrue
  <2>. QED
    BY <1>6, <2>4, SameWorldTrue DEF CursorInv
<1>13. HttpTrue(http', srv', Doc', env') /\ SocketOnly(shared', sess', http', srv')
  BY <1>1, <1>5, <1>7 DEF StillTrue, HttpTrue, SocketOnly
<1>. QED
  BY <1>1, <1>3, <1>4, <1>7, <1>11, <1>12, <1>13 DEF CursorInv, TalkTrue, StillTrue

LEMMA HttpStateCursor ==
  ASSUME WorldInv, TalkInv, WorldInv', TalkInv', CursorInv, HttpState
  PROVE  CursorInv'
<1>. DEFINE st   == http.st
            cur  == Clamp(shared.cursor, st)
            late == cur < http.cursor /\ http.cursor <= st.head
            plan == PlanCatchUp(http.cursor, st, Contained(st))
<1>1. srv \in SrvType /\ shared \in SharedType /\ http \in HttpType /\ sink \in SinkType
      /\ UNCHANGED <<srv, needs, s2c, sess, issued, env>> /\ http.phase = "answer" /\ HttpOn
  BY DEF HttpState, WorldInv, TalkInv, CursorInv, TalkTrue, SocketOnly
<1>2. st \in StateFrame /\ st.seq \in Nat /\ http.cursor \in Nat /\ shared.cursor \in Nat
  BY <1>1 DEF HttpType, StateFrame, SharedType
<1>3. shared'.cursor = cur
  BY <1>1 DEF HttpState, SharedType
<1>4. SameWorld /\ sink'.flush = sink.flush /\ sink'.saved = sink.saved /\ sink'.slot = sink.slot
      /\ sink'.pcur \in {0, sink.pcur}
  BY <1>1 DEF HttpState, SameWorld, SinkType
<1>5. StillTrue /\ Doc' = Doc /\ RoomTrue(srv)
  BY <1>4, Standing DEF CursorInv, WorldTrue
<1>6. Unwiped(env) => st.seq <= srv.ckpt /\ Sound(http.cursor, srv, Doc, env)
  BY DEF CursorInv, TalkTrue, HttpTrue
<1>7. http' = IdleHttp \/ (http'.plan = plan /\ http'.cursor = http.cursor /\ http'.row = http.row
                           /\ http'.st = http.st /\ http'.log = http.log /\ http'.phase # "acked")
  <2>. DEFINE ph == IF plan.fetch THEN "fetch" ELSE "settle"
  <2>1. http' = IdleHttp \/ http' = [http EXCEPT !.phase = ph, !.plan = plan, !.causalSame = TRUE]
    BY DEF HttpState
  <2>2. ph # "acked"
    OBVIOUS
  <2>. HIDE DEF plan, ph, st
  <2>3. ASSUME http' = [http EXCEPT !.phase = ph, !.plan = plan, !.causalSame = TRUE]
        PROVE  http'.plan = plan /\ http'.cursor = http.cursor /\ http'.row = http.row
               /\ http'.st = http.st /\ http'.log = http.log /\ http'.phase = ph
    BY <1>1, <2>3 DEF HttpType
  <2>. QED
    BY <2>1, <2>2, <2>3
<1>. HIDE DEF plan, cur, st
<1>8. Sound(cur, srv', Doc', env')
  BY <1>1, <1>2, <1>5, <1>6, SoundClamp DEF cur, CursorInv, TalkTrue
<1>9. Unwiped(env) => Sound(plan.after, srv, Doc, env)
  BY <1>1, <1>2, <1>5, <1>6, SoundPlan DEF plan
<1>10. HttpTrue(http', srv', Doc', env')
  <2>1. CASE http' = IdleHttp
    BY <1>1, <2>1, FreshCycle DEF IdleHttp
  <2>2. CASE http' # IdleHttp
    BY <1>1, <1>5, <1>7, <1>9, <2>2 DEF StillTrue, HttpTrue
  <2>. QED
    BY <2>1, <2>2
<1>11. WorldTrue'
  <2>1. Sound(0, srv, Doc, env)
    BY <1>1, SoundZero
  <2>2. SinkTrue(sink', srv', Doc', env')
    BY <1>1, <1>4, <1>5, <2>1 DEF CursorInv, WorldTrue, SinkTrue
  <2>. QED
    BY <1>4, <2>2, SameWorldTrue DEF CursorInv
<1>. QED
  BY <1>1, <1>3, <1>4, <1>5, <1>8, <1>10, <1>11 DEF CursorInv, TalkTrue, StillTrue, SocketOnly

LEMMA HttpFetchCursor ==
  ASSUME WorldInv, TalkInv, WorldInv', TalkInv', CursorInv, HttpFetch
  PROVE  CursorInv'
<1>1. UNCHANGED <<srv, needs, s2c, shared, sess, issued, env>> /\ http \in HttpType
      /\ http.st.seq \in Nat /\ (Unwiped(env) => http.st.seq <= srv.ckpt) /\ HttpOn
  BY DEF HttpFetch, TalkInv, HttpType, StateFrame, CursorInv, TalkTrue, HttpTrue, SocketOnly
<1>2. Forward /\ WorldTrue'
  BY <1>1, LandsForward DEF HttpFetch
<1>3. StillTrue
  BY <1>2, TalkOnward DEF CursorInv, StillTrue
<1>4. SameCycle(http, http') /\ sink'.slot = sink.slot
  BY <1>1 DEF HttpFetch, SameCycle, HttpType, WorldInv, SinkType
<1>5. HttpTrue(http', srv', Doc', env')
  BY <1>3, <1>4, HttpSame DEF StillTrue
<1>. QED
  BY <1>1, <1>2, <1>3, <1>4, <1>5 DEF CursorInv, TalkTrue, StillTrue, SocketOnly

LEMMA HttpSettleCursor ==
  ASSUME WorldInv, TalkInv, WorldInv', TalkInv', CursorInv, HttpSettle
  PROVE  CursorInv'
<1>1. SameWorld /\ SameCursors /\ UNCHANGED <<srv, s2c, sess, sink, env>> /\ HttpOn
      /\ srv \in SrvType /\ http \in HttpType /\ shared \in SharedType
  BY DEF HttpSettle, SameWorld, SameCursors, WorldInv, TalkInv, CursorInv, TalkTrue, SocketOnly
<1>2. StillTrue /\ WorldTrue' /\ Doc' = Doc
  BY <1>1, Standing
<1>3. shared.cursor \in Nat /\ http.plan.after \in Nat
  BY <1>1 DEF SharedType, HttpType, PlanType
<1>4. shared'.cursor \in {http.plan.after, MaxOf(shared.cursor, http.plan.after)}
  BY <1>1 DEF HttpSettle, SettleCausal, SharedType
<1>5. Sound(http.plan.after, srv', Doc', env')
  BY <1>2 DEF StillTrue, HttpTrue, Sound, Calm, Unwiped
<1>6. Sound(shared'.cursor, srv', Doc', env')
  BY <1>1, <1>2, <1>3, <1>4, <1>5, SoundMax DEF StillTrue
<1>7. http'.cursor = 0 /\ http'.plan = NoPlan /\ http'.row = http.row /\ http'.st = http.st
      /\ http'.log = http.log /\ http'.phase = "rows"
  BY <1>1 DEF HttpSettle, HttpType
<1>8. HttpTrue(http', srv', Doc', env')
  BY <1>1, <1>2, <1>7, SoundZero, NoRowTrue DEF StillTrue, HttpTrue
<1>. QED
  BY <1>1, <1>2, <1>6, <1>8 DEF CursorInv, TalkTrue, StillTrue, SocketOnly

LEMMA HttpRowCursor ==
  ASSUME WorldInv, TalkInv, WorldInv', TalkInv', OutboxInv, CursorInv, HttpRow
  PROVE  CursorInv'
<1>. DEFINE id  == http.log[http.next]
            cur == Walk(shared.cursor, http.next)
<1>1. SameWorld /\ SameCursors /\ UNCHANGED <<srv, s2c, sess, sink, env>> /\ HttpOn
      /\ srv \in SrvType /\ http \in HttpType /\ shared \in SharedType
      /\ http.phase = "rows" /\ http.next <= http.st.head /\ CycleComplete(http)
  BY DEF HttpRow, SameWorld, SameCursors, WorldInv, TalkInv, CursorInv, TalkTrue, SocketOnly
<1>2. StillTrue /\ WorldTrue' /\ Doc' = Doc
  BY <1>1, Standing
<1>3. http.next \in DOMAIN http.log /\ http.next \in Nat /\ shared.cursor \in Nat
  <2>1. http.next > 0 /\ http.st.head <= Len(http.log) /\ http.next \in Nat /\ http.st.head \in Nat
        /\ http.log \in Seq(Ids)
    BY <1>1 DEF CycleComplete, HttpType, StateFrame
  <2>. QED
    BY <1>1, <2>1 DEF SharedType
<1>4. Unwiped(env) => http.next \in DOMAIN srv.log /\ srv.log[http.next] = id
  <2>1. http.log \in Seq(Ids) /\ srv.log \in Seq(Ids)
    BY <1>1 DEF HttpType, SrvType
  <2>. QED
    BY <1>3, <2>1 DEF CursorInv, TalkTrue, HttpTrue
<1>5. shared'.cursor = shared.cursor
  BY <1>1 DEF HttpRow, SharedType
<1>6. http'.row.id = id /\ http'.row.cur = cur /\ http'.cursor = http.cursor /\ http'.plan = http.plan
      /\ http'.st = http.st /\ http'.log = http.log /\ http'.phase = http.phase
  <2>. DEFINE row == [id |-> id, seq |-> http.next, cur |-> cur]
              gap == IsGap(shared.cursor, http.next)
  <2>1. http' = [http EXCEPT !.row = row, !.next = @ + 1, !.gapSame = @ /\ ~gap]
    BY DEF HttpRow
  <2>2. row.id = id /\ row.cur = cur
    OBVIOUS
  <2>. HIDE DEF row, gap, id, cur
  <2>. QED
    BY <1>1, <2>1, <2>2 DEF HttpType
<1>. HIDE DEF id, cur
<1>7. Unwiped(env) => RowTrue(http'.row, srv', Doc', env')
  <2>. SUFFICES ASSUME Unwiped(env)  PROVE RowTrue(http'.row, srv', Doc', env')
    OBVIOUS
  <2>1. Sound(shared.cursor, srv', Doc' \cup {id}, env')
    BY <1>2, SoundMore DEF StillTrue
  <2>2. Sound(cur, srv', Doc' \cup {id}, env')
    BY <1>1, <1>3, <1>4, <2>1, SoundWalk DEF cur
  <2>3. id \in srv.used
    BY <1>4 DEF OutboxInv
  <2>. QED
    BY <1>1, <1>6, <2>2, <2>3 DEF RowTrue
<1>8. HttpTrue(http', srv', Doc', env')
  BY <1>1, <1>2, <1>6, <1>7 DEF StillTrue, HttpTrue
<1>. QED
  BY <1>1, <1>2, <1>5, <1>8 DEF CursorInv, TalkTrue, StillTrue, SocketOnly

-----------------------------------------------------------------------------
(* An edit, the snapshot writer, a new client, a kill, and a wipe.         *)

LEMMA EditForward ==
  ASSUME WorldInv, TalkInv, OutboxInv, CursorInv, Enqueue \/ EnqueueEarly
  PROVE  /\ Forward /\ UNCHANGED <<srv, s2c, sess, http>> /\ shared'.cursor = shared.cursor
         /\ issued \in Nat /\ issued + 1 \in Own /\ issued' = issued + 1
         /\ sink'.got = sink.got \cup {issued + 1} /\ SameCursors /\ sink'.slot = sink.slot
         /\ env'.wipes = env.wipes /\ env'.crashes = env.crashes
         /\ Calm(env) => Doc \cup {issued + 1} \subseteq Doc'
<1>. DEFINE b == issued + 1
<1>1. UNCHANGED <<srv, s2c, sess, http>> /\ LocalEdit(b) /\ sink \in SinkType /\ shared \in SharedType
      /\ issued \in Nat /\ needs \in [Items -> SUBSET Items] /\ issued < MaxOwn
  <2>1. UNCHANGED <<srv, s2c, sess, http>> /\ LocalEdit(b) /\ issued < MaxOwn
    <3>1. CASE Enqueue
      BY <3>1 DEF Enqueue
    <3>2. CASE EnqueueEarly
      BY <3>2 DEF EnqueueEarly
    <3>. QED
      BY <3>1, <3>2
  <2>. QED
    BY <2>1 DEF WorldInv, TalkInv
<1>2. env'.wipes = env.wipes /\ env'.crashes = env.crashes
  BY EnvCounts DEF Enqueue, EnqueueEarly, Attempt
<1>3. sink'.got = sink.got \cup {b} /\ SameCursors /\ sink'.slot = sink.slot
  <2>1. CASE Enqueue
    <3>1. PICK stored \in BOOLEAN, durable \in BOOLEAN :
            sink' = [Edited(b, stored, stored /\ ~durable) EXCEPT
                       !.rejected = @ \cup (IF stored THEN {b} \cap Oversize ELSE {})]
      BY <2>1 DEF Enqueue
    <3>. QED
      BY <1>1, <3>1 DEF Edited, SinkType, SameCursors
  <2>2. CASE EnqueueEarly
    <3>1. PICK stored, unsent : sink' = [Edited(b, stored, TRUE) EXCEPT !.unsent = unsent]
      BY <2>2 DEF EnqueueEarly
    <3>. QED
      BY <1>1, <3>1 DEF Edited, SinkType, SameCursors
  <2>. QED
    BY <2>1, <2>2
<1>4. shared'.cursor = shared.cursor
  BY <1>1 DEF Enqueue, EnqueueEarly, EnqueueBatch, SharedType
<1>5. b \in Own /\ b \in Items /\ b \in Nat
  BY <1>1, BoundsAreNat DEF Own, Items, Ids
<1>. HIDE DEF b
<1>6. needs' = [needs EXCEPT ![b] = Doc] /\ issued' = b
  BY <1>1 DEF LocalEdit, Doc
<1>7. ASSUME Calm(env)  PROVE Doc \cup {b} \subseteq Doc'
  <2>1. b \notin sink.got
    <3>1. b \notin 1 .. issued
      BY <1>1 DEF b
    <3>2. b \notin srv.used
      BY <1>5, <3>1 DEF OutboxInv, Unwritten, Safe
    <3>3. b # Base /\ b # Hidden
      BY <1>5, RoomAssumption
    <3>. QED
      BY <1>7, <3>1, <3>2, <3>3 DEF CursorInv, WorldTrue, DocTrue
  <2>2. Doc \subseteq sink.got
    BY DEF Doc, Visible
  <2>3. b \in Doc'
    BY <1>1, <1>3, <1>5, <1>6, <2>2 DEF Doc, Visible
  <2>4. \A i \in Items \ {b} : needs'[i] = needs[i]
    BY <1>1, <1>6
  <2>5. Doc \subseteq Doc'
    BY <1>1, <1>3, <2>1, <2>4 DEF Doc, Visible, SinkType
  <2>. QED
    BY <2>3, <2>5
<1>8. Forward
  <2>1. srv.ckpt \in Nat /\ Len(srv.log) \in Nat
    BY DEF WorldInv, SrvType
  <2>. QED
    BY <1>1, <1>2, <1>7, <2>1 DEF Forward, Onward
<1>. QED
  BY <1>1, <1>2, <1>3, <1>4, <1>5, <1>6, <1>7, <1>8 DEF b

LEMMA EditCursor ==
  ASSUME WorldInv, TalkInv, WorldInv', TalkInv', OutboxInv, CursorInv, Enqueue \/ EnqueueEarly
  PROVE  CursorInv'
<1>. DEFINE b == issued + 1
<1>1. /\ Forward /\ UNCHANGED <<srv, s2c, sess, http>> /\ shared'.cursor = shared.cursor
      /\ issued \in Nat /\ b \in Own /\ issued' = b
      /\ sink'.got = sink.got \cup {b} /\ SameCursors /\ sink'.slot = sink.slot
      /\ env'.wipes = env.wipes /\ env'.crashes = env.crashes
      /\ Calm(env) => Doc \cup {b} \subseteq Doc'
  BY EditForward
<1>. HIDE DEF b
<1>2. DocTrue(sink'.got, Doc', srv', issued', env')
  <2>. SUFFICES ASSUME Calm(env)  PROVE DocTrue(sink'.got, Doc', srv', issued', env')
    BY <1>1 DEF DocTrue, Calm
  <2>1. 1 .. issued' = (1 .. issued) \cup {b}
    BY <1>1 DEF b
  <2>. QED
    BY <1>1, <2>1 DEF CursorInv, WorldTrue, DocTrue
<1>3. WorldTrue'
  BY <1>1, <1>2, SinkOnward DEF CursorInv, WorldTrue, SameCursors
<1>4. StillTrue
  BY <1>1, TalkOnward DEF CursorInv, StillTrue
<1>. QED
  BY <1>1, <1>3, <1>4 DEF CursorInv, TalkTrue, StillTrue, SocketOnly

LEMMA FlushCursor ==
  ASSUME WorldInv, TalkInv, WorldInv', TalkInv', CursorInv, FlushSample \/ FlushSave
  PROVE  CursorInv'
<1>1. SameWorld /\ UNCHANGED <<srv, s2c, shared, sess, http>> /\ sink \in SinkType /\ srv \in SrvType
      /\ sink'.slot = sink.slot
  <2>1. sink \in SinkType /\ srv \in SrvType /\ env \in EnvType
    BY DEF WorldInv
  <2>2. CASE FlushSample
    BY <2>1, <2>2 DEF FlushSample, SameWorld, SinkType, EnvType
  <2>3. CASE FlushSave
    BY <2>1, <2>3 DEF FlushSave, SameWorld, SinkType
  <2>. QED
    BY <2>1, <2>2, <2>3
<1>2. StillTrue /\ Doc' = Doc
  BY <1>1, Standing
<1>3. \A c, d : Sound(c, srv, d, env) => Sound(c, srv', d, env')
  BY <1>1 DEF SameWorld, Sound, Unwiped, Calm
<1>4. SinkTrue(sink', srv', Doc', env')
  <2>1. CASE FlushSample
    <3>1. sink'.pcur = sink.pcur /\ sink'.flush.cur = sink.pcur /\ sink'.saved = sink.saved
      BY <1>1, <2>1 DEF FlushSample, SinkType
    <3>. QED
      BY <1>2, <1>3, <3>1 DEF CursorInv, WorldTrue, SinkTrue
  <2>2. CASE FlushSave
    <3>1. sink'.pcur = sink.pcur /\ sink'.flush.cur = 0 /\ sink'.saved.cur = sink.flush.cur
          /\ sink'.saved.got = Doc
      BY <1>1, <2>2 DEF FlushSave, SinkType, Doc
    <3>2. Sound(0, srv, Doc, env)
      BY <1>1, SoundZero
    <3>. QED
      BY <1>2, <1>3, <3>1, <3>2 DEF CursorInv, WorldTrue, SinkTrue
  <2>. QED
    BY <2>1, <2>2
<1>5. WorldTrue'
  BY <1>1, <1>4, SameWorldTrue DEF CursorInv
<1>. QED
  BY <1>1, <1>2, <1>5 DEF CursorInv, TalkTrue, StillTrue

LEMMA ConnectCursor ==
  ASSUME WorldInv, TalkInv, WorldInv', TalkInv', CursorInv, Connect
  PROVE  CursorInv'
<1>1. SameWorld /\ SameCursors /\ UNCHANGED <<srv, s2c, sess, env>> /\ srv \in SrvType
      /\ sess.phase = "down"
  BY DEF Connect, SameWorld, SameCursors, WorldInv, SinkType, CursorInv
<1>2. StillTrue /\ WorldTrue' /\ Doc' = Doc
  BY <1>1, Standing
<1>3. shared'.cursor = sink.pcur
  BY DEF Connect, NewShared
<1>4. Sound(sink.pcur, srv', Doc', env')
  BY <1>1, <1>2 DEF WorldTrue, SinkTrue, SameCursors
<1>5. PICK p : http' = SpawnHttp(IdleHttp, p)
  BY DEF Connect
<1>6. HttpTrue(IdleHttp, srv', Doc', env')
  BY <1>1, FreshCycle DEF IdleHttp
<1>7. HttpTrue(http', srv', Doc', env')
  BY <1>1, <1>5, <1>6, SpawnTrue
<1>8. ~HttpOn => http' = IdleHttp
  BY <1>5 DEF SpawnHttp
<1>9. SocketOnly(shared', sess', http', srv')
  BY <1>1, <1>2, <1>8 DEF StillTrue, SocketOnly, Planned, IdleHttp
<1>. QED
  BY <1>1, <1>2, <1>3, <1>4, <1>7, <1>9 DEF CursorInv, TalkTrue, StillTrue

(* A kill ends what the document is known to have; the bounds stay.        *)
LEMMA CrashCursor ==
  ASSUME WorldInv, TalkInv, WorldInv', TalkInv', CursorInv, Crash
  PROVE  CursorInv'
<1>1. UNCHANGED srv /\ srv \in SrvType /\ sink \in SinkType /\ env'.wipes = env.wipes
      /\ ~Calm(env') /\ RoomTrue(srv)
  BY DEF Crash, WorldInv, EnvType, Calm, CursorInv, WorldTrue
<1>2. shared'.cursor = sink.saved.cur /\ sink'.pcur = sink.saved.cur /\ sink'.flush.cur = 0
      /\ sink'.saved = sink.saved /\ http' = IdleHttp /\ sess' = NewSess /\ s2c' = <<>>
  BY <1>1 DEF Crash, NewShared, SinkType
<1>3. \A d : Sound(sink.saved.cur, srv', d, env') /\ Sound(0, srv', d, env')
  BY <1>1, SoundZero DEF CursorInv, WorldTrue, SinkTrue, Sound, Unwiped
<1>4. WorldTrue'
  BY <1>1, <1>2, <1>3 DEF WorldTrue, SinkTrue, DocTrue
<1>5. sess'.phase = "down" /\ SessTrue(sess', srv', Doc', env')
  BY <1>1, <1>2, NewSessTrue DEF NewSess
<1>6. HttpTrue(http', srv', Doc', env')
  BY <1>1, <1>2, FreshCycle DEF IdleHttp
<1>7. SocketOnly(shared', sess', http', srv')
  <2>1. NoRow.cur = 0 /\ Len(srv.log) \in Nat
    BY <1>1 DEF NoRow, SrvType
  <2>. QED
    BY <1>1, <1>2, <2>1 DEF SocketOnly, NewSess, IdleHttp, Planned
<1>8. s2c' \in Seq(TrueFrames(srv'))
  BY <1>2
<1>. QED
  BY <1>2, <1>3, <1>4, <1>5, <1>6, <1>7, <1>8 DEF CursorInv, TalkTrue

(* A wipe ends what any cursor is worth; the sockets close with it.        *)
LEMMA WipeCursor ==
  ASSUME WorldInv, TalkInv, WorldInv', TalkInv', OutboxInv, CursorInv, Wipe
  PROVE  CursorInv'
<1>1. srv \in SrvType /\ srv' \in SrvType /\ http \in HttpType /\ shared \in SharedType
      /\ UNCHANGED <<needs, sink, issued>> /\ ~Unwiped(env') /\ ~Calm(env')
  <2>1. env' = [env EXCEPT !.wipes = env.wipes + 1] /\ env \in EnvType
    BY DEF Wipe, WorldInv
  <2>2. env'.wipes # 0
    BY <2>1 DEF EnvType
  <2>3. UNCHANGED <<needs, sink, issued>>
    BY DEF Wipe
  <2>. QED
    BY <2>2, <2>3 DEF WorldInv, TalkInv, Calm, Unwiped
<1>2. srv'.log = <<>> /\ srv'.ckpt = 0 /\ srv'.used = srv.used
      /\ srv'.ids \subseteq srv.ids \cup Rows(srv.log) \cup {Base}
  BY <1>1 DEF Wipe, SrvType, Visible
<1>3. Rows(srv.log) \subseteq srv.used
  BY DEF OutboxInv, Rows
<1>4. RoomTrue(srv')
  BY <1>2, <1>3 DEF RoomTrue, CursorInv, WorldTrue
<1>5. \A c, d : Sound(c, srv', d, env')
  BY <1>1 DEF Sound
<1>6. WorldTrue'
  BY <1>1, <1>4, <1>5 DEF WorldTrue, SinkTrue, DocTrue
<1>7. \A h : HttpTrue(h, srv', Doc', env')
  BY <1>1 DEF HttpTrue
<1>8. ~HttpOn => http.phase = "idle" /\ http.row = NoRow
  BY DEF CursorInv, TalkTrue, SocketOnly
<1>9. CASE sess.phase # "down"
  BY <1>1, <1>5, <1>6, <1>7, <1>8, <1>9, EndSessionCursor DEF Wipe
<1>10. CASE sess.phase = "down"
  <2>1. UNCHANGED <<shared, sess, http, s2c>> /\ s2c = <<>> /\ sess.row = NoRow
        /\ sess.st = NoState /\ sess.plan = NoPlan
    BY <1>10 DEF Wipe, TalkInv, CursorInv, TalkTrue, SessTrue
  <2>2. SessTrue(sess', srv', Doc', env')
    BY <1>1, <2>1, NewSessTrue
  <2>3. SocketOnly(shared', sess', http', srv')
    <3>1. NoRow.cur = 0 /\ Len(srv'.log) = 0
      BY <1>2 DEF NoRow
    <3>. QED
      BY <1>8, <1>10, <2>1, <3>1 DEF SocketOnly, Planned
  <2>4. s2c' \in Seq(TrueFrames(srv'))
    BY <2>1
  <2>. QED
    BY <1>1, <1>5, <1>6, <1>7, <1>10, <2>1, <2>2, <2>3, <2>4 DEF CursorInv, TalkTrue
<1>. QED
  BY <1>9, <1>10

-----------------------------------------------------------------------------
(* The invariant, and what it says of the cursors.                         *)

LEMMA InitCursor == Init => CursorInv
<1>. SUFFICES ASSUME Init  PROVE CursorInv
  OBVIOUS
<1>1. WorldInv /\ TalkInv
  BY InitType
<1>2. srv \in SrvType /\ srv.ckpt = 0 /\ srv.log = <<>> /\ srv.used = {} /\ srv.ids \subseteq {Base}
  BY <1>1 DEF WorldInv, Init
<1>3. sink.got \subseteq {Base} /\ sink.pcur = 0 /\ sink.flush.cur = 0 /\ sink.saved.cur = 0
      /\ issued = 0 /\ sink.slot = "none"
  BY DEF Init
<1>4. RoomTrue(srv)
  BY <1>2 DEF RoomTrue
<1>5. \A d : Sound(0, srv, d, env)
  BY <1>2, SoundZero
<1>6. WorldTrue
  BY <1>2, <1>3, <1>4, <1>5 DEF WorldTrue, SinkTrue, DocTrue
<1>7. shared.cursor = 0 /\ s2c = <<>> /\ sess = NewSess /\ http = IdleHttp
  BY DEF Init, NewShared
<1>8. SessTrue(sess, srv, Doc, env) /\ HttpTrue(http, srv, Doc, env)
  BY <1>2, <1>7, NewSessTrue, FreshCycle DEF NewSess, IdleHttp
<1>9. SocketOnly(shared, sess, http, srv)
  <2>1. NoRow.cur = 0 /\ Len(srv.log) = 0
    BY <1>2 DEF NoRow
  <2>. QED
    BY <1>7, <2>1 DEF SocketOnly, NewSess, IdleHttp, Planned
<1>. QED
  BY <1>3, <1>5, <1>6, <1>7, <1>8, <1>9 DEF CursorInv, TalkTrue, NewSess

LEMMA StepCursor ==
  ASSUME WorldInv, TalkInv, WorldInv', TalkInv', OutboxInv, CursorInv, [Next]_vars
  PROVE  CursorInv'
<1>1. CASE Server
  BY <1>1, ServeCursor, ServePushCursor DEF Server
<1>2. CASE Room
  BY <1>2, RemoteAppendCursor, PostCheckpointCursor, WipeCursor DEF Room
<1>3. CASE Session
  BY <1>3, DialCursor, QuietTalkCursor, SessStateCursor, SessPlanCursor, SessFetchCursor,
     SessRowCursor, SessApplyRowCursor, SessAckCursor, SessRejectCursor, SessQuotaCursor,
     SessDeferCursor, SessJoinCursor, SessDoneCursor, SessNudgeCursor, SessProbeCursor,
     LossCursor, SessRetryCursor DEF Session
<1>4. CASE Https
  BY <1>4, QuietTalkCursor, HttpPostCursor, HttpAckCursor, HttpLooksCursor, HttpStateCursor,
     HttpFetchCursor, HttpSettleCursor, HttpRowCursor, HttpApplyRowCursor DEF Https
<1>5. CASE Join
  BY <1>5, ConnectCursor, QuietTalkCursor DEF Join
<1>6. CASE Api
  BY <1>6, EditCursor, QuietTalkCursor DEF Api
<1>7. CASE Disk
  BY <1>7, FlushCursor DEF Disk
<1>8. CASE Fault
  BY <1>8, QuietTalkCursor, LossCursor, CrashCursor DEF Fault
<1>9. CASE UNCHANGED vars
  <2>1. SameWorld /\ SameCursors /\ UNCHANGED <<shared, sess, http, sink, s2c>>
    BY <1>9 DEF vars, SameWorld, SameCursors
  <2>. QED
    BY <2>1, QuietCursor DEF SameCourse, SameCycle, CursorInv, TalkTrue, SocketOnly
<1>. QED
  BY <1>1, <1>2, <1>3, <1>4, <1>5, <1>6, <1>7, <1>8, <1>9 DEF Next

LEMMA CursorAlways == Spec => [](TypeInv /\ CursorInv)
<1>1. Init => OutboxInv /\ CursorInv
  BY InitOutbox, InitCursor
<1>2. TypeInv /\ OutboxInv /\ CursorInv /\ [Next]_vars => OutboxInv' /\ CursorInv'
  BY TypeInvParts, StepType, StepOutbox, StepCursor
<1>. QED
  BY <1>1, <1>2, TypeCorrect, PTL DEF Spec

(* Until the process is killed, every row the room still serves at or      *)
(* below the cursor is in the document, whatever the two transports read,  *)
(* lose, repeat or apply late, for any number of rows (ChatClient's        *)
(* CursorHonest; after a kill it may fail until the next checkpoint).      *)
THEOREM CursorHonestUntilKill == Spec => [](env.crashes = 0 => CursorHonest)
<1>1. CursorInv => (env.crashes = 0 => CursorHonest)
  BY DEF CursorInv, TalkTrue, Sound, Calm, CursorHonest, HeldUpTo, Held, Doc
<1>. QED
  BY <1>1, CursorAlways, PTL

(* Until then the pair on disk is sound as well: what a restart finds      *)
(* covers what its cursor claims, though the cursor was sampled before the *)
(* document was exported (ChatClient's SavedHonest).                       *)
THEOREM SavedHonestUntilKill == Spec => [](env.crashes = 0 => SavedHonest)
<1>1. CursorInv => (env.crashes = 0 => SavedHonest)
  BY DEF CursorInv, WorldTrue, SinkTrue, Sound, Calm, SavedHonest, HeldUpTo, Held
<1>. QED
  BY <1>1, CursorAlways, PTL

(* A joined client is never ahead of its room: for ever if the socket is   *)
(* the only transport, however often the room is wiped, and with HTTPS     *)
(* until the first wipe (ChatClient's CursorNotAhead).                     *)
THEOREM CursorWithinRoom == Spec => []((~HttpOn \/ env.wipes = 0) => CursorNotAhead)
<1>1. CursorInv => ((~HttpOn \/ env.wipes = 0) => CursorNotAhead)
  BY JoinedPlanned DEF CursorInv, TalkTrue, SocketOnly, Sound, Unwiped, CursorNotAhead
<1>. QED
  BY <1>1, CursorAlways, PTL

-----------------------------------------------------------------------------
(***************************************************************************)
(* The reads of ChatClient: a wake is answered only by a read that covers  *)
(* it, and a hole in the document is remembered.                           *)
(*                                                                         *)
(* The first fact is about the wire: at most one read is outstanding, as a *)
(* request or as its answer, and none when the session is not asking.      *)
(***************************************************************************)

Lacks(fs, k) == \A i \in DOMAIN fs : fs[i].k # k
Few(fs, k)   == \A i, j \in DOMAIN fs : fs[i].k = k /\ fs[j].k = k => i = j

Asking(sh, se) == \/ se.phase \in {"fetch", "replay", "backfill"}
                  \/ se.phase = "steady" /\ sh.rowsReqOut

OneRead(sh, se, cs, ss) ==
  /\ Few(cs, "ROWS_REQ") /\ Few(ss, "ROWS")
  /\ Lacks(cs, "ROWS_REQ") \/ Lacks(ss, "ROWS")
  /\ ~Asking(sh, se) => Lacks(cs, "ROWS_REQ") /\ Lacks(ss, "ROWS")
  /\ se.phase = "down" => se.ticket = 0 /\ se.refresh = 0

ReadInv == OneRead(shared, sess, c2s, s2c)

(* Of kind k, fs2 has only frames that fs has, and no more of them.        *)
Kept(fs, fs2, k) ==
  /\ \A i \in DOMAIN fs2 : fs2[i].k = k => \E j \in DOMAIN fs : fs[j] = fs2[i]
  /\ Few(fs, k) => Few(fs2, k)

LEMMA KeptSame ==
  ASSUME NEW fs, NEW k
  PROVE  Kept(fs, fs, k)
BY DEF Kept

LEMMA KeptNone ==
  ASSUME NEW fs, NEW k
  PROVE  Kept(fs, <<>>, k) /\ Lacks(<<>>, k) /\ Few(<<>>, k)
BY DEF Kept, Lacks, Few

LEMMA KeptLacks ==
  ASSUME NEW fs, NEW fs2, NEW k, Kept(fs, fs2, k), Lacks(fs, k)
  PROVE  Lacks(fs2, k)
BY DEF Kept, Lacks

LEMMA LacksFew ==
  ASSUME NEW fs, NEW k, Lacks(fs, k)
  PROVE  Few(fs, k)
BY DEF Lacks, Few

LEMMA TailElements ==
  ASSUME NEW S, NEW fs \in Seq(S), fs # <<>>
  PROVE  /\ Len(fs) \in Nat \ {0} /\ DOMAIN fs = 1 .. Len(fs) /\ DOMAIN Tail(fs) = 1 .. (Len(fs) - 1)
         /\ \A i \in DOMAIN Tail(fs) : i + 1 \in DOMAIN fs /\ Tail(fs)[i] = fs[i + 1]
         /\ 1 \in DOMAIN fs /\ Head(fs) = fs[1]
<1>1. Len(fs) \in Nat /\ DOMAIN fs = 1 .. Len(fs) /\ Len(fs) > 0 /\ Head(fs) = fs[1]
  OBVIOUS
<1>2. Len(Tail(fs)) = Len(fs) - 1 /\ \A i \in 1 .. Len(Tail(fs)) : Tail(fs)[i] = fs[i + 1]
  BY <1>1
<1>3. DOMAIN Tail(fs) = 1 .. (Len(fs) - 1)
  BY <1>1, <1>2
<1>. QED
  BY <1>1, <1>2, <1>3

LEMMA KeptTail ==
  ASSUME NEW S, NEW fs \in Seq(S), fs # <<>>, NEW k
  PROVE  /\ Kept(fs, Tail(fs), k)
         /\ Few(fs, k) /\ Head(fs).k = k => Lacks(Tail(fs), k)
<1>. DEFINE ft == Tail(fs)
            n == Len(fs)
<1>1. /\ n \in Nat \ {0} /\ DOMAIN fs = 1 .. n /\ DOMAIN ft = 1 .. (n - 1)
      /\ \A i \in DOMAIN ft : i + 1 \in DOMAIN fs /\ ft[i] = fs[i + 1]
      /\ 1 \in DOMAIN fs /\ Head(fs) = fs[1]
  BY TailElements
<1>. HIDE DEF ft, n
<1>2. \A i \in DOMAIN ft : ft[i].k = k => \E j \in DOMAIN fs : fs[j] = ft[i]
  BY <1>1
<1>3. ASSUME Few(fs, k)  PROVE Few(ft, k)
  BY <1>1, <1>3 DEF Few
<1>4. ASSUME Few(fs, k), Head(fs).k = k  PROVE Lacks(ft, k)
  <2>. SUFFICES ASSUME NEW i \in DOMAIN ft, ft[i].k = k  PROVE FALSE
    BY DEF Lacks
  <2>1. i + 1 \in DOMAIN fs /\ fs[i + 1].k = k /\ fs[1].k = k /\ i + 1 # 1
    BY <1>1, <1>4
  <2>. QED
    BY <1>1, <1>4, <2>1 DEF Few
<1>. QED
  BY <1>2, <1>3, <1>4 DEF Kept, ft

LEMMA SentElements ==
  ASSUME NEW S, NEW fs \in Seq(S), NEW f
  PROVE  /\ Len(fs) \in Nat /\ DOMAIN fs = 1 .. Len(fs) /\ DOMAIN Append(fs, f) = 1 .. (Len(fs) + 1)
         /\ \A i \in DOMAIN fs : Append(fs, f)[i] = fs[i]
         /\ Append(fs, f)[Len(fs) + 1] = f
<1>1. fs \in Seq(S \cup {f})
  BY SeqMono
<1>. QED
  BY <1>1, AppendProperties

LEMMA KeptSend ==
  ASSUME NEW S, NEW fs \in Seq(S), NEW f, NEW k
  PROVE  /\ f.k # k => Kept(fs, Append(fs, f), k)
         /\ Lacks(fs, k) => Few(Append(fs, f), k)
<1>. DEFINE fa == Append(fs, f)
            n == Len(fs)
<1>1. /\ n \in Nat /\ DOMAIN fs = 1 .. n /\ DOMAIN fa = 1 .. (n + 1)
      /\ \A i \in DOMAIN fs : fa[i] = fs[i]
      /\ fa[n + 1] = f
  BY SentElements
<1>. HIDE DEF fa, n
<1>2. \A i \in DOMAIN fa : (i \in DOMAIN fs /\ fa[i] = fs[i]) \/ (i = n + 1 /\ fa[i] = f)
  BY <1>1
<1>3. ASSUME f.k # k  PROVE Kept(fs, fa, k)
  BY <1>2, <1>3 DEF Kept, Few
<1>4. ASSUME Lacks(fs, k)  PROVE Few(fa, k)
  BY <1>2, <1>4 DEF Lacks, Few
<1>. QED
  BY <1>3, <1>4 DEF fa

(* The head of a queue is replaced by a frame of another kind.             *)
LEMMA SwapElements ==
  ASSUME NEW S, NEW fs \in Seq(S), fs # <<>>, NEW g
  PROVE  /\ Len(fs) \in Nat \ {0} /\ DOMAIN fs = 1 .. Len(fs)
         /\ DOMAIN (<<g>> \o Tail(fs)) = DOMAIN fs
         /\ (<<g>> \o Tail(fs))[1] = g
         /\ \A i \in DOMAIN fs : i # 1 => (<<g>> \o Tail(fs))[i] = fs[i]
<1>. DEFINE ft == Tail(fs)
            n == Len(fs)
            T == S \cup {g}
<1>1. /\ n \in Nat \ {0} /\ DOMAIN fs = 1 .. n /\ DOMAIN ft = 1 .. (n - 1)
      /\ \A i \in DOMAIN ft : i + 1 \in DOMAIN fs /\ ft[i] = fs[i + 1]
  BY TailElements
<1>2. fs \in Seq(T) /\ <<g>> \in Seq(T)
  <2>1. fs \in Seq(T)
    BY SeqMono
  <2>2. g \in T
    OBVIOUS
  <2>. HIDE DEF T
  <2>. QED
    BY <2>1, <2>2
<1>3. ft \in Seq(T) /\ Len(ft) = n - 1
  BY <1>2, <1>1, HeadTailProperties
<1>. HIDE DEF ft, n, T
<1>4. Len(<<g>> \o ft) = n /\ DOMAIN (<<g>> \o ft) = 1 .. n
      /\ \A i \in 1 .. n : (<<g>> \o ft)[i] = IF i <= 1 THEN <<g>>[i] ELSE ft[i - 1]
  BY <1>1, <1>2, <1>3, ConcatProperties
<1>5. \A i \in 1 .. n : i # 1 => i - 1 \in DOMAIN ft /\ ft[i - 1] = fs[i]
  BY <1>1
<1>6. (<<g>> \o ft)[1] = g
  BY <1>1, <1>4
<1>. QED
  BY <1>1, <1>4, <1>5, <1>6 DEF ft, n

LEMMA KeptSwap ==
  ASSUME NEW S, NEW fs \in Seq(S), fs # <<>>, NEW g, NEW k
  PROVE  /\ g.k # k => Kept(fs, <<g>> \o Tail(fs), k)
         /\ g.k = Head(fs).k =>
              /\ Lacks(fs, k) => Lacks(<<g>> \o Tail(fs), k)
              /\ Few(fs, k) => Few(<<g>> \o Tail(fs), k)
<1>. DEFINE fg == <<g>> \o Tail(fs)
            n == Len(fs)
<1>1. /\ n \in Nat \ {0} /\ DOMAIN fs = 1 .. n /\ DOMAIN fg = DOMAIN fs
      /\ fg[1] = g /\ \A i \in DOMAIN fs : i # 1 => fg[i] = fs[i]
  BY SwapElements
<1>2. 1 \in DOMAIN fs /\ Head(fs) = fs[1]
  BY TailElements
<1>. HIDE DEF fg, n
<1>3. ASSUME g.k # k  PROVE Kept(fs, fg, k)
  BY <1>1, <1>2, <1>3 DEF Kept, Few
<1>4. ASSUME g.k = Head(fs).k, Lacks(fs, k)  PROVE Lacks(fg, k)
  BY <1>1, <1>2, <1>4 DEF Lacks
<1>5. ASSUME g.k = Head(fs).k, Few(fs, k)  PROVE Few(fg, k)
  <2>1. \A i \in DOMAIN fs : fg[i].k = fs[i].k
    BY <1>1, <1>2, <1>5
  <2>. QED
    BY <1>1, <1>5, <2>1 DEF Few
<1>. QED
  BY <1>3, <1>4, <1>5 DEF fg

(* The mark of a checkpoint fetch adds no read.                            *)
LEMMA MarkElements ==
  ASSUME NEW S, s2c \in Seq(S), NEW n \in DOMAIN s2c
  PROVE  /\ DOMAIN s2c = 1 .. Len(s2c) /\ Len(s2c) \in Nat /\ n \in Nat
         /\ DOMAIN Marked(n) = 1 .. (Len(s2c) + 1)
         /\ \A i \in DOMAIN s2c : i <= n => Marked(n)[i] = s2c[i]
         /\ Marked(n)[n + 1] = [k |-> "END"]
         /\ \A i \in DOMAIN s2c : i > n => Marked(n)[i + 1] = s2c[i]
<1>. DEFINE m == [k |-> "END"]
            T == S \cup {m}
            a == SubSeq(s2c, 1, n)
            b == SubSeq(s2c, n + 1, Len(s2c))
            l == Len(s2c)
<1>1. s2c \in Seq(T) /\ m \in T
  BY SeqMono
<1>. HIDE DEF T, m
<1>2. l \in Nat /\ n \in 1 .. l /\ DOMAIN s2c = 1 .. l
  BY <1>1
<1>3. a \in Seq(T) /\ Len(a) = n /\ \A i \in 1 .. n : a[i] = s2c[i]
  BY <1>1, <1>2, SubSeqProperties
<1>4. b \in Seq(T) /\ Len(b) = l - n /\ \A i \in 1 .. (l - n) : b[i] = s2c[n + i]
  <2>1. CASE n = l
    BY <1>1, <1>2, <2>1
  <2>2. CASE n < l
    <3>1. n + 1 \in 1 .. l /\ l \in 1 .. l /\ n + 1 <= l
      BY <1>2, <2>2
    <3>. QED
      BY <1>1, <1>2, <3>1
  <2>. QED
    BY <1>2, <2>1, <2>2
<1>5. <<m>> \in Seq(T) /\ Len(<<m>>) = 1 /\ <<m>>[1] = m
  BY <1>1
<1>. HIDE DEF a, b, l
<1>6. a \o <<m>> \in Seq(T) /\ Len(a \o <<m>>) = n + 1
      /\ \A i \in 1 .. (n + 1) : (a \o <<m>>)[i] = IF i <= n THEN a[i] ELSE m
  <2>. DEFINE c == a \o <<m>>
  <2>1. Len(c) = n + 1 /\ c \in Seq(T)
    BY <1>2, <1>3, <1>5, ConcatProperties
  <2>2. \A i \in 1 .. (n + 1) : c[i] = IF i <= n THEN a[i] ELSE <<m>>[i - n]
    BY <1>2, <1>3, <1>5, ConcatProperties
  <2>. QED
    BY <1>2, <1>5, <2>1, <2>2
<1>. DEFINE c == a \o <<m>>
<1>. HIDE DEF c
<1>7. Len(c \o b) = l + 1 /\ DOMAIN (c \o b) = 1 .. (l + 1)
      /\ \A i \in 1 .. (l + 1) : (c \o b)[i] = IF i <= n + 1 THEN c[i] ELSE b[i - (n + 1)]
  <2>1. c \in Seq(T) /\ b \in Seq(T) /\ Len(c) = n + 1 /\ Len(b) = l - n /\ n + 1 + (l - n) = l + 1
    BY <1>2, <1>4, <1>6 DEF c
  <2>2. Len(c \o b) = Len(c) + Len(b) /\ c \o b \in Seq(T)
        /\ \A i \in 1 .. (Len(c) + Len(b)) : (c \o b)[i] = IF i <= Len(c) THEN c[i] ELSE b[i - Len(c)]
    BY <2>1, ConcatProperties
  <2>3. Len(c) + Len(b) = l + 1
    BY <1>2, <2>1
  <2>. QED
    BY <2>1, <2>2, <2>3
<1>8. Marked(n) = c \o b
  BY DEF Marked, a, b, c, m, l
<1>9. \A i \in 1 .. (n + 1) : c[i] = IF i <= n THEN a[i] ELSE m
  BY <1>6 DEF c
<1>10. \A i \in 1 .. l : i <= n => Marked(n)[i] = s2c[i]
  BY <1>2, <1>3, <1>7, <1>8, <1>9
<1>11. Marked(n)[n + 1] = m
  BY <1>2, <1>7, <1>8, <1>9
<1>12. \A i \in 1 .. l : i > n => Marked(n)[i + 1] = s2c[i]
  <2>. SUFFICES ASSUME NEW i \in 1 .. l, i > n  PROVE Marked(n)[i + 1] = s2c[i]
    OBVIOUS
  <2>1. i - n \in 1 .. (l - n) /\ i + 1 \in 1 .. (l + 1) /\ ~(i + 1 <= n + 1)
        /\ (i + 1) - (n + 1) = i - n /\ n + (i - n) = i
    BY <1>2
  <2>2. (c \o b)[i + 1] = b[(i + 1) - (n + 1)]
    BY <1>7, <2>1
  <2>. QED
    BY <1>4, <1>8, <2>1, <2>2
<1>13. DOMAIN Marked(n) = 1 .. (l + 1)
  BY <1>7, <1>8
<1>. QED
  BY <1>2, <1>10, <1>11, <1>12, <1>13 DEF l, m

LEMMA KeptMarked ==
  ASSUME NEW S, s2c \in Seq(S), NEW n \in DOMAIN s2c
  PROVE  Kept(s2c, Marked(n), "ROWS")
<1>. DEFINE fm == Marked(n)
            l == Len(s2c)
<1>1. /\ DOMAIN s2c = 1 .. l /\ l \in Nat /\ n \in Nat
      /\ DOMAIN fm = 1 .. (l + 1)
      /\ \A i \in DOMAIN s2c : i <= n => fm[i] = s2c[i]
      /\ fm[n + 1].k = "END"
      /\ \A i \in DOMAIN s2c : i > n => fm[i + 1] = s2c[i]
  BY MarkElements
<1>. HIDE DEF fm, l
<1>2. \A i \in DOMAIN fm : fm[i].k = "ROWS" =>
        \/ i <= n /\ i \in DOMAIN s2c /\ fm[i] = s2c[i]
        \/ i > n + 1 /\ i - 1 \in DOMAIN s2c /\ fm[i] = s2c[i - 1]
  <2>. SUFFICES ASSUME NEW i \in DOMAIN fm, fm[i].k = "ROWS"
                PROVE  \/ i <= n /\ i \in DOMAIN s2c /\ fm[i] = s2c[i]
                       \/ i > n + 1 /\ i - 1 \in DOMAIN s2c /\ fm[i] = s2c[i - 1]
    OBVIOUS
  <2>1. i # n + 1 /\ i \in 1 .. (l + 1) /\ n \in DOMAIN s2c
    BY <1>1
  <2>2. CASE i <= n
    BY <1>1, <2>1, <2>2
  <2>3. CASE i > n + 1
    <3>1. i - 1 \in DOMAIN s2c /\ i - 1 > n /\ (i - 1) + 1 = i
      BY <1>1, <2>1, <2>3
    <3>2. fm[(i - 1) + 1] = s2c[i - 1]
      BY <1>1, <3>1
    <3>. QED
      BY <2>3, <3>1, <3>2
  <2>. QED
    BY <1>1, <2>1, <2>2, <2>3
<1>3. ASSUME Few(s2c, "ROWS")  PROVE Few(fm, "ROWS")
  <2>. SUFFICES ASSUME NEW i \in DOMAIN fm, NEW j \in DOMAIN fm, fm[i].k = "ROWS", fm[j].k = "ROWS"
                PROVE  i = j
    BY DEF Few
  <2>. DEFINE u(x) == IF x <= n THEN x ELSE x - 1
  <2>1. u(i) \in DOMAIN s2c /\ fm[i] = s2c[u(i)] /\ u(j) \in DOMAIN s2c /\ fm[j] = s2c[u(j)]
    BY <1>1, <1>2
  <2>2. u(i) = u(j)
    <3>. HIDE DEF u
    <3>. QED  BY <1>3, <2>1 DEF Few
  <2>. QED
    BY <1>1, <1>2, <2>2
<1>. QED
  BY <1>2, <1>3 DEF Kept, fm

-----------------------------------------------------------------------------
(* One read at a time.                                                     *)

LEMMA OneReadKept ==
  ASSUME NEW sh, NEW se, NEW cs, NEW ss, OneRead(sh, se, cs, ss),
         NEW sh2, NEW se2, NEW cs2, NEW ss2,
         Kept(cs, cs2, "ROWS_REQ"), Kept(ss, ss2, "ROWS"),
         Asking(sh, se) => Asking(sh2, se2) \/ (Lacks(cs2, "ROWS_REQ") /\ Lacks(ss2, "ROWS")),
         se2.phase = "down" => se2.ticket = 0 /\ se2.refresh = 0
  PROVE  OneRead(sh2, se2, cs2, ss2)
<1>1. (Lacks(cs, "ROWS_REQ") => Lacks(cs2, "ROWS_REQ")) /\ (Lacks(ss, "ROWS") => Lacks(ss2, "ROWS"))
  BY KeptLacks
<1>. QED
  BY <1>1 DEF OneRead, Kept

LEMMA OneReadSend ==
  ASSUME NEW sh, NEW se, NEW S, NEW cs \in Seq(S), NEW ss, OneRead(sh, se, cs, ss), ~Asking(sh, se),
         NEW sh2, NEW se2, NEW f, Asking(sh2, se2), se2.phase # "down"
  PROVE  OneRead(sh2, se2, Append(cs, f), ss)
<1>1. Lacks(cs, "ROWS_REQ") /\ Lacks(ss, "ROWS")
  BY DEF OneRead
<1>2. Few(Append(cs, f), "ROWS_REQ") /\ Few(ss, "ROWS")
  BY <1>1, KeptSend, LacksFew
<1>. QED
  BY <1>1, <1>2 DEF OneRead

LEMMA ClosedOneRead ==
  ASSUME NEW sh, NEW se, se.ticket = 0, se.refresh = 0
  PROVE  OneRead(sh, se, <<>>, <<>>)
BY KeptNone DEF OneRead

LEMMA EndSessionOneRead ==
  ASSUME NEW sh, NEW h, EndSession(sh, h)
  PROVE  ReadInv'
<1>1. c2s' = <<>> /\ s2c' = <<>> /\ sess'.ticket = 0 /\ sess'.refresh = 0
  BY DEF EndSession, NewSess
<1>. QED
  BY <1>1, ClosedOneRead DEF ReadInv

(* What is sent ends up behind what is already under way.                  *)
LEMMA SendAfter ==
  ASSUME NEW cs \in Seq(ClientFrame), NEW out \in Seq(ClientFrame), NEW f \in ClientFrame
  PROVE  /\ cs \o out \in Seq(ClientFrame)
         /\ cs \o Append(out, f) = Append(cs \o out, f)
OBVIOUS

LEMMA RepairGapOneRead ==
  ASSUME NEW t \in TurnType, NEW cs \in Seq(ClientFrame), NEW ss,
         t.se.phase = "steady", OneRead(t.sh, t.se, cs \o t.out, ss)
  PROVE  OneRead(RepairGap(t).sh, RepairGap(t).se, cs \o RepairGap(t).out, ss)
<1>. DEFINE u == RepairGap(t)
            f == RowsReq(t.sh.cursor, FALSE)
<1>1. t.out \in Seq(ClientFrame) /\ f \in ClientFrame /\ t.sh.cursor \in Nat
  BY RowsReqType DEF TurnType, SharedType
<1>2. \/ u.sh = t.sh /\ u.se = t.se /\ u.out = t.out
      \/ /\ ~t.sh.rowsReqOut /\ u.sh.rowsReqOut /\ u.se.phase = "steady"
         /\ u.out \in {t.out, Append(t.out, f)}
         /\ u.se.ticket = t.se.ticket /\ u.se.refresh = t.se.refresh
  BY DEF RepairGap, TurnType, SharedType, SessType
<1>. HIDE DEF u, f
<1>3. ASSUME u.sh = t.sh, u.se = t.se, u.out = t.out
      PROVE  OneRead(u.sh, u.se, cs \o u.out, ss)
  BY <1>3
<1>4. ASSUME ~t.sh.rowsReqOut, u.sh.rowsReqOut, u.se.phase = "steady",
             u.out \in {t.out, Append(t.out, f)},
             u.se.ticket = t.se.ticket, u.se.refresh = t.se.refresh
      PROVE  OneRead(u.sh, u.se, cs \o u.out, ss)
  <2>1. ~Asking(t.sh, t.se) /\ Asking(u.sh, u.se) /\ u.se.phase # "down"
    BY <1>4 DEF Asking
  <2>2. OneRead(u.sh, u.se, cs \o t.out, ss)
    BY <2>1, KeptSame, OneReadKept
  <2>3. cs \o t.out \in Seq(ClientFrame) /\ cs \o Append(t.out, f) = Append(cs \o t.out, f)
    BY <1>1, SendAfter
  <2>4. OneRead(u.sh, u.se, Append(cs \o t.out, f), ss)
    BY <2>1, <2>3, OneReadSend
  <2>. QED
    BY <1>4, <2>2, <2>3, <2>4
<1>. QED
  BY <1>2, <1>3, <1>4 DEF u

LEMMA SendRefreshOneRead ==
  ASSUME NEW t \in TurnType, NEW cs \in Seq(ClientFrame), NEW ss,
         t.se.phase = "steady", OneRead(t.sh, t.se, cs \o t.out, ss)
  PROVE  OneRead(SendRefresh(t).sh, SendRefresh(t).se, cs \o SendRefresh(t).out, ss)
<1>. DEFINE u == SendRefresh(t)
            f == RowsReq(t.sh.cursor, FALSE)
<1>1. t.out \in Seq(ClientFrame) /\ f \in ClientFrame /\ t.sh.cursor \in Nat
  BY RowsReqType DEF TurnType, SharedType
<1>2. \/ u.sh = t.sh /\ u.se = t.se /\ u.out = t.out
      \/ /\ ~t.sh.rowsReqOut /\ u.sh.rowsReqOut /\ u.se.phase = "steady"
         /\ u.out = Append(t.out, f)
  BY DEF SendRefresh, TurnType, SharedType, SessType
<1>. HIDE DEF u, f
<1>3. ASSUME u.sh = t.sh, u.se = t.se, u.out = t.out
      PROVE  OneRead(u.sh, u.se, cs \o u.out, ss)
  BY <1>3
<1>4. ASSUME ~t.sh.rowsReqOut, u.sh.rowsReqOut, u.se.phase = "steady", u.out = Append(t.out, f)
      PROVE  OneRead(u.sh, u.se, cs \o u.out, ss)
  <2>1. ~Asking(t.sh, t.se) /\ Asking(u.sh, u.se) /\ u.se.phase # "down"
    BY <1>4 DEF Asking
  <2>3. cs \o t.out \in Seq(ClientFrame) /\ cs \o Append(t.out, f) = Append(cs \o t.out, f)
    BY <1>1, SendAfter
  <2>4. OneRead(u.sh, u.se, Append(cs \o t.out, f), ss)
    BY <2>1, <2>3, OneReadSend
  <2>. QED
    BY <1>4, <2>3, <2>4
<1>. QED
  BY <1>2, <1>3, <1>4 DEF u

(* What a push adds to a turn.                                             *)
PushOut(t, u) ==
  /\ u.sh.rowsReqOut = t.sh.rowsReqOut /\ u.sh.refReq = t.sh.refReq /\ u.sh.refDone = t.sh.refDone
  /\ u.sh.gap = t.sh.gap /\ u.sh.cursor = t.sh.cursor
  /\ u.se.phase = t.se.phase /\ u.se.ticket = t.se.ticket /\ u.se.refresh = t.se.refresh
  /\ u.se.head = t.se.head /\ u.se.row = t.se.row
  /\ u.ok = t.ok
  /\ \/ u.out = t.out
     \/ \E f \in ClientFrame : f.k = "PUSH" /\ u.out = Append(t.out, f)

LEMMA PushPendingOut ==
  ASSUME NEW t \in TurnType
  PROVE  PushOut(t, PushPending(t))
<1>. DEFINE ids == ToPush(t.sh, t.se.inFlight)
            f   == [k |-> "PUSH", ids |-> ids]
            sh2 == Saved(t.sh, ids)
            u   == PushPending(t)
<1>1. ids \in SUBSET Own /\ (ids # {} => f \in ClientFrame /\ f.k = "PUSH")
  <2>1. ids \in SUBSET Own
    BY ToPushType DEF TurnType
  <2>. HIDE DEF ids
  <2>. QED
    BY <2>1 DEF ClientFrame, PushFrame
<1>. HIDE DEF ids, f
<1>2. sh2.rowsReqOut = t.sh.rowsReqOut /\ sh2.refReq = t.sh.refReq /\ sh2.refDone = t.sh.refDone
      /\ sh2.gap = t.sh.gap /\ sh2.cursor = t.sh.cursor
  BY DEF Saved, TurnType, SharedType
<1>3. u.sh = sh2 /\ u.out = IF ids = {} THEN t.out ELSE Append(t.out, f)
  BY DEF PushPending, TurnType, ids, f
<1>4. u.se.phase = t.se.phase /\ u.se.ticket = t.se.ticket /\ u.se.refresh = t.se.refresh
      /\ u.se.head = t.se.head /\ u.se.row = t.se.row /\ u.ok = t.ok
  BY DEF PushPending, TurnType, SessType
<1>. HIDE DEF u, sh2
<1>5. u.out = t.out \/ \E g \in ClientFrame : g.k = "PUSH" /\ u.out = Append(t.out, g)
  BY <1>1, <1>3
<1>. QED
  BY <1>2, <1>3, <1>4, <1>5 DEF PushOut, u

LEMMA PushOneRead ==
  ASSUME NEW t \in TurnType, NEW u, PushOut(t, u), NEW cs \in Seq(ClientFrame), NEW ss,
         OneRead(t.sh, t.se, cs \o t.out, ss)
  PROVE  OneRead(u.sh, u.se, cs \o u.out, ss)
<1>1. t.out \in Seq(ClientFrame) /\ cs \o t.out \in Seq(ClientFrame)
  BY DEF TurnType
<1>2. Kept(cs \o t.out, cs \o u.out, "ROWS_REQ")
  <2>1. CASE u.out = t.out
    BY <2>1, KeptSame
  <2>2. ASSUME NEW f \in ClientFrame, f.k = "PUSH", u.out = Append(t.out, f)
        PROVE  Kept(cs \o t.out, cs \o u.out, "ROWS_REQ")
    <3>1. cs \o u.out = Append(cs \o t.out, f)
      BY <1>1, <2>2, SendAfter
    <3>. QED
      BY <1>1, <2>2, <3>1, KeptSend
  <2>. QED
    BY <2>1, <2>2 DEF PushOut
<1>3. (Asking(t.sh, t.se) => Asking(u.sh, u.se))
      /\ (u.se.phase = "down" => u.se.ticket = 0 /\ u.se.refresh = 0)
  BY DEF Asking, PushOut, OneRead
<1>. QED
  BY <1>2, <1>3, KeptSame, OneReadKept

LEMMA FinishOneRead ==
  ASSUME NEW t, NEW h, NEW rest, Finish(t, h, rest), OneRead(t.sh, t.se, c2s \o t.out, rest)
  PROVE  ReadInv'
<1>1. CASE t.ok
  BY <1>1 DEF Finish, ReadInv
<1>2. CASE ~t.ok
  BY <1>2, EndSessionOneRead DEF Finish
<1>. QED
  BY <1>1, <1>2

LEMMA NothingSent ==
  ASSUME NEW cs \in Seq(ClientFrame)
  PROVE  cs \o <<>> = cs
OBVIOUS

LEMMA AfterFrameOneRead ==
  ASSUME NEW sh \in SharedType, NEW se \in SessType, NEW h, NEW rest, AfterFrame(sh, se, h, rest),
         c2s \in Seq(ClientFrame), OneRead(sh, se, c2s, rest)
  PROVE  ReadInv'
<1>. DEFINE t0 == Turn(sh, se)
            t1 == RepairGap(t0)
            t2 == SendRefresh(t1)
            t  == IF se.phase = "steady" THEN t2 ELSE t0
<1>1. t0 \in TurnType /\ t0.sh = sh /\ t0.se = se /\ OneRead(t0.sh, t0.se, c2s \o t0.out, rest)
  BY TurnIsTurn, NothingSent DEF Turn
<1>2. Finish(t, h, rest)
  BY DEF AfterFrame
<1>. HIDE DEF t0
<1>3. se.phase = "steady" => t1 \in TurnType /\ t1.se.phase = "steady"
                             /\ OneRead(t1.sh, t1.se, c2s \o t1.out, rest)
  BY <1>1, RepairGapType, PhaseKept, RepairGapOneRead
<1>. HIDE DEF t1
<1>4. se.phase = "steady" => OneRead(t2.sh, t2.se, c2s \o t2.out, rest)
  BY <1>3, SendRefreshOneRead
<1>. HIDE DEF t2
<1>5. OneRead(t.sh, t.se, c2s \o t.out, rest)
  BY <1>1, <1>4
<1>. QED
  BY <1>2, <1>5, FinishOneRead

-----------------------------------------------------------------------------
(* The steps that leave the reads alone.                                   *)

SameReads(sh, sh2) ==
  /\ sh2.rowsReqOut = sh.rowsReqOut /\ sh2.refReq = sh.refReq /\ sh2.refDone = sh.refDone
  /\ sh.gap => sh2.gap
SamePhase(se, se2) ==
  /\ se2.phase = se.phase /\ se2.ticket = se.ticket /\ se2.refresh = se.refresh
  /\ se2.head = se.head /\ se2.row = se.row

(* From the answer of the pull to its end the cycle holds what it may certify. *)
Answered == {"answer", "fetch", "settle", "rows"}
SameAnswer(h, h2) ==
  /\ h2.phase \in Answered =>
       /\ h.phase \in Answered
       /\ h2.ticket = h.ticket /\ h2.st.head = h.st.head /\ h2.next = h.next /\ h2.row = h.row
       /\ h2.gapSame => h.gapSame
  /\ h2.ticket \in {0, h.ticket} /\ h2.row \in {NoRow, h.row}

Quiet ==
  /\ SameReads(shared, shared') /\ SamePhase(sess, sess') /\ SameAnswer(http, http')
  /\ Kept(c2s, c2s', "ROWS_REQ") /\ Kept(s2c, s2c', "ROWS")
  /\ UNCHANGED asked

LEMMA QuietOneRead ==
  ASSUME ReadInv, shared'.rowsReqOut = shared.rowsReqOut, SamePhase(sess, sess'),
         Kept(c2s, c2s', "ROWS_REQ"), Kept(s2c, s2c', "ROWS")
  PROVE  ReadInv'
<1>1. Asking(shared, sess) => Asking(shared', sess')
  BY DEF Asking, SamePhase
<1>2. sess'.phase = "down" => sess'.ticket = 0 /\ sess'.refresh = 0
  BY DEF SamePhase, ReadInv, OneRead
<1>. QED
  BY <1>1, <1>2, OneReadKept DEF ReadInv

LEMMA BookReads ==
  ASSUME NEW sh \in SharedType
  PROVE  /\ \A ids : SameReads(sh, Saved(sh, ids)) /\ SameReads(sh, Retire(sh, ids))
         /\ \A b, durable : SameReads(sh, EnqueueBatch(sh, b, durable))
         /\ \A same : SameReads(sh, SettleCausal(sh, same))
BY DEF SameReads, Saved, Retire, EnqueueBatch, SettleCausal, SharedType

LEMMA SpawnAnswer ==
  ASSUME NEW h, NEW pending
  PROVE  SameAnswer(h, SpawnHttp(h, pending))
BY DEF SameAnswer, SpawnHttp, IdleHttp, Answered

LEMMA StillTalk ==
  ASSUME UNCHANGED <<shared, sess, c2s, s2c>>
  PROVE  /\ SameReads(shared, shared') /\ SamePhase(sess, sess')
         /\ Kept(c2s, c2s', "ROWS_REQ") /\ Kept(s2c, s2c', "ROWS")
BY KeptSame DEF SameReads, SamePhase

LEMMA StillQuiet ==
  ASSUME UNCHANGED <<shared, sess, c2s, s2c, http, asked>>
  PROVE  Quiet
BY StillTalk DEF Quiet, SameAnswer

(* Steps of the client's own bookkeeping, and of the disk. *)
LEMMA BookQuiet ==
  ASSUME TalkInv, \/ HandOver \/ Handed \/ GoLive \/ Enqueue \/ EnqueueEarly \/ Probe \/ Redial
                  \/ FlushSample \/ FlushSave \/ PostCheckpoint
  PROVE  Quiet
<1>1. shared \in SharedType /\ http \in HttpType
  BY DEF TalkInv
<1>2. CASE HandOver
  BY <1>2, StillQuiet DEF HandOver
<1>3. CASE GoLive
  BY <1>3, StillQuiet DEF GoLive
<1>4. CASE Redial
  BY <1>4, StillQuiet DEF Redial
<1>5. CASE FlushSample
  BY <1>5, StillQuiet DEF FlushSample
<1>6. CASE FlushSave
  BY <1>6, StillQuiet DEF FlushSave
<1>7. CASE PostCheckpoint
  BY <1>7, StillQuiet DEF PostCheckpoint
<1>8. CASE EnqueueEarly
  BY <1>8, StillQuiet DEF EnqueueEarly
<1>9. ASSUME UNCHANGED <<sess, c2s, s2c, http, asked>>,
             NEW b, NEW durable, shared' = EnqueueBatch(shared, b, durable)
      PROVE  Quiet
  BY <1>1, <1>9, BookReads, KeptSame DEF Quiet, SamePhase, SameAnswer
<1>10. CASE Handed
  <2>1. UNCHANGED <<sess, c2s, s2c, http, asked>>
        /\ \E b : shared' = EnqueueBatch(shared, b, sink.hand.durable)
    BY <1>10 DEF Handed
  <2>. QED  BY <1>9, <2>1
<1>11. CASE Enqueue
  <2>1. UNCHANGED <<sess, c2s, s2c, http, asked>>
        /\ \E durable : shared' = EnqueueBatch(shared, issued + 1, durable)
    BY <1>11 DEF Enqueue
  <2>. QED  BY <1>9, <2>1
<1>12. CASE Probe
  <2>1. SameReads(shared, shared')
    BY <1>1, <1>12 DEF Probe, SameReads, SharedType
  <2>2. SameAnswer(http, http')
    BY <1>1, <1>12 DEF Probe, SameAnswer, HttpType
  <2>. QED
    BY <1>12, <2>1, <2>2, KeptSame DEF Probe, Quiet, SamePhase
<1>. QED
  BY <1>2, <1>3, <1>4, <1>5, <1>6, <1>7, <1>8, <1>10, <1>11, <1>12

(* Steps of the HTTPS cycle outside of the pull's answer. *)
LEMMA CycleQuiet ==
  ASSUME TalkInv, \/ DialFail \/ HttpPersist \/ HttpFail \/ HttpState \/ HttpFetch
                  \/ HttpSettle \/ HttpAck
  PROVE  Quiet
<1>1. shared \in SharedType /\ http \in HttpType
  BY DEF TalkInv
<1>2. CASE DialFail
  BY <1>2, StillTalk, SpawnAnswer DEF DialFail, Quiet
<1>3. CASE HttpPersist
  <2>1. SameReads(shared, shared')
    BY <1>1, <1>3, BookReads DEF HttpPersist, SameReads
  <2>2. http'.phase \in {"capture", "post"} /\ http'.ticket = http.ticket /\ http'.row = http.row
    BY <1>1, <1>3 DEF HttpPersist, HttpType
  <2>3. SameAnswer(http, http')
    BY <2>2 DEF SameAnswer, Answered
  <2>. QED
    BY <1>3, <2>1, <2>3, KeptSame DEF HttpPersist, Quiet, SamePhase
<1>4. CASE HttpFail
  <2>1. SameReads(shared, shared')
    BY <1>1, <1>4 DEF HttpFail, SameReads, SharedType
  <2>2. SameAnswer(http, http')
    BY <1>4 DEF HttpFail, SameAnswer, IdleHttp, Answered
  <2>. QED
    BY <1>4, <2>1, <2>2, KeptSame DEF HttpFail, Quiet, SamePhase
<1>5. CASE HttpState
  <2>1. SameReads(shared, shared')
    BY <1>1, <1>5 DEF HttpState, SameReads, SharedType
  <2>2. SameAnswer(http, http')
    <3>1. CASE http' = IdleHttp
      BY <3>1 DEF SameAnswer, IdleHttp, Answered
    <3>2. CASE http' # IdleHttp
      <4>. DEFINE plan == PlanCatchUp(http.cursor, http.st, Contained(http.st))
                  ph == IF plan.fetch THEN "fetch" ELSE "settle"
      <4>1. http' = [http EXCEPT !.phase = ph, !.plan = plan, !.causalSame = TRUE]
        BY <1>5, <3>2 DEF HttpState
      <4>. HIDE DEF ph, plan
      <4>2. http'.ticket = http.ticket /\ http'.st = http.st /\ http'.next = http.next
            /\ http'.row = http.row /\ http'.gapSame = http.gapSame
        BY <1>1, <4>1 DEF HttpType
      <4>. QED
        BY <1>5, <4>2 DEF HttpState, SameAnswer, Answered
    <3>. QED
      BY <3>1, <3>2
  <2>. QED
    BY <1>5, <2>1, <2>2, KeptSame DEF HttpState, Quiet, SamePhase
<1>6. CASE HttpFetch
  <2>1. SameAnswer(http, http')
    BY <1>1, <1>6 DEF HttpFetch, SameAnswer, Answered, HttpType
  <2>. QED
    BY <1>6, <2>1, StillTalk DEF HttpFetch, Quiet
<1>7. CASE HttpSettle
  <2>1. SameReads(shared, shared')
    <3>. DEFINE c == IF shared.cursor > http.st.head THEN http.plan.after
                     ELSE MaxOf(shared.cursor, http.plan.after)
    <3>1. shared' = SettleCausal([shared EXCEPT !.cursor = c], http.causalSame)
      BY <1>1, <1>7 DEF HttpSettle, SharedType
    <3>. HIDE DEF c
    <3>. QED
      BY <1>1, <3>1 DEF SettleCausal, SameReads, SharedType
  <2>2. SameAnswer(http, http')
    BY <1>1, <1>7 DEF HttpSettle, SameAnswer, Answered, HttpType
  <2>. QED
    BY <1>7, <2>1, <2>2, KeptSame DEF HttpSettle, Quiet, SamePhase
<1>8. CASE HttpAck
  <2>1. SameReads(shared, shared')
    <3>. DEFINE c == Walk(shared.cursor, http.ack.seq)
    <3>0. PICK retired \in BOOLEAN :
            shared' = [Retire(shared, IF retired THEN {http.ack.id} ELSE {}) EXCEPT !.cursor = c]
      BY <1>8 DEF HttpAck
    <3>. DEFINE ids == IF retired THEN {http.ack.id} ELSE {}
    <3>. HIDE DEF c
    <3>1. shared' = [Retire(shared, ids) EXCEPT !.cursor = c]
      BY <3>0
    <3>. HIDE DEF ids
    <3>2. SameReads(shared, Retire(shared, ids)) /\ Retire(shared, ids) \in SharedType
      BY <1>1, BookReads, RetireType
    <3>. DEFINE q == Retire(shared, ids)
    <3>. HIDE DEF q
    <3>3. shared' = [q EXCEPT !.cursor = c] /\ q \in SharedType /\ SameReads(shared, q)
      BY <3>1, <3>2 DEF q
    <3>. QED
      BY <3>3 DEF SameReads, SharedType
  <2>2. http'.phase = "push" /\ http'.ticket = http.ticket /\ http'.row = http.row
    BY <1>1, <1>8 DEF HttpAck, HttpType
  <2>3. SameAnswer(http, http')
    BY <2>2 DEF SameAnswer, Answered
  <2>. QED
    BY <1>8, <2>1, <2>3, KeptSame DEF HttpAck, Quiet, SamePhase
<1>. QED
  BY <1>2, <1>3, <1>4, <1>5, <1>6, <1>7, <1>8

(* Frames of the room that are no answer to a read. *)
LEMMA FramesQuiet ==
  ASSUME TalkInv, \/ ServeHello \/ ServePush \/ SkipStale \/ HttpPost
                  \/ \E r \in Remote, kind \in Kinds : RemoteAppend(r, kind)
  PROVE  Quiet
<1>1. http \in HttpType /\ c2s \in Seq(ClientFrame) /\ s2c \in Seq(FramesUpTo(Len(srv.log)))
  BY DEF TalkInv
<1>2. CASE ServeHello
  <2>1. Kept(c2s, c2s', "ROWS_REQ")
    BY <1>1, <1>2, KeptTail DEF ServeHello
  <2>2. Kept(s2c, s2c', "ROWS")
    <3>1. s2c' = Append(s2c, StateOf(srv)) /\ StateOf(srv).k # "ROWS"
      BY <1>2 DEF ServeHello, StateOf
    <3>. QED
      BY <1>1, <3>1, KeptSend
  <2>. QED
    BY <1>2, <2>1, <2>2 DEF ServeHello, Quiet, SameReads, SamePhase, SameAnswer
<1>3. CASE ServePush
  <2>1. Kept(c2s, c2s', "ROWS_REQ")
    <3>1. c2s # <<>> /\ (c2s' = Tail(c2s) \/ \E g : g.k = "PUSH" /\ c2s' = <<g>> \o Tail(c2s))
      BY <1>3 DEF ServePush
    <3>2. CASE c2s' = Tail(c2s)
      BY <1>1, <3>1, <3>2, KeptTail
    <3>3. ASSUME NEW g, g.k = "PUSH", c2s' = <<g>> \o Tail(c2s)  PROVE Kept(c2s, c2s', "ROWS_REQ")
      <4>1. g.k # "ROWS_REQ"
        BY <3>3
      <4>. QED
        BY <1>1, <3>1, <3>3, <4>1, KeptSwap
    <3>. QED
      BY <3>1, <3>2, <3>3
  <2>2. Kept(s2c, s2c', "ROWS")
    <3>1. \E g : g.k # "ROWS" /\ s2c' = Append(s2c, g)
      BY <1>3 DEF ServePush
    <3>. QED
      BY <1>1, <3>1, KeptSend
  <2>. QED
    BY <1>3, <2>1, <2>2 DEF ServePush, Quiet, SameReads, SamePhase, SameAnswer
<1>4. CASE SkipStale
  <2>1. Kept(s2c, s2c', "ROWS")
    BY <1>1, <1>4, KeptTail DEF SkipStale
  <2>. QED
    BY <1>4, <2>1, KeptSame DEF SkipStale, Quiet, SameReads, SamePhase, SameAnswer
<1>5. ASSUME NEW id, NEW n  PROVE Kept(s2c, Broadcast([k |-> "ROW", id |-> id, seq |-> n]), "ROWS")
  <2>1. [k |-> "ROW", id |-> id, seq |-> n].k # "ROWS"
    OBVIOUS
  <2>. QED
    BY <1>1, <2>1, KeptSame, KeptSend DEF Broadcast
<1>6. ASSUME NEW r \in Remote, NEW kind \in Kinds, RemoteAppend(r, kind)  PROVE Quiet
  BY <1>5, <1>6, KeptSame DEF RemoteAppend, Quiet, SameReads, SamePhase, SameAnswer
<1>7. CASE HttpPost
  <2>1. Kept(s2c, s2c', "ROWS")
    <3>1. s2c' = s2c \/ \E id, n : s2c' = Broadcast([k |-> "ROW", id |-> id, seq |-> n])
      BY <1>7 DEF HttpPost
    <3>. QED
      BY <1>5, <3>1, KeptSame
  <2>2. http'.phase \in {"capture", "acked"} /\ http'.ticket = http.ticket /\ http'.row = http.row
    BY <1>1, <1>7 DEF HttpPost, HttpType
  <2>3. SameAnswer(http, http')
    BY <2>2 DEF SameAnswer, Answered
  <2>. QED
    BY <1>7, <2>1, <2>3, KeptSame DEF HttpPost, Quiet, SameReads, SamePhase
<1>. QED
  BY <1>2, <1>3, <1>4, <1>6, <1>7

-----------------------------------------------------------------------------
(* What a read covers.  UpTo: the rows of room r up to n, served or trimmed *)
(* into its checkpoint.  Reach: set S has what was asked for by the wakes  *)
(* up to n.  Covered: position c is no further than the room, and s has    *)
(* every row up to it that the room still serves.                          *)

UpTo(r, n) == {r.log[s] : s \in {x \in DOMAIN r.log : x <= n}}
Trimmed(r) == UpTo(r, r.ckpt)
Reach(a, n, S) == \A t \in DOMAIN a : t <= n => a[t] \subseteq S
Covered(r, c, s) == c <= Len(r.log) /\ Held(r, c) \subseteq s

(* Row t, in hand, lies beyond row s, which is missing.                    *)
HoleAt(r, g, x, s, t) ==
  /\ s \in DOMAIN r.log /\ t \in DOMAIN r.log /\ r.ckpt < s /\ s < t
  /\ r.log[s] \notin g /\ r.log[t] \in Remote \cap x
Within(r, g, x, n) == \A s, t : HoleAt(r, g, x, s, t) => t <= n

(* Wakes are counted, and those completed have what they asked for.        *)
DoneTrue(sh, r, d, a) ==
  /\ Len(a) = sh.refReq /\ sh.refDone <= Len(a)
  /\ Reach(a, sh.refDone, d \cup Trimmed(r))
  /\ Reach(a, Len(a), Rows(r.log))
AskTrue(cs, r, g) == \A i \in DOMAIN cs : cs[i].k = "ROWS_REQ" => Covered(r, cs[i].after, g)

(* Room r, document g, p what the task holds beside it, x what both hold.  *)
FrameTrue(f, sh, se, r, g, p, x, a) ==
  /\ Reach(a, se.ticket, UpTo(r, f.head)) /\ Reach(a, se.refresh, UpTo(r, f.head))
  /\ Covered(r, f.next - 1, p)
  /\ sh.gap \/ Within(r, g, x, f.head)
SessReads(sh, se, ss, r, g, p, x, a) ==
  /\ se.ticket <= Len(a) /\ se.refresh <= Len(a)
  /\ \A i \in DOMAIN ss : ss[i].k = "ROWS" => FrameTrue(ss[i], sh, se, r, g, p, x, a)
  /\ se.phase = "drain" => /\ Reach(a, se.ticket, UpTo(r, se.head))
                           /\ sh.gap \/ Within(r, g, x, 0)
  /\ se.phase = "steady" => sh.gap \/ sh.rowsReqOut \/ Within(r, g, x, 0)
HttpReads(h, r, g, q, x, a) ==
  /\ h.ticket <= Len(a)
  /\ h.phase \in Answered => /\ Reach(a, h.ticket, UpTo(r, h.st.head))
                             /\ Covered(r, h.next - 1, q)
                             /\ h.gapSame => Within(r, g, x, h.st.head)

Held1(g, se) == g \cup {se.row.id}
Hands(g, se, h) == g \cup {se.row.id, h.row.id}
Ledger(sh, se, h, cs, ss, r, g, d, a) ==
  /\ DoneTrue(sh, r, d, a) /\ AskTrue(cs, r, g)
  /\ SessReads(sh, se, ss, r, g, Held1(g, se), Hands(g, se, h), a)
  /\ HttpReads(h, r, g, Held1(g, h), Hands(g, se, h), a)

(* A row stands once in the log, and what the checkpoint carries of other  *)
(* devices' rows it has trimmed.                                           *)
RoomClean ==
  /\ \A s, t \in DOMAIN srv.log : srv.log[s] = srv.log[t] => s = t
  /\ \A t \in DOMAIN srv.log : t > srv.ckpt /\ srv.log[t] \in Remote => srv.log[t] \notin srv.ids

LedgerTrue == Calm(env) =>
  /\ sink.slot = "none" => asked = <<>>
  /\ Ledger(shared, sess, http, c2s, s2c, srv, sink.got, Doc, asked)
LedgerInv == ReadInv /\ RoomClean /\ LedgerTrue

-----------------------------------------------------------------------------
(* The room and the document grow under the ledger.                        *)

Further(r, g, d, r2, g2, d2) ==
  /\ r.ckpt <= r2.ckpt /\ Len(r.log) <= Len(r2.log)
  /\ \A s \in DOMAIN r.log : r2.log[s] = r.log[s]
  /\ g \subseteq g2 /\ d \subseteq d2
HolesFewer(r, g, x, r2, g2, x2) == \A s, t : HoleAt(r2, g2, x2, s, t) => HoleAt(r, g, x, s, t)

LEMMA ReachUp ==
  ASSUME NEW a, NEW n \in Nat, NEW S, Reach(a, n, S), NEW m \in Nat, m <= n, NEW T, S \subseteq T,
         DOMAIN a \subseteq Nat
  PROVE  Reach(a, m, T)
BY DEF Reach

LEMMA WithinFewer ==
  ASSUME NEW r, NEW g, NEW x, NEW r2, NEW g2, NEW x2, HolesFewer(r, g, x, r2, g2, x2),
         NEW n, Within(r, g, x, n)
  PROVE  Within(r2, g2, x2, n)
BY DEF Within, HolesFewer

LEMMA UpToFurther ==
  ASSUME NEW r \in SrvType, NEW g, NEW d, NEW r2 \in SrvType, NEW g2, NEW d2,
         Further(r, g, d, r2, g2, d2)
  PROVE  /\ \A n : UpTo(r, n) \subseteq UpTo(r2, n)
         /\ Trimmed(r) \subseteq Trimmed(r2) /\ Rows(r.log) \subseteq Rows(r2.log)
<1>1. r.log \in Seq(Ids) /\ r2.log \in Seq(Ids) /\ r.ckpt \in Nat /\ r2.ckpt \in Nat
  BY DEF SrvType
<1>2. DOMAIN r.log \subseteq DOMAIN r2.log /\ DOMAIN r.log \subseteq Nat
  BY <1>1 DEF Further
<1>3. \A n : UpTo(r, n) \subseteq UpTo(r2, n)
  BY <1>2 DEF Further, UpTo
<1>4. UpTo(r2, r.ckpt) \subseteq UpTo(r2, r2.ckpt)
  BY <1>1 DEF Further, UpTo
<1>5. Rows(r.log) \subseteq Rows(r2.log)
  BY <1>2 DEF Further, Rows
<1>. QED
  BY <1>3, <1>4, <1>5 DEF Trimmed

LEMMA CoveredFurther ==
  ASSUME NEW r \in SrvType, NEW g, NEW d, NEW r2 \in SrvType, NEW g2, NEW d2,
         Further(r, g, d, r2, g2, d2), NEW c \in Int, NEW s, Covered(r, c, s), NEW s2, s \subseteq s2
  PROVE  Covered(r2, c, s2)
<1>1. r.log \in Seq(Ids) /\ r2.log \in Seq(Ids) /\ r.ckpt \in Nat /\ r2.ckpt \in Nat
  BY DEF SrvType
<1>2. c <= Len(r2.log)
  BY <1>1 DEF Further, Covered
<1>3. Held(r2, c) \subseteq Held(r, c)
  BY <1>1 DEF Further, Covered, Held
<1>. QED
  BY <1>2, <1>3 DEF Covered

LEMMA DoneFurther ==
  ASSUME NEW r \in SrvType, NEW g, NEW d, NEW r2 \in SrvType, NEW g2, NEW d2,
         Further(r, g, d, r2, g2, d2), NEW a \in Seq(SUBSET Ids), NEW sh \in SharedType,
         DoneTrue(sh, r, d, a)
  PROVE  DoneTrue(sh, r2, d2, a)
<1>1. DOMAIN a \subseteq Nat /\ Len(a) \in Nat /\ sh.refDone \in Nat
  BY BoundsAreNat DEF SharedType
<1>2. d \cup Trimmed(r) \subseteq d2 \cup Trimmed(r2) /\ Rows(r.log) \subseteq Rows(r2.log)
  BY UpToFurther DEF Further
<1>3. Reach(a, sh.refDone, d2 \cup Trimmed(r2))
  BY <1>1, <1>2, ReachUp DEF DoneTrue
<1>4. Reach(a, Len(a), Rows(r2.log))
  BY <1>1, <1>2, ReachUp DEF DoneTrue
<1>. QED
  BY <1>3, <1>4 DEF DoneTrue

LEMMA AskFurther ==
  ASSUME NEW r \in SrvType, NEW g, NEW d, NEW r2 \in SrvType, NEW g2, NEW d2,
         Further(r, g, d, r2, g2, d2), NEW cs \in Seq(ClientFrame), AskTrue(cs, r, g)
  PROVE  AskTrue(cs, r2, g2)
<1>. SUFFICES ASSUME NEW i \in DOMAIN cs, cs[i].k = "ROWS_REQ"
              PROVE  Covered(r2, cs[i].after, g2)
  BY DEF AskTrue
<1>1. cs[i].after \in Int /\ Covered(r, cs[i].after, g)
  BY PushKind DEF AskTrue
<1>2. g \subseteq g2
  BY DEF Further
<1>. QED
  BY <1>1, <1>2, CoveredFurther

(* A session that is as far as another, and no hole more.                  *)
LEMMA SessReadsFurther ==
  ASSUME NEW r \in SrvType, NEW g, NEW d, NEW r2 \in SrvType, NEW g2, NEW d2,
         Further(r, g, d, r2, g2, d2), NEW x, NEW x2, HolesFewer(r, g, x, r2, g2, x2),
         NEW p, NEW p2, p \subseteq p2, NEW a \in Seq(SUBSET Ids),
         NEW sh, NEW se \in SessType, NEW n \in Nat, NEW ss \in Seq(FramesUpTo(n)),
         SessReads(sh, se, ss, r, g, p, x, a)
  PROVE  SessReads(sh, se, ss, r2, g2, p2, x2, a)
<1>1. DOMAIN a \subseteq Nat /\ Len(a) \in Nat /\ se.ticket \in Nat /\ se.refresh \in Nat
  BY BoundsAreNat DEF SessType
<1>2. \A m : UpTo(r, m) \subseteq UpTo(r2, m)
  BY UpToFurther
<1>3. \A m : Within(r, g, x, m) => Within(r2, g2, x2, m)
  BY WithinFewer
<1>4. ASSUME NEW k \in Nat, NEW m, Reach(a, k, UpTo(r, m))  PROVE Reach(a, k, UpTo(r2, m))
  BY <1>1, <1>2, <1>4, ReachUp
<1>5. ASSUME NEW i \in DOMAIN ss, ss[i].k = "ROWS"
      PROVE  FrameTrue(ss[i], sh, se, r2, g2, p2, x2, a)
  <2>. DEFINE f == ss[i]
  <2>1. f \in ServerFrame /\ f.k = "ROWS"
    BY <1>5 DEF FramesUpTo
  <2>2. FrameTrue(f, sh, se, r, g, p, x, a)
    BY <1>5 DEF SessReads
  <2>. HIDE DEF f
  <2>3. f.next - 1 \in Int
    BY <2>1, FrameKinds
  <2>4. Covered(r2, f.next - 1, p2)
    BY <2>2, <2>3, CoveredFurther DEF FrameTrue
  <2>5. FrameTrue(f, sh, se, r2, g2, p2, x2, a)
    BY <1>1, <1>3, <1>4, <2>2, <2>4 DEF FrameTrue
  <2>. QED
    BY <2>5 DEF f
<1>. QED
  BY <1>1, <1>3, <1>4, <1>5 DEF SessReads

LEMMA HttpReadsFurther ==
  ASSUME NEW r \in SrvType, NEW g, NEW d, NEW r2 \in SrvType, NEW g2, NEW d2,
         Further(r, g, d, r2, g2, d2), NEW x, NEW x2, HolesFewer(r, g, x, r2, g2, x2),
         NEW q, NEW q2, q \subseteq q2, NEW a \in Seq(SUBSET Ids), NEW h \in HttpType,
         HttpReads(h, r, g, q, x, a)
  PROVE  HttpReads(h, r2, g2, q2, x2, a)
<1>1. DOMAIN a \subseteq Nat /\ h.ticket \in Nat /\ h.next - 1 \in Int
  BY BoundsAreNat DEF HttpType
<1>2. \A m : UpTo(r, m) \subseteq UpTo(r2, m)
  BY UpToFurther
<1>3. \A m : Within(r, g, x, m) => Within(r2, g2, x2, m)
  BY WithinFewer
<1>4. ASSUME NEW m, Reach(a, h.ticket, UpTo(r, m))  PROVE Reach(a, h.ticket, UpTo(r2, m))
  BY <1>1, <1>2, <1>4, ReachUp
<1>5. Covered(r, h.next - 1, q) => Covered(r2, h.next - 1, q2)
  BY <1>1, CoveredFurther
<1>. QED
  BY <1>3, <1>4, <1>5 DEF HttpReads

LEMMA LedgerFurther ==
  ASSUME NEW r \in SrvType, NEW g, NEW d, NEW r2 \in SrvType, NEW g2, NEW d2,
         Further(r, g, d, r2, g2, d2), NEW a \in Seq(SUBSET Ids),
         NEW sh \in SharedType, NEW se \in SessType, NEW h \in HttpType, NEW cs \in Seq(ClientFrame),
         NEW n \in Nat, NEW ss \in Seq(FramesUpTo(n)),
         HolesFewer(r, g, Hands(g, se, h), r2, g2, Hands(g2, se, h)),
         Ledger(sh, se, h, cs, ss, r, g, d, a)
  PROVE  Ledger(sh, se, h, cs, ss, r2, g2, d2, a)
<1>1. Held1(g, se) \subseteq Held1(g2, se) /\ Held1(g, h) \subseteq Held1(g2, h)
  BY DEF Held1, Further
<1>2. DoneTrue(sh, r2, d2, a) /\ AskTrue(cs, r2, g2)
  BY DoneFurther, AskFurther DEF Ledger
<1>3. SessReads(sh, se, ss, r2, g2, Held1(g2, se), Hands(g2, se, h), a)
  BY <1>1, SessReadsFurther DEF Ledger
<1>4. HttpReads(h, r2, g2, Held1(g2, h), Hands(g2, se, h), a)
  BY <1>1, HttpReadsFurther DEF Ledger
<1>. QED
  BY <1>2, <1>3, <1>4 DEF Ledger

(* Nothing of another device comes to hand: no new hole.                   *)
LEMMA SameHands ==
  ASSUME NEW r \in SrvType, NEW g, NEW d, NEW r2 \in SrvType, NEW g2, NEW d2,
         Further(r, g, d, r2, g2, d2), NEW x, NEW x2,
         \A t \in DOMAIN r2.log : r2.ckpt < t /\ r2.log[t] \in Remote \cap x2
                                    => t \in DOMAIN r.log /\ r.log[t] \in x
  PROVE  HolesFewer(r, g, x, r2, g2, x2)
<1>. SUFFICES ASSUME NEW s, NEW t, HoleAt(r2, g2, x2, s, t)  PROVE HoleAt(r, g, x, s, t)
  BY DEF HolesFewer
<1>1. r.log \in Seq(Ids) /\ r2.log \in Seq(Ids) /\ r.ckpt \in Nat /\ r2.ckpt \in Nat
      /\ s \in Nat /\ t \in Nat
  BY DEF SrvType, HoleAt
<1>2. t \in DOMAIN r.log /\ r.log[t] \in x /\ r2.ckpt < s /\ s < t
  BY <1>1 DEF HoleAt
<1>3. s \in DOMAIN r.log /\ r.ckpt < s
  BY <1>1, <1>2 DEF HoleAt, Further
<1>. QED
  BY <1>1, <1>2, <1>3 DEF HoleAt, Further

-----------------------------------------------------------------------------
(* The talk goes on over the same room and document.                       *)

LEMMA LessHands ==
  ASSUME NEW r, NEW g, NEW x, NEW x2, x2 \cap Remote \subseteq x
  PROVE  HolesFewer(r, g, x, r, g, x2)
BY DEF HolesFewer, HoleAt

LEMMA BaseIsNoRow == NoRow.id = Base /\ Base \notin Remote /\ Base \notin Ids
BY RoomAssumption DEF NoRow, Ids, Own

LEMMA QuietLedger ==
  ASSUME NEW r \in SrvType, NEW g, NEW d, NEW a \in Seq(SUBSET Ids),
         NEW sh \in SharedType, NEW se \in SessType, NEW h \in HttpType, NEW cs \in Seq(ClientFrame),
         NEW n \in Nat, NEW ss \in Seq(FramesUpTo(n)), Ledger(sh, se, h, cs, ss, r, g, d, a),
         NEW sh2, NEW se2, NEW h2, NEW cs2, NEW ss2,
         SameReads(sh, sh2), SamePhase(se, se2), SameAnswer(h, h2),
         Kept(cs, cs2, "ROWS_REQ"), Kept(ss, ss2, "ROWS")
  PROVE  Ledger(sh2, se2, h2, cs2, ss2, r, g, d, a)
<1>. DEFINE x == Hands(g, se, h)
            x2 == Hands(g, se2, h2)
            p == Held1(g, se)
            q == Held1(g, h)
<1>1. DoneTrue(sh2, r, d, a)
  BY DEF Ledger, DoneTrue, SameReads
<1>2. AskTrue(cs2, r, g)
  BY DEF Ledger, AskTrue, Kept
<1>3. x2 \cap Remote \subseteq x
  BY BaseIsNoRow DEF Hands, SamePhase, SameAnswer
<1>4. \A m : Within(r, g, x, m) => Within(r, g, x2, m)
  BY <1>3, LessHands, WithinFewer
<1>5. Held1(g, se2) = p
  BY DEF Held1, SamePhase
<1>6. SessReads(sh, se, ss, r, g, p, x, a) /\ HttpReads(h, r, g, q, x, a)
  BY DEF Ledger
<1>7. h2.phase \in Answered => Held1(g, h2) = q
  BY DEF Held1, SameAnswer
<1>. HIDE DEF x, x2, p, q
<1>8. ASSUME NEW f, FrameTrue(f, sh, se, r, g, p, x, a)
      PROVE  FrameTrue(f, sh2, se2, r, g, p, x2, a)
  BY <1>4, <1>8 DEF FrameTrue, SameReads, SamePhase
<1>9. SessReads(sh2, se2, ss2, r, g, p, x2, a)
  BY <1>4, <1>6, <1>8 DEF SessReads, SameReads, SamePhase, Kept
<1>10. HttpReads(h2, r, g, Held1(g, h2), x2, a)
  <2>1. h2.ticket <= Len(a)
    <3>1. Len(a) \in Nat /\ h.ticket <= Len(a)
      BY <1>6 DEF HttpReads
    <3>. QED
      BY <3>1 DEF SameAnswer
  <2>. QED
    BY <1>4, <1>6, <1>7, <2>1 DEF HttpReads, SameAnswer
<1>. QED
  BY <1>1, <1>2, <1>5, <1>9, <1>10 DEF Ledger, x2

-----------------------------------------------------------------------------
(* What every step but a kill and a wipe leaves as it was.                 *)

Keeps ==
  /\ env'.wipes = env.wipes /\ env'.crashes = env.crashes
  /\ sink'.slot = "none" => sink.slot = "none"

LEMMA KeepsBoth ==
  ASSUME WorldInv, \/ UNCHANGED env \/ DiskFault \/ env' = [env EXCEPT !.drops = @ + 1]
                   \/ env' = [env EXCEPT !.hints = @ + 1] \/ env' = [env EXCEPT !.ckpts = @ + 1]
                   \/ env' = [env EXCEPT !.flushes = @ + 1],
         sink'.slot = sink.slot \/ sink'.slot # "none"
  PROVE  Keeps
BY DEF WorldInv, EnvType, DiskFault, Keeps

LEMMA PushKeeps ==
  ASSUME WorldInv, NEW sh, NEW ids, (Write(sh, ids) /\ UNCHANGED env) \/ FailedPush(sh, ids)
  PROVE  Keeps
<1>1. sink \in SinkType
  BY DEF WorldInv
<1>2. ASSUME NEW sh2, NEW ids2, Write(sh2, ids2)  PROVE sink'.slot = sink.slot
  BY <1>1, <1>2 DEF Write, SinkType
<1>3. CASE Write(sh, ids) /\ UNCHANGED env
  BY <1>2, <1>3, KeepsBoth
<1>4. CASE FailedPush(sh, ids)
  <2>1. DiskFault /\ \E e : Write(sh, e)
    BY <1>4 DEF FailedPush
  <2>. QED
    BY <1>2, <2>1, KeepsBoth
<1>. QED
  BY <1>3, <1>4

LEMMA SessionKeeps ==
  ASSUME WorldInv, Session
  PROVE  Keeps
<1>1. sink \in SinkType
  BY DEF WorldInv
<1>2. CASE Dial \/ SkipStale \/ SessRow \/ SessQuota \/ SessDefer \/ SessJoin \/ SessDone
           \/ SessProbe \/ SessRedial
  <2>1. UNCHANGED <<sink, env>>
    BY <1>2 DEF Dial, SkipStale, SessRow, SessQuota, SessDefer, SessJoin, SessDone,
       SessProbe, SessRedial
  <2>. QED
    BY <2>1, KeepsBoth
<1>3. CASE SessState
  <2>1. UNCHANGED env /\ sink'.slot = sink.slot
    BY <1>1, <1>3 DEF SessState, SinkType
  <2>. QED
    BY <2>1, KeepsBoth
<1>4. CASE SessPlan
  <2>1. \E sh, ids : (Write(sh, ids) /\ UNCHANGED env) \/ FailedPush(sh, ids)
    BY <1>4 DEF SessPlan
  <2>. QED
    BY <2>1, PushKeeps
<1>5. CASE SessNudge
  <2>1. \E sh, ids : (Write(sh, ids) /\ UNCHANGED env) \/ FailedPush(sh, ids)
    BY <1>5 DEF SessNudge
  <2>. QED
    BY <2>1, PushKeeps
<1>6. CASE SessRetry
  <2>1. \E sh, ids : (Write(sh, ids) /\ UNCHANGED env) \/ FailedPush(sh, ids)
    BY <1>6 DEF SessRetry
  <2>. QED
    BY <2>1, PushKeeps
<1>7. CASE SessFetch
  <2>1. UNCHANGED env /\ sink'.slot = sink.slot
    BY <1>1, <1>7 DEF SessFetch, SinkType
  <2>. QED
    BY <2>1, KeepsBoth
<1>8. CASE SessApplyRow
  <2>1. UNCHANGED env /\ sink'.slot = sink.slot
    BY <1>1, <1>8 DEF SessApplyRow, Imported, SinkType
  <2>. QED
    BY <2>1, KeepsBoth
<1>9. CASE SessAck
  <2>1. UNCHANGED env \/ DiskFault
    BY <1>9 DEF SessAck
  <2>2. sink'.slot = sink.slot
    BY <1>1, <1>9 DEF SessAck, SinkType
  <2>. QED
    BY <2>1, <2>2, KeepsBoth
<1>10. CASE SessReject
  <2>1. UNCHANGED env \/ DiskFault
    BY <1>10 DEF SessReject
  <2>2. sink'.slot = sink.slot
    BY <1>1, <1>10 DEF SessReject, SinkType
  <2>. QED
    BY <2>1, <2>2, KeepsBoth
<1>. QED
  BY <1>2, <1>3, <1>4, <1>5, <1>6, <1>7, <1>8, <1>9, <1>10 DEF Session

LEMMA HttpsKeeps ==
  ASSUME WorldInv, Https
  PROVE  Keeps
<1>1. sink \in SinkType
  BY DEF WorldInv
<1>2. CASE HttpCapture \/ HttpServe \/ HttpSettle \/ HttpRow \/ HttpDone
  <2>1. UNCHANGED <<sink, env>>
    BY <1>2 DEF HttpCapture, HttpServe, HttpSettle, HttpRow, HttpDone
  <2>. QED
    BY <2>1, KeepsBoth
<1>3. CASE HttpPersist
  <2>1. UNCHANGED env \/ DiskFault
    BY <1>3 DEF HttpPersist
  <2>2. sink'.slot = sink.slot
    BY <1>1, <1>3 DEF HttpPersist, SinkType
  <2>. QED
    BY <2>1, <2>2, KeepsBoth
<1>4. CASE HttpPost \/ HttpFail
  <2>1. UNCHANGED env \/ env' = [env EXCEPT !.drops = @ + 1]
    BY <1>4 DEF HttpPost, HttpFail
  <2>2. UNCHANGED sink
    BY <1>4 DEF HttpPost, HttpFail
  <2>. QED
    BY <2>1, <2>2, KeepsBoth
<1>5. CASE HttpAck
  <2>1. UNCHANGED env \/ DiskFault
    BY <1>5 DEF HttpAck
  <2>2. sink'.slot = sink.slot
    BY <1>1, <1>5 DEF HttpAck, SinkType
  <2>. QED
    BY <2>1, <2>2, KeepsBoth
<1>6. CASE HttpState \/ HttpFetch
  <2>1. UNCHANGED env /\ sink'.slot = sink.slot
    BY <1>1, <1>6 DEF HttpState, HttpFetch, SinkType
  <2>. QED
    BY <2>1, KeepsBoth
<1>7. CASE HttpApplyRow
  <2>1. UNCHANGED env /\ sink'.slot = sink.slot
    BY <1>1, <1>7 DEF HttpApplyRow, Imported, SinkType
  <2>. QED
    BY <2>1, KeepsBoth
<1>. QED
  BY <1>2, <1>3, <1>4, <1>5, <1>6, <1>7 DEF Https

LEMMA OtherKeeps ==
  ASSUME WorldInv, Server \/ Join \/ Api \/ Disk \/ PostCheckpoint \/ DialFail \/ Drop
                   \/ \E r \in Remote, kind \in Kinds : RemoteAppend(r, kind)
  PROVE  Keeps
<1>1. sink \in SinkType
  BY DEF WorldInv
<1>2. CASE ServeHello \/ ServeRows \/ ServePush \/ RequestCatchUp
           \/ \E r \in Remote, kind \in Kinds : RemoteAppend(r, kind)
  <2>1. UNCHANGED <<sink, env>>
    BY <1>2 DEF ServeHello, ServeRows, ServePush, RequestCatchUp, RemoteAppend
  <2>. QED
    BY <2>1, KeepsBoth
<1>3. CASE PostCheckpoint \/ DialFail \/ Drop \/ Probe \/ Redial
  <2>1. UNCHANGED sink /\ \/ env' = [env EXCEPT !.drops = @ + 1] \/ env' = [env EXCEPT !.hints = @ + 1]
                          \/ env' = [env EXCEPT !.ckpts = @ + 1]
    BY <1>3 DEF PostCheckpoint, DialFail, Drop, Probe, Redial
  <2>. QED
    BY <2>1, KeepsBoth
<1>4. CASE Connect \/ GoLive \/ Handed \/ FlushSave
  <2>1. UNCHANGED env /\ (sink'.slot = sink.slot \/ sink'.slot # "none")
    BY <1>1, <1>4 DEF Connect, GoLive, Handed, FlushSave, SinkType
  <2>. QED
    BY <2>1, KeepsBoth
<1>5. CASE HandOver
  <2>1. UNCHANGED env \/ DiskFault
    BY <1>5 DEF HandOver, Attempt
  <2>2. sink'.slot # "none"
    <3>. DEFINE b == Least(sink.unsent)
    <3>1. PICK written \in BOOLEAN :
            sink' = [sink EXCEPT !.slot = "handing", !.unsent = @ \ {b},
                                 !.hand = [ids |-> {b}, durable |-> written],
                                 !.outbox = IF written THEN @ \cup {b} ELSE @]
      BY <1>5 DEF HandOver
    <3>. HIDE DEF b
    <3>. QED
      BY <1>1, <3>1 DEF SinkType
  <2>. QED
    BY <2>1, <2>2, KeepsBoth
<1>6. CASE Enqueue
  <2>1. UNCHANGED env \/ DiskFault
    BY <1>6 DEF Enqueue, Attempt
  <2>2. sink'.slot = sink.slot
    BY <1>1, <1>6 DEF Enqueue, Edited, SinkType
  <2>. QED
    BY <2>1, <2>2, KeepsBoth
<1>7. CASE EnqueueEarly
  <2>1. UNCHANGED env \/ DiskFault
    BY <1>7 DEF EnqueueEarly, Attempt
  <2>2. sink'.slot = sink.slot
    BY <1>1, <1>7 DEF EnqueueEarly, Edited, SinkType
  <2>. QED
    BY <2>1, <2>2, KeepsBoth
<1>8. CASE FlushSample
  <2>1. env' = [env EXCEPT !.flushes = @ + 1] /\ sink'.slot = sink.slot
    BY <1>1, <1>8 DEF FlushSample, SinkType
  <2>. QED
    BY <2>1, KeepsBoth
<1>. QED
  BY <1>2, <1>3, <1>4, <1>5, <1>6, <1>7, <1>8 DEF Server, Join, Api, Disk

LEMMA StepKeeps ==
  ASSUME WorldInv, [Next]_vars, ~Crash, ~Wipe
  PROVE  Keeps
<1>1. CASE UNCHANGED vars
  BY <1>1 DEF vars, Keeps
<1>2. CASE Next
  BY <1>2, SessionKeeps, HttpsKeeps, OtherKeeps DEF Next, Room, Fault
<1>. QED
  BY <1>1, <1>2

-----------------------------------------------------------------------------
(* The room: a row is added at the end and stands there once.              *)

SameRoom ==
  /\ srv'.log = srv.log /\ srv'.ckpt = srv.ckpt /\ srv'.ids = srv.ids
MoreRoom(b) ==
  /\ srv'.log = Append(srv.log, b) /\ srv'.ckpt = srv.ckpt /\ srv'.ids = srv.ids
  /\ b \in Ids /\ b \notin Rows(srv.log) /\ (b \in Remote => b \notin srv.used)

LEMMA ServePushRoom ==
  ASSUME WorldInv, TalkInv, ServePush
  PROVE  SameRoom \/ \E b \in Own : MoreRoom(b)
<1>. DEFINE b == Least(Head(c2s).ids)
<1>1. srv \in SrvType
  BY DEF WorldInv
<1>2. b \in Own /\ b \in Ids /\ b \notin Remote
  <2>1. Head(c2s) \in ClientFrame /\ Head(c2s).k = "PUSH"
    BY DEF ServePush, TalkInv
  <2>2. Own \cap Remote = {}
    BY RoomAssumption DEF Own
  <2>. QED
    BY <2>1, <2>2, PushKind, LeastOwn DEF Ids
<1>3. \/ UNCHANGED srv
      \/ srv' = [srv EXCEPT !.quota = @ - 1]
      \/ b \notin Rows(srv.log) /\ srv' = [srv EXCEPT !.log = Append(@, b), !.used = @ \cup {b}]
  BY DEF ServePush
<1>. HIDE DEF b
<1>4. CASE UNCHANGED srv
  BY <1>4 DEF SameRoom
<1>5. CASE srv' = [srv EXCEPT !.quota = @ - 1]
  BY <1>1, <1>5 DEF SameRoom, SrvType
<1>6. CASE b \notin Rows(srv.log) /\ srv' = [srv EXCEPT !.log = Append(@, b), !.used = @ \cup {b}]
  BY <1>1, <1>2, <1>6 DEF MoreRoom, SrvType
<1>. QED
  BY <1>3, <1>4, <1>5, <1>6

LEMMA HttpPostRoom ==
  ASSUME WorldInv, TalkInv, HttpPost
  PROVE  SameRoom \/ \E b \in Own : MoreRoom(b)
<1>. DEFINE b == Least(http.todo)
<1>1. srv \in SrvType /\ http \in HttpType /\ http.todo # {}
  BY DEF WorldInv, TalkInv, CycleComplete, HttpPost
<1>2. b \in Own /\ b \in Ids /\ b \notin Remote
  <2>1. http.todo \in SUBSET Own /\ Own \cap Remote = {}
    BY <1>1, RoomAssumption DEF HttpType, Own
  <2>. QED
    BY <1>1, <2>1, LeastOwn DEF Ids
<1>3. \/ UNCHANGED srv
      \/ b \in Rows(srv.log) /\ srv' = [srv EXCEPT !.log = srv.log, !.used = @ \cup {b}]
      \/ b \notin Rows(srv.log) /\ srv' = [srv EXCEPT !.log = Append(srv.log, b), !.used = @ \cup {b}]
  BY DEF HttpPost
<1>. HIDE DEF b
<1>4. CASE UNCHANGED srv
  BY <1>4 DEF SameRoom
<1>5. CASE b \in Rows(srv.log) /\ srv' = [srv EXCEPT !.log = srv.log, !.used = @ \cup {b}]
  BY <1>1, <1>5 DEF SameRoom, SrvType
<1>6. CASE b \notin Rows(srv.log) /\ srv' = [srv EXCEPT !.log = Append(srv.log, b), !.used = @ \cup {b}]
  BY <1>1, <1>2, <1>6 DEF MoreRoom, SrvType
<1>. QED
  BY <1>3, <1>4, <1>5, <1>6


LEMMA RemoteAppendRoom ==
  ASSUME WorldInv, OutboxInv, NEW r \in Remote, NEW kind \in Kinds, RemoteAppend(r, kind)
  PROVE  MoreRoom(r)
<1>1. srv \in SrvType /\ r \notin srv.used /\ r \in Ids
  BY DEF WorldInv, RemoteAppend, Ids
<1>2. r \notin Rows(srv.log)
  BY <1>1 DEF OutboxInv, Rows
<1>3. srv' = [srv EXCEPT !.log = Append(srv.log, r), !.used = @ \cup {r}]
  BY <1>1 DEF RemoteAppend
<1>. QED
  BY <1>1, <1>2, <1>3 DEF MoreRoom, SrvType

LEMMA SameRoomClean ==
  ASSUME RoomClean, SameRoom
  PROVE  RoomClean'
BY DEF RoomClean, SameRoom

LEMMA MoreRoomRows ==
  ASSUME WorldInv, NEW b, MoreRoom(b)
  PROVE  /\ Len(srv.log) \in Nat /\ DOMAIN srv.log = 1 .. Len(srv.log)
         /\ DOMAIN srv'.log = 1 .. (Len(srv.log) + 1) /\ Len(srv'.log) = Len(srv.log) + 1
         /\ \A s \in DOMAIN srv.log : srv'.log[s] = srv.log[s]
         /\ srv'.log[Len(srv.log) + 1] = b
<1>1. srv.log \in Seq(Ids) /\ b \in Ids
  BY DEF WorldInv, SrvType, MoreRoom
<1>2. srv'.log = Append(srv.log, b)
  BY DEF MoreRoom
<1>. QED
  BY <1>1, <1>2

LEMMA MoreRoomClean ==
  ASSUME WorldInv, RoomTrue(srv), RoomClean, NEW b, MoreRoom(b)
  PROVE  RoomClean'
<1>. DEFINE n == Len(srv.log)
<1>1. /\ n \in Nat /\ DOMAIN srv.log = 1 .. n /\ DOMAIN srv'.log = 1 .. (n + 1)
      /\ \A s \in DOMAIN srv.log : srv'.log[s] = srv.log[s]
      /\ srv'.log[n + 1] = b
  BY MoreRoomRows
<1>. HIDE DEF n
<1>2. \A s \in DOMAIN srv.log : srv.log[s] # b
  BY DEF MoreRoom, Rows
<1>3. \A s \in DOMAIN srv'.log : s \in DOMAIN srv.log \/ s = n + 1
  BY <1>1
<1>4. \A s, t \in DOMAIN srv'.log : srv'.log[s] = srv'.log[t] => s = t
  BY <1>1, <1>2, <1>3 DEF RoomClean
<1>5. b \in Remote => b \notin srv.ids
  BY BaseIsNoRow, RoomAssumption DEF RoomTrue, MoreRoom
<1>6. \A t \in DOMAIN srv'.log : t > srv'.ckpt /\ srv'.log[t] \in Remote => srv'.log[t] \notin srv'.ids
  BY <1>1, <1>3, <1>5 DEF RoomClean, MoreRoom
<1>. QED
  BY <1>4, <1>6 DEF RoomClean

LEMMA RestRoom ==
  ASSUME WorldInv, TalkInv, [Next]_vars, ~ServePush, ~HttpPost, ~PostCheckpoint, ~Wipe,
         ~(\E r \in Remote, kind \in Kinds : RemoteAppend(r, kind))
  PROVE  UNCHANGED srv
<1>1. CASE Server
  BY <1>1 DEF Server, ServeHello, ServeRows
<1>2. CASE Room
  BY <1>2 DEF Room
<1>3. CASE Session
  BY <1>3 DEF Session, Dial, SkipStale, SessState, SessPlan, SessFetch, SessRow, SessApplyRow,
     SessAck, SessReject, SessQuota, SessDefer, SessJoin, SessDone, SessNudge, SessProbe,
     SessRedial, SessRetry
<1>4. CASE Https
  BY <1>4 DEF Https, HttpPersist, HttpAck, HttpCapture, HttpServe, HttpFail, HttpState,
     HttpFetch, HttpSettle, HttpRow, HttpApplyRow, HttpDone
<1>5. CASE Join \/ Api \/ Disk
  BY <1>5 DEF Join, Api, Disk, Connect, HandOver, Handed, GoLive, Enqueue, EnqueueEarly,
     RequestCatchUp, Probe, Redial, FlushSample, FlushSave
<1>6. CASE Fault \/ UNCHANGED vars
  BY <1>6 DEF Fault, DialFail, Drop, Crash, vars
<1>. QED
  BY <1>1, <1>2, <1>3, <1>4, <1>5, <1>6 DEF Next

LEMMA StepRoomClean ==
  ASSUME WorldInv, TalkInv, OutboxInv, CursorInv, RoomClean, [Next]_vars
  PROVE  RoomClean'
<1>1. RoomTrue(srv) /\ srv \in SrvType
  BY DEF CursorInv, WorldTrue, WorldInv
<1>2. CASE ServePush
  BY <1>1, <1>2, ServePushRoom, SameRoomClean, MoreRoomClean
<1>3. CASE HttpPost
  BY <1>1, <1>3, HttpPostRoom, SameRoomClean, MoreRoomClean
<1>4. ASSUME NEW r \in Remote, NEW kind \in Kinds, RemoteAppend(r, kind)  PROVE RoomClean'
  BY <1>1, <1>4, RemoteAppendRoom, MoreRoomClean
<1>5. CASE PostCheckpoint
  <2>1. srv'.log = srv.log /\ srv'.ckpt = Len(srv.log)
    BY <1>1, <1>5 DEF PostCheckpoint, SrvType
  <2>2. \A t \in DOMAIN srv'.log : ~(t > srv'.ckpt)
    BY <1>1, <2>1 DEF SrvType
  <2>. QED
    BY <2>1, <2>2 DEF RoomClean
<1>6. CASE Wipe
  <2>1. srv'.log = <<>>
    BY <1>1, <1>6 DEF Wipe, SrvType
  <2>. QED
    BY <2>1 DEF RoomClean
<1>7. CASE /\ ~ServePush /\ ~HttpPost /\ ~PostCheckpoint /\ ~Wipe
           /\ ~(\E r \in Remote, kind \in Kinds : RemoteAppend(r, kind))
  <2>1. SameRoom
    BY <1>7, RestRoom DEF SameRoom
  <2>. QED
    BY <2>1, SameRoomClean
<1>. QED
  BY <1>2, <1>3, <1>4, <1>5, <1>6, <1>7

-----------------------------------------------------------------------------
(* The ledger of the last state, held against the room and the document of *)
(* the next one.                                                           *)

Holds == Ledger(shared, sess, http, c2s, s2c, srv', sink'.got, Doc', asked)
WorldFurther == Further(srv, sink.got, Doc, srv', sink'.got, Doc')
NoNewHole == HolesFewer(srv, sink.got, Hands(sink.got, sess, http),
                        srv', sink'.got, Hands(sink'.got, sess, http))

LEMMA WorldLedger ==
  ASSUME WorldInv, TalkInv, WorldInv', LedgerTrue, Calm(env), WorldFurther, NoNewHole
  PROVE  Holds
<1>1. srv \in SrvType /\ srv' \in SrvType /\ asked \in Seq(SUBSET Ids) /\ shared \in SharedType
      /\ sess \in SessType /\ http \in HttpType /\ c2s \in Seq(ClientFrame)
      /\ Len(srv.log) \in Nat /\ s2c \in Seq(FramesUpTo(Len(srv.log)))
  BY LogLength DEF WorldInv, TalkInv
<1>2. Ledger(shared, sess, http, c2s, s2c, srv, sink.got, Doc, asked)
  BY DEF LedgerTrue
<1>. QED
  BY <1>1, <1>2, LedgerFurther DEF Holds, WorldFurther, NoNewHole

LEMMA StillFurther ==
  ASSUME WorldInv, UNCHANGED <<srv, needs>>, sink'.got = sink.got
  PROVE  WorldFurther /\ NoNewHole
<1>1. srv \in SrvType /\ Len(srv.log) \in Nat /\ srv.ckpt \in Nat
  BY LogLength DEF WorldInv, SrvType
<1>2. Doc' = Doc
  BY DEF Doc
<1>. QED
  BY <1>1, <1>2 DEF WorldFurther, NoNewHole, Further, HolesFewer

LEMMA StillHolds ==
  ASSUME WorldInv, TalkInv, WorldInv', LedgerTrue, Calm(env), UNCHANGED <<srv, needs>>, sink'.got = sink.got
  PROVE  Holds
BY StillFurther, WorldLedger

LEMMA QuietHolds ==
  ASSUME WorldInv, TalkInv, WorldInv', Holds, Quiet
  PROVE  Ledger(shared', sess', http', c2s', s2c', srv', sink'.got, Doc', asked')
<1>1. srv \in SrvType /\ srv' \in SrvType /\ asked \in Seq(SUBSET Ids) /\ shared \in SharedType
      /\ sess \in SessType /\ http \in HttpType /\ c2s \in Seq(ClientFrame)
      /\ Len(srv.log) \in Nat /\ s2c \in Seq(FramesUpTo(Len(srv.log)))
  BY LogLength DEF WorldInv, TalkInv
<1>2. Ledger(shared', sess', http', c2s', s2c', srv', sink'.got, Doc', asked)
  BY <1>1, QuietLedger DEF Holds, Quiet
<1>. QED
  BY <1>2 DEF Quiet

(* What is left to show of a step: the ledger, where nothing was lost.     *)
LEMMA LedgerStep ==
  ASSUME LedgerTrue, Keeps, sink'.slot = "none" => UNCHANGED asked,
         Calm(env) => Ledger(shared', sess', http', c2s', s2c', srv', sink'.got, Doc', asked')
  PROVE  LedgerTrue'
<1>1. Calm(env') => Calm(env)
  BY DEF Keeps, Calm
<1>2. Calm(env) /\ sink'.slot = "none" => asked' = <<>>
  BY DEF Keeps, LedgerTrue
<1>. QED
  BY <1>1, <1>2 DEF LedgerTrue

LEMMA QuietStepLedger ==
  ASSUME WorldInv, TalkInv, WorldInv', LedgerTrue, Keeps, Quiet, Calm(env) => WorldFurther /\ NoNewHole
  PROVE  LedgerTrue'
<1>1. UNCHANGED asked
  BY DEF Quiet
<1>2. Calm(env) => Ledger(shared', sess', http', c2s', s2c', srv', sink'.got, Doc', asked')
  BY WorldLedger, QuietHolds
<1>. QED
  BY <1>1, <1>2, LedgerStep

(* The steps that move neither.                                            *)
LEMMA StillStepLedger ==
  ASSUME WorldInv, TalkInv, WorldInv', LedgerTrue, Keeps,
         \/ HandOver \/ Handed \/ GoLive \/ Probe \/ Redial \/ FlushSample \/ FlushSave
         \/ DialFail \/ HttpPersist \/ HttpFail \/ HttpState \/ HttpSettle \/ HttpAck
         \/ ServeHello \/ SkipStale
  PROVE  LedgerTrue'
<1>1. Quiet
  BY BookQuiet, CycleQuiet, FramesQuiet
<1>2. sink \in SinkType
  BY DEF WorldInv
<1>3. UNCHANGED <<srv, needs>>
  BY DEF HandOver, Handed, GoLive, Probe, Redial, FlushSample, FlushSave,
     DialFail, HttpPersist, HttpFail, HttpState, HttpSettle, HttpAck, ServeHello, SkipStale
<1>4. sink'.got = sink.got
  <2>1. CASE Probe \/ Redial \/ DialFail \/ HttpFail \/ HttpSettle \/ ServeHello \/ SkipStale
    BY <2>1 DEF Probe, Redial, DialFail, HttpFail, HttpSettle, ServeHello, SkipStale
  <2>2. CASE HandOver
    <3>. DEFINE b == Least(sink.unsent)
    <3>1. PICK written \in BOOLEAN :
            sink' = [sink EXCEPT !.slot = "handing", !.unsent = @ \ {b},
                                 !.hand = [ids |-> {b}, durable |-> written],
                                 !.outbox = IF written THEN @ \cup {b} ELSE @]
      BY <2>2 DEF HandOver
    <3>. HIDE DEF b
    <3>. QED
      BY <1>2, <3>1 DEF SinkType
  <2>3. CASE Handed \/ GoLive \/ FlushSample \/ FlushSave
    BY <1>2, <2>3 DEF Handed, GoLive, FlushSample, FlushSave, SinkType
  <2>4. CASE HttpPersist
    BY <1>2, <2>4 DEF HttpPersist, SinkType
  <2>5. CASE HttpState
    BY <1>2, <2>5 DEF HttpState, SinkType
  <2>6. CASE HttpAck
    BY <1>2, <2>6 DEF HttpAck, SinkType
  <2>. QED
    BY <2>1, <2>2, <2>3, <2>4, <2>5, <2>6
<1>5. WorldFurther /\ NoNewHole
  BY <1>3, <1>4, StillFurther
<1>. QED
  BY <1>1, <1>5, QuietStepLedger

(* An edit of this device's own is beyond no row.                          *)
LEMMA OwnNotRemote == Own \cap Remote = {}
BY RoomAssumption DEF Own

LEMMA EditLedger ==
  ASSUME WorldInv, TalkInv, WorldInv', OutboxInv, CursorInv, LedgerTrue, Keeps, Enqueue \/ EnqueueEarly
  PROVE  LedgerTrue'
<1>. DEFINE b == issued + 1
<1>1. Quiet
  BY BookQuiet
<1>2. Forward /\ srv' = srv /\ sink'.got = sink.got \cup {b} /\ b \in Own
  BY EditForward
<1>. HIDE DEF b
<1>3. Calm(env) => WorldFurther
  BY <1>2 DEF WorldFurther, Further, Forward, Onward
<1>4. srv \in SrvType /\ srv' \in SrvType /\ b \notin Remote
  BY <1>2, OwnNotRemote DEF WorldInv
<1>5. \A t \in DOMAIN srv'.log : srv'.ckpt < t /\ srv'.log[t] \in Remote \cap Hands(sink'.got, sess, http)
                                    => t \in DOMAIN srv.log /\ srv.log[t] \in Hands(sink.got, sess, http)
  BY <1>2, <1>4 DEF Hands
<1>6. WorldFurther => NoNewHole
  BY <1>4, <1>5, SameHands DEF WorldFurther, NoNewHole
<1>. QED
  BY <1>1, <1>3, <1>6, QuietStepLedger

LEMMA MoreRoomHoles ==
  ASSUME WorldInv, WorldInv', NEW b, MoreRoom(b), UNCHANGED sink, Doc \subseteq Doc',
         b \in Remote => b \notin Hands(sink.got, sess, http)
  PROVE  WorldFurther /\ NoNewHole
<1>. DEFINE n == Len(srv.log)
<1>1. srv \in SrvType /\ srv' \in SrvType /\ srv.ckpt \in Nat
  BY DEF WorldInv, SrvType
<1>2. /\ n \in Nat /\ DOMAIN srv.log = 1 .. n /\ DOMAIN srv'.log = 1 .. (n + 1) /\ Len(srv'.log) = n + 1
      /\ \A s \in DOMAIN srv.log : srv'.log[s] = srv.log[s]
      /\ srv'.log[n + 1] = b
  BY MoreRoomRows
<1>3. WorldFurther
  BY <1>1, <1>2 DEF WorldFurther, Further, MoreRoom
<1>. HIDE DEF n
<1>4. \A t \in DOMAIN srv'.log : srv'.ckpt < t /\ srv'.log[t] \in Remote \cap Hands(sink'.got, sess, http)
                                    => t \in DOMAIN srv.log /\ srv.log[t] \in Hands(sink.got, sess, http)
  BY <1>2
<1>. QED
  BY <1>1, <1>3, <1>4, SameHands DEF WorldFurther, NoNewHole

LEMMA SameRoomHoles ==
  ASSUME WorldInv, WorldInv', SameRoom, UNCHANGED <<sink, needs>>
  PROVE  WorldFurther /\ NoNewHole
<1>1. srv \in SrvType /\ Len(srv.log) \in Nat /\ srv.ckpt \in Nat
  BY LogLength DEF WorldInv, SrvType
<1>2. Doc' = Doc
  BY DEF Doc
<1>. QED
  BY <1>1, <1>2 DEF WorldFurther, NoNewHole, Further, HolesFewer, HoleAt, SameRoom

LEMMA RoomMovesLedger ==
  ASSUME WorldInv, TalkInv, WorldInv', OutboxInv, CursorInv, LedgerTrue, Keeps,
         ServePush \/ HttpPost \/ \E r \in Remote, kind \in Kinds : RemoteAppend(r, kind)
  PROVE  LedgerTrue'
<1>1. Quiet
  BY FramesQuiet
<1>2. CASE ServePush \/ HttpPost
  <2>1. UNCHANGED <<sink, needs>>
    BY <1>2 DEF ServePush, HttpPost
  <2>2. Doc' = Doc
    BY <2>1 DEF Doc
  <2>3. SameRoom \/ \E b \in Own : MoreRoom(b)
    BY <1>2, ServePushRoom, HttpPostRoom
  <2>4. WorldFurther /\ NoNewHole
    BY <2>1, <2>2, <2>3, SameRoomHoles, MoreRoomHoles, OwnNotRemote
  <2>. QED
    BY <1>1, <2>4, QuietStepLedger
<1>3. ASSUME NEW r \in Remote, NEW kind \in Kinds, RemoteAppend(r, kind), Calm(env)
      PROVE  WorldFurther /\ NoNewHole
  <2>1. Doc' = Doc /\ r \notin sink.got
    BY <1>3, RemoteAppendDoc
  <2>2. UNCHANGED sink /\ r \notin srv.used
    BY <1>3 DEF RemoteAppend
  <2>3. sess.row.id \in srv.used \cup {Base} /\ http.row.id \in srv.used \cup {Base}
    BY <1>3 DEF CursorInv, TalkTrue, SessTrue, HttpTrue, RowTrue, Calm, Unwiped
  <2>4. r \notin Hands(sink.got, sess, http)
    BY <2>1, <2>2, <2>3, BaseIsNoRow DEF Hands
  <2>5. MoreRoom(r)
    BY <1>3, RemoteAppendRoom
  <2>. QED
    BY <2>1, <2>2, <2>4, <2>5, MoreRoomHoles
<1>4. ASSUME NEW r \in Remote, NEW kind \in Kinds, RemoteAppend(r, kind)  PROVE LedgerTrue'
  BY <1>1, <1>3, <1>4, QuietStepLedger
<1>. QED
  BY <1>2, <1>4

LEMMA PostCheckpointLedger ==
  ASSUME WorldInv, TalkInv, WorldInv', CursorInv, LedgerTrue, Keeps, PostCheckpoint
  PROVE  LedgerTrue'
<1>1. Quiet
  BY BookQuiet
<1>2. srv \in SrvType /\ UNCHANGED <<needs, sink>> /\ Len(srv.log) \in Nat /\ srv.ckpt \in Nat
      /\ srv.ckpt <= Len(srv.log)
  BY LogLength DEF WorldInv, PostCheckpoint, SrvType, CursorInv, WorldTrue, RoomTrue
<1>3. srv'.log = srv.log /\ srv'.ckpt = Len(srv.log)
  BY <1>2 DEF PostCheckpoint, SrvType
<1>4. Doc' = Doc
  BY <1>2 DEF Doc
<1>5. WorldFurther
  BY <1>2, <1>3, <1>4 DEF WorldFurther, Further
<1>6. \A s \in DOMAIN srv.log : ~(srv'.ckpt < s)
  BY <1>2, <1>3 DEF SrvType
<1>7. NoNewHole
  BY <1>3, <1>6 DEF NoNewHole, HolesFewer, HoleAt
<1>. QED
  BY <1>1, <1>5, <1>7, QuietStepLedger

(* The checkpoint lands: of the rows still served it brings none of others.*)
LEMMA LandedHoles ==
  ASSUME WorldInv, WorldInv', RoomClean, UNCHANGED <<srv, needs>>, sink'.got = sink.got \cup srv.ids
  PROVE  WorldFurther /\ NoNewHole
<1>1. srv \in SrvType /\ srv' \in SrvType /\ srv.ckpt \in Nat /\ Len(srv.log) \in Nat
      /\ DOMAIN srv.log \subseteq Nat
  BY LogLength DEF WorldInv, SrvType
<1>2. Doc \subseteq Doc'
  BY DEF Doc, Visible
<1>3. WorldFurther
  BY <1>1, <1>2 DEF WorldFurther, Further
<1>4. \A t \in DOMAIN srv'.log : srv'.ckpt < t /\ srv'.log[t] \in Remote \cap Hands(sink'.got, sess, http)
                                    => t \in DOMAIN srv.log /\ srv.log[t] \in Hands(sink.got, sess, http)
  BY <1>1 DEF Hands, RoomClean
<1>. QED
  BY <1>1, <1>3, <1>4, SameHands DEF WorldFurther, NoNewHole

LEMMA HttpFetchLedger ==
  ASSUME WorldInv, TalkInv, WorldInv', RoomClean, LedgerTrue, Keeps, HttpFetch
  PROVE  LedgerTrue'
<1>1. Quiet
  BY CycleQuiet
<1>2. UNCHANGED <<srv, needs>> /\ sink'.got = sink.got \cup srv.ids
  BY DEF HttpFetch, WorldInv, SinkType
<1>. QED
  BY <1>1, <1>2, LandedHoles, QuietStepLedger

-----------------------------------------------------------------------------
(* The parts of the ledger as the talk moves.                              *)

FramesHold(sh, se, ss, r, g, p, x, a) ==
  \A i \in DOMAIN ss : ss[i].k = "ROWS" => FrameTrue(ss[i], sh, se, r, g, p, x, a)

LEMMA CoveredGrow ==
  ASSUME NEW r \in SrvType, NEW c, NEW s, Covered(r, c, s), NEW s2, s \cap Ids \subseteq s2
  PROVE  Covered(r, c, s2)
<1>1. Held(r, c) \subseteq Ids
  BY DEF Held, SrvType
<1>. QED
  BY <1>1 DEF Covered

LEMMA FramesFlow ==
  ASSUME NEW r \in SrvType, NEW g, NEW a, NEW sh, NEW se, NEW ss, NEW p, NEW x,
         FramesHold(sh, se, ss, r, g, p, x, a),
         NEW sh2, NEW se2, NEW ss2, NEW p2, NEW x2,
         sh.gap => sh2.gap, se2.ticket = se.ticket, se2.refresh = se.refresh,
         Kept(ss, ss2, "ROWS"), p \cap Ids \subseteq p2, x2 \cap Remote \subseteq x
  PROVE  FramesHold(sh2, se2, ss2, r, g, p2, x2, a)
<1>1. \A m : Within(r, g, x, m) => Within(r, g, x2, m)
  BY LessHands, WithinFewer
<1>2. \A c : Covered(r, c, p) => Covered(r, c, p2)
  BY CoveredGrow
<1>3. \A f : FrameTrue(f, sh, se, r, g, p, x, a) => FrameTrue(f, sh2, se2, r, g, p2, x2, a)
  BY <1>1, <1>2 DEF FrameTrue
<1>. QED
  BY <1>3 DEF FramesHold, Kept

LEMMA NoFrames ==
  ASSUME NEW ss, Lacks(ss, "ROWS"), NEW sh, NEW se, NEW r, NEW g, NEW p, NEW x, NEW a
  PROVE  FramesHold(sh, se, ss, r, g, p, x, a)
BY DEF FramesHold, Lacks

(* A read that is through, with every row up to its end in the document.   *)
LEMMA ReadThrough ==
  ASSUME NEW r \in SrvType, NEW g, NEW x, NEW c \in Int, NEW n \in Nat, n <= c,
         Covered(r, c, g \cup {Base}), Within(r, g, x, n)
  PROVE  \A m : Within(r, g, x, m)
<1>. SUFFICES ASSUME NEW s, NEW t, HoleAt(r, g, x, s, t)  PROVE FALSE
  BY DEF Within
<1>1. r.log \in Seq(Ids) /\ r.ckpt \in Nat
  BY DEF SrvType
<1>2. s \in DOMAIN r.log /\ t \in DOMAIN r.log /\ r.ckpt < s /\ s < t /\ r.log[s] \notin g /\ t <= n
  BY DEF HoleAt, Within
<1>3. s \in Nat /\ t \in Nat /\ r.log[s] \in Ids
  BY <1>1, <1>2
<1>4. s <= c
  BY <1>2, <1>3
<1>5. r.log[s] \in Held(r, c)
  BY <1>2, <1>4 DEF Held
<1>. QED
  BY <1>2, <1>3, <1>5, BaseIsNoRow DEF Covered

LEMMA ReadReached ==
  ASSUME NEW r \in SrvType, NEW a, NEW d, NEW n, NEW m \in Nat, NEW c \in Nat, m <= c,
         Reach(a, n, UpTo(r, m)), Held(r, c) \subseteq d
  PROVE  Reach(a, n, d \cup Trimmed(r))
<1>1. r.log \in Seq(Ids) /\ r.ckpt \in Nat /\ DOMAIN r.log \subseteq Nat
  BY DEF SrvType
<1>2. UpTo(r, m) \subseteq d \cup Trimmed(r)
  <2>. SUFFICES ASSUME NEW s \in DOMAIN r.log, s <= m  PROVE r.log[s] \in d \cup Trimmed(r)
    BY DEF UpTo
  <2>1. s \in Nat
    BY <1>1
  <2>2. CASE s <= r.ckpt
    BY <2>2 DEF Trimmed, UpTo
  <2>3. CASE r.ckpt < s
    <3>1. s <= c
      BY <2>1
    <3>. QED
      BY <2>3, <3>1 DEF Held
  <2>. QED
    BY <1>1, <2>1, <2>2, <2>3
<1>. QED
  BY <1>2 DEF Reach

LEMMA DoneBy ==
  ASSUME NEW sh \in SharedType, NEW r, NEW d, NEW a \in Seq(SUBSET Ids), DoneTrue(sh, r, d, a),
         NEW n \in Nat, n <= Len(a), Reach(a, n, d \cup Trimmed(r)),
         NEW sh2, sh2.refReq = sh.refReq, sh2.refDone \in {sh.refDone, MaxOf(sh.refDone, n)}
  PROVE  DoneTrue(sh2, r, d, a)
<1>1. sh.refDone \in Nat /\ Len(a) \in Nat
  BY BoundsAreNat DEF SharedType
<1>2. MaxOf(sh.refDone, n) \in {sh.refDone, n}
  BY DEF MaxOf
<1>3. sh2.refDone \in {sh.refDone, n}
  BY <1>2
<1>4. Reach(a, sh2.refDone, d \cup Trimmed(r)) /\ sh2.refDone <= Len(a)
  BY <1>3 DEF DoneTrue
<1>. QED
  BY <1>4 DEF DoneTrue

(* A row that follows the cursor leaves none behind.                       *)
LEMMA NextNoHole ==
  ASSUME NEW r \in SrvType, NEW g, NEW x, NEW c \in Nat, Covered(r, c, g), NEW n \in Nat, n <= c + 1,
         NEW id, \A t \in DOMAIN r.log : r.log[t] = id => t = n,
         NEW x2, x2 \cap Remote \subseteq x \cup {id}
  PROVE  HolesFewer(r, g, x, r, g, x2)
<1>. SUFFICES ASSUME NEW s, NEW t, HoleAt(r, g, x2, s, t)  PROVE HoleAt(r, g, x, s, t)
  BY DEF HolesFewer
<1>1. r.log \in Seq(Ids) /\ r.ckpt \in Nat
  BY DEF SrvType
<1>2. s \in DOMAIN r.log /\ t \in DOMAIN r.log /\ r.ckpt < s /\ s < t /\ r.log[s] \notin g
      /\ r.log[t] \in Remote \cap x2
  BY DEF HoleAt
<1>3. s \in Nat /\ t \in Nat
  BY <1>1, <1>2
<1>4. ASSUME r.log[t] = id  PROVE FALSE
  <2>1. s <= c
    BY <1>2, <1>3, <1>4
  <2>2. r.log[s] \in Held(r, c)
    BY <1>2, <2>1 DEF Held
  <2>. QED
    BY <1>2, <2>2 DEF Covered
<1>. QED
  BY <1>2, <1>4 DEF HoleAt

LEMMA AskSend ==
  ASSUME NEW r, NEW g, NEW cs \in Seq(ClientFrame), AskTrue(cs, r, g), NEW f,
         f.k = "ROWS_REQ" => Covered(r, f.after, g)
  PROVE  AskTrue(Append(cs, f), r, g)
<1>. DEFINE ca == Append(cs, f)
<1>1. /\ Len(cs) \in Nat /\ DOMAIN cs = 1 .. Len(cs) /\ DOMAIN ca = 1 .. (Len(cs) + 1)
      /\ \A i \in DOMAIN cs : ca[i] = cs[i]
      /\ ca[Len(cs) + 1] = f
  BY SentElements
<1>. HIDE DEF ca
<1>2. \A i \in DOMAIN ca : (i \in DOMAIN cs /\ ca[i] = cs[i]) \/ ca[i] = f
  BY <1>1
<1>3. AskTrue(ca, r, g)
  BY <1>2 DEF AskTrue
<1>. QED
  BY <1>3 DEF ca

LEMMA AskKept ==
  ASSUME NEW r, NEW g, NEW cs, AskTrue(cs, r, g), NEW cs2, Kept(cs, cs2, "ROWS_REQ")
  PROVE  AskTrue(cs2, r, g)
BY DEF AskTrue, Kept

(* What the cycle holds, while another hand lets go or fills.              *)
LEMMA HttpFlow ==
  ASSUME NEW r \in SrvType, NEW g, NEW a, Len(a) \in Nat, NEW h, NEW q, NEW x, HttpReads(h, r, g, q, x, a),
         NEW h2, SameAnswer(h, h2), NEW q2, q \cap Ids \subseteq q2, NEW x2, x2 \cap Remote \subseteq x
  PROVE  HttpReads(h2, r, g, q2, x2, a)
<1>1. \A m : Within(r, g, x, m) => Within(r, g, x2, m)
  BY LessHands, WithinFewer
<1>2. \A c : Covered(r, c, q) => Covered(r, c, q2)
  BY CoveredGrow
<1>3. h2.ticket <= Len(a)
  BY DEF SameAnswer, HttpReads
<1>. QED
  BY <1>1, <1>2, <1>3 DEF HttpReads, SameAnswer

-----------------------------------------------------------------------------
(* The ledger through the tail of a turn.                                  *)

LEMMA RepairGapLedger ==
  ASSUME NEW r \in SrvType, NEW g, NEW d, NEW a \in Seq(SUBSET Ids), NEW h,
         NEW t \in TurnType, NEW cs \in Seq(ClientFrame), NEW ss,
         t.se.phase = "steady", OneRead(t.sh, t.se, cs \o t.out, ss), Covered(r, t.sh.cursor, g),
         Ledger(t.sh, t.se, h, cs \o t.out, ss, r, g, d, a)
  PROVE  Ledger(RepairGap(t).sh, RepairGap(t).se, h, cs \o RepairGap(t).out, ss, r, g, d, a)
<1>. DEFINE u == RepairGap(t)
            f == RowsReq(t.sh.cursor, FALSE)
<1>1. t.out \in Seq(ClientFrame) /\ f \in ClientFrame /\ t.sh.cursor \in Nat
      /\ f.after = t.sh.cursor
  BY RowsReqType DEF TurnType, SharedType, RowsReq
<1>2. \/ u.sh = t.sh /\ u.se = t.se /\ u.out = t.out
      \/ /\ ~t.sh.rowsReqOut /\ u.sh.rowsReqOut
         /\ u.sh.refReq = t.sh.refReq /\ u.sh.refDone = t.sh.refDone
         /\ u.out \in {t.out, Append(t.out, f)} /\ SamePhase(t.se, u.se)
  BY DEF RepairGap, TurnType, SharedType, SessType, SamePhase
<1>. HIDE DEF u, f
<1>3. ASSUME u.sh = t.sh, u.se = t.se, u.out = t.out
      PROVE  Ledger(u.sh, u.se, h, cs \o u.out, ss, r, g, d, a)
  BY <1>3
<1>4. ASSUME ~t.sh.rowsReqOut, u.sh.rowsReqOut,
             u.sh.refReq = t.sh.refReq, u.sh.refDone = t.sh.refDone,
             u.out \in {t.out, Append(t.out, f)}, SamePhase(t.se, u.se)
      PROVE  Ledger(u.sh, u.se, h, cs \o u.out, ss, r, g, d, a)
  <2>1. Lacks(ss, "ROWS")
    BY <1>4 DEF OneRead, Asking
  <2>2. DoneTrue(u.sh, r, d, a)
    BY <1>4 DEF Ledger, DoneTrue
  <2>3. AskTrue(cs \o u.out, r, g)
    <3>1. cs \o t.out \in Seq(ClientFrame) /\ cs \o Append(t.out, f) = Append(cs \o t.out, f)
      BY <1>1, SendAfter
    <3>2. AskTrue(cs \o t.out, r, g)
      BY DEF Ledger
    <3>3. AskTrue(Append(cs \o t.out, f), r, g)
      BY <1>1, <3>1, <3>2, AskSend
    <3>. QED
      BY <1>4, <3>1, <3>2, <3>3
  <2>4. Held1(g, u.se) = Held1(g, t.se) /\ Hands(g, u.se, h) = Hands(g, t.se, h)
    BY <1>4 DEF Held1, Hands, SamePhase
  <2>5. SessReads(u.sh, u.se, ss, r, g, Held1(g, u.se), Hands(g, u.se, h), a)
    BY <1>4, <2>1 DEF Ledger, SessReads, SamePhase, Lacks
  <2>. QED
    BY <2>2, <2>3, <2>4, <2>5 DEF Ledger
<1>. QED
  BY <1>2, <1>3, <1>4 DEF u

LEMMA SendRefreshLedger ==
  ASSUME NEW r \in SrvType, NEW g, NEW d, NEW a \in Seq(SUBSET Ids), NEW h,
         NEW t \in TurnType, NEW cs \in Seq(ClientFrame), NEW ss,
         t.se.phase = "steady", OneRead(t.sh, t.se, cs \o t.out, ss), Covered(r, t.sh.cursor, g),
         Ledger(t.sh, t.se, h, cs \o t.out, ss, r, g, d, a)
  PROVE  Ledger(SendRefresh(t).sh, SendRefresh(t).se, h, cs \o SendRefresh(t).out, ss, r, g, d, a)
<1>. DEFINE u == SendRefresh(t)
            f == RowsReq(t.sh.cursor, FALSE)
<1>1. t.out \in Seq(ClientFrame) /\ f \in ClientFrame /\ t.sh.cursor \in Nat
      /\ f.after = t.sh.cursor
  BY RowsReqType DEF TurnType, SharedType, RowsReq
<1>1a. t.sh.refReq \in Nat
  BY BoundsAreNat DEF TurnType, SharedType
<1>2. \/ u.sh = t.sh /\ u.se = t.se /\ u.out = t.out
      \/ /\ ~t.sh.rowsReqOut /\ u.sh.rowsReqOut
         /\ u.sh.refReq = t.sh.refReq /\ u.sh.refDone = t.sh.refDone
         /\ u.out = Append(t.out, f) /\ u.se.phase = "steady" /\ u.se.row = t.se.row
         /\ u.se.ticket = t.se.ticket /\ u.se.refresh = t.sh.refReq
  BY DEF SendRefresh, TurnType, SharedType, SessType
<1>. HIDE DEF u, f
<1>3. ASSUME u.sh = t.sh, u.se = t.se, u.out = t.out
      PROVE  Ledger(u.sh, u.se, h, cs \o u.out, ss, r, g, d, a)
  BY <1>3
<1>4. ASSUME ~t.sh.rowsReqOut, u.sh.rowsReqOut,
             u.sh.refReq = t.sh.refReq, u.sh.refDone = t.sh.refDone,
             u.out = Append(t.out, f), u.se.phase = "steady", u.se.row = t.se.row,
             u.se.ticket = t.se.ticket, u.se.refresh = t.sh.refReq
      PROVE  Ledger(u.sh, u.se, h, cs \o u.out, ss, r, g, d, a)
  <2>1. Lacks(ss, "ROWS")
    BY <1>4 DEF OneRead, Asking
  <2>2. DoneTrue(u.sh, r, d, a) /\ u.se.refresh <= Len(a)
    BY <1>1a, <1>4 DEF Ledger, DoneTrue
  <2>3. AskTrue(cs \o u.out, r, g)
    <3>1. cs \o t.out \in Seq(ClientFrame) /\ cs \o Append(t.out, f) = Append(cs \o t.out, f)
      BY <1>1, SendAfter
    <3>2. AskTrue(cs \o t.out, r, g)
      BY DEF Ledger
    <3>3. AskTrue(Append(cs \o t.out, f), r, g)
      BY <1>1, <3>1, <3>2, AskSend
    <3>. QED
      BY <1>4, <3>1, <3>3
  <2>4. Held1(g, u.se) = Held1(g, t.se) /\ Hands(g, u.se, h) = Hands(g, t.se, h)
    BY <1>4 DEF Held1, Hands
  <2>5. SessReads(u.sh, u.se, ss, r, g, Held1(g, u.se), Hands(g, u.se, h), a)
    BY <1>4, <2>1, <2>2 DEF Ledger, SessReads, Lacks
  <2>. QED
    BY <2>2, <2>3, <2>4, <2>5 DEF Ledger
<1>. QED
  BY <1>2, <1>3, <1>4 DEF u

LEMMA PushLedger ==
  ASSUME NEW r \in SrvType, NEW g, NEW d, NEW a, NEW h,
         NEW t \in TurnType, NEW u, PushOut(t, u), NEW cs \in Seq(ClientFrame), NEW ss,
         Ledger(t.sh, t.se, h, cs \o t.out, ss, r, g, d, a)
  PROVE  Ledger(u.sh, u.se, h, cs \o u.out, ss, r, g, d, a)
<1>1. t.out \in Seq(ClientFrame) /\ cs \o t.out \in Seq(ClientFrame)
  BY DEF TurnType
<1>2. AskTrue(cs \o u.out, r, g)
  <2>1. AskTrue(cs \o t.out, r, g)
    BY DEF Ledger
  <2>2. ASSUME NEW f \in ClientFrame, f.k = "PUSH", u.out = Append(t.out, f)
        PROVE  AskTrue(cs \o u.out, r, g)
    <3>1. cs \o u.out = Append(cs \o t.out, f) /\ f.k # "ROWS_REQ"
      BY <1>1, <2>2, SendAfter
    <3>. QED
      BY <1>1, <2>1, <3>1, AskSend
  <2>. QED
    BY <2>1, <2>2 DEF PushOut
<1>2a. DoneTrue(u.sh, r, d, a)
  BY DEF Ledger, DoneTrue, PushOut
<1>3. Held1(g, u.se) = Held1(g, t.se) /\ Hands(g, u.se, h) = Hands(g, t.se, h)
  BY DEF Held1, Hands, PushOut
<1>4. \A f, p, x : FrameTrue(f, t.sh, t.se, r, g, p, x, a) => FrameTrue(f, u.sh, u.se, r, g, p, x, a)
  BY DEF FrameTrue, PushOut
<1>5. SessReads(u.sh, u.se, ss, r, g, Held1(g, u.se), Hands(g, u.se, h), a)
  BY <1>3, <1>4 DEF Ledger, SessReads, PushOut
<1>. QED
  BY <1>2, <1>2a, <1>3, <1>5 DEF Ledger

LEMMA EndSessionLedger ==
  ASSUME NEW r \in SrvType, NEW g, NEW d, NEW a \in Seq(SUBSET Ids),
         NEW sh \in SharedType, NEW h \in HttpType, EndSession(sh, h),
         DoneTrue(sh, r, d, a), NEW q, NEW x, HttpReads(h, r, g, q, x, a),
         q \cap Ids \subseteq Held1(g, h), Held1(g, h) \cap Remote \subseteq x
  PROVE  Ledger(shared', sess', http', c2s', s2c', r, g, d, a)
<1>1. c2s' = <<>> /\ s2c' = <<>> /\ sess'.ticket = 0 /\ sess'.refresh = 0 /\ sess'.phase = "down"
      /\ sess'.row = NoRow
  BY DEF EndSession, NewSess
<1>2. shared'.refReq = sh.refReq /\ shared'.refDone = sh.refDone
  <2>1. PICK l : shared' = [sh EXCEPT !.httpLive = l]
    BY DEF EndSession, SharedType
  <2>. QED
    BY <2>1 DEF SharedType
<1>3. SameAnswer(h, http')
  <2>1. PICK e \in BOOLEAN : http' = SpawnHttp([h EXCEPT !.epochSame = e], sh.pending)
    BY DEF EndSession, HttpType
  <2>. DEFINE h1 == [h EXCEPT !.epochSame = e]
  <2>2. h1.phase = h.phase /\ h1.ticket = h.ticket /\ h1.st = h.st /\ h1.next = h.next
        /\ h1.row = h.row /\ h1.gapSame = h.gapSame
    BY DEF HttpType
  <2>. HIDE DEF h1
  <2>3. SameAnswer(h1, http')
    BY <2>1, SpawnAnswer DEF h1
  <2>. QED
    BY <2>2, <2>3 DEF SameAnswer
<1>4. DoneTrue(shared', r, d, a)
  BY <1>2 DEF DoneTrue
<1>5. AskTrue(c2s', r, g)
  BY <1>1 DEF AskTrue
<1>6. Len(a) \in Nat
  OBVIOUS
<1>7. SessReads(shared', sess', s2c', r, g, Held1(g, sess'), Hands(g, sess', http'), a)
  BY <1>1, <1>6 DEF SessReads
<1>8. HttpReads(http', r, g, Held1(g, http'), Hands(g, sess', http'), a)
  <2>1. CASE http'.phase \in Answered
    <3>1. http'.row = h.row
      BY <1>3, <2>1 DEF SameAnswer
    <3>2. q \cap Ids \subseteq Held1(g, http') /\ Hands(g, sess', http') \cap Remote \subseteq x
      BY <1>1, <3>1, BaseIsNoRow DEF Held1, Hands
    <3>. QED
      BY <1>3, <1>6, <3>2, HttpFlow
  <2>2. CASE http'.phase \notin Answered
    <3>1. http'.ticket <= Len(a)
      BY <1>3, <1>6 DEF SameAnswer, HttpReads
    <3>. QED
      BY <2>2, <3>1 DEF HttpReads
  <2>. QED
    BY <2>1, <2>2
<1>. QED
  BY <1>4, <1>5, <1>7, <1>8 DEF Ledger

LEMMA FinishLedger ==
  ASSUME NEW r \in SrvType, NEW g, NEW d, NEW a \in Seq(SUBSET Ids),
         NEW t \in TurnType, NEW h \in HttpType, NEW rest, Finish(t, h, rest),
         Ledger(t.sh, t.se, h, c2s \o t.out, rest, r, g, d, a)
  PROVE  Ledger(shared', sess', http', c2s', s2c', r, g, d, a)
<1>1. CASE t.ok
  BY <1>1 DEF Finish
<1>2. CASE ~t.ok
  <2>. DEFINE q == Held1(g, h)
              x == Hands(g, t.se, h)
  <2>1. EndSession(t.sh, h) /\ t.sh \in SharedType
    BY <1>2 DEF Finish, TurnType
  <2>2. DoneTrue(t.sh, r, d, a) /\ HttpReads(h, r, g, q, x, a)
    BY DEF Ledger
  <2>3. q \cap Ids \subseteq Held1(g, h) /\ Held1(g, h) \cap Remote \subseteq x
    BY DEF Held1, Hands
  <2>. HIDE DEF q, x
  <2>. QED
    BY <2>1, <2>2, <2>3, EndSessionLedger
<1>. QED
  BY <1>1, <1>2

LEMMA FinishKeepsCursor ==
  ASSUME NEW t \in TurnType, NEW h, NEW rest, Finish(t, h, rest)
  PROVE  shared'.cursor = t.sh.cursor
<1>1. t.sh \in SharedType
  BY DEF TurnType
<1>2. CASE t.ok
  BY <1>2 DEF Finish
<1>3. CASE ~t.ok
  <2>1. EndSession(t.sh, h)
    BY <1>3 DEF Finish
  <2>2. \E l : shared' = [t.sh EXCEPT !.httpLive = l]
    BY <1>1, <2>1 DEF EndSession, SharedType
  <2>. QED
    BY <1>1, <2>2 DEF SharedType
<1>. QED
  BY <1>2, <1>3

LEMMA AfterFrameLedger ==
  ASSUME NEW r \in SrvType, NEW g, NEW d, NEW a \in Seq(SUBSET Ids),
         NEW sh \in SharedType, NEW se \in SessType, NEW h \in HttpType, NEW rest,
         AfterFrame(sh, se, h, rest), c2s \in Seq(ClientFrame), OneRead(sh, se, c2s, rest),
         Covered(r, shared'.cursor, g), Ledger(sh, se, h, c2s, rest, r, g, d, a)
  PROVE  Ledger(shared', sess', http', c2s', s2c', r, g, d, a)
<1>. DEFINE t0 == Turn(sh, se)
            t1 == RepairGap(t0)
            t2 == SendRefresh(t1)
            t  == IF se.phase = "steady" THEN t2 ELSE t0
<1>1. t0 \in TurnType /\ t0.sh = sh /\ t0.se = se /\ c2s \o t0.out = c2s
  BY TurnIsTurn, NothingSent DEF Turn
<1>2. Finish(t, h, rest)
  BY DEF AfterFrame
<1>3. OneRead(t0.sh, t0.se, c2s \o t0.out, rest)
      /\ Ledger(t0.sh, t0.se, h, c2s \o t0.out, rest, r, g, d, a)
  BY <1>1
<1>. HIDE DEF t0
<1>4. t1 \in TurnType /\ t1.sh.cursor = t0.sh.cursor /\ t1.se.phase = t0.se.phase
  BY <1>1, RepairGapType, PhaseKept, TurnsAreSame DEF SameTurn
<1>. HIDE DEF t1
<1>5. t2 \in TurnType /\ t2.sh.cursor = t1.sh.cursor
  BY <1>4, SendRefreshType, TurnsAreSame DEF SameTurn
<1>. HIDE DEF t2
<1>6. shared'.cursor = t0.sh.cursor
  BY <1>1, <1>2, <1>4, <1>5, FinishKeepsCursor
<1>7. Covered(r, t0.sh.cursor, g) /\ Covered(r, t1.sh.cursor, g)
  BY <1>4, <1>6
<1>8. se.phase = "steady" => OneRead(t1.sh, t1.se, c2s \o t1.out, rest)
                             /\ Ledger(t1.sh, t1.se, h, c2s \o t1.out, rest, r, g, d, a)
  BY <1>1, <1>3, <1>7, RepairGapOneRead, RepairGapLedger DEF t1
<1>9. se.phase = "steady" => Ledger(t2.sh, t2.se, h, c2s \o t2.out, rest, r, g, d, a)
  BY <1>1, <1>4, <1>7, <1>8, SendRefreshLedger DEF t2
<1>10. t \in TurnType /\ Ledger(t.sh, t.se, h, c2s \o t.out, rest, r, g, d, a)
  BY <1>1, <1>3, <1>5, <1>9
<1>. HIDE DEF t
<1>. QED
  BY <1>2, <1>10, FinishLedger

-----------------------------------------------------------------------------
(* What each of the other steps starts from.                               *)

Start ==
  /\ WorldInv /\ TalkInv /\ WorldInv' /\ TalkInv' /\ OutboxInv /\ CursorInv /\ CursorInv'
  /\ LedgerInv /\ Keeps

LEMMA SoundCovered ==
  ASSUME NEW c, NEW r, NEW d, NEW e, Sound(c, r, d, e), Calm(e), NEW g, d \subseteq g
  PROVE  Covered(r, c, g)
BY DEF Sound, Covered, Calm, Unwiped

LEMMA DocInGot == Doc \subseteq sink.got
BY DEF Doc, Visible

LEMMA NowCovered ==
  ASSUME CursorInv, Calm(env)
  PROVE  Covered(srv, shared.cursor, sink.got) /\ Held(srv, shared.cursor) \subseteq Doc
<1>1. Sound(shared.cursor, srv, Doc, env)
  BY DEF CursorInv, TalkTrue
<1>. QED
  BY <1>1, SoundCovered, DocInGot DEF Sound

LEMMA ThenCovered ==
  ASSUME CursorInv', Calm(env')
  PROVE  Covered(srv', shared'.cursor, sink'.got)
<1>1. Sound(shared'.cursor, srv', Doc', env')
  BY DEF CursorInv, TalkTrue
<1>2. Doc' \subseteq sink'.got
  BY DEF Doc, Visible
<1>. QED
  BY <1>1, <1>2, SoundCovered

LEMMA StartTypes ==
  ASSUME Start
  PROVE  /\ srv \in SrvType /\ srv' \in SrvType /\ sink \in SinkType /\ asked \in Seq(SUBSET Ids)
         /\ shared \in SharedType /\ sess \in SessType /\ http \in HttpType
         /\ c2s \in Seq(ClientFrame) /\ s2c \in Seq(FramesUpTo(Len(srv.log))) /\ Len(srv.log) \in Nat
         /\ Calm(env) => Calm(env')
BY LogLength DEF Start, WorldInv, TalkInv, Keeps, Calm

(* Where the world stands still, what held of it still does.               *)
LEMMA StartStill ==
  ASSUME Start, UNCHANGED <<srv, needs>>, sink'.got = sink.got, Calm(env)
  PROVE  Holds /\ Ledger(shared, sess, http, c2s, s2c, srv, sink.got, Doc, asked) /\ Doc' = Doc
<1>1. Holds
  BY StillHolds DEF Start, LedgerInv
<1>. QED
  BY <1>1 DEF Start, LedgerInv, LedgerTrue, Doc

LEMMA StartEnd ==
  ASSUME Start, sink'.slot = "none" => UNCHANGED asked,
         Calm(env) => Ledger(shared', sess', http', c2s', s2c', srv', sink'.got, Doc', asked')
  PROVE  LedgerTrue'
BY LedgerStep DEF Start, LedgerInv

(* A join that is through, and the steady state after it.                  *)
PhaseTrue(sh, se, r, g, x, a) ==
  /\ se.phase = "drain" => /\ Reach(a, se.ticket, UpTo(r, se.head))
                           /\ sh.gap \/ Within(r, g, x, 0)
  /\ se.phase = "steady" => sh.gap \/ sh.rowsReqOut \/ Within(r, g, x, 0)

LEMMA LedgerParts ==
  ASSUME NEW sh, NEW se, NEW h, NEW cs, NEW ss, NEW r, NEW g, NEW d, NEW a
  PROVE  Ledger(sh, se, h, cs, ss, r, g, d, a) <=>
           /\ DoneTrue(sh, r, d, a) /\ AskTrue(cs, r, g)
           /\ se.ticket <= Len(a) /\ se.refresh <= Len(a)
           /\ FramesHold(sh, se, ss, r, g, Held1(g, se), Hands(g, se, h), a)
           /\ PhaseTrue(sh, se, r, g, Hands(g, se, h), a)
           /\ HttpReads(h, r, g, Held1(g, h), Hands(g, se, h), a)
BY DEF Ledger, SessReads, FramesHold, PhaseTrue

LEMMA SameHolds ==
  ASSUME NEW r \in SrvType, NEW g, NEW a, Len(a) \in Nat, NEW h, NEW q, NEW x, HttpReads(h, r, g, q, x, a),
         NEW q2, q \cap Ids \subseteq q2, NEW x2, x2 \cap Remote \subseteq x
  PROVE  HttpReads(h, r, g, q2, x2, a)
BY HttpFlow DEF SameAnswer

(* The frames go on over another state of the session.                     *)
LEMMA FramesStay ==
  ASSUME NEW r \in SrvType, NEW g, NEW a, NEW sh, NEW se, NEW h, NEW ss,
         FramesHold(sh, se, ss, r, g, Held1(g, se), Hands(g, se, h), a),
         NEW sh2, NEW se2, NEW ss2, sh.gap => sh2.gap,
         se2.ticket = se.ticket, se2.refresh = se.refresh, se2.row = se.row, Kept(ss, ss2, "ROWS")
  PROVE  FramesHold(sh2, se2, ss2, r, g, Held1(g, se2), Hands(g, se2, h), a)
<1>1. Held1(g, se2) = Held1(g, se) /\ Hands(g, se2, h) = Hands(g, se, h)
  BY DEF Held1, Hands
<1>. QED
  BY <1>1, FramesFlow

LEMMA FromStart ==
  ASSUME Start
  PROVE  ReadInv /\ RoomClean /\ LedgerTrue /\ CursorInv /\ WorldInv /\ TalkInv
         /\ OutboxInv /\ Keeps /\ CursorInv'
BY DEF Start, LedgerInv

LEMMA NowLedger ==
  ASSUME Start, Calm(env)
  PROVE  Ledger(shared, sess, http, c2s, s2c, srv, sink.got, Doc, asked)
BY DEF Start, LedgerInv, LedgerTrue

(* Nothing of the world moved.                                             *)
LEMMA StillEnd ==
  ASSUME Start, UNCHANGED <<srv, needs, asked>>, sink'.got = sink.got,
         Calm(env) => Ledger(shared', sess', http', c2s', s2c', srv, sink.got, Doc, asked)
  PROVE  LedgerTrue'
<1>1. Doc' = Doc
  BY DEF Doc
<1>. QED
  BY <1>1, StartEnd

-----------------------------------------------------------------------------
(* The room serves a read.                                                 *)

LEMMA ServeRowsRead ==
  ASSUME ReadInv, TalkInv, ServeRows
  PROVE  ReadInv'
<1>. DEFINE f == [k |-> "ROWS", next |-> MaxOf(Head(c2s).after, srv.ckpt) + 1,
                  head |-> Len(srv.log), ex |-> Head(c2s).ex]
<1>1. c2s # <<>> /\ Head(c2s).k = "ROWS_REQ" /\ c2s' = Tail(c2s) /\ s2c' = Append(s2c, f)
      /\ UNCHANGED <<shared, sess>> /\ c2s \in Seq(ClientFrame) /\ s2c \in Seq(FramesUpTo(Len(srv.log)))
  BY DEF ServeRows, TalkInv
<1>. HIDE DEF f
<1>2. 1 \in DOMAIN c2s /\ Head(c2s) = c2s[1]
  BY <1>1, TailElements
<1>3. ~Lacks(c2s, "ROWS_REQ")
  BY <1>1, <1>2 DEF Lacks
<1>4. Few(c2s, "ROWS_REQ") /\ Lacks(s2c, "ROWS") /\ Asking(shared, sess)
  BY <1>3 DEF ReadInv, OneRead
<1>5. Lacks(Tail(c2s), "ROWS_REQ")
  BY <1>1, <1>4, KeptTail
<1>6. Few(Append(s2c, f), "ROWS") /\ Few(Tail(c2s), "ROWS_REQ")
  BY <1>1, <1>4, <1>5, KeptSend, LacksFew
<1>7. sess.phase = "down" => sess.ticket = 0 /\ sess.refresh = 0
  BY DEF ReadInv, OneRead
<1>. QED
  BY <1>1, <1>4, <1>5, <1>6, <1>7 DEF ReadInv, OneRead

LEMMA ServeRowsLedger ==
  ASSUME Start, ServeRows
  PROVE  ReadInv' /\ LedgerTrue'
<1>. DEFINE q == Head(c2s)
            n == MaxOf(q.after, srv.ckpt) + 1
            f == [k |-> "ROWS", next |-> n, head |-> Len(srv.log), ex |-> q.ex]
            p == Held1(sink.got, sess)
            x == Hands(sink.got, sess, http)
<1>1. ReadInv'
  BY FromStart, ServeRowsRead
<1>2. c2s # <<>> /\ q.k = "ROWS_REQ" /\ c2s' = Tail(c2s) /\ s2c' = Append(s2c, f)
      /\ UNCHANGED <<srv, needs, shared, sess, http, sink, asked>>
  BY DEF ServeRows
<1>3. srv \in SrvType /\ asked \in Seq(SUBSET Ids) /\ c2s \in Seq(ClientFrame)
      /\ s2c \in Seq(FramesUpTo(Len(srv.log))) /\ srv.ckpt \in Nat /\ Len(srv.log) \in Nat
      /\ srv.log \in Seq(Ids) /\ sess \in SessType
  BY StartTypes DEF SrvType
<1>4. q \in ClientFrame /\ 1 \in DOMAIN c2s /\ q = c2s[1]
  BY <1>2, <1>3, TailElements
<1>5. q.after \in Nat
  BY <1>2, <1>4, PushKind
<1>6. ASSUME Calm(env)
      PROVE  Ledger(shared, sess, http, c2s', s2c', srv, sink.got, Doc, asked)
  <2>1. Ledger(shared, sess, http, c2s, s2c, srv, sink.got, Doc, asked)
    BY <1>6, NowLedger
  <2>2. AskTrue(Tail(c2s), srv, sink.got)
    BY <1>2, <1>3, <2>1, KeptTail, AskKept DEF Ledger
  <2>3. Covered(srv, q.after, sink.got)
    BY <1>2, <1>4, <2>1 DEF Ledger, AskTrue
  <2>4. Covered(srv, n - 1, p)
    <3>1. srv.ckpt <= Len(srv.log)
      BY FromStart DEF CursorInv, WorldTrue, RoomTrue
    <3>2. n - 1 = MaxOf(q.after, srv.ckpt) /\ n - 1 <= Len(srv.log)
      BY <1>3, <1>5, <2>3, <3>1 DEF MaxOf, Covered
    <3>3. Held(srv, MaxOf(q.after, srv.ckpt)) \subseteq Held(srv, q.after)
      BY <1>3, <1>5 DEF Held, MaxOf
    <3>. QED
      BY <2>3, <3>2, <3>3 DEF Covered, Held1
  <2>5. Rows(srv.log) = UpTo(srv, Len(srv.log))
    BY <1>3 DEF Rows, UpTo
  <2>6. Reach(asked, Len(asked), UpTo(srv, Len(srv.log))) /\ sess.ticket <= Len(asked)
        /\ sess.refresh <= Len(asked)
    BY <2>1, <2>5 DEF Ledger, DoneTrue, SessReads
  <2>7. sess.ticket \in Nat /\ sess.refresh \in Nat /\ Len(asked) \in Nat /\ DOMAIN asked \subseteq Nat
    BY <1>3, BoundsAreNat DEF SessType
  <2>8. Reach(asked, sess.ticket, UpTo(srv, Len(srv.log)))
        /\ Reach(asked, sess.refresh, UpTo(srv, Len(srv.log)))
    BY <2>6, <2>7, ReachUp
  <2>9. Within(srv, sink.got, x, Len(srv.log))
    BY <1>3 DEF Within, HoleAt
  <2>10. f.head = Len(srv.log) /\ f.next = n
    OBVIOUS
  <2>. HIDE DEF f, n, p, x, q
  <2>11. FrameTrue(f, shared, sess, srv, sink.got, p, x, asked)
    BY <2>4, <2>8, <2>9, <2>10 DEF FrameTrue
  <2>12. FramesHold(shared, sess, s2c, srv, sink.got, p, x, asked)
    BY <2>1, LedgerParts DEF p, x
  <2>13. FramesHold(shared, sess, s2c', srv, sink.got, p, x, asked)
    <3>. DEFINE fa == Append(s2c, f)
    <3>1. /\ Len(s2c) \in Nat /\ DOMAIN s2c = 1 .. Len(s2c) /\ DOMAIN fa = 1 .. (Len(s2c) + 1)
          /\ \A i \in DOMAIN s2c : fa[i] = s2c[i]
          /\ fa[Len(s2c) + 1] = f
      BY <1>3, SentElements
    <3>. HIDE DEF fa
    <3>2. \A i \in DOMAIN fa : (i \in DOMAIN s2c /\ fa[i] = s2c[i]) \/ fa[i] = f
      BY <3>1
    <3>3. FramesHold(shared, sess, fa, srv, sink.got, p, x, asked)
      BY <2>11, <2>12, <3>2 DEF FramesHold
    <3>. QED
      BY <1>2, <3>3 DEF fa
  <2>. QED
    BY <1>2, <2>1, <2>2, <2>13, LedgerParts DEF p, x
<1>7. Calm(env) => Ledger(shared', sess', http', c2s', s2c', srv, sink.got, Doc, asked)
  BY <1>2, <1>6
<1>8. LedgerTrue'
  BY <1>2, <1>7, StillEnd
<1>. QED
  BY <1>1, <1>8

-----------------------------------------------------------------------------
(* The client is built, dials, and is dropped.                             *)

LEMMA ConnectLedger ==
  ASSUME Start, Connect
  PROVE  ReadInv' /\ LedgerTrue'
<1>. DEFINE pending == sink.outbox \ (sink.rejected \cup Oversize)
<1>1. sink.slot = "none" /\ UNCHANGED <<srv, needs, c2s, s2c, sess, asked>>
      /\ shared' = NewShared(sink.pcur, pending) /\ http' = SpawnHttp(IdleHttp, pending)
      /\ sink' = [sink EXCEPT !.slot = "made"]
  BY DEF Connect
<1>. HIDE DEF pending
<1>2. sess.phase = "down" /\ c2s = <<>> /\ s2c = <<>> /\ sess.row = NoRow
  BY <1>1, FromStart DEF CursorInv, TalkInv
<1>3. sess.ticket = 0 /\ sess.refresh = 0
  BY <1>2, FromStart DEF ReadInv, OneRead
<1>4. ReadInv'
  BY <1>1, <1>2, <1>3, ClosedOneRead DEF ReadInv
<1>5. sink'.got = sink.got
  BY <1>1, StartTypes DEF SinkType
<1>6. ASSUME Calm(env)
      PROVE  Ledger(shared', sess, http', <<>>, <<>>, srv, sink.got, Doc, asked)
  <2>1. asked = <<>>
    BY <1>1, <1>6, FromStart DEF LedgerTrue
  <2>2. DoneTrue(shared', srv, Doc, asked)
    BY <1>1, <2>1 DEF DoneTrue, NewShared, Reach
  <2>3. AskTrue(<<>>, srv, sink.got)
    BY DEF AskTrue
  <2>4. SessReads(shared', sess, <<>>, srv, sink.got, Held1(sink.got, sess), Hands(sink.got, sess, http'), asked)
    BY <1>2, <1>3, <2>1 DEF SessReads
  <2>5. http'.phase \notin Answered /\ http'.ticket = 0
    BY <1>1 DEF SpawnHttp, IdleHttp, Answered
  <2>6. HttpReads(http', srv, sink.got, Held1(sink.got, http'), Hands(sink.got, sess, http'), asked)
    BY <2>1, <2>5 DEF HttpReads
  <2>. QED
    BY <2>2, <2>3, <2>4, <2>6 DEF Ledger
<1>7. Calm(env) => Ledger(shared', sess', http', c2s', s2c', srv, sink.got, Doc, asked)
  BY <1>1, <1>2, <1>6
<1>8. LedgerTrue'
  BY <1>1, <1>5, <1>7, StillEnd
<1>. QED
  BY <1>4, <1>8

(* The start of a session: whatever frames there are, no read is among     *)
(* them, and nothing is claimed.                                           *)
LEMMA HandshakeLedger ==
  ASSUME Start, UNCHANGED <<srv, needs, http, asked>>, sink'.got = sink.got,
         shared'.refReq = shared.refReq, shared'.refDone = shared.refDone, shared'.gap = shared.gap,
         sess'.ticket = sess.ticket, sess'.refresh = sess.refresh, sess'.row = sess.row,
         sess'.phase \in {"hello", "plan"},
         Kept(c2s, c2s', "ROWS_REQ"), Kept(s2c, s2c', "ROWS")
  PROVE  LedgerTrue'
<1>1. srv \in SrvType /\ asked \in Seq(SUBSET Ids)
  BY StartTypes
<1>2. ASSUME Calm(env)
      PROVE  Ledger(shared', sess', http', c2s', s2c', srv, sink.got, Doc, asked)
  <2>1. Ledger(shared, sess, http, c2s, s2c, srv, sink.got, Doc, asked)
    BY <1>2, NowLedger
  <2>2. DoneTrue(shared', srv, Doc, asked)
    BY <2>1 DEF Ledger, DoneTrue
  <2>3. AskTrue(c2s', srv, sink.got)
    BY <2>1, AskKept DEF Ledger
  <2>4. FramesHold(shared', sess', s2c', srv, sink.got, Held1(sink.got, sess'),
                   Hands(sink.got, sess', http), asked)
    BY <1>1, <2>1, LedgerParts, FramesStay
  <2>5. PhaseTrue(shared', sess', srv, sink.got, Hands(sink.got, sess', http), asked)
    BY DEF PhaseTrue
  <2>6. Hands(sink.got, sess', http) = Hands(sink.got, sess, http)
    BY DEF Hands
  <2>7. HttpReads(http, srv, sink.got, Held1(sink.got, http), Hands(sink.got, sess', http), asked)
    BY <2>1, <2>6 DEF Ledger
  <2>8. sess'.ticket <= Len(asked) /\ sess'.refresh <= Len(asked)
    BY <2>1, LedgerParts
  <2>9. Ledger(shared', sess', http, c2s', s2c', srv, sink.got, Doc, asked)
    BY <2>2, <2>3, <2>4, <2>5, <2>7, <2>8, LedgerParts
  <2>. QED
    BY <2>9
<1>. QED
  BY <1>2, StillEnd

LEMMA DialLedger ==
  ASSUME Start, Dial
  PROVE  ReadInv' /\ LedgerTrue'
<1>1. UNCHANGED <<srv, needs, http, asked, sink>> /\ c2s' = <<[k |-> "HELLO"]>> /\ s2c' = <<>>
      /\ sess.phase = "down"
  BY DEF Dial
<1>2. shared'.refReq = shared.refReq /\ shared'.refDone = shared.refDone /\ shared'.gap = shared.gap
  BY StartTypes DEF Dial, SharedType
<1>3. sess'.ticket = sess.ticket /\ sess'.refresh = sess.refresh /\ sess'.row = sess.row
      /\ sess'.phase = "hello"
  BY StartTypes DEF Dial, SessType
<1>4. Lacks(c2s', "ROWS_REQ") /\ Lacks(s2c', "ROWS")
  BY <1>1 DEF Lacks
<1>5. Kept(c2s, c2s', "ROWS_REQ") /\ Kept(s2c, s2c', "ROWS")
  BY <1>4, LacksFew DEF Kept, Lacks
<1>6. ReadInv'
  BY <1>3, <1>4, LacksFew DEF ReadInv, OneRead
<1>. QED
  BY <1>1, <1>2, <1>3, <1>5, <1>6, HandshakeLedger

LEMMA SessStateLedger ==
  ASSUME Start, SessState
  PROVE  ReadInv' /\ LedgerTrue'
<1>. DEFINE st == Head(s2c)
            cur == Clamp(shared.cursor, st)
            plan == PlanCatchUp(cur, st, Contained(st))
<1>1. UNCHANGED <<srv, needs, http, asked, c2s>> /\ s2c' = Tail(s2c) /\ s2c # <<>>
      /\ sess.phase = "hello"
      /\ shared' = [shared EXCEPT !.rowsReqOut = FALSE, !.cursor = cur, !.amnesty = TRUE]
      /\ sess' = [sess EXCEPT !.phase = "plan", !.st = st, !.repair = shared.needsCkpt,
                              !.causalSame = TRUE, !.plan = plan]
  BY DEF SessState
<1>. HIDE DEF st, cur, plan
<1>2. shared'.refReq = shared.refReq /\ shared'.refDone = shared.refDone /\ shared'.gap = shared.gap
  BY <1>1, StartTypes DEF SharedType
<1>3. sess'.ticket = sess.ticket /\ sess'.refresh = sess.refresh /\ sess'.row = sess.row
      /\ sess'.phase = "plan"
  BY <1>1, StartTypes DEF SessType
<1>4. sink'.got = sink.got
  BY StartTypes DEF SessState, SinkType
<1>5. Kept(c2s, c2s', "ROWS_REQ") /\ Kept(s2c, s2c', "ROWS")
  BY <1>1, StartTypes, KeptSame, KeptTail
<1>6. ~Asking(shared, sess) /\ ReadInv
  BY <1>1, FromStart DEF Asking
<1>7. ReadInv'
  BY <1>3, <1>5, <1>6, OneReadKept DEF ReadInv
<1>. QED
  BY <1>1, <1>2, <1>3, <1>4, <1>5, <1>7, HandshakeLedger

LEMMA LostLedger ==
  ASSUME Start, UNCHANGED <<srv, needs, asked>>, sink'.got = sink.got,
         NEW sh \in SharedType, SameReads(shared, sh), EndSession(sh, http)
  PROVE  ReadInv' /\ LedgerTrue'
<1>1. ReadInv'
  BY EndSessionOneRead
<1>2. srv \in SrvType /\ asked \in Seq(SUBSET Ids) /\ http \in HttpType
  BY StartTypes
<1>3. ASSUME Calm(env)
      PROVE  Ledger(shared', sess', http', c2s', s2c', srv, sink.got, Doc, asked)
  <2>. DEFINE q == Held1(sink.got, http)
              x == Hands(sink.got, sess, http)
  <2>1. Ledger(shared, sess, http, c2s, s2c, srv, sink.got, Doc, asked)
    BY <1>3, NowLedger
  <2>2. DoneTrue(sh, srv, Doc, asked)
    BY <2>1 DEF Ledger, DoneTrue, SameReads
  <2>3. HttpReads(http, srv, sink.got, q, x, asked)
    BY <2>1 DEF Ledger
  <2>4. q \cap Ids \subseteq Held1(sink.got, http) /\ Held1(sink.got, http) \cap Remote \subseteq x
    BY DEF Held1, Hands
  <2>. HIDE DEF q, x
  <2>. QED
    BY <1>2, <2>2, <2>3, <2>4, EndSessionLedger
<1>. QED
  BY <1>1, <1>3, StillEnd

LEMMA LossLedger ==
  ASSUME Start, Drop \/ SessRedial
  PROVE  ReadInv' /\ LedgerTrue'
<1>1. UNCHANGED <<srv, needs, asked, sink>> /\ EndSession(shared, http)
  BY DEF Drop, SessRedial
<1>2. shared \in SharedType /\ SameReads(shared, shared)
  BY StartTypes DEF SameReads
<1>. QED
  BY <1>1, <1>2, LostLedger

LEMMA FailedPushLedger ==
  ASSUME Start, UNCHANGED <<srv, needs, asked>>, NEW sh \in SharedType, SameReads(shared, sh),
         NEW ids, FailedPush(sh, ids)
  PROVE  ReadInv' /\ LedgerTrue'
<1>1. PICK e : Write(sh, e) /\ EndSession(Saved(sh, e), http)
  BY DEF FailedPush
<1>2. sink'.got = sink.got
  BY <1>1, StartTypes DEF Write, SinkType
<1>3. Saved(sh, e) \in SharedType /\ SameReads(sh, Saved(sh, e))
  BY SavedType, BookReads
<1>4. SameReads(shared, Saved(sh, e))
  BY <1>3 DEF SameReads
<1>. QED
  BY <1>1, <1>2, <1>3, <1>4, LostLedger

-----------------------------------------------------------------------------
(* A turn over the same room and document.                                 *)

LEMMA FrameLedger ==
  ASSUME Start, UNCHANGED <<srv, needs, asked>>, sink'.got = sink.got,
         NEW sh \in SharedType, NEW se \in SessType, NEW h \in HttpType, NEW rest,
         AfterFrame(sh, se, h, rest), OneRead(sh, se, c2s, rest),
         Calm(env) => Ledger(sh, se, h, c2s, rest, srv, sink.got, Doc, asked)
  PROVE  ReadInv' /\ LedgerTrue'
<1>1. srv \in SrvType /\ asked \in Seq(SUBSET Ids) /\ c2s \in Seq(ClientFrame)
      /\ (Calm(env) => Calm(env'))
  BY StartTypes
<1>2. ReadInv'
  BY <1>1, AfterFrameOneRead
<1>3. Calm(env) => Covered(srv, shared'.cursor, sink.got)
  BY <1>1, FromStart, ThenCovered
<1>4. Calm(env) => Ledger(shared', sess', http', c2s', s2c', srv, sink.got, Doc, asked)
  BY <1>1, <1>3, AfterFrameLedger
<1>. QED
  BY <1>2, <1>4, StillEnd

LEMMA QuietFrameLedger ==
  ASSUME Start, UNCHANGED <<srv, needs, asked>>, sink'.got = sink.got,
         s2c # <<>>, NEW sh \in SharedType, SameReads(shared, sh),
         NEW h \in HttpType, SameAnswer(http, h), AfterFrame(sh, sess, h, Tail(s2c))
  PROVE  ReadInv' /\ LedgerTrue'
<1>1. /\ srv \in SrvType /\ asked \in Seq(SUBSET Ids) /\ c2s \in Seq(ClientFrame)
      /\ shared \in SharedType /\ sess \in SessType /\ http \in HttpType
      /\ s2c \in Seq(FramesUpTo(Len(srv.log))) /\ Len(srv.log) \in Nat
  BY StartTypes
<1>2. Kept(c2s, c2s, "ROWS_REQ") /\ Kept(s2c, Tail(s2c), "ROWS") /\ SamePhase(sess, sess)
  BY <1>1, KeptSame, KeptTail DEF SamePhase
<1>3. OneRead(sh, sess, c2s, Tail(s2c))
  <2>1. OneRead(shared, sess, c2s, s2c)
    BY FromStart DEF ReadInv
  <2>2. Asking(shared, sess) => Asking(sh, sess)
    BY DEF Asking, SameReads
  <2>3. sess.phase = "down" => sess.ticket = 0 /\ sess.refresh = 0
    BY <2>1 DEF OneRead
  <2>. QED
    BY <1>2, <2>1, <2>2, <2>3, OneReadKept
<1>4. Calm(env) => Ledger(sh, sess, h, c2s, Tail(s2c), srv, sink.got, Doc, asked)
  <2>. SUFFICES ASSUME Calm(env)
                PROVE  Ledger(sh, sess, h, c2s, Tail(s2c), srv, sink.got, Doc, asked)
    OBVIOUS
  <2>1. Ledger(shared, sess, http, c2s, s2c, srv, sink.got, Doc, asked)
    BY NowLedger
  <2>. QED
    BY <1>1, <1>2, <2>1, QuietLedger
<1>. QED
  BY <1>1, <1>3, <1>4, FrameLedger

LEMMA SessQuotaLedger ==
  ASSUME Start, SessQuota
  PROVE  ReadInv' /\ LedgerTrue'
<1>. DEFINE sh == [shared EXCEPT !.quotaBlocked = TRUE, !.retryArmed = TRUE]
<1>1. UNCHANGED <<srv, needs, asked, sink>> /\ s2c # <<>> /\ AfterFrame(sh, sess, http, Tail(s2c))
  BY DEF SessQuota, Reading
<1>2. sh \in SharedType /\ SameReads(shared, sh)
  BY StartTypes DEF SharedType, SameReads
<1>3. http \in HttpType /\ SameAnswer(http, http)
  BY StartTypes DEF SameAnswer
<1>. HIDE DEF sh
<1>. QED
  BY <1>1, <1>2, <1>3, QuietFrameLedger

LEMMA SessRejectLedger ==
  ASSUME Start, SessReject
  PROVE  ReadInv' /\ LedgerTrue'
<1>. DEFINE b == Head(s2c).id
            sh == Retire(shared, {b})
<1>1. UNCHANGED <<srv, needs, asked>> /\ s2c # <<>> /\ http \in HttpType /\ SameAnswer(http, http)
      /\ sink \in SinkType /\ shared \in SharedType
  BY StartTypes DEF SessReject, Reading, SameAnswer
<1>2. \/ sink' = [sink EXCEPT !.rejected = @ \cup ({b} \cap sink.outbox)]
         /\ AfterFrame(sh, sess, http, Tail(s2c))
      \/ EndSession(shared, http) /\ UNCHANGED sink
  BY DEF SessReject
<1>3. sh \in SharedType /\ SameReads(shared, sh) /\ SameReads(shared, shared)
  BY <1>1, RetireType, BookReads DEF SameReads
<1>4. sink'.got = sink.got
  BY <1>1, <1>2 DEF SinkType
<1>. HIDE DEF sh, b
<1>5. CASE AfterFrame(sh, sess, http, Tail(s2c))
  BY <1>1, <1>3, <1>4, <1>5, QuietFrameLedger
<1>6. CASE EndSession(shared, http)
  BY <1>1, <1>3, <1>4, <1>6, LostLedger
<1>. QED
  BY <1>2, <1>5, <1>6

LEMMA AckedReads ==
  ASSUME NEW sh \in SharedType, NEW ack \in AckFrame, NEW retired \in BOOLEAN
  PROVE  SameReads(sh, Acked(sh, ack, retired))
<1>. DEFINE sh1 == Retire(sh, IF retired THEN {ack.id} ELSE {})
            gap == IsGap(sh.cursor, ack.seq)
            sh2 == [sh1 EXCEPT !.retryArmed = @ \/ ~retired, !.gap = @ \/ gap,
                               !.cursor = Walk(@, ack.seq)]
<1>1. sh1 \in SharedType /\ SameReads(sh, sh1)
  BY RetireType, BookReads
<1>. HIDE DEF sh1, gap
<1>2. SameReads(sh1, sh2) /\ DOMAIN sh2 = DOMAIN sh1
  BY <1>1 DEF SharedType, SameReads
<1>3. {"rowsReqOut", "refReq", "refDone", "gap"} \subseteq DOMAIN sh1
  BY <1>1 DEF SharedType
<1>. HIDE DEF sh2
<1>4. SameReads(sh2, Drain(sh2))
  BY <1>2, <1>3 DEF Drain, SameReads
<1>5. Acked(sh, ack, retired) = Drain(sh2)
  BY DEF Acked, sh2, sh1, gap
<1>. QED
  BY <1>1, <1>2, <1>4, <1>5 DEF SameReads

LEMMA GapAnswer ==
  ASSUME NEW h \in HttpType, NEW f \in BOOLEAN
  PROVE  /\ SameAnswer(h, [h EXCEPT !.gapSame = @ /\ f])
         /\ [h EXCEPT !.gapSame = @ /\ f] \in HttpType
BY DEF HttpType, SameAnswer

LEMMA SessAckLedger ==
  ASSUME Start, SessAck
  PROVE  ReadInv' /\ LedgerTrue'
<1>. DEFINE ack == Head(s2c)
            gap == IsGap(shared.cursor, ack.seq)
            h   == [http EXCEPT !.gapSame = @ /\ ~gap]
<1>1. PICK retired \in BOOLEAN :
        /\ sink' = [sink EXCEPT !.outbox = IF retired THEN @ \ {ack.id} ELSE @,
                                !.pcur = MaxOf(@, Acked(shared, ack, retired).cursor), !.dirty = TRUE]
        /\ AfterFrame(Acked(shared, ack, retired), sess, h, Tail(s2c))
  BY DEF SessAck
<1>2. UNCHANGED <<srv, needs, asked>> /\ s2c # <<>> /\ ack.k = "ACK"
  BY DEF SessAck, Reading
<1>3. sink \in SinkType /\ http \in HttpType /\ shared \in SharedType
      /\ s2c \in Seq(FramesUpTo(Len(srv.log))) /\ Len(srv.log) \in Nat
  BY StartTypes
<1>4. ack \in AckFrame
  <2>1. ack \in ServerFrame
    BY <1>2, <1>3, ReadFrames
  <2>. QED
    BY <1>2, <2>1 DEF ServerFrame, StateFrame, RowFrame, RowsFrame, AckFrame, ErrorFrame, MarkFrame
<1>5. (~gap) \in BOOLEAN
  BY DEF IsGap
<1>6. sink'.got = sink.got
  <2>. HIDE DEF ack
  <2>. QED  BY <1>1, <1>3 DEF SinkType
<1>. HIDE DEF ack, gap
<1>7. SameAnswer(http, h) /\ h \in HttpType
  BY <1>3, <1>5, GapAnswer
<1>8. Acked(shared, ack, retired) \in SharedType /\ SameReads(shared, Acked(shared, ack, retired))
  BY <1>3, <1>4, AckedType, AckedReads
<1>. HIDE DEF h
<1>. QED
  BY <1>1, <1>2, <1>6, <1>7, <1>8, QuietFrameLedger

-----------------------------------------------------------------------------
(* Turns that end with the loop top: what is pushed changes no read.       *)

LEMMA TurnLedger ==
  ASSUME Start, UNCHANGED <<srv, needs, asked>>, sink'.got = sink.got,
         sess.phase = "steady", NEW t \in TurnType, t.sh.cursor = shared.cursor,
         t.se.phase = "steady", OneRead(t.sh, t.se, c2s \o t.out, s2c),
         Calm(env) => Ledger(t.sh, t.se, http, c2s \o t.out, s2c, srv, sink.got, Doc, asked),
         Finish(SendRefresh(t), http, s2c)
  PROVE  ReadInv' /\ LedgerTrue'
<1>. DEFINE u == SendRefresh(t)
<1>1. srv \in SrvType /\ asked \in Seq(SUBSET Ids) /\ c2s \in Seq(ClientFrame) /\ http \in HttpType
  BY StartTypes
<1>2. u \in TurnType /\ OneRead(u.sh, u.se, c2s \o u.out, s2c)
  BY <1>1, SendRefreshType, SendRefreshOneRead
<1>3. Calm(env) => Ledger(u.sh, u.se, http, c2s \o u.out, s2c, srv, sink.got, Doc, asked)
  <2>. SUFFICES ASSUME Calm(env)
                PROVE  Ledger(u.sh, u.se, http, c2s \o u.out, s2c, srv, sink.got, Doc, asked)
    OBVIOUS
  <2>1. Covered(srv, t.sh.cursor, sink.got)
    BY FromStart, NowCovered
  <2>2. Ledger(t.sh, t.se, http, c2s \o t.out, s2c, srv, sink.got, Doc, asked)
    OBVIOUS
  <2>. QED
    BY <1>1, <2>1, <2>2, SendRefreshLedger
<1>. HIDE DEF u
<1>4. Finish(u, http, s2c)
  BY DEF u
<1>5. ReadInv'
  BY <1>2, <1>4, FinishOneRead
<1>6. Calm(env) => Ledger(shared', sess', http', c2s', s2c', srv, sink.got, Doc, asked)
  BY <1>1, <1>2, <1>3, <1>4, FinishLedger
<1>. QED
  BY <1>5, <1>6, StillEnd

LEMMA PushedTurnLedger ==
  ASSUME Start, UNCHANGED <<srv, needs, asked>>, sink'.got = sink.got,
         sess.phase = "steady", NEW t0 \in TurnType, SameReads(shared, t0.sh),
         t0.sh.cursor = shared.cursor, t0.se = sess, t0.out = <<>>,
         NEW t \in TurnType, PushOut(t0, t), Finish(SendRefresh(t), http, s2c)
  PROVE  ReadInv' /\ LedgerTrue'
<1>1. /\ srv \in SrvType /\ asked \in Seq(SUBSET Ids) /\ c2s \in Seq(ClientFrame)
      /\ shared \in SharedType /\ sess \in SessType /\ http \in HttpType
      /\ s2c \in Seq(FramesUpTo(Len(srv.log))) /\ Len(srv.log) \in Nat
  BY StartTypes
<1>2. c2s \o t0.out = c2s
  BY <1>1, NothingSent
<1>3. OneRead(t0.sh, t0.se, c2s \o t0.out, s2c)
  <2>1. OneRead(shared, sess, c2s, s2c)
    BY FromStart DEF ReadInv
  <2>2. Asking(shared, sess) => Asking(t0.sh, t0.se)
    BY DEF Asking, SameReads
  <2>. QED
    BY <1>2, <2>1, <2>2, KeptSame, OneReadKept
<1>4. ASSUME Calm(env)
      PROVE  Ledger(t0.sh, t0.se, http, c2s \o t0.out, s2c, srv, sink.got, Doc, asked)
  <2>1. Ledger(shared, sess, http, c2s, s2c, srv, sink.got, Doc, asked)
    BY <1>4, NowLedger
  <2>2. SamePhase(sess, t0.se) /\ SameAnswer(http, http)
        /\ Kept(c2s, c2s \o t0.out, "ROWS_REQ") /\ Kept(s2c, s2c, "ROWS")
    BY <1>2, KeptSame DEF SamePhase, SameAnswer
  <2>. QED
    BY <1>1, <2>1, <2>2, QuietLedger
<1>5. OneRead(t.sh, t.se, c2s \o t.out, s2c)
  BY <1>1, <1>3, PushOneRead
<1>6. ASSUME Calm(env)
      PROVE  Ledger(t.sh, t.se, http, c2s \o t.out, s2c, srv, sink.got, Doc, asked)
  BY <1>1, <1>4, <1>6, PushLedger
<1>7. t.sh.cursor = shared.cursor /\ t.se.phase = "steady"
  BY DEF PushOut
<1>. QED
  BY <1>5, <1>6, <1>7, TurnLedger

LEMMA SessNudgeLedger ==
  ASSUME Start, SessNudge
  PROVE  ReadInv' /\ LedgerTrue'
<1>. DEFINE ids == ToPush(shared, sess.inFlight)
            t0 == Turn(shared, sess)
            t  == PushPending(t0)
<1>1. UNCHANGED <<srv, needs, asked>> /\ sess.phase = "steady" /\ shared \in SharedType
      /\ sess \in SessType /\ SameReads(shared, shared) /\ sink \in SinkType
  BY StartTypes DEF SessNudge, Steady, SameReads
<1>2. t0 \in TurnType /\ t0.sh = shared /\ t0.se = sess /\ t0.out = <<>>
  BY <1>1, TurnIsTurn DEF Turn
<1>3. \/ Write(shared, ids) /\ Finish(SendRefresh(t), http, s2c)
      \/ FailedPush(shared, ids)
  BY DEF SessNudge
<1>. HIDE DEF t0, ids
<1>4. t \in TurnType /\ PushOut(t0, t)
  BY <1>2, PushPendingType, PushPendingOut
<1>. HIDE DEF t
<1>5. CASE Write(shared, ids) /\ Finish(SendRefresh(t), http, s2c)
  <2>1. sink'.got = sink.got
    BY <1>1, <1>5 DEF Write, SinkType
  <2>2. SameReads(shared, t0.sh) /\ t0.sh.cursor = shared.cursor
    BY <1>1, <1>2
  <2>. QED
    BY <1>1, <1>2, <1>4, <1>5, <2>1, <2>2, PushedTurnLedger
<1>6. CASE FailedPush(shared, ids)
  BY <1>1, <1>6, FailedPushLedger
<1>. QED
  BY <1>3, <1>5, <1>6

LEMMA SessProbeLedger ==
  ASSUME Start, SessProbe
  PROVE  ReadInv' /\ LedgerTrue'
<1>. DEFINE t0 == Turn(shared, sess)
<1>1. UNCHANGED <<srv, needs, asked, sink>> /\ sess.phase = "steady" /\ shared \in SharedType
      /\ sess \in SessType /\ SameReads(shared, shared)
  BY StartTypes DEF SessProbe, Steady, SameReads
<1>2. t0 \in TurnType /\ t0.sh = shared /\ t0.se = sess /\ t0.out = <<>> /\ t0.ok
  BY <1>1, TurnIsTurn DEF Turn
<1>3. Finish(SendRefresh(t0), http, s2c)
  BY DEF SessProbe
<1>. HIDE DEF t0
<1>4. PushOut(t0, t0)
  BY DEF PushOut
<1>5. SameReads(shared, t0.sh) /\ t0.sh.cursor = shared.cursor
  BY <1>1, <1>2
<1>. QED
  BY <1>1, <1>2, <1>3, <1>4, <1>5, PushedTurnLedger

LEMMA SessRetryLedger ==
  ASSUME Start, SessRetry
  PROVE  ReadInv' /\ LedgerTrue'
<1>. DEFINE ids == HeadOf(shared.pending)
            sh  == [shared EXCEPT !.retryArmed = FALSE]
            sv  == Saved(sh, ids)
            t0  == Turn(sv, sess)
            f   == [k |-> "PUSH", ids |-> ids]
            out == IF ids = {} THEN <<>> ELSE <<f>>
            t   == [t0 EXCEPT !.out = out]
<1>1. UNCHANGED <<srv, needs, asked>> /\ sess.phase = "steady" /\ shared \in SharedType
      /\ sess \in SessType /\ sink \in SinkType
  BY StartTypes DEF SessRetry, Steady
<1>2. sh \in SharedType /\ sh.cursor = shared.cursor /\ SameReads(shared, sh) /\ ids \in SUBSET Own
  BY <1>1, HeadOfType DEF SharedType, SameReads
<1>3. \/ Write(sh, ids) /\ Finish(SendRefresh(t), http, s2c)
      \/ FailedPush(sh, ids)
  BY DEF SessRetry, Turn
<1>4. ids # {} => f \in ClientFrame /\ f.k = "PUSH"
  <2>. HIDE DEF ids
  <2>. QED  BY <1>2 DEF ClientFrame, PushFrame
<1>. HIDE DEF ids, sh, f
<1>5. sv \in SharedType /\ sv.cursor = shared.cursor /\ SameReads(shared, sv)
  <2>1. sv \in SharedType /\ SameReads(sh, sv)
    BY <1>2, SavedType, BookReads
  <2>2. sv.cursor = shared.cursor
    BY <1>2 DEF Saved, SharedType
  <2>. HIDE DEF sv
  <2>. QED
    BY <1>2, <2>1, <2>2 DEF SameReads
<1>. HIDE DEF sv
<1>6. t0 \in TurnType /\ t0.sh = sv /\ t0.se = sess /\ t0.out = <<>>
  BY <1>1, <1>5, TurnIsTurn DEF Turn
<1>. HIDE DEF t0
<1>7. out \in Seq(ClientFrame) /\ (out = <<>> \/ (f \in ClientFrame /\ f.k = "PUSH" /\ out = Append(<<>>, f)))
  BY <1>4
<1>. HIDE DEF out
<1>8. t \in TurnType /\ t.sh = t0.sh /\ t.se = t0.se /\ t.ok = t0.ok /\ t.out = out
  BY <1>6, <1>7 DEF TurnType
<1>. HIDE DEF t
<1>9. PushOut(t0, t)
  BY <1>6, <1>7, <1>8 DEF PushOut
<1>10. CASE Write(sh, ids) /\ Finish(SendRefresh(t), http, s2c)
  <2>1. sink'.got = sink.got
    BY <1>1, <1>10 DEF Write, SinkType
  <2>2. SameReads(shared, t0.sh) /\ t0.sh.cursor = shared.cursor
    BY <1>5, <1>6
  <2>. QED
    BY <1>1, <1>6, <1>8, <1>9, <1>10, <2>1, <2>2, PushedTurnLedger
<1>11. CASE FailedPush(sh, ids)
  BY <1>1, <1>2, <1>11, FailedPushLedger
<1>. QED
  BY <1>3, <1>10, <1>11

-----------------------------------------------------------------------------
(* An answer is read to its end.                                           *)

(* What an answer leaves out is this device's own.                         *)
LEMMA NextSeqSkips ==
  ASSUME NEW f \in RowsFrame
  PROVE  /\ NextSeq(f) \in (f.next .. f.head) \cup {MaxOf(f.next, f.head + 1)}
         /\ \A s \in f.next .. f.head : s < NextSeq(f) => srv.log[s] \in Own
<1>. DEFINE T == {s \in f.next .. f.head : ~(f.ex /\ srv.log[s] \in Own)}
            S == T \cup {MaxOf(f.next, f.head + 1)}
<1>1. f.next \in Nat \ {0} /\ f.head \in Nat
  BY DEF RowsFrame
<1>2. S \in SUBSET Nat /\ S # {} /\ T \subseteq f.next .. f.head
  BY <1>1 DEF MaxOf
<1>3. Least(S) \in S /\ \A y \in S : Least(S) <= y
  <2>. HIDE DEF S
  <2>. QED  BY <1>2, LeastIsMember
<1>4. NextSeq(f) = Least(S)
  BY DEF NextSeq
<1>5. \A s \in f.next .. f.head : s \notin S => srv.log[s] \in Own
  OBVIOUS
<1>6. Least(S) \in (f.next .. f.head) \cup {MaxOf(f.next, f.head + 1)}
  <2>1. S \subseteq (f.next .. f.head) \cup {MaxOf(f.next, f.head + 1)}
    BY <1>2
  <2>. HIDE DEF S
  <2>. QED  BY <1>3, <2>1
<1>. HIDE DEF S
<1>7. \A s \in f.next .. f.head : s < Least(S) => s \notin S
  <2>. DEFINE l == Least(S)
  <2>1. l \in Nat /\ \A y \in S : l <= y
    BY <1>2, <1>3
  <2>2. \A s \in f.next .. f.head : s \in Nat
    BY <1>1
  <2>. HIDE DEF l
  <2>3. \A s \in f.next .. f.head : s < l => s \notin S
    BY <2>1, <2>2
  <2>. QED
    BY <2>3 DEF l
<1>. QED
  BY <1>4, <1>5, <1>6, <1>7

LEMMA ReadSoFar ==
  ASSUME WorldInv, OutboxInv, CursorInv, Calm(env), NEW f \in RowsFrame, f.head <= Len(srv.log),
         NEW p, Doc \subseteq p, Covered(srv, f.next - 1, p)
  PROVE  Covered(srv, NextSeq(f) - 1, p)
<1>. DEFINE n == NextSeq(f)
<1>1. f.next \in Nat \ {0} /\ f.head \in Nat /\ srv \in SrvType /\ srv.log \in Seq(Ids)
      /\ srv.ckpt \in Nat /\ Len(srv.log) \in Nat
  BY LogLength DEF RowsFrame, WorldInv, SrvType
<1>2. /\ n \in (f.next .. f.head) \cup {MaxOf(f.next, f.head + 1)}
      /\ \A s \in f.next .. f.head : s < n => srv.log[s] \in Own
  BY NextSeqSkips
<1>. HIDE DEF n
<1>3. n \in Nat /\ n >= f.next /\ (n = f.next \/ n <= f.head + 1)
  BY <1>1, <1>2 DEF MaxOf
<1>4. n - 1 <= Len(srv.log)
  BY <1>1, <1>3 DEF Covered
<1>5. ASSUME NEW s \in DOMAIN srv.log, srv.ckpt < s, s <= n - 1
      PROVE  srv.log[s] \in p
  <2>1. s \in Nat
    BY <1>1
  <2>2. CASE s <= f.next - 1
    BY <1>5, <2>2 DEF Covered, Held
  <2>3. CASE ~(s <= f.next - 1)
    <3>1. s \in f.next .. f.head /\ s < n
      BY <1>1, <1>3, <1>5, <2>1, <2>3
    <3>2. srv.log[s] \in Own /\ srv.log[s] \in srv.used
      BY <1>2, <3>1 DEF OutboxInv
    <3>. QED
      BY <3>2, OwnIsSeen
  <2>. QED
    BY <2>2, <2>3
<1>. QED
  BY <1>4, <1>5 DEF Covered, Held, n

LEMMA AnswerRead ==
  ASSUME Start, s2c # <<>>, Head(s2c).k = "ROWS"
  PROVE  Lacks(c2s, "ROWS_REQ") /\ Lacks(Tail(s2c), "ROWS")
<1>1. s2c \in Seq(FramesUpTo(Len(srv.log)))
  BY StartTypes
<1>2. 1 \in DOMAIN s2c /\ Head(s2c) = s2c[1]
  BY <1>1, TailElements
<1>3. ~Lacks(s2c, "ROWS")
  BY <1>2 DEF Lacks
<1>4. Few(s2c, "ROWS") /\ Lacks(c2s, "ROWS_REQ")
  BY <1>3, FromStart DEF ReadInv, OneRead
<1>. QED
  BY <1>1, <1>4, KeptTail

LEMMA AnswerHeld ==
  ASSUME Start, Calm(env), s2c # <<>>, Head(s2c).k = "ROWS"
  PROVE  /\ Head(s2c) \in RowsFrame /\ Head(s2c).head <= Len(srv.log)
         /\ FrameTrue(Head(s2c), shared, sess, srv, sink.got, Held1(sink.got, sess),
                      Hands(sink.got, sess, http), asked)
         /\ Covered(srv, NextSeq(Head(s2c)) - 1, Held1(sink.got, sess))
<1>. DEFINE f == Head(s2c)
<1>1. s2c \in Seq(FramesUpTo(Len(srv.log))) /\ Len(srv.log) \in Nat
  BY StartTypes
<1>2. 1 \in DOMAIN s2c /\ f = s2c[1] /\ f \in RowsFrame /\ f.head <= Len(srv.log)
  BY <1>1, TailElements, ReadFrames
<1>3. FramesHold(shared, sess, s2c, srv, sink.got, Held1(sink.got, sess),
                 Hands(sink.got, sess, http), asked)
  BY NowLedger, LedgerParts
<1>4. FrameTrue(f, shared, sess, srv, sink.got, Held1(sink.got, sess),
                Hands(sink.got, sess, http), asked)
  BY <1>2, <1>3 DEF FramesHold
<1>5. Covered(srv, f.next - 1, Held1(sink.got, sess)) /\ Doc \subseteq Held1(sink.got, sess)
  BY <1>4, DocInGot DEF FrameTrue, Held1
<1>. HIDE DEF f
<1>6. Covered(srv, NextSeq(f) - 1, Held1(sink.got, sess))
  BY <1>2, <1>5, FromStart, ReadSoFar
<1>. QED
  BY <1>2, <1>4, <1>6 DEF f

LEMMA AnswerEnds ==
  ASSUME Start, Calm(env), Reading, IsDone(Head(s2c))
  PROVE  /\ Head(s2c).head \in Nat
         /\ Reach(asked, sess.ticket, UpTo(srv, Head(s2c).head))
         /\ Reach(asked, sess.refresh, UpTo(srv, Head(s2c).head))
         /\ shared.gap \/ Within(srv, sink.got, Hands(sink.got, sess, http), 0)
<1>. DEFINE f == Head(s2c)
            x == Hands(sink.got, sess, http)
            c == NextSeq(f) - 1
<1>1. s2c # <<>> /\ f.k = "ROWS" /\ NextSeq(f) > f.head /\ sess.row = NoRow /\ srv \in SrvType
  BY StartTypes DEF Reading, IsDone
<1>2. f \in RowsFrame /\ Covered(srv, c, Held1(sink.got, sess))
      /\ FrameTrue(f, shared, sess, srv, sink.got, Held1(sink.got, sess), x, asked)
  BY <1>1, AnswerHeld
<1>3. f.head \in Nat /\ NextSeq(f) \in Nat
  BY <1>2, NextSeqType DEF RowsFrame
<1>4. c \in Int /\ f.head <= c
  BY <1>1, <1>3
<1>5. Covered(srv, c, sink.got \cup {Base})
  BY <1>1, <1>2, BaseIsNoRow DEF Held1
<1>. HIDE DEF x, c
<1>6. Within(srv, sink.got, x, f.head) => Within(srv, sink.got, x, 0)
  <2>. HIDE DEF f
  <2>. QED  BY <1>1, <1>3, <1>4, <1>5, ReadThrough
<1>. QED
  BY <1>2, <1>3, <1>6 DEF FrameTrue, x

LEMMA SessDeferLedger ==
  ASSUME Start, SessDefer
  PROVE  ReadInv' /\ LedgerTrue'
<1>1. /\ UNCHANGED <<srv, needs, asked, sink, c2s, shared, http>> /\ s2c' = Tail(s2c)
      /\ s2c # <<>> /\ Head(s2c).k = "ROWS" /\ Reading /\ IsDone(Head(s2c))
      /\ sess' = [sess EXCEPT !.phase = "drain", !.head = Head(s2c).head]
  BY DEF SessDefer, Reading, IsDone
<1>2. sess'.phase = "drain" /\ sess'.head = Head(s2c).head /\ sess'.ticket = sess.ticket
      /\ sess'.refresh = sess.refresh /\ sess'.row = sess.row
  BY <1>1, StartTypes DEF SessType
<1>3. Lacks(c2s, "ROWS_REQ") /\ Lacks(s2c', "ROWS")
  BY <1>1, AnswerRead
<1>4. ReadInv'
  BY <1>1, <1>2, <1>3, LacksFew DEF ReadInv, OneRead
<1>5. ASSUME Calm(env)
      PROVE  Ledger(shared', sess', http', c2s', s2c', srv, sink.got, Doc, asked)
  <2>1. Ledger(shared, sess, http, c2s, s2c, srv, sink.got, Doc, asked)
    BY <1>5, NowLedger
  <2>2. /\ Reach(asked, sess.ticket, UpTo(srv, Head(s2c).head))
        /\ shared.gap \/ Within(srv, sink.got, Hands(sink.got, sess, http), 0)
    BY <1>1, <1>5, AnswerEnds
  <2>3. Held1(sink.got, sess') = Held1(sink.got, sess)
        /\ Hands(sink.got, sess', http) = Hands(sink.got, sess, http)
    BY <1>2 DEF Held1, Hands
  <2>4. PhaseTrue(shared, sess', srv, sink.got, Hands(sink.got, sess', http), asked)
    BY <1>2, <2>2, <2>3 DEF PhaseTrue
  <2>5. FramesHold(shared, sess', s2c', srv, sink.got, Held1(sink.got, sess'),
                   Hands(sink.got, sess', http), asked)
    BY <1>3, NoFrames
  <2>6. Ledger(shared, sess', http, c2s, s2c', srv, sink.got, Doc, asked)
    BY <1>2, <2>1, <2>3, <2>4, <2>5, LedgerParts
  <2>. QED
    BY <1>1, <2>6
<1>. QED
  BY <1>1, <1>4, <1>5, StillEnd

-----------------------------------------------------------------------------
(* A read that is through completes the wake it was sent for.              *)

LEMMA RaisedDone ==
  ASSUME Start, Calm(env), NEW n \in Nat, n <= Len(asked), NEW m \in Nat,
         Reach(asked, n, UpTo(srv, m)),
         NEW sh, sh.refReq = shared.refReq,
         \/ sh.refDone = shared.refDone
         \/ shared.cursor >= m /\ sh.refDone = MaxOf(shared.refDone, n)
  PROVE  DoneTrue(sh, srv, Doc, asked)
<1>1. srv \in SrvType /\ asked \in Seq(SUBSET Ids) /\ shared \in SharedType
  BY StartTypes
<1>2. DoneTrue(shared, srv, Doc, asked)
  BY NowLedger, LedgerParts
<1>3. CASE sh.refDone = shared.refDone
  BY <1>2, <1>3 DEF DoneTrue
<1>4. CASE shared.cursor >= m /\ sh.refDone = MaxOf(shared.refDone, n)
  <2>1. shared.cursor \in Nat /\ m <= shared.cursor
    BY <1>1, <1>4 DEF SharedType
  <2>2. Held(srv, shared.cursor) \subseteq Doc
    BY FromStart, NowCovered
  <2>3. Reach(asked, n, Doc \cup Trimmed(srv))
    BY <1>1, <2>1, <2>2, ReadReached
  <2>4. sh.refDone \in {shared.refDone, MaxOf(shared.refDone, n)}
    BY <1>4
  <2>. QED
    BY <1>1, <1>2, <2>3, <2>4, DoneBy
<1>. QED
  BY <1>3, <1>4

LEMMA LandedLedger ==
  ASSUME Start, UNCHANGED <<srv, needs, asked>>, sink'.got = sink.got, s2c # <<>>,
         Lacks(c2s, "ROWS_REQ"), Lacks(Tail(s2c), "ROWS"),
         NEW sh \in SharedType, NEW se \in SessType, se.phase = "steady", se.row = sess.row,
         se.ticket \in {0, sess.ticket}, se.refresh \in {0, sess.refresh},
         NEW h \in HttpType, SameAnswer(http, h), AfterFrame(sh, se, h, Tail(s2c)),
         Calm(env) => /\ DoneTrue(sh, srv, Doc, asked)
                      /\ sh.gap \/ Within(srv, sink.got, Hands(sink.got, sess, http), 0)
  PROVE  ReadInv' /\ LedgerTrue'
<1>. DEFINE x == Hands(sink.got, sess, http)
            x2 == Hands(sink.got, se, h)
<1>1. srv \in SrvType /\ asked \in Seq(SUBSET Ids) /\ Len(asked) \in Nat
  BY StartTypes
<1>2. OneRead(sh, se, c2s, Tail(s2c))
  BY LacksFew DEF OneRead
<1>3. x2 \cap Remote \subseteq x
  <2>1. h.row \in {NoRow, http.row}
    BY DEF SameAnswer
  <2>. QED
    BY <2>1, BaseIsNoRow DEF Hands
<1>4. ASSUME Calm(env)
      PROVE  Ledger(sh, se, h, c2s, Tail(s2c), srv, sink.got, Doc, asked)
  <2>1. Ledger(shared, sess, http, c2s, s2c, srv, sink.got, Doc, asked)
    BY <1>4, NowLedger
  <2>2. DoneTrue(sh, srv, Doc, asked) /\ (sh.gap \/ Within(srv, sink.got, x, 0))
    BY <1>4
  <2>. HIDE DEF x, x2
  <2>3. sh.gap \/ Within(srv, sink.got, x2, 0)
    BY <1>3, <2>2, LessHands, WithinFewer
  <2>4. PhaseTrue(sh, se, srv, sink.got, x2, asked)
    BY <2>3 DEF PhaseTrue
  <2>5. FramesHold(sh, se, Tail(s2c), srv, sink.got, Held1(sink.got, se), x2, asked)
    BY NoFrames
  <2>6. HttpReads(h, srv, sink.got, Held1(sink.got, h), x2, asked)
    <3>1. HttpReads(http, srv, sink.got, Held1(sink.got, http), x, asked)
      BY <2>1, LedgerParts DEF x
    <3>2. CASE h.row = http.row
      <4>1. Held1(sink.got, h) = Held1(sink.got, http)
        BY <3>2 DEF Held1
      <4>. QED
        BY <1>1, <1>3, <3>1, <4>1, HttpFlow
    <3>3. CASE h.row # http.row
      <4>1. h.phase \notin Answered /\ h.ticket \in {0, http.ticket}
        BY <3>3 DEF SameAnswer
      <4>. QED
        BY <1>1, <3>1, <4>1 DEF HttpReads
    <3>. QED
      BY <3>2, <3>3
  <2>7. se.ticket <= Len(asked) /\ se.refresh <= Len(asked)
    BY <1>1, <2>1, LedgerParts
  <2>8. AskTrue(c2s, srv, sink.got)
    BY <2>1, LedgerParts
  <2>. QED
    BY <2>2, <2>4, <2>5, <2>6, <2>7, <2>8, LedgerParts DEF x2
<1>. QED
  BY <1>2, <1>4, FrameLedger

LEMMA SessJoinLedger ==
  ASSUME Start, SessJoin
  PROVE  ReadInv' /\ LedgerTrue'
<1>. DEFINE head == IF sess.phase = "drain" THEN sess.head ELSE Head(s2c).head
            sh == CaughtUp(shared, sess.ticket, head)
            se == [sess EXCEPT !.phase = "steady", !.resumed = TRUE, !.ticket = 0, !.head = 0]
            x  == Hands(sink.got, sess, http)
<1>1. /\ UNCHANGED <<srv, needs, asked, sink>> /\ s2c # <<>> /\ Reading
      /\ \/ sess.phase = "backfill" /\ IsDone(Head(s2c))
         \/ sess.phase = "drain" /\ Head(s2c).k = "END"
      /\ AfterFrame(sh, se, http, Tail(s2c))
  BY DEF SessJoin, Reading
<1>2. shared \in SharedType /\ sess \in SessType /\ http \in HttpType /\ SameAnswer(http, http)
      /\ s2c \in Seq(FramesUpTo(Len(srv.log))) /\ Len(srv.log) \in Nat /\ asked \in Seq(SUBSET Ids)
  BY StartTypes DEF SameAnswer
<1>3. sess.ticket \in 0 .. MaxRefresh /\ sess.ticket \in Nat /\ sess.head \in Nat
  BY <1>2, BoundsAreNat DEF SessType
<1>4. sh \in SharedType
  <2>. HIDE DEF head
  <2>. QED  BY <1>2, <1>3, CaughtUpType
<1>5. /\ sh.refReq = shared.refReq /\ sh.gap = shared.gap
      /\ \/ sh.refDone = shared.refDone
         \/ shared.cursor >= head /\ sh.refDone = MaxOf(shared.refDone, sess.ticket)
  <2>. HIDE DEF head
  <2>. QED  BY <1>2 DEF CaughtUp, SharedType
<1>6. se \in SessType /\ se.phase = "steady" /\ se.row = sess.row /\ se.ticket = 0
      /\ se.refresh = sess.refresh
  <2>1. 0 \in 0 .. MaxRefresh
    BY BoundsAreNat
  <2>. QED
    BY <1>2, <2>1 DEF SessType
<1>. HIDE DEF sh, se, x, head
<1>7. Lacks(c2s, "ROWS_REQ") /\ Lacks(Tail(s2c), "ROWS")
  <2>1. CASE Head(s2c).k = "ROWS"
    BY <1>1, <2>1, AnswerRead
  <2>2. CASE sess.phase = "drain"
    <3>1. ~Asking(shared, sess)
      BY <2>2 DEF Asking
    <3>2. Lacks(c2s, "ROWS_REQ") /\ Lacks(s2c, "ROWS")
      BY <3>1, FromStart DEF ReadInv, OneRead
    <3>3. Kept(s2c, Tail(s2c), "ROWS")
      BY <1>1, <1>2, KeptTail
    <3>. QED
      BY <3>2, <3>3, KeptLacks
  <2>. QED
    BY <1>1, <2>1, <2>2 DEF IsDone
<1>8. ASSUME Calm(env)
      PROVE  /\ head \in Nat /\ Reach(asked, sess.ticket, UpTo(srv, head))
             /\ shared.gap \/ Within(srv, sink.got, x, 0)
  <2>1. CASE sess.phase = "drain"
    <3>1. PhaseTrue(shared, sess, srv, sink.got, x, asked)
      BY <1>8, NowLedger, LedgerParts DEF x
    <3>2. head = sess.head
      BY <2>1 DEF head
    <3>. QED
      BY <1>3, <2>1, <3>1, <3>2 DEF PhaseTrue
  <2>2. CASE sess.phase # "drain"
    <3>1. head = Head(s2c).head
      BY <2>2 DEF head
    <3>. QED
      BY <1>1, <1>8, <2>2, <3>1, AnswerEnds DEF x
  <2>. QED
    BY <2>1, <2>2
<1>9. ASSUME Calm(env)
      PROVE  /\ DoneTrue(sh, srv, Doc, asked)
             /\ sh.gap \/ Within(srv, sink.got, x, 0)
  <2>1. sess.ticket <= Len(asked)
    BY <1>9, NowLedger, LedgerParts
  <2>2. DoneTrue(sh, srv, Doc, asked)
    BY <1>3, <1>5, <1>8, <1>9, <2>1, RaisedDone
  <2>. QED
    BY <1>5, <1>8, <1>9, <2>2
<1>. QED
  BY <1>1, <1>2, <1>4, <1>6, <1>7, <1>9, LandedLedger DEF x

LEMMA SessDoneLedger ==
  ASSUME Start, SessDone
  PROVE  ReadInv' /\ LedgerTrue'
<1>. DEFINE head   == Head(s2c).head
            missed == sess.refresh # 0 /\ shared.cursor < head
            sh0 == [shared EXCEPT !.rowsReqOut = FALSE]
            sh  == RefreshRead(sh0, sess.refresh, head)
            se  == [sess EXCEPT !.refresh = 0]
            h   == [http EXCEPT !.gapSame = @ /\ ~missed]
            x   == Hands(sink.got, sess, http)
<1>1. /\ UNCHANGED <<srv, needs, asked, sink>> /\ s2c # <<>> /\ Reading /\ IsDone(Head(s2c))
      /\ AfterFrame(sh, se, h, Tail(s2c)) /\ sess.phase = "steady"
  BY DEF SessDone, Reading
<1>2. shared \in SharedType /\ sess \in SessType /\ http \in HttpType
      /\ s2c \in Seq(FramesUpTo(Len(srv.log))) /\ Len(srv.log) \in Nat /\ asked \in Seq(SUBSET Ids)
  BY StartTypes
<1>3. head \in Nat
  <2>1. Head(s2c).k = "ROWS" => Head(s2c) \in RowsFrame
    BY <1>1, <1>2, ReadFrames
  <2>. QED
    BY <1>1, <2>1 DEF IsDone, RowsFrame
<1>4. sess.refresh \in 0 .. MaxRefresh /\ sess.refresh \in Nat
  BY <1>2, BoundsAreNat DEF SessType
<1>5. sh0 \in SharedType /\ sh0.cursor = shared.cursor /\ sh0.refReq = shared.refReq
      /\ sh0.refDone = shared.refDone /\ sh0.gap = shared.gap
  BY <1>2 DEF SharedType
<1>6. /\ sh \in SharedType /\ sh.refReq = shared.refReq /\ (shared.gap => sh.gap)
      /\ \/ sh.refDone = shared.refDone
         \/ shared.cursor >= head /\ sh.refDone = MaxOf(shared.refDone, sess.refresh)
  <2>. HIDE DEF sh0, head
  <2>1. sh \in SharedType
    BY <1>3, <1>4, <1>5, RefreshReadType
  <2>2. /\ sh.refReq = sh0.refReq /\ (sh0.gap => sh.gap)
        /\ \/ sh.refDone = sh0.refDone
           \/ sh0.cursor >= head /\ sh.refDone = MaxOf(sh0.refDone, sess.refresh)
    BY <1>5 DEF RefreshRead, SharedType
  <2>. QED
    BY <1>5, <2>1, <2>2
<1>7. se \in SessType /\ se.phase = "steady" /\ se.row = sess.row /\ se.ticket = sess.ticket
      /\ se.refresh = 0
  <2>1. 0 \in 0 .. MaxRefresh
    BY BoundsAreNat
  <2>. QED
    BY <1>1, <1>2, <2>1 DEF SessType
<1>8. SameAnswer(http, h) /\ h \in HttpType
  <2>1. (~missed) \in BOOLEAN
    OBVIOUS
  <2>. HIDE DEF missed
  <2>. QED
    BY <1>2, <2>1, GapAnswer
<1>9. Lacks(c2s, "ROWS_REQ") /\ Lacks(Tail(s2c), "ROWS")
  BY <1>1, AnswerRead DEF IsDone
<1>10. Calm(env) => /\ Reach(asked, sess.refresh, UpTo(srv, head))
                    /\ shared.gap \/ Within(srv, sink.got, x, 0)
  BY <1>1, AnswerEnds
<1>. HIDE DEF sh, se, x, head, h
<1>11. ASSUME Calm(env)
       PROVE  /\ DoneTrue(sh, srv, Doc, asked)
              /\ sh.gap \/ Within(srv, sink.got, x, 0)
  <2>1. sess.refresh <= Len(asked)
    BY <1>11, NowLedger, LedgerParts
  <2>2. DoneTrue(sh, srv, Doc, asked)
    BY <1>3, <1>4, <1>6, <1>10, <1>11, <2>1, RaisedDone
  <2>. QED
    BY <1>6, <1>10, <1>11, <2>2
<1>. QED
  BY <1>1, <1>6, <1>7, <1>8, <1>9, <1>11, LandedLedger DEF x

-----------------------------------------------------------------------------
(* The first read of a session, and the checkpoint that may precede it.    *)

LEMMA PlannedTurn ==
  ASSUME Start, sess.phase = "plan",
         NEW t \in TurnType, t.sh.refReq = shared.refReq, t.sh.refDone = shared.refDone,
         t.se.phase \in {"fetch", "backfill"}, t.se.row = sess.row,
         t.se.ticket = shared.refReq, t.se.refresh = sess.refresh,
         NEW f \in ClientFrame, t.out = <<f>>, f.after = sess.plan.after
  PROVE  /\ OneRead(t.sh, t.se, c2s \o t.out, s2c)
         /\ Calm(env) => Ledger(t.sh, t.se, http, c2s \o t.out, s2c, srv, sink.got, Doc, asked)
<1>1. /\ srv \in SrvType /\ asked \in Seq(SUBSET Ids) /\ c2s \in Seq(ClientFrame)
      /\ Len(asked) \in Nat /\ Len(srv.log) \in Nat /\ s2c \in Seq(FramesUpTo(Len(srv.log)))
  BY StartTypes
<1>2. c2s \o t.out = Append(c2s, f)
  BY <1>1
<1>3. OneRead(shared, sess, c2s, s2c) /\ ~Asking(shared, sess) /\ Asking(t.sh, t.se)
  BY FromStart DEF ReadInv, Asking
<1>4. OneRead(t.sh, t.se, Append(c2s, f), s2c)
  BY <1>1, <1>3, OneReadSend
<1>5. ASSUME Calm(env)
      PROVE  Ledger(t.sh, t.se, http, Append(c2s, f), s2c, srv, sink.got, Doc, asked)
  <2>1. Ledger(shared, sess, http, c2s, s2c, srv, sink.got, Doc, asked)
    BY <1>5, NowLedger
  <2>2. DoneTrue(shared, srv, Doc, asked) /\ AskTrue(c2s, srv, sink.got)
        /\ sess.refresh <= Len(asked)
        /\ HttpReads(http, srv, sink.got, Held1(sink.got, http), Hands(sink.got, sess, http), asked)
    BY <2>1, LedgerParts
  <2>3. DoneTrue(t.sh, srv, Doc, asked) /\ t.se.ticket <= Len(asked)
    BY <1>1, <2>2 DEF DoneTrue
  <2>4. Sound(sess.plan.after, srv, Doc, env)
    BY FromStart DEF CursorInv, TalkTrue, SessTrue
  <2>5. Covered(srv, f.after, sink.got)
    BY <1>5, <2>4, DocInGot, SoundCovered
  <2>6. AskTrue(Append(c2s, f), srv, sink.got)
    BY <1>1, <2>2, <2>5, AskSend
  <2>7. Lacks(s2c, "ROWS")
    BY <1>3 DEF OneRead
  <2>8. FramesHold(t.sh, t.se, s2c, srv, sink.got, Held1(sink.got, t.se),
                   Hands(sink.got, t.se, http), asked)
    BY <2>7, NoFrames
  <2>9. PhaseTrue(t.sh, t.se, srv, sink.got, Hands(sink.got, t.se, http), asked)
    BY DEF PhaseTrue
  <2>10. Hands(sink.got, t.se, http) = Hands(sink.got, sess, http)
    BY DEF Hands
  <2>11. HttpReads(http, srv, sink.got, Held1(sink.got, http), Hands(sink.got, t.se, http), asked)
    BY <2>2, <2>10
  <2>. QED
    BY <2>2, <2>3, <2>6, <2>8, <2>9, <2>11, LedgerParts
<1>. QED
  BY <1>2, <1>4, <1>5

LEMMA SettledTurn ==
  ASSUME Start, NEW t \in TurnType, NEW same \in BOOLEAN,
         OneRead(t.sh, t.se, c2s \o t.out, s2c),
         Calm(env) => Ledger(t.sh, t.se, http, c2s \o t.out, s2c, srv, sink.got, Doc, asked),
         NEW u \in TurnType, u.sh = SettleCausal(t.sh, same), u.se = t.se, u.out = t.out
  PROVE  /\ OneRead(u.sh, u.se, c2s \o u.out, s2c)
         /\ Calm(env) => Ledger(u.sh, u.se, http, c2s \o u.out, s2c, srv, sink.got, Doc, asked)
<1>1. /\ srv \in SrvType /\ asked \in Seq(SUBSET Ids) /\ c2s \in Seq(ClientFrame) /\ http \in HttpType
      /\ Len(srv.log) \in Nat /\ s2c \in Seq(FramesUpTo(Len(srv.log)))
  BY StartTypes
<1>2. /\ t.sh \in SharedType /\ t.se \in SessType /\ c2s \o t.out \in Seq(ClientFrame)
  BY <1>1 DEF TurnType
<1>3. SameReads(t.sh, u.sh) /\ SamePhase(t.se, t.se) /\ SameAnswer(http, http)
  BY <1>2, BookReads DEF SamePhase, SameAnswer
<1>. DEFINE cs == c2s \o t.out
<1>4. Kept(cs, cs, "ROWS_REQ") /\ Kept(s2c, s2c, "ROWS")
  BY KeptSame
<1>5. cs \in Seq(ClientFrame) /\ OneRead(t.sh, t.se, cs, s2c)
      /\ (Calm(env) => Ledger(t.sh, t.se, http, cs, s2c, srv, sink.got, Doc, asked))
  BY <1>2
<1>. HIDE DEF cs
<1>6. Asking(t.sh, t.se) => Asking(u.sh, t.se)
  BY <1>3 DEF Asking, SameReads
<1>7. t.se.phase = "down" => t.se.ticket = 0 /\ t.se.refresh = 0
  BY <1>5 DEF OneRead
<1>8. OneRead(u.sh, t.se, cs, s2c)
  BY <1>4, <1>5, <1>6, <1>7, OneReadKept
<1>9. Calm(env) => Ledger(u.sh, t.se, http, cs, s2c, srv, sink.got, Doc, asked)
  BY <1>1, <1>2, <1>3, <1>4, <1>5, QuietLedger
<1>. QED
  BY <1>8, <1>9 DEF cs

LEMMA SessPlanLedger ==
  ASSUME Start, SessPlan
  PROVE  ReadInv' /\ LedgerTrue'
<1>. DEFINE sh == [shared EXCEPT !.cursor = sess.plan.after]
            se == IF sess.plan.fetch
                    THEN [sess EXCEPT !.ticket = shared.refReq, !.phase = "fetch", !.plan = NoPlan]
                    ELSE [Backfilling(sess) EXCEPT !.ticket = shared.refReq]
            f  == RowsReq(sess.plan.after, sess.resumed /\ ~sess.repair)
            t0 == [Turn(sh, se) EXCEPT !.out = <<f>>]
            t1 == PushPending(t0)
            t2 == IF sess.plan.fetch THEN t1
                  ELSE [t1 EXCEPT !.sh = SettleCausal(@, sess.causalSame)]
            ids == ToPush(sh, sess.inFlight)
<1>1. sess.plan.after \in Nat /\ sess.resumed \in BOOLEAN /\ sess.repair \in BOOLEAN
      /\ sess.causalSame \in BOOLEAN /\ sess \in SessType /\ shared.refReq \in 0 .. MaxRefresh
      /\ UNCHANGED <<srv, needs, asked>> /\ sess.phase = "plan" /\ srv \in SrvType
      /\ http \in HttpType /\ shared \in SharedType /\ c2s \in Seq(ClientFrame)
      /\ asked \in Seq(SUBSET Ids) /\ sink \in SinkType
  BY StartTypes DEF SessPlan, SessType, PlanType, SharedType
<1>2. sh \in SharedType /\ sh.cursor = sess.plan.after /\ SameReads(shared, sh)
  BY <1>1 DEF SharedType, SameReads
<1>3. CASE FailedPush(sh, ids)
  <2>. HIDE DEF sh, ids
  <2>. QED  BY <1>1, <1>2, <1>3, FailedPushLedger
<1>4. CASE Write(sh, ids) /\ Finish(t2, http, s2c)
  <2>1. sink'.got = sink.got
    <3>. HIDE DEF sh, ids
    <3>. QED  BY <1>1, <1>4 DEF Write, SinkType
  <2>2. f \in ClientFrame /\ f.after = sess.plan.after
    BY <1>1, RowsReqType DEF RowsReq
  <2>3. se \in SessType /\ se.row = sess.row /\ se.phase \in {"fetch", "backfill"}
        /\ se.ticket = shared.refReq /\ se.refresh = sess.refresh
    <3>1. Backfilling(sess) \in SessType
      BY <1>1, BackfillingType
    <3>2. Backfilling(sess).row = sess.row /\ Backfilling(sess).phase = "backfill"
          /\ Backfilling(sess).refresh = sess.refresh
      BY <1>1 DEF Backfilling, SessType
    <3>. QED
      BY <1>1, <3>1, <3>2, RestTypes DEF SessType
  <2>4. t0 \in TurnType /\ t0.se = se /\ t0.sh = sh /\ t0.out = <<f>>
    <3>. DEFINE out == <<f>>
    <3>1. Turn(sh, se) \in TurnType /\ Turn(sh, se).se = se /\ Turn(sh, se).sh = sh
      <4>. HIDE DEF sh, se
      <4>. QED  BY <1>2, <2>3, TurnIsTurn DEF Turn
    <3>2. t0 = [Turn(sh, se) EXCEPT !.out = out]
      OBVIOUS
    <3>3. out \in Seq(ClientFrame)
      <4>. HIDE DEF f
      <4>. QED  BY <2>2
    <3>. HIDE DEF sh, se, t0, out
    <3>4. t0 \in TurnType /\ t0.se = se /\ t0.sh = sh /\ t0.out = out
      BY <3>1, <3>2, <3>3 DEF TurnType
    <3>. QED
      BY <3>4 DEF out
  <2>. HIDE DEF t0, f
  <2>5. t1 \in TurnType /\ PushOut(t0, t1)
    BY <2>4, PushPendingType, PushPendingOut
  <2>. HIDE DEF t1, se, sh
  <2>6. /\ OneRead(t0.sh, t0.se, c2s \o t0.out, s2c)
        /\ Calm(env) => Ledger(t0.sh, t0.se, http, c2s \o t0.out, s2c, srv, sink.got, Doc, asked)
    <3>1. t0.sh.refReq = shared.refReq /\ t0.sh.refDone = shared.refDone
      BY <1>2, <2>4 DEF SameReads
    <3>2. t0.se.phase \in {"fetch", "backfill"} /\ t0.se.row = sess.row
          /\ t0.se.ticket = shared.refReq /\ t0.se.refresh = sess.refresh
      BY <2>3, <2>4
    <3>. QED
      BY <1>1, <2>2, <2>4, <3>1, <3>2, PlannedTurn
  <2>7. OneRead(t1.sh, t1.se, c2s \o t1.out, s2c)
    BY <1>1, <2>4, <2>5, <2>6, PushOneRead
  <2>8. Calm(env) => Ledger(t1.sh, t1.se, http, c2s \o t1.out, s2c, srv, sink.got, Doc, asked)
    BY <1>1, <2>4, <2>5, <2>6, PushLedger
  <2>9. t2 \in TurnType /\ OneRead(t2.sh, t2.se, c2s \o t2.out, s2c)
        /\ (Calm(env) => Ledger(t2.sh, t2.se, http, c2s \o t2.out, s2c, srv, sink.got, Doc, asked))
    <3>1. CASE sess.plan.fetch
      BY <2>5, <2>7, <2>8, <3>1
    <3>2. CASE ~sess.plan.fetch
      <4>1. SettleCausal(t1.sh, sess.causalSame) \in SharedType
        BY <1>1, <2>5, SettleCausalType DEF TurnType
      <4>2. t2 = [t1 EXCEPT !.sh = SettleCausal(t1.sh, sess.causalSame)]
        BY <2>5, <3>2 DEF TurnType
      <4>. HIDE DEF t2
      <4>3. t2 \in TurnType /\ t2.sh = SettleCausal(t1.sh, sess.causalSame)
            /\ t2.se = t1.se /\ t2.out = t1.out
        BY <2>5, <4>1, <4>2 DEF TurnType
      <4>. QED
        BY <1>1, <2>5, <2>7, <2>8, <4>3, SettledTurn
    <3>. QED
      BY <3>1, <3>2
  <2>. HIDE DEF t2
  <2>10. ReadInv'
    BY <1>4, <2>9, FinishOneRead
  <2>11. Calm(env) => Ledger(shared', sess', http', c2s', s2c', srv, sink.got, Doc, asked)
    BY <1>1, <1>4, <2>9, FinishLedger
  <2>. QED
    BY <1>1, <2>1, <2>10, <2>11, StillEnd
<1>. QED
  BY <1>3, <1>4 DEF SessPlan

LEMMA SessFetchLedger ==
  ASSUME Start, SessFetch
  PROVE  ReadInv' /\ LedgerTrue'
<1>1. UNCHANGED <<srv, needs, http, asked, c2s>> /\ sess.phase = "fetch"
      /\ shared \in SharedType /\ sess \in SessType /\ sink \in SinkType /\ srv \in SrvType
      /\ asked \in Seq(SUBSET Ids) /\ s2c \in Seq(FramesUpTo(Len(srv.log))) /\ srv' \in SrvType
  BY StartTypes DEF SessFetch
<1>2. shared'.refReq = shared.refReq /\ shared'.refDone = shared.refDone /\ shared'.gap = shared.gap
  BY <1>1 DEF SessFetch, SettleCausal, SharedType
<1>3. sess'.ticket = sess.ticket /\ sess'.refresh = sess.refresh /\ sess'.row = sess.row
      /\ sess'.phase \in {"backfill", "replay"}
  BY <1>1 DEF SessFetch, Backfilling, SessType
<1>4. Kept(c2s, c2s', "ROWS_REQ") /\ Kept(s2c, s2c', "ROWS")
  BY <1>1, KeptSame, KeptMarked DEF SessFetch
<1>5. Asking(shared', sess') /\ sess'.phase # "down"
  BY <1>3 DEF Asking
<1>6. ReadInv'
  BY <1>4, <1>5, FromStart, OneReadKept DEF ReadInv
<1>7. sink'.got = sink.got \cup srv.ids
  BY <1>1 DEF SessFetch, SinkType
<1>8. ASSUME Calm(env)
      PROVE  Ledger(shared', sess', http', c2s', s2c', srv', sink'.got, Doc', asked')
  <2>1. WorldFurther /\ NoNewHole
    BY <1>1, <1>7, LandedHoles DEF Start, LedgerInv
  <2>2. Holds
    BY <1>8, <2>1, WorldLedger DEF Start, LedgerInv
  <2>. DEFINE g == sink'.got
              d == Doc'
              r == srv'
  <2>3. Ledger(shared, sess, http, c2s, s2c, r, g, d, asked) /\ r \in SrvType
    BY <1>1, <2>2 DEF Holds
  <2>. HIDE DEF g, d, r
  <2>4. DoneTrue(shared', r, d, asked)
    BY <1>2, <2>3 DEF Ledger, DoneTrue
  <2>5. FramesHold(shared', sess', s2c', r, g, Held1(g, sess'), Hands(g, sess', http), asked)
    BY <1>2, <1>3, <1>4, <2>3, LedgerParts, FramesStay
  <2>6. PhaseTrue(shared', sess', r, g, Hands(g, sess', http), asked)
    BY <1>3 DEF PhaseTrue
  <2>7. Hands(g, sess', http) = Hands(g, sess, http)
    BY <1>3 DEF Hands
  <2>8. HttpReads(http, r, g, Held1(g, http), Hands(g, sess', http), asked) /\ AskTrue(c2s, r, g)
        /\ sess'.ticket <= Len(asked) /\ sess'.refresh <= Len(asked)
    BY <1>3, <2>3, <2>7, LedgerParts
  <2>9. Ledger(shared', sess', http, c2s, s2c', r, g, d, asked)
    BY <2>4, <2>5, <2>6, <2>8, LedgerParts
  <2>. QED
    BY <1>1, <2>9 DEF g, d, r
<1>. QED
  BY <1>1, <1>6, <1>8, StartEnd

-----------------------------------------------------------------------------
(* A row is taken in hand, and lands.                                      *)

LEMMA RowTaken ==
  ASSUME NEW r \in SrvType, NEW g, NEW a, NEW sh, NEW se, NEW ss, NEW p, NEW x,
         FramesHold(sh, se, ss, r, g, p, x, a), PhaseTrue(sh, se, r, g, x, a),
         NEW sh2, NEW se2, NEW ss2, NEW p2, NEW x2,
         sh2.rowsReqOut = sh.rowsReqOut, sh.gap => sh2.gap,
         sh2.gap \/ HolesFewer(r, g, x, r, g, x2),
         se2.phase = se.phase, se2.head = se.head, se2.ticket = se.ticket, se2.refresh = se.refresh,
         Kept(ss, ss2, "ROWS"), p \cap Ids \subseteq p2
  PROVE  FramesHold(sh2, se2, ss2, r, g, p2, x2, a) /\ PhaseTrue(sh2, se2, r, g, x2, a)
<1>1. \A m : Within(r, g, x, m) => sh2.gap \/ Within(r, g, x2, m)
  BY WithinFewer
<1>2. \A c : Covered(r, c, p) => Covered(r, c, p2)
  BY CoveredGrow
<1>3. \A f : FrameTrue(f, sh, se, r, g, p, x, a) => FrameTrue(f, sh2, se2, r, g, p2, x2, a)
  BY <1>1, <1>2 DEF FrameTrue
<1>4. FramesHold(sh2, se2, ss2, r, g, p2, x2, a)
  BY <1>3 DEF FramesHold, Kept
<1>5. PhaseTrue(sh2, se2, r, g, x2, a)
  BY <1>1 DEF PhaseTrue
<1>. QED
  BY <1>4, <1>5

(* A row that opens no gap leaves none behind.                             *)
LEMMA TakenHoles ==
  ASSUME Start, Calm(env), NEW n \in DOMAIN srv.log, ~IsGap(shared.cursor, n),
         NEW x, NEW x2, x2 \cap Remote \subseteq x \cup {srv.log[n]}
  PROVE  HolesFewer(srv, sink.got, x, srv, sink.got, x2)
<1>1. srv \in SrvType /\ srv.log \in Seq(Ids) /\ shared.cursor \in Nat
  BY StartTypes DEF SrvType, SharedType
<1>2. n \in Nat /\ n <= shared.cursor + 1
  BY <1>1 DEF IsGap
<1>3. Covered(srv, shared.cursor, sink.got)
  BY FromStart, NowCovered
<1>4. \A t \in DOMAIN srv.log : srv.log[t] = srv.log[n] => t = n
  BY FromStart DEF RoomClean
<1>. QED
  BY <1>1, <1>2, <1>3, <1>4, NextNoHole

LEMMA CoveredRow ==
  ASSUME NEW r \in SrvType, NEW n \in DOMAIN r.log, NEW p, Covered(r, n - 1, p),
         NEW p2, p \cap Ids \subseteq p2, r.log[n] \in p2
  PROVE  Covered(r, n, p2)
<1>1. r.log \in Seq(Ids) /\ r.ckpt \in Nat /\ Len(r.log) \in Nat /\ DOMAIN r.log = 1 .. Len(r.log)
  BY DEF SrvType
<1>2. n \in Nat /\ n <= Len(r.log)
  BY <1>1
<1>3. ASSUME NEW s \in DOMAIN r.log, r.ckpt < s, s <= n
      PROVE  r.log[s] \in p2
  <2>1. s \in Nat /\ r.log[s] \in Ids
    BY <1>1
  <2>2. CASE s = n
    BY <2>2
  <2>3. CASE s # n
    <3>1. s <= n - 1
      BY <1>2, <1>3, <2>1, <2>3
    <3>2. r.log[s] \in Held(r, n - 1)
      BY <1>3, <3>1 DEF Held
    <3>. QED
      BY <2>1, <3>2 DEF Covered
  <2>. QED
    BY <2>2, <2>3
<1>. QED
  BY <1>2, <1>3 DEF Covered, Held

(* The frame of an answer moves past a row of it.                          *)
LEMMA SessRowRead ==
  ASSUME Start, s2c # <<>>, NEW f, f = Head(s2c), NEW ss,
         \/ f.k # "ROWS" /\ ss = Tail(s2c)
         \/ f.k = "ROWS" /\ \E g : g.k = "ROWS" /\ ss = <<g>> \o Tail(s2c),
         NEW sh, NEW se, sh.rowsReqOut = shared.rowsReqOut, se.phase = sess.phase,
         se.ticket = sess.ticket, se.refresh = sess.refresh
  PROVE  OneRead(sh, se, c2s, ss)
<1>1. s2c \in Seq(FramesUpTo(Len(srv.log))) /\ OneRead(shared, sess, c2s, s2c)
  BY StartTypes, FromStart DEF ReadInv
<1>2. Asking(shared, sess) => Asking(sh, se)
  BY DEF Asking
<1>3. se.phase = "down" => se.ticket = 0 /\ se.refresh = 0
  BY <1>1 DEF OneRead
<1>4. CASE ss = Tail(s2c)
  <2>1. Kept(s2c, ss, "ROWS") /\ Kept(c2s, c2s, "ROWS_REQ")
    BY <1>1, <1>4, KeptTail, KeptSame
  <2>. QED
    BY <1>1, <1>2, <1>3, <2>1, OneReadKept
<1>5. ASSUME f.k = "ROWS", NEW g, g.k = "ROWS", ss = <<g>> \o Tail(s2c)
      PROVE  OneRead(sh, se, c2s, ss)
  <2>1. 1 \in DOMAIN s2c /\ f = s2c[1]
    BY <1>1, TailElements
  <2>2. ~Lacks(s2c, "ROWS")
    BY <1>5, <2>1 DEF Lacks
  <2>3. Lacks(c2s, "ROWS_REQ") /\ Few(c2s, "ROWS_REQ") /\ Few(s2c, "ROWS") /\ Asking(shared, sess)
    BY <1>1, <2>2 DEF OneRead
  <2>4. Few(ss, "ROWS")
    BY <1>1, <1>5, <2>3, KeptSwap
  <2>. QED
    BY <1>2, <1>3, <2>3, <2>4 DEF OneRead
<1>. QED
  BY <1>4, <1>5

LEMMA SwappedFrames ==
  ASSUME NEW S, NEW ss \in Seq(S), ss # <<>>, NEW f,
         NEW sh, NEW se, NEW r, NEW g, NEW p, NEW x, NEW a,
         FramesHold(sh, se, ss, r, g, p, x, a), FrameTrue(f, sh, se, r, g, p, x, a)
  PROVE  FramesHold(sh, se, <<f>> \o Tail(ss), r, g, p, x, a)
<1>. DEFINE fs == <<f>> \o Tail(ss)
<1>1. DOMAIN fs = DOMAIN ss /\ fs[1] = f /\ \A i \in DOMAIN ss : i # 1 => fs[i] = ss[i]
  BY SwapElements
<1>. HIDE DEF fs
<1>2. FramesHold(sh, se, fs, r, g, p, x, a)
  BY <1>1 DEF FramesHold
<1>. QED
  BY <1>2 DEF fs

LEMMA RowInRoom ==
  ASSUME Start, s2c # <<>>, IsRow(Head(s2c))
  PROVE  /\ RowSeq(Head(s2c)) \in DOMAIN srv.log
         /\ srv.log[RowSeq(Head(s2c))]
              = IF Head(s2c).k = "ROW" THEN Head(s2c).id ELSE srv.log[RowSeq(Head(s2c))]
<1>. DEFINE f == Head(s2c)
<1>1. f \in TrueFrames(srv) /\ f \in ServerFrame
      /\ (f.k = "ROWS" => f \in RowsFrame /\ f.head <= Len(srv.log))
  BY FromStart, LogLength, ReadFrames, ReadTrue DEF TalkInv, CursorInv, TalkTrue
<1>2. CASE f.k = "ROW"
  BY <1>1, <1>2 DEF TrueFrames, RowSeq
<1>3. CASE f.k # "ROW"
  <2>1. f.k = "ROWS" /\ NextSeq(f) <= f.head /\ RowSeq(f) = NextSeq(f)
    BY <1>3 DEF IsRow, RowSeq
  <2>2. f \in RowsFrame /\ f.head <= Len(srv.log) /\ f.head \in Nat
    BY <1>1, <2>1 DEF RowsFrame
  <2>3. NextSeq(f) \in Nat /\ NextSeq(f) > 0
    BY <2>2, NextSeqType
  <2>4. Len(srv.log) \in Nat /\ DOMAIN srv.log = 1 .. Len(srv.log)
    BY StartTypes, LogLength DEF SrvType
  <2>5. NextSeq(f) \in DOMAIN srv.log
    BY <2>1, <2>2, <2>3, <2>4
  <2>. QED
    BY <1>3, <2>1, <2>5
<1>. QED
  BY <1>2, <1>3

LEMMA SessRowLedger ==
  ASSUME Start, SessRow
  PROVE  ReadInv' /\ LedgerTrue'
<1>. DEFINE f   == Head(s2c)
            seq == RowSeq(f)
            id  == IF f.k = "ROW" THEN f.id ELSE srv.log[seq]
            row == [id |-> id, seq |-> seq, cur |-> Walk(shared.cursor, seq)]
            gap == IsGap(shared.cursor, seq)
            n   == [f EXCEPT !.next = seq + 1]
            p   == Held1(sink.got, sess)
            p2  == Held1(sink.got, sess')
            x   == Hands(sink.got, sess, http)
            x2  == Hands(sink.got, sess', http')
<1>1. /\ UNCHANGED <<srv, needs, asked, sink, c2s>> /\ s2c # <<>> /\ Reading /\ IsRow(f)
      /\ sess' = [sess EXCEPT !.row = row] /\ shared' = [shared EXCEPT !.gap = @ \/ gap]
      /\ http' = [http EXCEPT !.gapSame = @ /\ ~gap]
      /\ s2c' = IF f.k = "ROW" THEN Tail(s2c) ELSE <<n>> \o Tail(s2c)
  BY DEF SessRow, Reading
<1>2. /\ srv \in SrvType /\ asked \in Seq(SUBSET Ids) /\ Len(asked) \in Nat
      /\ shared \in SharedType /\ sess \in SessType /\ http \in HttpType
      /\ s2c \in Seq(FramesUpTo(Len(srv.log)))
  BY StartTypes
<1>3. seq \in DOMAIN srv.log /\ srv.log[seq] = id
  BY <1>1, RowInRoom
<1>4. row.id = id /\ gap \in BOOLEAN /\ (~gap) \in BOOLEAN
  BY DEF IsGap
<1>5. f.k # "ROW" => f.k = "ROWS" /\ seq = NextSeq(f)
  BY <1>1 DEF IsRow, RowSeq
<1>6. f.k # "ROW" => f \in RowsFrame
  BY <1>1, <1>2, <1>5, StartTypes, ReadFrames
<1>7. f.k # "ROW" => n.k = "ROWS" /\ n.next = seq + 1 /\ n.head = f.head
  <2>. HIDE DEF seq, f
  <2>. QED  BY <1>5, <1>6 DEF RowsFrame
<1>. HIDE DEF f, id, row, seq, gap, n
<1>8. /\ shared'.rowsReqOut = shared.rowsReqOut /\ shared'.gap = (shared.gap \/ gap)
      /\ shared'.refReq = shared.refReq /\ shared'.refDone = shared.refDone
  BY <1>1, <1>2 DEF SharedType
<1>9. /\ sess'.phase = sess.phase /\ sess'.head = sess.head /\ sess'.ticket = sess.ticket
      /\ sess'.refresh = sess.refresh /\ sess'.row = row
  BY <1>1, <1>2 DEF SessType
<1>10. /\ SameAnswer(http, http') /\ http'.row = http.row /\ (http'.gapSame => ~gap)
  BY <1>1, <1>2, <1>4, GapAnswer DEF HttpType
<1>11. sess.row = NoRow
  BY <1>1 DEF Reading
<1>12. p \cap Ids \subseteq p2 /\ x2 \cap Remote \subseteq x \cup {id} /\ id \in p2
  BY <1>4, <1>9, <1>10, <1>11, BaseIsNoRow DEF Held1, Hands
<1>13. ReadInv'
  <2>1. \/ f.k # "ROWS" /\ s2c' = Tail(s2c)
        \/ f.k = "ROWS" /\ \E g : g.k = "ROWS" /\ s2c' = <<g>> \o Tail(s2c)
    BY <1>1, <1>5, <1>7
  <2>2. OneRead(shared', sess', c2s, s2c')
    BY <1>1, <1>8, <1>9, <2>1, SessRowRead DEF f
  <2>. QED
    BY <1>1, <2>2 DEF ReadInv
<1>. HIDE DEF p, p2, x, x2
<1>14. ASSUME Calm(env)
       PROVE  Ledger(shared', sess', http', c2s', s2c', srv, sink.got, Doc, asked)
  <2>. DEFINE g == sink.got
  <2>1. Ledger(shared, sess, http, c2s, s2c, srv, g, Doc, asked)
    BY <1>14, NowLedger
  <2>2. /\ DoneTrue(shared, srv, Doc, asked) /\ AskTrue(c2s, srv, g)
        /\ sess.ticket <= Len(asked) /\ sess.refresh <= Len(asked)
        /\ FramesHold(shared, sess, s2c, srv, g, p, x, asked)
        /\ PhaseTrue(shared, sess, srv, g, x, asked)
        /\ HttpReads(http, srv, g, Held1(g, http), x, asked)
    BY <2>1, LedgerParts DEF p, x
  <2>3. DoneTrue(shared', srv, Doc, asked)
    BY <1>8, <2>2 DEF DoneTrue
  <2>4. gap \/ HolesFewer(srv, g, x, srv, g, x2)
    BY <1>3, <1>12, <1>14, TakenHoles DEF gap
  <2>5. FramesHold(shared', sess', s2c, srv, g, p2, x2, asked)
        /\ PhaseTrue(shared', sess', srv, g, x2, asked)
    <3>1. Kept(s2c, s2c, "ROWS") /\ (shared.gap => shared'.gap)
          /\ (shared'.gap \/ HolesFewer(srv, g, x, srv, g, x2))
      BY <1>8, <2>4, KeptSame
    <3>. QED
      BY <1>2, <1>8, <1>9, <1>12, <2>2, <3>1, RowTaken
  <2>6. FramesHold(shared', sess', s2c', srv, g, p2, x2, asked)
    <3>1. CASE f.k = "ROW"
      <4>1. Kept(s2c, s2c', "ROWS")
        BY <1>1, <1>2, <3>1, KeptTail
      <4>. QED
        BY <2>5, <4>1 DEF FramesHold, Kept
    <3>2. CASE f.k # "ROW"
      <4>1. f = s2c[1] /\ 1 \in DOMAIN s2c
        BY <1>1, <1>2, TailElements DEF f
      <4>2. FrameTrue(f, shared', sess', srv, g, p2, x2, asked)
        BY <1>5, <2>5, <3>2, <4>1 DEF FramesHold
      <4>3. Covered(srv, seq - 1, p)
        BY <1>1, <1>5, <1>14, <3>2, AnswerHeld DEF f, p
      <4>4. Covered(srv, seq, p2)
        BY <1>2, <1>3, <1>12, <4>3, CoveredRow
      <4>5. seq \in Nat
        BY <1>2, <1>3 DEF SrvType
      <4>6. n.next - 1 = seq
        BY <1>7, <3>2, <4>5
      <4>7. FrameTrue(n, shared', sess', srv, g, p2, x2, asked)
        BY <1>7, <3>2, <4>2, <4>4, <4>6 DEF FrameTrue
      <4>8. s2c' = <<n>> \o Tail(s2c)
        BY <1>1, <3>2
      <4>9. FramesHold(shared', sess', <<n>> \o Tail(s2c), srv, g, p2, x2, asked)
        BY <1>1, <1>2, <2>5, <4>7, SwappedFrames
      <4>. QED
        BY <4>8, <4>9
    <3>. QED
      BY <3>1, <3>2
  <2>7. HttpReads(http', srv, g, Held1(g, http'), x2, asked)
    <3>1. HttpReads(http', srv, g, Held1(g, http), x, asked)
      BY <1>2, <1>10, <2>2, HttpFlow
    <3>2. Held1(g, http') = Held1(g, http)
      BY <1>10 DEF Held1
    <3>3. http'.gapSame => \A m : Within(srv, g, x, m) => Within(srv, g, x2, m)
      BY <1>10, <2>4, WithinFewer
    <3>. QED
      BY <3>1, <3>2, <3>3 DEF HttpReads
  <2>8. Ledger(shared', sess', http', c2s, s2c', srv, g, Doc, asked)
    BY <1>9, <2>2, <2>3, <2>5, <2>6, <2>7, LedgerParts DEF p2, x2
  <2>. QED
    BY <1>1, <2>8
<1>. QED
  BY <1>1, <1>13, <1>14, StillEnd

(* A row that lands was in hand before: no row is new in hand.             *)
LEMMA LandedRow ==
  ASSUME Start, UNCHANGED <<srv, needs>>, NEW id, sink'.got = sink.got \cup {id},
         id \in Hands(sink.got, sess, http), Calm(env)
  PROVE  Ledger(shared, sess, http, c2s, s2c, srv', sink'.got, Doc', asked)
<1>1. srv \in SrvType /\ srv' \in SrvType /\ srv.ckpt \in Nat /\ Len(srv.log) \in Nat
  BY StartTypes DEF SrvType
<1>2. Doc \subseteq Doc'
  BY DEF Doc, Visible
<1>3. WorldFurther
  BY <1>1, <1>2 DEF WorldFurther, Further
<1>4. Hands(sink'.got, sess, http) = Hands(sink.got, sess, http)
  BY DEF Hands
<1>5. NoNewHole
  BY <1>1, <1>3, <1>4, SameHands DEF WorldFurther, NoNewHole
<1>. QED
  BY <1>3, <1>5, WorldLedger DEF Start, LedgerInv, Holds

LEMMA LandedReads ==
  ASSUME NEW row \in RowType, shared \in SharedType
  PROVE  SameReads(shared, RowOutcome(row))
BY DEF RowOutcome, SameReads, SharedType

LEMMA SessApplyRowLedger ==
  ASSUME Start, SessApplyRow
  PROVE  ReadInv' /\ LedgerTrue'
<1>. DEFINE same == ~Parks(sess.row)
            sh == RowOutcome(sess.row)
            se == [sess EXCEPT !.row = NoRow, !.causalSame = @ /\ same]
            h  == [http EXCEPT !.causalSame = @ /\ same]
            g  == sink'.got
            d  == Doc'
            r  == srv'
<1>1. UNCHANGED <<srv, needs, asked>> /\ sess.row # NoRow /\ sink' = Imported(sess.row)
      /\ AfterFrame(sh, se, h, s2c)
  BY DEF SessApplyRow
<1>2. /\ shared \in SharedType /\ sess \in SessType /\ http \in HttpType /\ sess.row \in RowType
      /\ srv \in SrvType /\ r \in SrvType /\ asked \in Seq(SUBSET Ids) /\ Len(asked) \in Nat
      /\ c2s \in Seq(ClientFrame) /\ sink \in SinkType
  BY StartTypes DEF SessType
<1>3. same \in BOOLEAN /\ sh \in SharedType
  BY <1>2, FromStart, ImportType
<1>4. SameReads(shared, sh)
  BY <1>2, LandedReads
<1>5. sink'.got = sink.got \cup {sess.row.id}
  BY <1>1, <1>2 DEF Imported, SinkType
<1>. HIDE DEF same, sh
<1>6. se \in SessType /\ se.phase = sess.phase /\ se.head = sess.head /\ se.ticket = sess.ticket
      /\ se.refresh = sess.refresh /\ se.row = NoRow
  BY <1>2, <1>3, RestTypes DEF SessType
<1>7. h \in HttpType /\ SameAnswer(http, h) /\ h.row = http.row
  <2>1. h \in HttpType
    BY <1>2, <1>3, FromStart, CycleFlags DEF TalkInv
  <2>. QED
    BY <1>2, <1>3, <2>1 DEF HttpType, SameAnswer
<1>. HIDE DEF se, h
<1>8. OneRead(sh, se, c2s, s2c)
  <2>1. OneRead(shared, sess, c2s, s2c)
    BY FromStart DEF ReadInv
  <2>2. Asking(shared, sess) => Asking(sh, se)
    BY <1>4, <1>6 DEF Asking, SameReads
  <2>3. se.phase = "down" => se.ticket = 0 /\ se.refresh = 0
    BY <1>6, <2>1 DEF OneRead
  <2>. QED
    BY <2>1, <2>2, <2>3, KeptSame, OneReadKept
<1>9. ReadInv'
  BY <1>1, <1>2, <1>3, <1>6, <1>8, AfterFrameOneRead
<1>10. ASSUME Calm(env)
       PROVE  Ledger(shared', sess', http', c2s', s2c', r, g, d, asked')
  <2>1. sess.row.id \in Hands(sink.got, sess, http)
    BY DEF Hands
  <2>2. Ledger(shared, sess, http, c2s, s2c, r, g, d, asked)
    BY <1>1, <1>5, <1>10, <2>1, LandedRow
  <2>3. Covered(r, shared'.cursor, g)
    BY <1>10, StartTypes, FromStart, ThenCovered
  <2>4. sess.row.id \in g
    BY <1>5
  <2>. HIDE DEF g, d, r
  <2>5. Held1(g, sess) \cap Ids \subseteq Held1(g, se)
        /\ Hands(g, se, h) \cap Remote \subseteq Hands(g, sess, http)
    BY <1>6, <1>7, <2>4, BaseIsNoRow DEF Held1, Hands
  <2>6. /\ DoneTrue(shared, r, d, asked) /\ AskTrue(c2s, r, g)
        /\ sess.ticket <= Len(asked) /\ sess.refresh <= Len(asked)
        /\ FramesHold(shared, sess, s2c, r, g, Held1(g, sess), Hands(g, sess, http), asked)
        /\ PhaseTrue(shared, sess, r, g, Hands(g, sess, http), asked)
        /\ HttpReads(http, r, g, Held1(g, http), Hands(g, sess, http), asked)
    BY <2>2, LedgerParts
  <2>7. DoneTrue(sh, r, d, asked)
    BY <1>4, <2>6 DEF DoneTrue, SameReads
  <2>8. FramesHold(sh, se, s2c, r, g, Held1(g, se), Hands(g, se, h), asked)
        /\ PhaseTrue(sh, se, r, g, Hands(g, se, h), asked)
    <3>1. HolesFewer(r, g, Hands(g, sess, http), r, g, Hands(g, se, h))
      BY <2>5, LessHands
    <3>2. Kept(s2c, s2c, "ROWS") /\ (shared.gap => sh.gap) /\ sh.rowsReqOut = shared.rowsReqOut
      BY <1>4, KeptSame DEF SameReads
    <3>. QED
      BY <1>2, <1>6, <2>5, <2>6, <3>1, <3>2, RowTaken
  <2>9. HttpReads(h, r, g, Held1(g, h), Hands(g, se, h), asked)
    <3>1. Held1(g, http) \cap Ids \subseteq Held1(g, h)
      BY <1>7 DEF Held1
    <3>. QED
      BY <1>2, <1>7, <2>5, <2>6, <3>1, HttpFlow
  <2>10. Ledger(sh, se, h, c2s, s2c, r, g, d, asked)
    BY <1>6, <2>6, <2>7, <2>8, <2>9, LedgerParts
  <2>11. Ledger(shared', sess', http', c2s', s2c', r, g, d, asked)
    BY <1>1, <1>2, <1>3, <1>6, <1>7, <1>8, <2>3, <2>10, AfterFrameLedger
  <2>. QED
    BY <1>1, <2>11
<1>. QED
  BY <1>1, <1>9, <1>10, StartEnd

-----------------------------------------------------------------------------
(* The same for the rows of the HTTPS cycle, from its request to its end.  *)

LEMMA SameTalkRead ==
  ASSUME Start, UNCHANGED <<c2s, s2c>>, shared'.rowsReqOut = shared.rowsReqOut,
         sess'.phase = sess.phase, sess'.ticket = sess.ticket, sess'.refresh = sess.refresh
  PROVE  ReadInv'
<1>1. OneRead(shared, sess, c2s, s2c)
  BY FromStart DEF ReadInv
<1>2. Asking(shared, sess) => Asking(shared', sess')
  BY DEF Asking
<1>3. sess'.phase = "down" => sess'.ticket = 0 /\ sess'.refresh = 0
  BY <1>1 DEF OneRead
<1>4. OneRead(shared', sess', c2s, s2c)
  BY <1>1, <1>2, <1>3, KeptSame, OneReadKept
<1>. QED
  BY <1>4 DEF ReadInv

LEMMA HttpRowLedger ==
  ASSUME Start, HttpRow
  PROVE  ReadInv' /\ LedgerTrue'
<1>. DEFINE seq == http.next
            id  == http.log[http.next]
            row == [id |-> id, seq |-> seq, cur |-> Walk(shared.cursor, seq)]
            gap == IsGap(shared.cursor, seq)
            q   == Held1(sink.got, http)
            q2  == Held1(sink.got, http')
            x   == Hands(sink.got, sess, http)
            x2  == Hands(sink.got, sess, http')
            p   == Held1(sink.got, sess)
<1>1. /\ UNCHANGED <<srv, needs, asked, sink, c2s, s2c, sess>> /\ http.phase = "rows"
      /\ http.row = NoRow /\ http.next <= http.st.head
      /\ http' = [http EXCEPT !.row = row, !.next = @ + 1, !.gapSame = @ /\ ~gap]
      /\ shared' = [shared EXCEPT !.gap = @ \/ gap]
  BY DEF HttpRow
<1>2. /\ srv \in SrvType /\ asked \in Seq(SUBSET Ids) /\ Len(asked) \in Nat
      /\ shared \in SharedType /\ sess \in SessType /\ http \in HttpType /\ CycleComplete(http)
      /\ http.next \in Nat
  BY StartTypes, FromStart DEF TalkInv, HttpType
<1>3. Unwiped(env) => seq \in DOMAIN srv.log /\ srv.log[seq] = id
  <2>1. http.next > 0 /\ http.st.head <= Len(http.log) /\ http.st.head \in Nat /\ http.log \in Seq(Ids)
    BY <1>1, <1>2 DEF CycleComplete, HttpType, StateFrame
  <2>2. http.next \in DOMAIN http.log
    BY <1>1, <1>2, <2>1
  <2>3. srv.log \in Seq(Ids)
    BY <1>2 DEF SrvType
  <2>. QED
    BY <2>1, <2>2, <2>3, FromStart DEF CursorInv, TalkTrue, HttpTrue
<1>4. row.id = id /\ gap \in BOOLEAN /\ (~gap) \in BOOLEAN
  BY DEF IsGap
<1>. HIDE DEF id, row, gap
<1>5. /\ shared'.rowsReqOut = shared.rowsReqOut /\ shared'.gap = (shared.gap \/ gap)
      /\ shared'.refReq = shared.refReq /\ shared'.refDone = shared.refDone
  BY <1>1, <1>2 DEF SharedType
<1>6. /\ http'.phase = "rows" /\ http'.row = row /\ http'.next = seq + 1 /\ http'.st = http.st
      /\ http'.ticket = http.ticket /\ (http'.gapSame => http.gapSame /\ ~gap)
  BY <1>1, <1>2 DEF HttpType
<1>7. ReadInv'
  BY <1>1, <1>5, SameTalkRead
<1>8. q \cap Ids \subseteq q2 /\ id \in q2 /\ x2 \cap Remote \subseteq x \cup {id}
  BY <1>1, <1>4, <1>6, BaseIsNoRow DEF Held1, Hands
<1>. HIDE DEF q, q2, x, x2, p
<1>9. ASSUME Calm(env)
      PROVE  Ledger(shared', sess', http', c2s', s2c', srv, sink.got, Doc, asked)
  <2>. DEFINE g == sink.got
  <2>1. Ledger(shared, sess, http, c2s, s2c, srv, g, Doc, asked)
    BY <1>9, NowLedger
  <2>2. /\ DoneTrue(shared, srv, Doc, asked) /\ AskTrue(c2s, srv, g)
        /\ sess.ticket <= Len(asked) /\ sess.refresh <= Len(asked)
        /\ FramesHold(shared, sess, s2c, srv, g, p, x, asked)
        /\ PhaseTrue(shared, sess, srv, g, x, asked)
        /\ HttpReads(http, srv, g, q, x, asked)
    BY <2>1, LedgerParts DEF p, x, q
  <2>3. DoneTrue(shared', srv, Doc, asked)
    BY <1>5, <2>2 DEF DoneTrue
  <2>4. seq \in DOMAIN srv.log /\ srv.log[seq] = id
    BY <1>3, <1>9 DEF Unwiped, Calm
  <2>. HIDE DEF seq
  <2>5. gap \/ HolesFewer(srv, g, x, srv, g, x2)
    BY <1>8, <1>9, <2>4, TakenHoles DEF gap
  <2>6. FramesHold(shared', sess, s2c, srv, g, p, x2, asked)
        /\ PhaseTrue(shared', sess, srv, g, x2, asked)
    <3>1. Kept(s2c, s2c, "ROWS") /\ (shared.gap => shared'.gap) /\ p \cap Ids \subseteq p
          /\ (shared'.gap \/ HolesFewer(srv, g, x, srv, g, x2))
      BY <1>5, <2>5, KeptSame
    <3>. QED
      BY <1>2, <1>5, <2>2, <3>1, RowTaken
  <2>7. HttpReads(http', srv, g, q2, x2, asked)
    <3>1. /\ http.ticket <= Len(asked) /\ Reach(asked, http.ticket, UpTo(srv, http.st.head))
          /\ Covered(srv, http.next - 1, q) /\ (http.gapSame => Within(srv, g, x, http.st.head))
      BY <1>1, <2>2 DEF HttpReads, Answered
    <3>2. Covered(srv, seq, q2)
      BY <1>2, <1>8, <2>4, <3>1, CoveredRow DEF seq
    <3>3. http'.next - 1 = seq
      BY <1>2, <1>6 DEF seq
    <3>4. http'.gapSame => Within(srv, g, x2, http.st.head)
      BY <1>6, <2>5, <3>1, WithinFewer
    <3>. QED
      BY <1>6, <3>1, <3>2, <3>3, <3>4 DEF HttpReads
  <2>8. Ledger(shared', sess, http', c2s, s2c, srv, g, Doc, asked)
    BY <2>2, <2>3, <2>6, <2>7, LedgerParts DEF p, q2, x2
  <2>. QED
    BY <1>1, <2>8
<1>. QED
  BY <1>1, <1>7, <1>9, StillEnd

LEMMA HttpApplyRowLedger ==
  ASSUME Start, HttpApplyRow
  PROVE  ReadInv' /\ LedgerTrue'
<1>. DEFINE same == ~Parks(http.row)
            g  == sink'.got
            d  == Doc'
            r  == srv'
<1>1. /\ UNCHANGED <<srv, needs, asked, c2s, s2c>> /\ http.row # NoRow /\ sink' = Imported(http.row)
      /\ shared' = RowOutcome(http.row)
      /\ http' = [http EXCEPT !.row = NoRow, !.causalSame = @ /\ same]
      /\ sess' = [sess EXCEPT !.causalSame = @ /\ same]
  BY DEF HttpApplyRow
<1>2. /\ shared \in SharedType /\ sess \in SessType /\ http \in HttpType /\ http.row \in RowType
      /\ srv \in SrvType /\ r \in SrvType /\ asked \in Seq(SUBSET Ids) /\ Len(asked) \in Nat
      /\ sink \in SinkType
  BY StartTypes DEF HttpType
<1>3. SameReads(shared, shared')
  BY <1>1, <1>2, LandedReads
<1>4. sink'.got = sink.got \cup {http.row.id}
  BY <1>1, <1>2 DEF Imported, SinkType
<1>. HIDE DEF same
<1>5. sess'.phase = sess.phase /\ sess'.head = sess.head /\ sess'.ticket = sess.ticket
      /\ sess'.refresh = sess.refresh /\ sess'.row = sess.row
  BY <1>1, <1>2 DEF SessType
<1>6. http'.phase = http.phase /\ http'.ticket = http.ticket /\ http'.st = http.st
      /\ http'.next = http.next /\ http'.gapSame = http.gapSame /\ http'.row = NoRow
  BY <1>1, <1>2 DEF HttpType
<1>7. ReadInv'
  BY <1>1, <1>3, <1>5, SameTalkRead DEF SameReads
<1>8. ASSUME Calm(env)
      PROVE  Ledger(shared', sess', http', c2s', s2c', r, g, d, asked')
  <2>1. http.row.id \in Hands(sink.got, sess, http)
    BY DEF Hands
  <2>2. Ledger(shared, sess, http, c2s, s2c, r, g, d, asked)
    BY <1>1, <1>4, <1>8, <2>1, LandedRow
  <2>3. http.row.id \in g
    BY <1>4
  <2>. HIDE DEF g, d, r
  <2>4. /\ Held1(g, http) \cap Ids \subseteq Held1(g, http')
        /\ Held1(g, sess) \cap Ids \subseteq Held1(g, sess')
        /\ Hands(g, sess', http') \cap Remote \subseteq Hands(g, sess, http)
    BY <1>5, <1>6, <2>3, BaseIsNoRow DEF Held1, Hands
  <2>5. /\ DoneTrue(shared, r, d, asked) /\ AskTrue(c2s, r, g)
        /\ sess.ticket <= Len(asked) /\ sess.refresh <= Len(asked)
        /\ FramesHold(shared, sess, s2c, r, g, Held1(g, sess), Hands(g, sess, http), asked)
        /\ PhaseTrue(shared, sess, r, g, Hands(g, sess, http), asked)
        /\ HttpReads(http, r, g, Held1(g, http), Hands(g, sess, http), asked)
    BY <2>2, LedgerParts
  <2>6. DoneTrue(shared', r, d, asked)
    BY <1>3, <2>5 DEF DoneTrue, SameReads
  <2>7. FramesHold(shared', sess', s2c, r, g, Held1(g, sess'), Hands(g, sess', http'), asked)
        /\ PhaseTrue(shared', sess', r, g, Hands(g, sess', http'), asked)
    <3>1. HolesFewer(r, g, Hands(g, sess, http), r, g, Hands(g, sess', http'))
      BY <2>4, LessHands
    <3>2. Kept(s2c, s2c, "ROWS") /\ (shared.gap => shared'.gap)
          /\ shared'.rowsReqOut = shared.rowsReqOut
      BY <1>3, KeptSame DEF SameReads
    <3>. QED
      BY <1>2, <1>5, <2>4, <2>5, <3>1, <3>2, RowTaken
  <2>8. HttpReads(http', r, g, Held1(g, http'), Hands(g, sess', http'), asked)
    <3>1. HttpReads(http, r, g, Held1(g, http'), Hands(g, sess', http'), asked)
      BY <1>2, <2>4, <2>5, SameHolds
    <3>. QED
      BY <1>6, <3>1 DEF HttpReads
  <2>9. sess'.ticket <= Len(asked) /\ sess'.refresh <= Len(asked)
    BY <1>5, <2>5
  <2>10. Ledger(shared', sess', http', c2s, s2c, r, g, d, asked)
    BY <2>5, <2>6, <2>7, <2>8, <2>9, LedgerParts
  <2>. QED
    BY <1>1, <2>10
<1>. QED
  BY <1>1, <1>7, <1>8, StartEnd

-----------------------------------------------------------------------------
(* A wake asks for the rows there are, and no read before it completes it. *)

LEMMA AskedElements ==
  ASSUME NEW a \in Seq(SUBSET Ids), NEW S \in SUBSET Ids
  PROVE  /\ Len(a) \in Nat /\ DOMAIN a = 1 .. Len(a) /\ Len(Append(a, S)) = Len(a) + 1
         /\ DOMAIN Append(a, S) = 1 .. (Len(a) + 1)
         /\ \A t \in DOMAIN a : Append(a, S)[t] = a[t]
         /\ Append(a, S)[Len(a) + 1] = S
OBVIOUS

LEMMA AskedReach ==
  ASSUME NEW a \in Seq(SUBSET Ids), NEW S \in SUBSET Ids, NEW n \in Nat, n <= Len(a), NEW T, Reach(a, n, T)
  PROVE  Reach(Append(a, S), n, T)
<1>. DEFINE b == Append(a, S)
            l == Len(a)
<1>1. l \in Nat /\ DOMAIN a = 1 .. l /\ DOMAIN b = 1 .. (l + 1) /\ \A t \in DOMAIN a : b[t] = a[t]
  BY AskedElements
<1>2. n <= l
  OBVIOUS
<1>. HIDE DEF b, l
<1>3. \A t \in DOMAIN b : t <= n => t \in DOMAIN a /\ b[t] = a[t]
  BY <1>1, <1>2
<1>4. Reach(b, n, T)
  BY <1>3 DEF Reach
<1>. QED
  BY <1>4 DEF b

LEMMA RequestCatchUpLedger ==
  ASSUME Start, RequestCatchUp
  PROVE  ReadInv' /\ LedgerTrue'
<1>. DEFINE S == Rows(srv.log)
            a == asked
            b == Append(asked, Rows(srv.log))
<1>1. /\ UNCHANGED <<srv, needs, c2s, s2c, sess, http, sink>> /\ asked' = b /\ sink.slot = "live"
      /\ shared' = [shared EXCEPT !.refReq = @ + 1]
  BY DEF RequestCatchUp
<1>2. /\ srv \in SrvType /\ a \in Seq(SUBSET Ids) /\ shared \in SharedType /\ sess \in SessType
      /\ http \in HttpType /\ S \in SUBSET Ids
  BY StartTypes DEF SrvType, Rows
<1>3. /\ shared'.rowsReqOut = shared.rowsReqOut /\ shared'.gap = shared.gap
      /\ shared'.refReq = shared.refReq + 1 /\ shared'.refDone = shared.refDone
      /\ shared.refReq \in Nat /\ shared.refDone \in Nat
  BY <1>1, <1>2, BoundsAreNat DEF SharedType
<1>4. ReadInv'
  BY <1>1, <1>3, SameTalkRead
<1>5. sess.ticket \in Nat /\ sess.refresh \in Nat /\ http.ticket \in Nat
  BY <1>2, BoundsAreNat DEF SessType, HttpType
<1>6. /\ Len(a) \in Nat /\ DOMAIN a = 1 .. Len(a) /\ Len(b) = Len(a) + 1
      /\ DOMAIN b = 1 .. (Len(a) + 1) /\ \A t \in DOMAIN a : b[t] = a[t]
      /\ b[Len(a) + 1] = S
  BY <1>2, AskedElements
<1>7. ASSUME NEW n \in Nat, n <= Len(a), NEW T, Reach(a, n, T)  PROVE Reach(b, n, T)
  BY <1>2, <1>7, AskedReach
<1>8. ASSUME Reach(a, Len(a), S)  PROVE Reach(b, Len(b), S)
  <2>1. \A t \in DOMAIN a : t <= Len(a)
    BY <1>6
  <2>. HIDE DEF b, S
  <2>2. \A t \in DOMAIN b : t \in DOMAIN a \/ t = Len(a) + 1
    BY <1>6
  <2>. QED
    BY <1>6, <1>8, <2>1, <2>2 DEF Reach
<1>. HIDE DEF a, b, S
<1>9. ASSUME Calm(env)
      PROVE  Ledger(shared', sess', http', c2s', s2c', srv', sink'.got, Doc', asked')
  <2>. DEFINE g == sink.got
              p == Held1(sink.got, sess)
              q == Held1(sink.got, http)
              x == Hands(sink.got, sess, http)
  <2>1. Ledger(shared, sess, http, c2s, s2c, srv, g, Doc, a)
    BY <1>9, NowLedger DEF a
  <2>2. /\ DoneTrue(shared, srv, Doc, a) /\ AskTrue(c2s, srv, g)
        /\ sess.ticket <= Len(a) /\ sess.refresh <= Len(a)
        /\ FramesHold(shared, sess, s2c, srv, g, p, x, a)
        /\ PhaseTrue(shared, sess, srv, g, x, a)
        /\ HttpReads(http, srv, g, q, x, a)
    BY <2>1, LedgerParts
  <2>. HIDE DEF g, p, q, x
  <2>3. DoneTrue(shared', srv, Doc, b)
    <3>1. Len(b) = shared'.refReq /\ shared'.refDone <= Len(b) /\ shared.refDone <= Len(a)
      BY <1>3, <1>6, <2>2 DEF DoneTrue
    <3>2. Reach(b, shared'.refDone, Doc \cup Trimmed(srv))
      BY <1>3, <1>7, <2>2, <3>1 DEF DoneTrue
    <3>3. Reach(b, Len(b), Rows(srv.log))
      BY <1>8, <2>2 DEF DoneTrue, S
    <3>. QED
      BY <3>1, <3>2, <3>3 DEF DoneTrue
  <2>4. ASSUME NEW f, FrameTrue(f, shared, sess, srv, g, p, x, a)
        PROVE  FrameTrue(f, shared', sess, srv, g, p, x, b)
    <3>1. Reach(b, sess.ticket, UpTo(srv, f.head)) /\ Reach(b, sess.refresh, UpTo(srv, f.head))
      BY <1>5, <1>7, <2>2, <2>4 DEF FrameTrue
    <3>. QED
      BY <1>3, <2>4, <3>1 DEF FrameTrue
  <2>5. FramesHold(shared', sess, s2c, srv, g, p, x, b)
    BY <2>2, <2>4 DEF FramesHold
  <2>6. PhaseTrue(shared', sess, srv, g, x, b)
    <3>1. sess.phase = "drain" => Reach(b, sess.ticket, UpTo(srv, sess.head))
      BY <1>5, <1>7, <2>2 DEF PhaseTrue
    <3>. QED
      BY <1>3, <2>2, <3>1 DEF PhaseTrue
  <2>7. HttpReads(http, srv, g, q, x, b)
    <3>1. http.ticket <= Len(a) /\ http.ticket <= Len(b)
      BY <1>5, <1>6, <2>2 DEF HttpReads
    <3>2. http.phase \in Answered => Reach(b, http.ticket, UpTo(srv, http.st.head))
      BY <1>5, <1>7, <2>2, <3>1 DEF HttpReads
    <3>. QED
      BY <2>2, <3>1, <3>2 DEF HttpReads
  <2>8. sess.ticket <= Len(b) /\ sess.refresh <= Len(b)
    BY <1>5, <1>6, <2>2
  <2>9. Ledger(shared', sess, http, c2s, s2c, srv, g, Doc, b)
    BY <2>2, <2>3, <2>5, <2>6, <2>7, <2>8, LedgerParts DEF g, p, q, x
  <2>10. Doc' = Doc
    BY <1>1 DEF Doc
  <2>. QED
    BY <1>1, <2>9, <2>10 DEF g
<1>. QED
  BY <1>1, <1>4, <1>9, StartEnd

-----------------------------------------------------------------------------
(* The HTTPS cycle: what it may certify, its answer, and its end.          *)

LEMMA HttpCaptureLedger ==
  ASSUME Start, HttpCapture
  PROVE  ReadInv' /\ LedgerTrue'
<1>1. /\ UNCHANGED <<srv, needs, asked, c2s, s2c, sess, sink>>
      /\ http' = [http EXCEPT !.phase = "get", !.cursor = shared.cursor,
                          !.ticket = shared.refReq, !.epochSame = TRUE, !.gapSame = TRUE]
      /\ shared' = [shared EXCEPT !.httpLive = FALSE]
  BY DEF HttpCapture
<1>2. /\ srv \in SrvType /\ shared \in SharedType /\ http \in HttpType
      /\ asked \in Seq(SUBSET Ids) /\ Len(asked) \in Nat
  BY StartTypes
<1>3. SameReads(shared, shared')
  BY <1>1, <1>2 DEF SameReads, SharedType
<1>4. http'.phase = "get" /\ http'.ticket = shared.refReq /\ http'.row = http.row
  BY <1>1, <1>2 DEF HttpType
<1>5. ReadInv'
  BY <1>1, <1>3, SameTalkRead DEF SameReads
<1>6. ASSUME Calm(env)
      PROVE  Ledger(shared', sess', http', c2s', s2c', srv, sink.got, Doc, asked)
  <2>. DEFINE g == sink.got
              x == Hands(sink.got, sess, http)
  <2>1. Ledger(shared, sess, http, c2s, s2c, srv, g, Doc, asked)
    BY <1>6, NowLedger
  <2>2. /\ DoneTrue(shared, srv, Doc, asked) /\ AskTrue(c2s, srv, g)
        /\ sess.ticket <= Len(asked) /\ sess.refresh <= Len(asked)
        /\ FramesHold(shared, sess, s2c, srv, g, Held1(g, sess), x, asked)
        /\ PhaseTrue(shared, sess, srv, g, x, asked)
    BY <2>1, LedgerParts
  <2>3. Hands(g, sess, http') = x
    BY <1>4 DEF Hands
  <2>. HIDE DEF g, x
  <2>4. DoneTrue(shared', srv, Doc, asked)
    BY <1>3, <2>2 DEF DoneTrue, SameReads
  <2>5. FramesHold(shared', sess, s2c, srv, g, Held1(g, sess), x, asked)
    BY <1>3, <2>2 DEF FramesHold, FrameTrue, SameReads
  <2>6. PhaseTrue(shared', sess, srv, g, x, asked)
    BY <1>3, <2>2 DEF PhaseTrue, SameReads
  <2>7. HttpReads(http', srv, g, Held1(g, http'), x, asked)
    <3>1. http'.ticket = Len(asked) /\ http'.phase \notin Answered
      BY <1>4, <2>2 DEF DoneTrue, Answered
    <3>. QED
      BY <1>2, <3>1 DEF HttpReads
  <2>8. Ledger(shared', sess, http', c2s, s2c, srv, g, Doc, asked)
    BY <2>2, <2>3, <2>4, <2>5, <2>6, <2>7, LedgerParts
  <2>. QED
    BY <1>1, <2>8 DEF g
<1>. QED
  BY <1>1, <1>5, <1>6, StillEnd

LEMMA HttpServeLedger ==
  ASSUME Start, HttpServe
  PROVE  ReadInv' /\ LedgerTrue'
<1>. DEFINE n == MaxOf(http.cursor, srv.ckpt) + 1
            q == Held1(sink.got, http')
            x == Hands(sink.got, sess, http)
<1>1. /\ UNCHANGED <<srv, needs, asked, c2s, s2c, shared, sess, sink>> /\ http.phase = "get"
      /\ http' = [http EXCEPT !.phase = "answer", !.st = StateOf(srv), !.log = srv.log, !.next = n]
  BY DEF HttpServe
<1>2. /\ srv \in SrvType /\ asked \in Seq(SUBSET Ids) /\ http \in HttpType
      /\ srv.ckpt \in Nat /\ Len(srv.log) \in Nat /\ srv.log \in Seq(Ids) /\ http.cursor \in Nat
  BY StartTypes DEF SrvType, HttpType
<1>3. /\ http'.phase = "answer" /\ http'.st.head = Len(srv.log) /\ http'.next = n
      /\ http'.ticket = http.ticket /\ http'.row = http.row
  BY <1>1, <1>2 DEF HttpType, StateOf
<1>4. ReadInv'
  BY <1>1, SameTalkRead
<1>5. x = Hands(sink.got, sess, http') /\ sink.got \subseteq q
  BY <1>3 DEF Hands, Held1
<1>6. ASSUME Calm(env)
      PROVE  Ledger(shared, sess, http', c2s, s2c, srv, sink.got, Doc, asked)
  <2>1. Ledger(shared, sess, http, c2s, s2c, srv, sink.got, Doc, asked)
    BY <1>6, NowLedger
  <2>2. Covered(srv, http.cursor, sink.got)
    <3>1. Unwiped(env)
      BY <1>6 DEF Calm, Unwiped
    <3>2. Sound(http.cursor, srv, Doc, env)
      BY <3>1, FromStart DEF CursorInv, TalkTrue, HttpTrue
    <3>. QED
      BY <1>6, <3>2, SoundCovered, DocInGot
  <2>3. Covered(srv, n - 1, q)
    <3>1. srv.ckpt <= Len(srv.log)
      BY FromStart DEF CursorInv, WorldTrue, RoomTrue
    <3>2. n - 1 = MaxOf(http.cursor, srv.ckpt) /\ n - 1 <= Len(srv.log)
      BY <1>2, <2>2, <3>1 DEF MaxOf, Covered
    <3>3. Held(srv, MaxOf(http.cursor, srv.ckpt)) \subseteq Held(srv, http.cursor)
      BY <1>2 DEF Held, MaxOf
    <3>. QED
      BY <1>5, <2>2, <3>2, <3>3 DEF Covered
  <2>4. Rows(srv.log) = UpTo(srv, Len(srv.log))
    BY <1>2 DEF Rows, UpTo
  <2>5. Reach(asked, Len(asked), UpTo(srv, Len(srv.log))) /\ http.ticket <= Len(asked)
    BY <2>1, <2>4 DEF Ledger, DoneTrue, HttpReads
  <2>6. http.ticket \in Nat /\ Len(asked) \in Nat /\ DOMAIN asked \subseteq Nat
    BY <1>2, BoundsAreNat DEF HttpType
  <2>7. Reach(asked, http.ticket, UpTo(srv, Len(srv.log)))
    BY <2>5, <2>6, ReachUp
  <2>8. Within(srv, sink.got, x, Len(srv.log))
    BY <1>2 DEF Within, HoleAt
  <2>. HIDE DEF n, q, x
  <2>9. HttpReads(http', srv, sink.got, q, x, asked)
    BY <1>3, <2>3, <2>5, <2>7, <2>8 DEF HttpReads
  <2>10. /\ DoneTrue(shared, srv, Doc, asked) /\ AskTrue(c2s, srv, sink.got)
         /\ SessReads(shared, sess, s2c, srv, sink.got, Held1(sink.got, sess), x, asked)
    BY <2>1 DEF Ledger, x
  <2>. QED
    BY <1>5, <2>9, <2>10 DEF Ledger, q
<1>7. Calm(env) => Ledger(shared', sess', http', c2s', s2c', srv, sink.got, Doc, asked)
  BY <1>1, <1>6
<1>. QED
  BY <1>1, <1>4, <1>7, StillEnd

LEMMA HttpDoneLedger ==
  ASSUME Start, HttpDone
  PROVE  ReadInv' /\ LedgerTrue'
<1>. DEFINE ok == http.epochSame /\ shared.cursor >= http.st.head /\ ~shared.needsCkpt
            gap == shared.gap /\ ~http.gapSame
            x == Hands(sink.got, sess, http)
<1>1. /\ UNCHANGED <<srv, needs, asked, c2s, s2c, sess, sink>> /\ http.phase = "rows"
      /\ http.row = NoRow /\ http.next > http.st.head /\ http' = IdleHttp
      /\ shared' = Certified(shared, http)
  BY DEF HttpDone
<1>2. /\ srv \in SrvType /\ asked \in Seq(SUBSET Ids) /\ Len(asked) \in Nat /\ shared \in SharedType
      /\ sess \in SessType /\ http \in HttpType
  BY StartTypes
<1>3. http.next \in Nat /\ http.st.head \in Nat /\ http.ticket \in Nat /\ shared.cursor \in Nat
  BY <1>2, BoundsAreNat DEF HttpType, StateFrame, SharedType
<1>4. /\ shared'.rowsReqOut = shared.rowsReqOut /\ shared'.refReq = shared.refReq
      /\ ok => /\ shared'.gap = gap
               /\ shared'.refDone \in {shared.refDone, MaxOf(shared.refDone, http.ticket)}
      /\ ~ok => shared'.gap = shared.gap /\ shared'.refDone = shared.refDone
  BY <1>1, <1>2 DEF Certified, SharedType
<1>5. ReadInv'
  BY <1>1, <1>4, SameTalkRead
<1>6. http'.phase = "idle" /\ http'.ticket = 0 /\ http'.row = NoRow
  BY <1>1 DEF IdleHttp
<1>7. x = Hands(sink.got, sess, http')
  BY <1>1, <1>6 DEF Hands
<1>8. ASSUME Calm(env)
      PROVE  Ledger(shared', sess, http', c2s, s2c, srv, sink.got, Doc, asked)
  <2>. DEFINE g == sink.got
  <2>1. Ledger(shared, sess, http, c2s, s2c, srv, g, Doc, asked)
    BY <1>8, NowLedger
  <2>2. /\ AskTrue(c2s, srv, g)
        /\ sess.ticket <= Len(asked) /\ sess.refresh <= Len(asked)
        /\ FramesHold(shared, sess, s2c, srv, g, Held1(g, sess), x, asked)
        /\ PhaseTrue(shared, sess, srv, g, x, asked)
        /\ HttpReads(http, srv, g, Held1(g, http), x, asked)
    BY <2>1, LedgerParts
  <2>3. /\ http.ticket <= Len(asked) /\ Reach(asked, http.ticket, UpTo(srv, http.st.head))
        /\ Covered(srv, http.next - 1, g \cup {Base})
        /\ (http.gapSame => Within(srv, g, x, http.st.head))
    <3>1. Held1(g, http) = g \cup {Base}
      BY <1>1, BaseIsNoRow DEF Held1
    <3>. QED
      BY <1>1, <2>2, <3>1 DEF HttpReads, Answered
  <2>4. DoneTrue(shared', srv, Doc, asked)
    <3>1. \/ shared'.refDone = shared.refDone
          \/ shared.cursor >= http.st.head /\ shared'.refDone = MaxOf(shared.refDone, http.ticket)
      BY <1>4
    <3>. HIDE DEF g, x, ok, gap
    <3>. QED
      BY <1>3, <1>4, <1>8, <2>3, <3>1, RaisedDone
  <2>5. http.gapSame => \A m : Within(srv, g, x, m)
    <3>1. http.next - 1 \in Int /\ http.st.head <= http.next - 1
      BY <1>1, <1>3
    <3>. HIDE DEF g, x
    <3>. QED
      BY <1>2, <1>3, <2>3, <3>1, ReadThrough
  <2>6. (shared.gap => shared'.gap) \/ \A m : Within(srv, g, x, m)
    BY <1>4, <2>5
  <2>. HIDE DEF g, x, ok, gap
  <2>7. FramesHold(shared', sess, s2c, srv, g, Held1(g, sess), x, asked)
    BY <2>2, <2>6 DEF FramesHold, FrameTrue
  <2>8. PhaseTrue(shared', sess, srv, g, x, asked)
    BY <1>4, <2>2, <2>6 DEF PhaseTrue
  <2>9. HttpReads(http', srv, g, Held1(g, http'), x, asked)
    BY <1>2, <1>6 DEF HttpReads, Answered
  <2>10. Ledger(shared', sess, http', c2s, s2c, srv, g, Doc, asked)
    BY <1>7, <2>2, <2>4, <2>7, <2>8, <2>9, LedgerParts DEF g
  <2>. QED
    BY <2>10 DEF g
<1>9. Calm(env) => Ledger(shared', sess', http', c2s', s2c', srv, sink.got, Doc, asked)
  BY <1>1, <1>8
<1>. QED
  BY <1>1, <1>5, <1>9, StillEnd

-----------------------------------------------------------------------------
(* A kill and a wipe leave no read, and nothing the ledger speaks of.      *)

LEMMA LostReads ==
  ASSUME WorldInv, TalkInv, ReadInv, Crash \/ Wipe
  PROVE  ReadInv' /\ LedgerTrue'
<1>1. env \in EnvType
  BY DEF WorldInv
<1>2. CASE Crash
  <2>1. c2s' = <<>> /\ s2c' = <<>> /\ sess' = NewSess /\ env' = [env EXCEPT !.crashes = @ + 1]
    BY <1>2 DEF Crash
  <2>2. sess'.ticket = 0 /\ sess'.refresh = 0
    BY <2>1 DEF NewSess
  <2>3. ~Calm(env')
    BY <1>1, <2>1 DEF Calm, EnvType
  <2>. QED
    BY <2>1, <2>2, <2>3, ClosedOneRead DEF ReadInv, LedgerTrue
<1>3. CASE Wipe
  <2>1. env' = [env EXCEPT !.wipes = @ + 1]
    BY <1>3 DEF Wipe
  <2>2. ~Calm(env')
    BY <1>1, <2>1 DEF Calm, EnvType
  <2>3. ReadInv'
    <3>1. CASE sess.phase = "down"
      BY <1>3, <3>1 DEF Wipe, ReadInv
    <3>2. CASE sess.phase # "down"
      BY <1>3, <3>2, EndSessionOneRead DEF Wipe
    <3>. QED
      BY <3>1, <3>2
  <2>. QED
    BY <2>2, <2>3 DEF LedgerTrue
<1>. QED
  BY <1>2, <1>3

(* The steps that send, ask and answer nothing of a read.                  *)
AsideStep == \/ HandOver \/ Handed \/ GoLive \/ Enqueue \/ EnqueueEarly \/ Probe \/ Redial
             \/ FlushSample \/ FlushSave \/ PostCheckpoint
             \/ DialFail \/ HttpPersist \/ HttpFail \/ HttpState \/ HttpFetch \/ HttpSettle \/ HttpAck
             \/ ServeHello \/ ServePush \/ SkipStale \/ HttpPost
             \/ (\E r \in Remote, kind \in Kinds : RemoteAppend(r, kind))

LEMMA AsideStepReads ==
  ASSUME Start, AsideStep
  PROVE  ReadInv' /\ LedgerTrue'
<1>1. Quiet
  BY FromStart, BookQuiet, CycleQuiet, FramesQuiet DEF AsideStep
<1>2. ReadInv'
  BY <1>1, FromStart, QuietOneRead DEF Quiet, SameReads
<1>3. WorldInv /\ TalkInv /\ WorldInv' /\ OutboxInv /\ CursorInv /\ RoomClean /\ LedgerTrue /\ Keeps
  BY DEF Start, LedgerInv
<1>4. LedgerTrue'
  BY <1>3, StillStepLedger, EditLedger, RoomMovesLedger, PostCheckpointLedger, HttpFetchLedger
     DEF AsideStep
<1>. QED
  BY <1>2, <1>4

LEMMA StepReads ==
  ASSUME Start, Next, ~Crash, ~Wipe
  PROVE  ReadInv' /\ LedgerTrue'
<1>1. CASE Server
  BY <1>1, ServeRowsLedger, AsideStepReads DEF Server, AsideStep
<1>2. CASE Room
  BY <1>2, AsideStepReads DEF Room, AsideStep
<1>3. CASE Session
  <2>1. CASE Dial \/ SkipStale \/ SessState \/ SessPlan \/ SessFetch \/ SessRow \/ SessApplyRow
    BY <2>1, DialLedger, AsideStepReads, SessStateLedger, SessPlanLedger, SessFetchLedger,
       SessRowLedger, SessApplyRowLedger DEF AsideStep
  <2>2. CASE SessAck \/ SessReject \/ SessQuota \/ SessDefer \/ SessJoin \/ SessDone
    BY <2>2, SessAckLedger, SessRejectLedger, SessQuotaLedger, SessDeferLedger, SessJoinLedger,
       SessDoneLedger
  <2>3. CASE SessNudge \/ SessProbe \/ SessRedial \/ SessRetry
    BY <2>3, SessNudgeLedger, SessProbeLedger, LossLedger, SessRetryLedger
  <2>. QED
    BY <1>3, <2>1, <2>2, <2>3 DEF Session
<1>4. CASE Https
  BY <1>4, AsideStepReads, HttpCaptureLedger, HttpServeLedger, HttpRowLedger, HttpApplyRowLedger,
     HttpDoneLedger DEF Https, AsideStep
<1>5. CASE Join
  BY <1>5, ConnectLedger, AsideStepReads DEF Join, AsideStep
<1>6. CASE Api
  BY <1>6, RequestCatchUpLedger, AsideStepReads DEF Api, AsideStep
<1>7. CASE Disk
  BY <1>7, AsideStepReads DEF Disk, AsideStep
<1>8. CASE Fault
  BY <1>8, AsideStepReads, LossLedger DEF Fault, AsideStep
<1>. QED
  BY <1>1, <1>2, <1>3, <1>4, <1>5, <1>6, <1>7, <1>8 DEF Next

-----------------------------------------------------------------------------
(* The invariant, and what it says of the reads.                           *)

LEMMA InitLedger == Init => LedgerInv
<1>. SUFFICES ASSUME Init  PROVE LedgerInv
  OBVIOUS
<1>1. /\ c2s = <<>> /\ s2c = <<>> /\ asked = <<>> /\ shared = NewShared(0, {}) /\ sess = NewSess
      /\ http = IdleHttp /\ srv.log = <<>>
  BY DEF Init
<1>2. sess.ticket = 0 /\ sess.refresh = 0 /\ sess.phase = "down"
  BY <1>1 DEF NewSess
<1>3. ReadInv
  BY <1>1, <1>2, ClosedOneRead DEF ReadInv
<1>4. RoomClean
  BY <1>1 DEF RoomClean
<1>5. shared.refReq = 0 /\ shared.refDone = 0
  BY <1>1 DEF NewShared
<1>6. DoneTrue(shared, srv, Doc, asked)
  BY <1>1, <1>5 DEF DoneTrue, Reach
<1>7. AskTrue(c2s, srv, sink.got)
  BY <1>1 DEF AskTrue
<1>8. SessReads(shared, sess, s2c, srv, sink.got, Held1(sink.got, sess), Hands(sink.got, sess, http), asked)
  BY <1>1, <1>2 DEF SessReads
<1>9. HttpReads(http, srv, sink.got, Held1(sink.got, http), Hands(sink.got, sess, http), asked)
  BY <1>1 DEF HttpReads, IdleHttp, Answered
<1>10. LedgerTrue
  BY <1>1, <1>6, <1>7, <1>8, <1>9 DEF LedgerTrue, Ledger
<1>. QED
  BY <1>3, <1>4, <1>10 DEF LedgerInv

LEMMA StillStepReads ==
  ASSUME Start, UNCHANGED vars
  PROVE  ReadInv' /\ LedgerTrue'
<1>1. UNCHANGED <<shared, sess, c2s, s2c, http, asked>> /\ UNCHANGED <<srv, needs>> /\ sink'.got = sink.got
  BY DEF vars
<1>2. Quiet
  BY <1>1, StillQuiet
<1>3. ReadInv'
  BY <1>2, FromStart, QuietOneRead DEF Quiet, SameReads
<1>4. WorldFurther /\ NoNewHole
  BY <1>1, FromStart, StillFurther
<1>5. WorldInv /\ TalkInv /\ WorldInv' /\ LedgerTrue /\ Keeps
  BY DEF Start, LedgerInv
<1>6. LedgerTrue'
  BY <1>2, <1>4, <1>5, QuietStepLedger
<1>. QED
  BY <1>3, <1>6

LEMMA StepLedger ==
  ASSUME WorldInv, TalkInv, WorldInv', TalkInv', OutboxInv, CursorInv, CursorInv', LedgerInv, [Next]_vars
  PROVE  LedgerInv'
<1>1. RoomClean'
  BY StepRoomClean DEF LedgerInv
<1>2. CASE Crash \/ Wipe
  <2>1. ReadInv' /\ LedgerTrue'
    BY <1>2, LostReads DEF LedgerInv
  <2>. QED
    BY <1>1, <2>1 DEF LedgerInv
<1>3. CASE ~Crash /\ ~Wipe
  <2>1. Keeps
    BY <1>3, StepKeeps
  <2>2. Start
    BY <2>1 DEF Start
  <2>3. ReadInv' /\ LedgerTrue'
    BY <1>3, <2>2, StepReads, StillStepReads
  <2>. QED
    BY <1>1, <2>3 DEF LedgerInv
<1>. QED
  BY <1>2, <1>3

LEMMA LedgerAlways == Spec => [](TypeInv /\ LedgerInv)
<1>1. Init => OutboxInv /\ CursorInv /\ LedgerInv
  BY InitOutbox, InitCursor, InitLedger
<1>2. TypeInv /\ OutboxInv /\ CursorInv /\ LedgerInv /\ [Next]_vars
      => OutboxInv' /\ CursorInv' /\ LedgerInv'
  BY TypeInvParts, StepType, StepOutbox, StepCursor, StepLedger
<1>. QED
  BY <1>1, <1>2, TypeCorrect, PTL DEF Spec

(* Until the process is killed or the room wiped, a hole is remembered: in *)
(* the steady state a row of another device never stands in the document   *)
(* beyond one the room still serves and the document lacks, unless the gap *)
(* is flagged or a read is out (ChatClient's GapRemembered).               *)
THEOREM GapRememberedUntilKill == Spec => [](Calm(env) => GapRemembered)
<1>1. TypeInv /\ LedgerInv => (Calm(env) => GapRemembered)
  <2>. SUFFICES ASSUME WorldInv, LedgerInv, Calm(env), sess.phase = "steady", Hole
                PROVE  shared.gap \/ shared.rowsReqOut \/ shared.needsCkpt
    BY TypeInvParts DEF GapRemembered
  <2>1. Ledger(shared, sess, http, c2s, s2c, srv, sink.got, Doc, asked)
    BY DEF LedgerInv, LedgerTrue
  <2>2. shared.gap \/ shared.rowsReqOut \/ Within(srv, sink.got, Hands(sink.got, sess, http), 0)
    BY <2>1 DEF Ledger, SessReads
  <2>3. PICK s \in DOMAIN srv.log : \E t \in DOMAIN srv.log : srv.ckpt < s /\ s < t
           /\ srv.log[s] \notin sink.got /\ srv.log[t] \in Remote \cap sink.got
    BY DEF Hole
  <2>4. PICK t \in DOMAIN srv.log : srv.ckpt < s /\ s < t
           /\ srv.log[s] \notin sink.got /\ srv.log[t] \in Remote \cap sink.got
    BY <2>3
  <2>5. HoleAt(srv, sink.got, Hands(sink.got, sess, http), s, t)
    BY <2>4 DEF HoleAt, Hands
  <2>6. ~(t <= 0)
    BY DEF WorldInv, SrvType
  <2>. QED
    BY <2>2, <2>5, <2>6 DEF Within
<1>. QED
  BY <1>1, LedgerAlways, PTL

(* What a completed wake asked for is in the document, or trimmed since    *)
(* into a checkpoint.                                                      *)
LandedOrTrimmed == \A t \in DOMAIN asked : Completed(t) => asked[t] \subseteq Doc \cup Trimmed(srv)

LEMMA LandedAlways == Spec => [](TypeInv /\ (Calm(env) => LandedOrTrimmed))
<1>1. LedgerInv => (Calm(env) => LandedOrTrimmed)
  <2>. SUFFICES ASSUME LedgerInv, Calm(env), NEW t \in DOMAIN asked, Completed(t)
                PROVE  asked[t] \subseteq Doc \cup Trimmed(srv)
    BY DEF LandedOrTrimmed
  <2>1. Reach(asked, shared.refDone, Doc \cup Trimmed(srv))
    BY DEF LedgerInv, LedgerTrue, Ledger, DoneTrue
  <2>2. t <= shared.refDone
    BY DEF Completed
  <2>. QED
    BY <2>1, <2>2 DEF Reach
<1>. QED
  BY <1>1, LedgerAlways, PTL

(* Until then a wake that is completed has what it asked for: whatever was *)
(* in the room when it arrived is visible in the document (ChatClient's    *)
(* RefreshFresh), or a checkpoint has trimmed it since, in whatever order  *)
(* the answers of the two transports land.  A read sent before the wake    *)
(* never completes it.                                                     *)
THEOREM WakeIsAnswered ==
  Spec => [](Calm(env) => LandedOrTrimmed /\ (srv.ckpt = 0 => RefreshFresh))
<1>1. TypeInv /\ LandedOrTrimmed => (srv.ckpt = 0 => RefreshFresh)
  <2>. SUFFICES ASSUME WorldInv, LandedOrTrimmed, srv.ckpt = 0  PROVE RefreshFresh
    BY TypeInvParts
  <2>1. DOMAIN srv.log \subseteq Nat \ {0}
    BY DEF WorldInv, SrvType
  <2>2. Trimmed(srv) = {}
    BY <2>1 DEF Trimmed, UpTo
  <2>. QED
    BY <2>2 DEF LandedOrTrimmed, RefreshFresh, Doc
<1>. QED
  BY <1>1, LandedAlways, PTL

=============================================================================

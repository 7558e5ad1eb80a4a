-------------------------- MODULE ChatClient_proofs --------------------------
(***************************************************************************)
(* Proofs about ChatClient, for every number of batches, every set of      *)
(* remote rows and every bound: type correctness, and that the client and  *)
(* its room implement the abstract outbox.                                 *)
(***************************************************************************)
EXTENDS ChatClient, TLAPS, WellFoundedInduction, SequenceTheorems

-----------------------------------------------------------------------------
(* The least element of a nonempty set of natural numbers is one of them.  *)
LEMMA LeastIsMember ==
  ASSUME NEW S \in SUBSET Nat, S # {}
  PROVE  /\ Least(S) \in S
         /\ \A y \in S : Least(S) <= y
<1>. DEFINE R == OpToRel(<, Nat)
<1>1. IsWellFoundedOn(R, Nat)
  BY NatLessThanWellFounded
<1>2. R = {ss \in Nat \X Nat : ss[1] < ss[2]}
  BY DEF OpToRel
<1>3. PICK x \in S : \A y \in S : ~ (<<y, x>> \in R)
  <2>. HIDE DEF R
  <2>. QED  BY <1>1, WFMin
<1>4. \A y \in S : <<y, x>> \in {ss \in Nat \X Nat : ss[1] < ss[2]} <=> y < x
  OBVIOUS
<1>5. \A y \in S : x <= y
  <2>. HIDE DEF R
  <2>1. \A y \in S : ~ (y < x)
    BY <1>2, <1>3, <1>4
  <2>. QED  BY <2>1
<1>. QED
  BY <1>5 DEF Least

-----------------------------------------------------------------------------
(* Types of the helpers.                                                   *)

LEMMA BoundsAreNat ==
  /\ MaxRepairs \in Nat /\ MaxRefresh \in Nat /\ MaxHints \in Nat /\ MaxDrops \in Nat
  /\ MaxCrashes \in Nat /\ MaxDisk \in Nat /\ MaxQuota \in Nat /\ MaxCkpts \in Nat
  /\ MaxFlushes \in Nat /\ MaxWipes \in Nat /\ MaxOwn \in Nat
BY ClientAssumption, RoomAssumption

TurnType == [sh : SharedType, se : SessType, out : Seq(ClientFrame), ok : BOOLEAN]

LEMMA MaxOfNat ==
  ASSUME NEW a \in Nat, NEW b \in Nat
  PROVE  MaxOf(a, b) \in Nat /\ MaxOf(a, b) >= a /\ MaxOf(a, b) >= b
BY DEF MaxOf

LEMMA WalkNat ==
  ASSUME NEW a \in Nat, NEW b \in Nat
  PROVE  Walk(a, b) \in Nat
BY DEF Walk, MaxOf

LEMMA PlanCatchUpType ==
  ASSUME NEW cursor \in Nat, NEW st \in StateFrame, NEW contained \in BOOLEAN
  PROVE  PlanCatchUp(cursor, st, contained) \in PlanType
BY DEF PlanCatchUp, PlanType, StateFrame, MaxOf

LEMMA RowsReqType ==
  ASSUME NEW after \in Nat, NEW ex \in BOOLEAN
  PROVE  RowsReq(after, ex) \in ClientFrame
BY DEF RowsReq, ClientFrame, RowsReqFrame

LEMMA RestTypes ==
  /\ NoRow \in RowType
  /\ NoState \in StateFrame
  /\ NoPlan \in PlanType
  /\ NewSess \in SessType
  /\ IdleHttp \in HttpType
BY RoomAssumption, ClientAssumption
DEF NoRow, RowType, NoState, StateFrame, NoPlan, PlanType, NewSess, SessType,
    IdleHttp, NoAck, HttpType

LEMMA SpawnHttpType ==
  ASSUME NEW h \in HttpType, NEW pending \in SUBSET Own
  PROVE  SpawnHttp(h, pending) \in HttpType
BY RestTypes DEF SpawnHttp, HttpType

LEMMA TurnIsTurn ==
  ASSUME NEW sh \in SharedType, NEW se \in SessType
  PROVE  Turn(sh, se) \in TurnType
BY DEF Turn, TurnType

LEMMA RepairGapType ==
  ASSUME NEW t \in TurnType
  PROVE  RepairGap(t) \in TurnType
<1>1. CASE t.sh.needsCkpt
  BY <1>1 DEF RepairGap, TurnType
<1>2. CASE ~t.sh.needsCkpt /\ (t.sh.rowsReqOut \/ ~t.sh.gap)
  BY <1>2 DEF RepairGap, TurnType, SharedType
<1>3. CASE ~t.sh.needsCkpt /\ ~(t.sh.rowsReqOut \/ ~t.sh.gap) /\ t.se.repairs = MaxRepairs
  BY <1>3 DEF RepairGap, TurnType, SharedType
<1>4. CASE ~t.sh.needsCkpt /\ ~(t.sh.rowsReqOut \/ ~t.sh.gap) /\ t.se.repairs # MaxRepairs
  <2>1. RowsReq(t.sh.cursor, FALSE) \in ClientFrame
    BY RowsReqType DEF TurnType, SharedType
  <2>2. [t.sh EXCEPT !.gap = FALSE, !.rowsReqOut = TRUE] \in SharedType
    BY DEF TurnType, SharedType
  <2>3. [t.se EXCEPT !.repairs = @ + 1] \in SessType
    <3>1. t.se \in SessType /\ t.se.repairs \in 0 .. MaxRepairs
      BY DEF TurnType, SessType
    <3>2. t.se.repairs + 1 \in 0 .. MaxRepairs
      BY <1>4, <3>1, BoundsAreNat
    <3>. QED
      BY <3>1, <3>2 DEF SessType
  <2>4. Append(t.out, RowsReq(t.sh.cursor, FALSE)) \in Seq(ClientFrame)
    <3>1. t.out \in Seq(ClientFrame)
      BY DEF TurnType
    <3>. QED
      BY <2>1, <3>1, AppendProperties
  <2>. QED
    BY <1>4, <2>2, <2>3, <2>4 DEF RepairGap, TurnType
<1>. QED
  BY <1>1, <1>2, <1>3, <1>4

LEMMA SendRefreshType ==
  ASSUME NEW t \in TurnType
  PROVE  SendRefresh(t) \in TurnType
<1>1. RowsReq(t.sh.cursor, FALSE) \in ClientFrame
  BY RowsReqType DEF TurnType, SharedType
<1>2. [t.sh EXCEPT !.rowsReqOut = TRUE] \in SharedType
  BY DEF TurnType, SharedType
<1>3. [t.se EXCEPT !.refresh = t.sh.refReq] \in SessType
  BY DEF TurnType, SessType, SharedType
<1>4. Append(t.out, RowsReq(t.sh.cursor, FALSE)) \in Seq(ClientFrame)
  <2>1. t.out \in Seq(ClientFrame)
    BY DEF TurnType
  <2>. QED
    BY <1>1, <2>1, AppendProperties
<1>. QED
  BY <1>2, <1>3, <1>4 DEF SendRefresh, TurnType

LEMMA SavedType ==
  ASSUME NEW sh \in SharedType, NEW ids
  PROVE  Saved(sh, ids) \in SharedType
BY DEF Saved, SharedType

LEMMA RetireType ==
  ASSUME NEW sh \in SharedType, NEW ids
  PROVE  Retire(sh, ids) \in SharedType
BY DEF Retire, SharedType

LEMMA ToPushType ==
  ASSUME NEW sh \in SharedType, NEW ids
  PROVE  ToPush(sh, ids) \in SUBSET Own
BY DEF ToPush, SharedType

LEMMA PushPendingType ==
  ASSUME NEW t \in TurnType
  PROVE  PushPending(t) \in TurnType
<1>. DEFINE ids == ToPush(t.sh, t.se.inFlight)
            out == IF ids = {} THEN t.out ELSE Append(t.out, [k |-> "PUSH", ids |-> ids])
<1>1. ids \in SUBSET Own
  BY ToPushType DEF TurnType
<1>2. Saved(t.sh, ids) \in SharedType
  BY SavedType DEF TurnType
<1>3. [t.se EXCEPT !.inFlight = (@ \cap t.sh.pending) \cup ids] \in SessType
  BY <1>1 DEF TurnType, SessType
<1>4. out \in Seq(ClientFrame)
  BY <1>1 DEF TurnType, ClientFrame, PushFrame
<1>. QED
  BY <1>2, <1>3, <1>4 DEF PushPending, TurnType

-----------------------------------------------------------------------------
(* The part of the type invariant a session step can disturb.              *)
TalkInv ==
  /\ shared \in SharedType
  /\ sess \in SessType
  /\ http \in HttpType
  /\ c2s \in Seq(ClientFrame)
  /\ s2c \in Seq(FramesUpTo(Len(srv.log)))
  /\ CycleComplete(http)
  /\ sess.phase = "down" => sess.row = NoRow /\ c2s = <<>> /\ s2c = <<>>

(* Spawning a cycle keeps it complete.                                     *)
LEMMA SpawnHttpComplete ==
  ASSUME NEW h \in HttpType, CycleComplete(h), NEW pending \in SUBSET Own
  PROVE  SpawnHttp(h, pending) \in HttpType /\ CycleComplete(SpawnHttp(h, pending))
<1>1. SpawnHttp(h, pending) \in HttpType
  BY SpawnHttpType
<1>2. CycleComplete(SpawnHttp(h, pending))
  BY RestTypes DEF SpawnHttp, CycleComplete, HttpType, IdleHttp
<1>. QED
  BY <1>1, <1>2

LEMMA EndSessionType ==
  ASSUME NEW sh \in SharedType, NEW h \in HttpType, CycleComplete(h), sess \in SessType,
         EndSession(sh, h)
  PROVE  TalkInv'
<1>. DEFINE joined == sess.phase \notin {"down", "hello"}
            h1 == [h EXCEPT !.epochSame = @ /\ ~joined]
<1>1. shared' \in SharedType
  BY DEF EndSession, SharedType
<1>2. sess' \in SessType /\ sess'.row = NoRow
  BY RestTypes DEF EndSession, NewSess, SessType
<1>3. http' \in HttpType /\ CycleComplete(http')
  <2>1. h1 \in HttpType /\ CycleComplete(h1)
    BY DEF HttpType, CycleComplete
  <2>2. sh.pending \in SUBSET Own
    BY DEF SharedType
  <2>3. http' = SpawnHttp(h1, sh.pending)
    BY DEF EndSession
  <2>. HIDE DEF h1
  <2>. QED
    BY <2>1, <2>2, <2>3, SpawnHttpComplete
<1>4. c2s' = <<>> /\ s2c' = <<>>
  BY DEF EndSession
<1>. QED
  BY <1>1, <1>2, <1>3, <1>4 DEF TalkInv

LEMMA FinishType ==
  ASSUME NEW t \in TurnType, NEW h \in HttpType, CycleComplete(h), sess \in SessType,
         NEW rest \in Seq(FramesUpTo(Len(srv'.log))), c2s \in Seq(ClientFrame),
         t.se.phase # "down", Finish(t, h, rest)
  PROVE  TalkInv'
<1>1. CASE t.ok
  <2>1. /\ shared' = t.sh /\ sess' = t.se /\ http' = h
        /\ c2s' = c2s \o t.out /\ s2c' = rest
    BY <1>1 DEF Finish
  <2>2. t.sh \in SharedType /\ t.se \in SessType /\ t.out \in Seq(ClientFrame)
    BY DEF TurnType
  <2>3. c2s' \in Seq(ClientFrame)
    BY <2>1, <2>2
  <2>. QED
    BY <2>1, <2>2, <2>3 DEF TalkInv
<1>2. CASE ~t.ok
  BY <1>2, EndSessionType DEF Finish, TurnType
<1>. QED
  BY <1>1, <1>2 DEF TurnType

(* The loop top and the gap check keep the phase of the session.           *)
LEMMA PhaseKept ==
  ASSUME NEW t \in TurnType
  PROVE  /\ RepairGap(t).se.phase = t.se.phase
         /\ SendRefresh(t).se.phase = t.se.phase
         /\ PushPending(t).se.phase = t.se.phase
BY DEF RepairGap, SendRefresh, PushPending, TurnType, SessType

LEMMA AfterFrameType ==
  ASSUME NEW sh \in SharedType, NEW se \in SessType, NEW h \in HttpType, CycleComplete(h),
         sess \in SessType, NEW rest \in Seq(FramesUpTo(Len(srv'.log))),
         c2s \in Seq(ClientFrame), se.phase # "down", AfterFrame(sh, se, h, rest)
  PROVE  TalkInv'
<1>. DEFINE t == IF se.phase = "steady" THEN SendRefresh(RepairGap(Turn(sh, se))) ELSE Turn(sh, se)
<1>1. Turn(sh, se) \in TurnType /\ Turn(sh, se).se = se
  BY TurnIsTurn DEF Turn
<1>2. t \in TurnType
  BY <1>1, RepairGapType, SendRefreshType
<1>3. t.se.phase = se.phase
  BY <1>1, RepairGapType, PhaseKept
<1>4. Finish(t, h, rest)
  BY DEF AfterFrame
<1>. QED
  <2>. HIDE DEF t
  <2>. QED  BY <1>2, <1>3, <1>4, FinishType

-----------------------------------------------------------------------------
(* What frames are, and the helpers that read them.                        *)

LEMMA ReadFrames ==
  ASSUME NEW n \in Nat, NEW fs \in Seq(FramesUpTo(n)), fs # <<>>
  PROVE  /\ Head(fs) \in ServerFrame
         /\ Head(fs).k = "ROWS" => Head(fs) \in RowsFrame /\ Head(fs).head <= n
         /\ Tail(fs) \in Seq(FramesUpTo(n))
<1>. DEFINE F == FramesUpTo(n)
<1>1. fs \in Seq(F) /\ fs # <<>>
  OBVIOUS
<1>2. Head(fs) \in F /\ Tail(fs) \in Seq(F)
  <2>. HIDE DEF F
  <2>. QED  BY <1>1, HeadTailProperties
<1>. QED
  BY <1>2 DEF FramesUpTo, ServerFrame, StateFrame, RowFrame, RowsFrame, AckFrame, ErrorFrame,
              MarkFrame

LEMMA FrameKinds ==
  ASSUME NEW f \in ServerFrame
  PROVE  /\ f.k = "STATE" => f \in StateFrame
         /\ f.k = "ROW" => f.id \in Ids /\ f.seq \in Nat
         /\ f.k = "ROWS" => f.next \in Nat \ {0} /\ f.head \in Nat /\ f.ex \in BOOLEAN
         /\ f.k = "ACK" => f.id \in Own /\ f.seq \in Nat
         /\ f.k = "REJECT" => f.id \in Own
BY DEF ServerFrame, StateFrame, RowFrame, RowsFrame, AckFrame, ErrorFrame,
              MarkFrame

LEMMA PushKind ==
  ASSUME NEW f \in ClientFrame
  PROVE  /\ f.k = "PUSH" => f.ids \in (SUBSET Own) \ {{}}
         /\ f.k = "ROWS_REQ" => f.after \in Nat /\ f.ex \in BOOLEAN
BY DEF ClientFrame, HelloFrame, RowsReqFrame, PushFrame

(* Past the last row of an answer NextSeq is one beyond its head.          *)
LEMMA NextSeqType ==
  ASSUME NEW f \in RowsFrame
  PROVE  NextSeq(f) \in Nat /\ NextSeq(f) > 0
<1>. DEFINE S == {s \in f.next .. f.head : ~(f.ex /\ srv.log[s] \in Own)}
                   \cup {MaxOf(f.next, f.head + 1)}
<1>1. f.next \in Nat \ {0} /\ f.head \in Nat
  BY DEF RowsFrame
<1>2. S \in SUBSET Nat /\ S # {} /\ \A s \in S : s > 0
  BY <1>1 DEF MaxOf
<1>3. Least(S) \in S
  <2>. HIDE DEF S
  <2>. QED  BY <1>2, LeastIsMember
<1>4. NextSeq(f) = Least(S)
  BY DEF NextSeq
<1>. QED
  <2>. HIDE DEF S
  <2>. QED  BY <1>2, <1>3, <1>4

(* The oldest batch of a nonempty set of own batches.                      *)
LEMMA LeastOwn ==
  ASSUME NEW ids \in SUBSET Own, ids # {}
  PROVE  Least(ids) \in ids /\ Least(ids) \in Own
<1>1. ids \in SUBSET Nat
  BY BoundsAreNat DEF Own
<1>. QED
  BY <1>1, LeastIsMember

LEMMA PosInType ==
  ASSUME NEW log \in Seq(Ids), NEW b \in Rows(log)
  PROVE  PosIn(log, b) \in Nat
<1>. DEFINE S == {s \in DOMAIN log : log[s] = b}
<1>1. S \in SUBSET Nat /\ S # {}
  BY DEF Rows
<1>2. Least(S) \in S
  <2>. HIDE DEF S
  <2>. QED  BY <1>1, LeastIsMember
<1>. QED
  BY <1>1, <1>2 DEF PosIn

(* A batch that is not in the log is appended, and is then found there.    *)
LEMMA AppendedPos ==
  ASSUME NEW log \in Seq(Ids), NEW b \in Ids
  PROVE  /\ Append(log, b) \in Seq(Ids)
         /\ Len(Append(log, b)) = Len(log) + 1
         /\ b \in Rows(Append(log, b))
<1>1. Append(log, b)[Len(log) + 1] = b /\ Len(log) + 1 \in DOMAIN Append(log, b)
  OBVIOUS
<1>. QED
  BY <1>1 DEF Rows

(* A longer log bounds the frames a shorter one bounded.                   *)
LEMMA FramesGrow ==
  ASSUME NEW m \in Nat, NEW n \in Nat, m <= n, NEW fs \in Seq(FramesUpTo(m))
  PROVE  fs \in Seq(FramesUpTo(n))
<1>1. FramesUpTo(m) \subseteq FramesUpTo(n)
  BY DEF FramesUpTo, ServerFrame, StateFrame, RowFrame, RowsFrame, AckFrame, ErrorFrame,
              MarkFrame
<1>. QED
  <2>. DEFINE M == FramesUpTo(m)
              N == FramesUpTo(n)
  <2>1. M \subseteq N /\ fs \in Seq(M)
    BY <1>1
  <2>2. fs \in Seq(N)
    <3>. HIDE DEF M, N
    <3>. QED  BY <2>1
  <2>. QED
    BY <2>2

LEMMA AckedType ==
  ASSUME NEW sh \in SharedType, NEW ack \in AckFrame, NEW retired \in BOOLEAN
  PROVE  Acked(sh, ack, retired) \in SharedType
<1>. DEFINE sh1 == Retire(sh, IF retired THEN {ack.id} ELSE {})
            sh2 == [sh1 EXCEPT !.retryArmed = @ \/ ~retired,
                               !.gap = @ \/ IsGap(sh.cursor, ack.seq),
                               !.cursor = Walk(@, ack.seq)]
<1>1. sh1 \in SharedType
  BY RetireType
<1>2. Walk(sh1.cursor, ack.seq) \in Nat /\ IsGap(sh.cursor, ack.seq) \in BOOLEAN
  <2>1. sh1.cursor \in Nat /\ sh.cursor \in Nat /\ ack.seq \in Nat
    BY <1>1 DEF SharedType, AckFrame
  <2>2. \A c \in Nat : Walk(c, ack.seq) \in Nat
    BY <2>1, WalkNat
  <2>3. IsGap(sh.cursor, ack.seq) \in BOOLEAN
    BY DEF IsGap
  <2>. QED  BY <2>1, <2>2, <2>3
<1>3. sh2 \in SharedType
  <2>. HIDE DEF sh1
  <2>. QED  BY <1>1, <1>2 DEF SharedType
<1>4. Drain(sh2) \in SharedType
  <2>. HIDE DEF sh2
  <2>. QED  BY <1>3 DEF Drain, SharedType
<1>5. Acked(sh, ack, retired) = Drain(sh2)
  BY DEF Acked
<1>. QED
  BY <1>4, <1>5

LEMMA RefreshReadType ==
  ASSUME NEW sh \in SharedType, NEW ticket \in 0 .. MaxRefresh, NEW head \in Nat
  PROVE  RefreshRead(sh, ticket, head) \in SharedType
BY DEF RefreshRead, SharedType, MaxOf

LEMMA CertifiedType ==
  ASSUME NEW sh \in SharedType, NEW h \in HttpType
  PROVE  Certified(sh, h) \in SharedType
<1>. DEFINE gap == sh.gap /\ ~h.gapSame
            done == IF gap THEN sh.refDone ELSE MaxOf(sh.refDone, h.ticket)
<1>1. done \in 0 .. MaxRefresh /\ gap \in BOOLEAN
  BY BoundsAreNat DEF MaxOf, SharedType, HttpType
<1>. QED
  <2>1. CASE h.epochSame /\ sh.cursor >= h.st.head /\ ~sh.needsCkpt
    <3>1. Certified(sh, h) = [sh EXCEPT !.httpLive = TRUE, !.caughtUp = TRUE, !.gap = gap,
                                        !.refDone = done]
      BY <2>1 DEF Certified
    <3>. HIDE DEF gap, done
    <3>. QED  BY <1>1, <3>1 DEF SharedType
  <2>2. CASE ~(h.epochSame /\ sh.cursor >= h.st.head /\ ~sh.needsCkpt)
    BY <2>2 DEF Certified
  <2>. QED
    BY <2>1, <2>2

LEMMA SettleCausalType ==
  ASSUME NEW sh \in SharedType, NEW same \in BOOLEAN
  PROVE  SettleCausal(sh, same) \in SharedType
BY DEF SettleCausal, SharedType

LEMMA BackfillingType ==
  ASSUME NEW se \in SessType
  PROVE  Backfilling(se) \in SessType
BY RestTypes DEF Backfilling, SessType

LEMMA VisibleType ==
  ASSUME NEW got \in SUBSET Items
  PROVE  Visible(got, needs) \in SUBSET Items
BY DEF Visible

-----------------------------------------------------------------------------
(* Each action preserves the type invariant: the variables around the      *)
(* session first, then the session, the cycle and the wire.                *)

WorldInv ==
  /\ srv \in SrvType
  /\ needs \in [Items -> SUBSET Items]
  /\ tok \in TokType
  /\ sink \in SinkType
  /\ issued \in 0 .. MaxOwn
  /\ env \in EnvType
  /\ asked \in Seq(SUBSET Ids)

LEMMA TypeInvParts == TypeInv <=> WorldInv /\ TalkInv
<1>1. ASSUME s2c \in Seq(FramesUpTo(Len(srv.log)))  PROVE  s2c \in Seq(ServerFrame)
  <2>. DEFINE F == FramesUpTo(Len(srv.log))
  <2>1. F \subseteq ServerFrame
    BY DEF FramesUpTo
  <2>2. s2c \in Seq(F)
    BY <1>1
  <2>. HIDE DEF F
  <2>. QED
    BY <2>1, <2>2
<1>. QED
  BY <1>1 DEF TypeInv, TypeOK, WorldInv, TalkInv

LEMMA LogLength ==
  ASSUME WorldInv
  PROVE  srv.log \in Seq(Ids) /\ Len(srv.log) \in Nat
BY DEF WorldInv, SrvType

(* A frame that is not a backfill answer may always join the wire.         *)
LEMMA SendFrame ==
  ASSUME NEW n \in Nat, NEW fs \in Seq(FramesUpTo(n)), NEW f \in ServerFrame,
         f.k = "ROWS" => f.head <= n
  PROVE  Append(fs, f) \in Seq(FramesUpTo(n))
<1>1. f \in FramesUpTo(n)
  BY DEF FramesUpTo
<1>. QED
  BY <1>1, AppendProperties

LEMMA ServeHelloType ==
  ASSUME WorldInv, TalkInv, ServeHello
  PROVE  WorldInv' /\ TalkInv'
<1>1. WorldInv'
  BY DEF ServeHello, WorldInv
<1>2. StateOf(srv) \in ServerFrame /\ StateOf(srv).k # "ROWS"
  BY LogLength DEF StateOf, ServerFrame, StateFrame, WorldInv, SrvType
<1>3. s2c' \in Seq(FramesUpTo(Len(srv.log)))
  BY <1>2, LogLength, SendFrame DEF ServeHello, TalkInv
<1>4. c2s' \in Seq(ClientFrame)
  BY HeadTailProperties DEF ServeHello, TalkInv
<1>. QED
  BY <1>1, <1>3, <1>4 DEF ServeHello, TalkInv

LEMMA ServeRowsType ==
  ASSUME WorldInv, TalkInv, ServeRows
  PROVE  WorldInv' /\ TalkInv'
<1>. DEFINE f == [k |-> "ROWS", next |-> MaxOf(Head(c2s).after, srv.ckpt) + 1,
                  head |-> Len(srv.log), ex |-> Head(c2s).ex]
<1>1. WorldInv'
  BY DEF ServeRows, WorldInv
<1>2. /\ c2s # <<>> /\ Head(c2s).k = "ROWS_REQ" /\ c2s' = Tail(c2s) /\ s2c' = Append(s2c, f)
      /\ UNCHANGED <<srv, shared, sess, http>>
  BY DEF ServeRows
<1>3. c2s' \in Seq(ClientFrame) /\ Head(c2s) \in ClientFrame
  BY <1>2, HeadTailProperties DEF TalkInv
<1>4. f \in ServerFrame /\ f.head <= Len(srv.log)
  <2>1. Head(c2s).after \in Nat /\ Head(c2s).ex \in BOOLEAN
    BY <1>2, <1>3, PushKind
  <2>2. srv.ckpt \in Nat
    BY DEF WorldInv, SrvType
  <2>3. MaxOf(Head(c2s).after, srv.ckpt) \in Nat
    BY <2>1, <2>2, MaxOfNat
  <2>. QED
    BY <2>1, <2>3, LogLength DEF ServerFrame, RowsFrame
<1>5. s2c' \in Seq(FramesUpTo(Len(srv.log)))
  <2>. HIDE DEF f
  <2>. QED  BY <1>2, <1>4, LogLength, SendFrame DEF TalkInv
<1>6. sess'.phase # "down"
  BY <1>2 DEF TalkInv
<1>. QED
  BY <1>1, <1>2, <1>3, <1>5, <1>6 DEF TalkInv

LEMMA ServePushType ==
  ASSUME WorldInv, TalkInv, ServePush
  PROVE  WorldInv' /\ TalkInv'
<1>. DEFINE ids == Head(c2s).ids
            b   == Least(ids)
            n   == Len(srv.log)
<1>1. /\ c2s # <<>> /\ Head(c2s).k = "PUSH"
      /\ UNCHANGED <<needs, shared, sess, tok, http, sink, issued, env, asked>>
  BY DEF ServePush
<1>2. Head(c2s) \in ClientFrame /\ Tail(c2s) \in Seq(ClientFrame)
  BY <1>1, HeadTailProperties DEF TalkInv
<1>3. ids \in (SUBSET Own) \ {{}} /\ b \in Own /\ b \in Ids
  <2>1. ids \in (SUBSET Own) \ {{}}
    BY <1>1, <1>2, PushKind
  <2>. QED
    BY <2>1, LeastOwn DEF Ids
<1>4. c2s' \in Seq(ClientFrame)
  <2>1. CASE ids = {b}
    BY <1>2, <2>1 DEF ServePush
  <2>2. CASE ids # {b}
    <3>1. [k |-> "PUSH", ids |-> ids \ {b}] \in ClientFrame
      BY <1>3, <2>2 DEF ClientFrame, PushFrame
    <3>2. c2s' = <<[k |-> "PUSH", ids |-> ids \ {b}]>> \o Tail(c2s)
      BY <2>2 DEF ServePush
    <3>. QED
      BY <1>2, <3>1, <3>2
  <2>. QED
    BY <2>1, <2>2
<1>5. srv' \in SrvType /\ Len(srv'.log) \in Nat /\ n <= Len(srv'.log)
      /\ s2c' \in Seq(FramesUpTo(Len(srv'.log)))
  <2>1. srv \in SrvType /\ srv.log \in Seq(Ids) /\ n \in Nat
        /\ s2c \in Seq(FramesUpTo(n))
    BY LogLength DEF WorldInv, TalkInv
  <2>2. CASE b \in Rows(srv.log) /\ s2c' = Append(s2c, [k |-> "ACK", id |-> b, seq |-> PosIn(srv.log, b)])
             /\ UNCHANGED srv
    <3>1. [k |-> "ACK", id |-> b, seq |-> PosIn(srv.log, b)] \in ServerFrame
      BY <1>3, <2>1, <2>2, PosInType DEF ServerFrame, AckFrame
    <3>. HIDE DEF b, ids
    <3>. QED  BY <2>1, <2>2, <3>1, SendFrame
  <2>3. CASE s2c' = Append(s2c, [k |-> "REJECT", id |-> b]) /\ UNCHANGED srv
    <3>1. [k |-> "REJECT", id |-> b] \in ServerFrame
      BY <1>3 DEF ServerFrame, ErrorFrame
    <3>. HIDE DEF b, ids
    <3>. QED  BY <2>1, <2>3, <3>1, SendFrame
  <2>4. CASE srv.quota > 0 /\ s2c' = Append(s2c, [k |-> "QUOTA"]) /\ srv' = [srv EXCEPT !.quota = @ - 1]
    <3>1. [k |-> "QUOTA"] \in ServerFrame
      BY DEF ServerFrame, ErrorFrame
    <3>2. srv' \in SrvType /\ srv'.log = srv.log
      <4>1. srv.quota - 1 \in Nat
        BY <2>1, <2>4 DEF SrvType
      <4>. QED
        BY <2>1, <2>4, <4>1 DEF SrvType
    <3>. QED  BY <2>1, <2>4, <3>1, <3>2, SendFrame
  <2>5. CASE /\ s2c' = Append(s2c, [k |-> "ACK", id |-> b, seq |-> Len(srv.log) + 1])
             /\ srv' = [srv EXCEPT !.log = Append(@, b), !.used = @ \cup {b}]
    <3>1. [k |-> "ACK", id |-> b, seq |-> n + 1] \in ServerFrame
      BY <1>3, <2>1 DEF ServerFrame, AckFrame
    <3>2. srv'.log = Append(srv.log, b)
      BY <2>1, <2>5 DEF SrvType
    <3>3. Len(srv'.log) = n + 1 /\ srv'.log \in Seq(Ids)
      BY <1>3, <2>1, <3>2, AppendedPos
    <3>4. srv' \in SrvType
      BY <1>3, <2>1, <2>5, <3>2, <3>3 DEF SrvType
    <3>5. s2c \in Seq(FramesUpTo(n + 1))
      BY <2>1, FramesGrow
    <3>6. Append(s2c, [k |-> "ACK", id |-> b, seq |-> n + 1]) \in Seq(FramesUpTo(n + 1))
      BY <2>1, <3>1, <3>5, SendFrame
    <3>. QED  BY <2>1, <2>5, <3>3, <3>4, <3>6
  <2>. QED
    BY <2>2, <2>3, <2>4, <2>5 DEF ServePush
<1>6. WorldInv'
  BY <1>1, <1>5 DEF WorldInv
<1>. QED
  BY <1>1, <1>4, <1>5, <1>6 DEF TalkInv

(* A row broadcast after it was appended fits the longer log.              *)
LEMMA BroadcastType ==
  ASSUME WorldInv, TalkInv, NEW r \in Ids
  PROVE  Broadcast([k |-> "ROW", id |-> r, seq |-> Len(srv.log) + 1])
           \in Seq(FramesUpTo(Len(srv.log) + 1))
<1>1. s2c \in Seq(FramesUpTo(Len(srv.log) + 1))
  BY LogLength, FramesGrow DEF TalkInv
<1>2. [k |-> "ROW", id |-> r, seq |-> Len(srv.log) + 1] \in ServerFrame
  BY LogLength DEF ServerFrame, RowFrame
<1>3. Append(s2c, [k |-> "ROW", id |-> r, seq |-> Len(srv.log) + 1])
        \in Seq(FramesUpTo(Len(srv.log) + 1))
  BY <1>1, <1>2, LogLength, SendFrame
<1>. QED
  BY <1>1, <1>3 DEF Broadcast

LEMMA RemoteAppendType ==
  ASSUME WorldInv, TalkInv, NEW r \in Remote, NEW kind \in Kinds, RemoteAppend(r, kind)
  PROVE  WorldInv' /\ TalkInv'
<1>1. r \in Ids /\ r \in Items
  BY DEF Ids, Items
<1>2. srv'.log = Append(srv.log, r) /\ srv' = [srv EXCEPT !.log = Append(@, r), !.used = @ \cup {r}]
  BY DEF RemoteAppend, WorldInv, SrvType
<1>3. Len(srv'.log) = Len(srv.log) + 1 /\ srv'.log \in Seq(Ids)
  BY <1>1, <1>2, LogLength, AppendedPos
<1>4. srv' \in SrvType
  BY <1>1, <1>2, <1>3 DEF WorldInv, SrvType
<1>5. needs' \in [Items -> SUBSET Items]
  <2>1. Rows(srv.log) \subseteq Ids /\ Ids \subseteq Items /\ {Base, Hidden} \subseteq Items
    BY LogLength DEF Rows, Items
  <2>2. UNION {needs[i] : i \in Rows(srv.log)} \subseteq Items
    BY <2>1 DEF WorldInv
  <2>3. srv.ids \subseteq Items
    BY DEF WorldInv, SrvType
  <2>4. PICK past \in SUBSET Items : needs' = [needs EXCEPT ![r] = past]
    <3>1. CASE kind = "free"
      BY <3>1 DEF RemoteAppend
    <3>2. CASE kind = "chained"
      BY <2>1, <2>2, <2>3, <3>2 DEF RemoteAppend
    <3>3. CASE kind = "orphan"
      BY <2>1, <3>3 DEF RemoteAppend
    <3>. QED
      BY <3>1, <3>2, <3>3, ClientAssumption
  <2>. QED
    BY <2>4 DEF WorldInv
<1>6. WorldInv'
  BY <1>4, <1>5 DEF RemoteAppend, WorldInv
<1>7. s2c' \in Seq(FramesUpTo(Len(srv'.log)))
  BY <1>1, <1>3, BroadcastType DEF RemoteAppend
<1>8. sess'.phase = "down" => c2s' = <<>> /\ s2c' = <<>>
  BY DEF RemoteAppend, TalkInv, Broadcast
<1>. QED
  BY <1>6, <1>7, <1>8 DEF RemoteAppend, TalkInv

LEMMA PostCheckpointType ==
  ASSUME WorldInv, TalkInv, PostCheckpoint
  PROVE  WorldInv' /\ TalkInv'
<1>1. srv.ids \cup Rows(srv.log) \cup {Base, Hidden} \in SUBSET Items
  BY LogLength DEF Rows, Items, WorldInv, SrvType
<1>2. Visible(srv.ids \cup Rows(srv.log) \cup {Base, Hidden}, needs) \in SUBSET Items
  BY <1>1, VisibleType
<1>3. srv' \in SrvType /\ srv'.log = srv.log
  BY <1>2, LogLength DEF PostCheckpoint, WorldInv, SrvType
<1>4. env' \in EnvType
  <2>1. env.ckpts \in 0 .. MaxCkpts /\ env.ckpts < MaxCkpts
    BY DEF PostCheckpoint, WorldInv, EnvType
  <2>2. env.ckpts + 1 \in 0 .. MaxCkpts
    BY <2>1, BoundsAreNat
  <2>. QED
    BY <2>2 DEF PostCheckpoint, WorldInv, EnvType
<1>. QED
  BY <1>3, <1>4 DEF PostCheckpoint, WorldInv, TalkInv

LEMMA DropsType ==
  ASSUME WorldInv, env.drops < MaxDrops, env' = [env EXCEPT !.drops = @ + 1]
  PROVE  env' \in EnvType
<1>1. env.drops \in 0 .. MaxDrops
  BY DEF WorldInv, EnvType
<1>2. env.drops + 1 \in 0 .. MaxDrops
  BY <1>1, BoundsAreNat
<1>. QED
  BY <1>2 DEF WorldInv, EnvType

LEMMA DiskFaultType ==
  ASSUME WorldInv, DiskFault
  PROVE  env' \in EnvType
<1>1. env.disk \in 0 .. MaxDisk /\ env.disk < MaxDisk
  BY DEF DiskFault, WorldInv, EnvType
<1>2. env.disk + 1 \in 0 .. MaxDisk
  BY <1>1, BoundsAreNat
<1>. QED
  BY <1>2 DEF DiskFault, WorldInv, EnvType

LEMMA DialType ==
  ASSUME WorldInv, TalkInv, Dial
  PROVE  WorldInv' /\ TalkInv'
<1>1. [k |-> "HELLO"] \in ClientFrame
  BY DEF ClientFrame, HelloFrame
<1>2. c2s' \in Seq(ClientFrame) /\ s2c' \in Seq(FramesUpTo(Len(srv'.log)))
  BY <1>1 DEF Dial
<1>3. shared' \in SharedType /\ sess' \in SessType /\ sess'.phase = "hello"
  BY DEF Dial, TalkInv, SharedType, SessType
<1>. QED
  BY <1>2, <1>3 DEF Dial, WorldInv, TalkInv

LEMMA DialFailType ==
  ASSUME WorldInv, TalkInv, DialFail
  PROVE  WorldInv' /\ TalkInv'
<1>1. WorldInv'
  BY DropsType DEF DialFail, WorldInv
<1>2. http' \in HttpType /\ CycleComplete(http')
  BY SpawnHttpComplete DEF DialFail, TalkInv, SharedType
<1>. QED
  BY <1>1, <1>2 DEF DialFail, TalkInv

LEMMA DropType ==
  ASSUME WorldInv, TalkInv, Drop
  PROVE  WorldInv' /\ TalkInv'
<1>1. WorldInv'
  BY DropsType DEF Drop, WorldInv
<1>2. TalkInv'
  BY EndSessionType DEF Drop, TalkInv
<1>. QED
  BY <1>1, <1>2

LEMMA SkipStaleType ==
  ASSUME WorldInv, TalkInv, SkipStale
  PROVE  WorldInv' /\ TalkInv'
<1>1. s2c' \in Seq(FramesUpTo(Len(srv.log)))
  BY LogLength, ReadFrames DEF SkipStale, TalkInv
<1>. QED
  BY <1>1 DEF SkipStale, WorldInv, TalkInv

LEMMA SessStateType ==
  ASSUME WorldInv, TalkInv, SessState
  PROVE  WorldInv' /\ TalkInv'
<1>. DEFINE st  == Head(s2c)
            cur == Clamp(shared.cursor, st)
<1>1. st \in StateFrame /\ s2c' \in Seq(FramesUpTo(Len(srv.log)))
  BY LogLength, ReadFrames, FrameKinds DEF SessState, TalkInv
<1>2. cur \in Nat
  BY <1>1 DEF Clamp, TalkInv, SharedType, StateFrame
<1>3. Contained(st) \in BOOLEAN
  BY <1>1 DEF Contained, TalkInv, SharedType, StateFrame, ContainsFrontier
<1>4. PlanCatchUp(cur, st, Contained(st)) \in PlanType
  BY <1>1, <1>2, <1>3, PlanCatchUpType
<1>5. shared' \in SharedType
  <2>1. shared' = [shared EXCEPT !.rowsReqOut = FALSE, !.cursor = cur, !.amnesty = TRUE]
    BY DEF SessState
  <2>. HIDE DEF cur
  <2>. QED
    BY <1>2, <2>1 DEF TalkInv, SharedType
<1>6. sess' \in SessType /\ sess'.phase = "plan"
  <2>. DEFINE plan == PlanCatchUp(cur, st, Contained(st))
  <2>1. sess' = [sess EXCEPT !.phase = "plan", !.st = st, !.repair = shared.needsCkpt,
                             !.causalSame = TRUE, !.plan = plan]
    BY DEF SessState
  <2>2. plan \in PlanType /\ sess \in SessType /\ shared.needsCkpt \in BOOLEAN
    BY <1>4 DEF TalkInv, SharedType
  <2>. HIDE DEF plan, st
  <2>. QED
    BY <1>1, <2>1, <2>2 DEF SessType
<1>7. sink' \in SinkType
  BY DEF SessState, WorldInv, SinkType
<1>. QED
  BY <1>1, <1>5, <1>6, <1>7 DEF SessState, WorldInv, TalkInv

(* A failed outbox write ends the session; what was written stays.         *)
LEMMA WriteType ==
  ASSUME WorldInv, NEW sh \in SharedType, NEW ids \in SUBSET Own, Write(sh, ids)
  PROVE  sink' \in SinkType
BY DEF Write, WorldInv, SinkType

LEMMA FailedPushType ==
  ASSUME WorldInv, TalkInv, NEW sh \in SharedType, NEW ids \in SUBSET Own, FailedPush(sh, ids)
  PROVE  sink' \in SinkType /\ env' \in EnvType /\ TalkInv'
<1>1. PICK b \in ids \cap sh.unsaved :
        LET earlier == {a \in ids : a < b} IN
        /\ DiskFault
        /\ Write(sh, earlier)
        /\ EndSession(Saved(sh, earlier), http)
  BY DEF FailedPush
<1>. DEFINE earlier == {a \in ids : a < b}
<1>2. earlier \in SUBSET Own /\ Write(sh, earlier) /\ EndSession(Saved(sh, earlier), http)
  BY <1>1
<1>3. sink' \in SinkType
  <2>. HIDE DEF earlier
  <2>. QED  BY <1>2, WriteType
<1>4. env' \in EnvType
  BY <1>1, DiskFaultType
<1>5. TalkInv'
  <2>. HIDE DEF earlier
  <2>. QED  BY <1>2, SavedType, EndSessionType DEF TalkInv
<1>. QED
  BY <1>3, <1>4, <1>5

LEMMA SessPlanType ==
  ASSUME WorldInv, TalkInv, SessPlan
  PROVE  WorldInv' /\ TalkInv'
<1>. DEFINE sh == [shared EXCEPT !.cursor = sess.plan.after]
            se == IF sess.plan.fetch
                    THEN [sess EXCEPT !.ticket = shared.refReq, !.phase = "fetch", !.plan = NoPlan]
                    ELSE [Backfilling(sess) EXCEPT !.ticket = shared.refReq]
            t0 == [Turn(sh, se) EXCEPT !.out =
                     <<RowsReq(sess.plan.after, sess.resumed /\ ~sess.repair)>>]
            t1 == PushPending(t0)
            t2 == IF sess.plan.fetch THEN t1
                  ELSE [t1 EXCEPT !.sh = SettleCausal(@, sess.causalSame)]
            ids == ToPush(sh, sess.inFlight)
<1>1. sess.plan.after \in Nat /\ sess.resumed \in BOOLEAN /\ sess.repair \in BOOLEAN
      /\ sess.causalSame \in BOOLEAN /\ shared.refReq \in 0 .. MaxRefresh
  BY DEF TalkInv, SessType, PlanType, SharedType
<1>2. sh \in SharedType
  BY <1>1 DEF TalkInv, SharedType
<1>3. se \in SessType /\ se.phase # "down"
  <2>1. Backfilling(sess) \in SessType /\ Backfilling(sess).phase = "backfill"
    BY BackfillingType DEF TalkInv, Backfilling, SessType
  <2>2. sess \in SessType
    BY DEF TalkInv
  <2>. QED
    BY <1>1, <2>1, <2>2, RestTypes DEF SessType
<1>4. t0 \in TurnType /\ t0.se = se
  <2>. DEFINE out == <<RowsReq(sess.plan.after, sess.resumed /\ ~sess.repair)>>
  <2>1. out \in Seq(ClientFrame)
    <3>1. RowsReq(sess.plan.after, sess.resumed /\ ~sess.repair) \in ClientFrame
      BY <1>1, RowsReqType
    <3>. QED  BY <3>1
  <2>2. Turn(sh, se) \in TurnType /\ Turn(sh, se).se = se
    <3>. HIDE DEF sh, se
    <3>. QED  BY <1>2, <1>3, TurnIsTurn DEF Turn
  <2>3. t0 = [Turn(sh, se) EXCEPT !.out = out]
    OBVIOUS
  <2>. HIDE DEF sh, se, t0, out
  <2>. QED
    BY <2>1, <2>2, <2>3 DEF TurnType
<1>5. t1 \in TurnType /\ t1.se.phase # "down"
  <2>. HIDE DEF t0, se
  <2>. QED  BY <1>3, <1>4, PushPendingType, PhaseKept
<1>6. t2 \in TurnType /\ t2.se.phase # "down"
  <2>1. SettleCausal(t1.sh, sess.causalSame) \in SharedType
    <3>. HIDE DEF t1
    <3>. QED  BY <1>1, <1>5, SettleCausalType DEF TurnType
  <2>. HIDE DEF t1
  <2>. QED  BY <1>5, <2>1 DEF TurnType
<1>7. ids \in SUBSET Own
  BY <1>2, ToPushType
<1>8. UNCHANGED <<srv, needs, tok, issued, asked>>
  BY DEF SessPlan
<1>9. CASE Write(sh, ids) /\ UNCHANGED env /\ Finish(t2, http, s2c)
  <2>. HIDE DEF sh, ids, t2
  <2>1. sink' \in SinkType
    BY <1>2, <1>7, <1>9, WriteType
  <2>2. TalkInv'
    BY <1>6, <1>8, <1>9, FinishType DEF TalkInv
  <2>. QED
    BY <1>8, <1>9, <2>1, <2>2 DEF WorldInv
<1>10. CASE FailedPush(sh, ids)
  <2>. HIDE DEF sh, ids
  <2>. QED  BY <1>2, <1>7, <1>8, <1>10, FailedPushType DEF WorldInv
<1>. QED
  BY <1>9, <1>10 DEF SessPlan

(* Marking the buffered frames keeps a sequence of frames one.             *)
LEMMA MarkedType ==
  ASSUME NEW S, s2c \in Seq(S), [k |-> "END"] \in S, NEW n \in DOMAIN s2c
  PROVE  Marked(n) \in Seq(S)
<1>. DEFINE mark == [k |-> "END"]
<1>1. Len(s2c) \in Nat /\ n \in 1 .. Len(s2c) /\ mark \in S
  OBVIOUS
<1>. HIDE DEF mark
<1>2. SubSeq(s2c, 1, n) \in Seq(S) /\ SubSeq(s2c, n + 1, Len(s2c)) \in Seq(S)
  BY <1>1
<1>3. <<mark>> \in Seq(S)
  BY <1>1
<1>4. SubSeq(s2c, 1, n) \o <<mark>> \o SubSeq(s2c, n + 1, Len(s2c)) \in Seq(S)
  BY <1>2, <1>3
<1>. QED
  BY <1>4 DEF Marked, mark

LEMMA MarkIsFrame == [k |-> "END"] \in ServerFrame
BY DEF ServerFrame, MarkFrame

LEMMA SessFetchType ==
  ASSUME WorldInv, TalkInv, SessFetch
  PROVE  WorldInv' /\ TalkInv'
<1>1. sess.st.seq \in Nat /\ sess.causalSame \in BOOLEAN /\ srv.ids \in SUBSET Items
  BY DEF TalkInv, SessType, StateFrame, WorldInv, SrvType
<1>2. [shared EXCEPT !.cursor = MaxOf(@, sess.st.seq)] \in SharedType
  BY <1>1, MaxOfNat DEF TalkInv, SharedType
<1>3. shared' \in SharedType
  BY <1>1, <1>2, SettleCausalType DEF SessFetch
<1>4. sess' \in SessType /\ sess'.phase # "down"
  <2>. DEFINE se == Backfilling(sess)
  <2>1. se \in SessType /\ se.phase = "backfill"
    BY BackfillingType DEF TalkInv, Backfilling, SessType
  <2>2. sess' = se \/ sess' = [se EXCEPT !.phase = "replay"]
    BY DEF SessFetch
  <2>. HIDE DEF se
  <2>. QED
    BY <2>1, <2>2 DEF SessType
<1>5. sink' \in SinkType
  BY <1>1, MaxOfNat DEF SessFetch, WorldInv, SinkType
<1>6. s2c' \in Seq(FramesUpTo(Len(srv.log)))
  <2>. DEFINE F == FramesUpTo(Len(srv.log))
  <2>1. s2c \in Seq(F) /\ [k |-> "END"] \in F
    BY MarkIsFrame DEF TalkInv, FramesUpTo
  <2>2. s2c' = s2c \/ \E n \in DOMAIN s2c : s2c' = Marked(n)
    BY DEF SessFetch
  <2>. HIDE DEF F
  <2>3. s2c' \in Seq(F)
    BY <2>1, <2>2, MarkedType
  <2>. QED
    BY <2>3 DEF F
<1>. QED
  BY <1>3, <1>4, <1>5, <1>6 DEF SessFetch, WorldInv, TalkInv

LEMMA SessRowType ==
  ASSUME WorldInv, TalkInv, SessRow
  PROVE  WorldInv' /\ TalkInv'
<1>. DEFINE f   == Head(s2c)
            seq == RowSeq(f)
            id  == IF f.k = "ROW" THEN f.id ELSE srv.log[seq]
            gap == IsGap(shared.cursor, seq)
<1>1. s2c # <<>> /\ IsRow(f) /\ sess.phase # "down"
  BY DEF SessRow, Reading, Joined
<1>2. f \in ServerFrame /\ Tail(s2c) \in Seq(FramesUpTo(Len(srv.log)))
      /\ (f.k = "ROWS" => f \in RowsFrame /\ f.head <= Len(srv.log))
  BY <1>1, LogLength, ReadFrames DEF TalkInv
<1>3. seq \in Nat /\ id \in Ids
  <2>1. CASE f.k = "ROW"
    BY <1>2, <2>1, FrameKinds DEF RowSeq
  <2>2. CASE f.k # "ROW"
    <3>1. f.k = "ROWS" /\ NextSeq(f) <= f.head /\ seq = NextSeq(f) /\ id = srv.log[seq]
      BY <1>1, <2>2 DEF IsRow, RowSeq
    <3>2. f \in RowsFrame /\ f.head <= Len(srv.log) /\ f.head \in Nat
      BY <1>2, <3>1 DEF RowsFrame
    <3>3. NextSeq(f) \in Nat /\ NextSeq(f) > 0
      BY <3>2, NextSeqType
    <3>4. seq \in 1 .. Len(srv.log)
      BY <3>1, <3>2, <3>3, LogLength
    <3>. QED
      BY <3>1, <3>4, LogLength
  <2>. QED
    BY <2>1, <2>2
<1>4. gap \in BOOLEAN /\ Walk(shared.cursor, seq) \in Nat
  BY <1>3, WalkNat DEF IsGap, TalkInv, SharedType
<1>5. sess' \in SessType /\ sess'.phase = sess.phase
  <2>. DEFINE row == [id |-> id, seq |-> seq, cur |-> Walk(shared.cursor, seq)]
  <2>1. row \in RowType
    BY <1>3, <1>4 DEF RowType
  <2>2. sess' = [sess EXCEPT !.row = row] /\ sess \in SessType
    BY DEF SessRow, TalkInv
  <2>. HIDE DEF row
  <2>. QED
    BY <2>1, <2>2 DEF SessType
<1>6. shared' \in SharedType
  <2>1. shared' = [shared EXCEPT !.gap = @ \/ gap] /\ shared \in SharedType
    BY DEF SessRow, TalkInv
  <2>. HIDE DEF gap
  <2>. QED  BY <1>4, <2>1 DEF SharedType
<1>7. http' \in HttpType /\ CycleComplete(http')
  <2>1. http' = [http EXCEPT !.gapSame = @ /\ ~gap] /\ http \in HttpType /\ CycleComplete(http)
    BY DEF SessRow, TalkInv
  <2>. HIDE DEF gap
  <2>. QED  BY <1>4, <2>1 DEF HttpType, CycleComplete
<1>8. s2c' \in Seq(FramesUpTo(Len(srv.log)))
  <2>1. CASE f.k = "ROW"
    BY <1>2, <2>1 DEF SessRow
  <2>2. CASE f.k # "ROW"
    <3>. DEFINE g == [f EXCEPT !.next = seq + 1]
    <3>1. f \in RowsFrame /\ f.head <= Len(srv.log)
      BY <1>1, <1>2, <2>2 DEF IsRow
    <3>2. g \in RowsFrame /\ g.head <= Len(srv.log)
      BY <1>3, <3>1 DEF RowsFrame
    <3>3. g \in FramesUpTo(Len(srv.log))
      BY <3>2 DEF FramesUpTo, ServerFrame
    <3>4. s2c' = <<g>> \o Tail(s2c)
      BY <2>2 DEF SessRow
    <3>. HIDE DEF g
    <3>. QED
      BY <1>2, <3>3, <3>4
  <2>. QED
    BY <2>1, <2>2
<1>9. WorldInv'
  BY DEF SessRow, WorldInv
<1>. QED
  BY <1>1, <1>5, <1>6, <1>7, <1>8, <1>9 DEF SessRow, TalkInv

(* Importing a row, and what it does to the cursor.                        *)
LEMMA ImportType ==
  ASSUME WorldInv, TalkInv, NEW row \in RowType
  PROVE  /\ Parks(row) \in BOOLEAN
         /\ Imported(row) \in SinkType
         /\ RowOutcome(row) \in SharedType
<1>1. Parks(row) \in BOOLEAN
  BY DEF Parks
<1>2. row.id \in Items /\ row.cur \in Nat
  BY DEF RowType, Items
<1>3. sink \in SinkType /\ sink.pcur \in Nat
  BY DEF WorldInv, SinkType
<1>4. MaxOf(sink.pcur, row.cur) \in Nat
  BY <1>2, <1>3, MaxOfNat
<1>5. Imported(row) \in SinkType
  BY <1>2, <1>3, <1>4 DEF Imported, SinkType
<1>6. shared \in SharedType /\ MaxOf(shared.cursor, row.cur) \in Nat
  BY <1>2, MaxOfNat DEF TalkInv, SharedType
<1>7. RowOutcome(row) \in SharedType
  BY <1>6 DEF RowOutcome, SharedType
<1>. QED
  BY <1>1, <1>5, <1>7

(* A flag of the cycle may be cleared at any time.                         *)
LEMMA CycleFlags ==
  ASSUME NEW h \in HttpType, CycleComplete(h), NEW same \in BOOLEAN
  PROVE  /\ [h EXCEPT !.causalSame = @ /\ same] \in HttpType
         /\ CycleComplete([h EXCEPT !.causalSame = @ /\ same])
         /\ [h EXCEPT !.gapSame = @ /\ same] \in HttpType
         /\ CycleComplete([h EXCEPT !.gapSame = @ /\ same])
BY DEF HttpType, CycleComplete

LEMMA SessApplyRowType ==
  ASSUME WorldInv, TalkInv, SessApplyRow
  PROVE  WorldInv' /\ TalkInv'
<1>. DEFINE same == ~Parks(sess.row)
            se   == [sess EXCEPT !.row = NoRow, !.causalSame = @ /\ same]
            h    == [http EXCEPT !.causalSame = @ /\ same]
<1>1. sess.row \in RowType /\ sess \in SessType /\ sess.phase # "down"
  BY DEF SessApplyRow, TalkInv, SessType
<1>2. same \in BOOLEAN /\ Imported(sess.row) \in SinkType /\ RowOutcome(sess.row) \in SharedType
  BY <1>1, ImportType
<1>3. se \in SessType /\ se.phase # "down"
  <2>. HIDE DEF same
  <2>. QED  BY <1>1, <1>2, RestTypes DEF SessType
<1>4. h \in HttpType /\ CycleComplete(h)
  <2>. HIDE DEF same
  <2>. QED  BY <1>2, CycleFlags DEF TalkInv
<1>5. AfterFrame(RowOutcome(sess.row), se, h, s2c) /\ sink' = Imported(sess.row)
      /\ UNCHANGED <<srv, needs, tok, issued, env, asked>>
  BY DEF SessApplyRow
<1>6. WorldInv'
  BY <1>2, <1>5 DEF WorldInv
<1>7. TalkInv'
  <2>. HIDE DEF se, h
  <2>. QED  BY <1>1, <1>2, <1>3, <1>4, <1>5, AfterFrameType DEF TalkInv
<1>. QED
  BY <1>6, <1>7

LEMMA SessAckType ==
  ASSUME WorldInv, TalkInv, SessAck
  PROVE  WorldInv' /\ TalkInv'
<1>. DEFINE ack == Head(s2c)
            gap == IsGap(shared.cursor, ack.seq)
            h   == [http EXCEPT !.gapSame = @ /\ ~gap]
<1>1. ack \in AckFrame /\ Tail(s2c) \in Seq(FramesUpTo(Len(srv.log)))
      /\ sess.phase # "down"
  <2>1. s2c # <<>> /\ ack.k = "ACK" /\ sess.phase # "down"
    BY DEF SessAck, Reading, Joined
  <2>2. ack \in ServerFrame /\ Tail(s2c) \in Seq(FramesUpTo(Len(srv.log)))
    BY <2>1, LogLength, ReadFrames DEF TalkInv
  <2>. QED
    BY <2>1, <2>2 DEF ServerFrame, StateFrame, RowFrame, RowsFrame, AckFrame, ErrorFrame,
              MarkFrame
<1>2. h \in HttpType /\ CycleComplete(h)
  <2>1. gap \in BOOLEAN
    BY DEF IsGap
  <2>. HIDE DEF gap
  <2>. QED  BY <2>1, CycleFlags DEF TalkInv
<1>3. PICK retired \in BOOLEAN :
        /\ \/ retired /\ UNCHANGED env
           \/ ~retired /\ DiskFault
        /\ sink' = [sink EXCEPT !.outbox = IF retired THEN @ \ {ack.id} ELSE @,
                                !.pcur = MaxOf(@, Acked(shared, ack, retired).cursor), !.dirty = TRUE]
        /\ AfterFrame(Acked(shared, ack, retired), sess, h, Tail(s2c))
  BY DEF SessAck
<1>4. Acked(shared, ack, retired) \in SharedType
  BY <1>1, AckedType DEF TalkInv
<1>5. env' \in EnvType
  BY <1>3, DiskFaultType DEF WorldInv
<1>6. sink' \in SinkType
  <2>1. Acked(shared, ack, retired).cursor \in Nat
    BY <1>4 DEF SharedType
  <2>2. sink \in SinkType /\ MaxOf(sink.pcur, Acked(shared, ack, retired).cursor) \in Nat
    BY <2>1, MaxOfNat DEF WorldInv, SinkType
  <2>. QED
    BY <1>3, <2>2 DEF SinkType
<1>7. UNCHANGED <<srv, needs, tok, issued, asked>>
  BY DEF SessAck
<1>8. TalkInv'
  <2>. HIDE DEF h
  <2>. QED  BY <1>1, <1>2, <1>3, <1>4, <1>7, AfterFrameType DEF TalkInv
<1>. QED
  BY <1>5, <1>6, <1>7, <1>8 DEF WorldInv

LEMMA SessRejectType ==
  ASSUME WorldInv, TalkInv, SessReject
  PROVE  WorldInv' /\ TalkInv'
<1>1. s2c # <<>> /\ Tail(s2c) \in Seq(FramesUpTo(Len(srv.log))) /\ sess.phase # "down"
      /\ UNCHANGED <<srv, needs, tok, issued, asked>>
  BY LogLength, ReadFrames DEF SessReject, Reading, Joined, TalkInv
<1>2. CASE /\ sink' = [sink EXCEPT !.rejected = @ \cup ({Head(s2c).id} \cap sink.outbox)]
           /\ AfterFrame(Retire(shared, {Head(s2c).id}), sess, http, Tail(s2c))
           /\ UNCHANGED env
  <2>1. sink' \in SinkType
    BY <1>2 DEF WorldInv, SinkType
  <2>2. TalkInv'
    BY <1>1, <1>2, RetireType, AfterFrameType DEF TalkInv
  <2>. QED
    BY <1>1, <1>2, <2>1, <2>2 DEF WorldInv
<1>3. CASE DiskFault /\ EndSession(shared, http) /\ UNCHANGED sink
  <2>1. TalkInv'
    BY <1>3, EndSessionType DEF TalkInv
  <2>. QED
    BY <1>1, <1>3, <2>1, DiskFaultType DEF WorldInv
<1>. QED
  BY <1>2, <1>3 DEF SessReject

LEMMA SessQuotaType ==
  ASSUME WorldInv, TalkInv, SessQuota
  PROVE  WorldInv' /\ TalkInv'
<1>1. s2c # <<>> /\ Tail(s2c) \in Seq(FramesUpTo(Len(srv.log))) /\ sess.phase # "down"
      /\ UNCHANGED <<srv, needs, tok, sink, issued, env, asked>>
  BY LogLength, ReadFrames DEF SessQuota, Reading, Joined, TalkInv
<1>2. [shared EXCEPT !.quotaBlocked = TRUE, !.retryArmed = TRUE] \in SharedType
  BY DEF TalkInv, SharedType
<1>3. TalkInv'
  BY <1>1, <1>2, AfterFrameType DEF SessQuota, TalkInv
<1>. QED
  BY <1>1, <1>3 DEF WorldInv

LEMMA SessDeferType ==
  ASSUME WorldInv, TalkInv, SessDefer
  PROVE  WorldInv' /\ TalkInv'
<1>. DEFINE f == Head(s2c)
<1>1. s2c # <<>> /\ f \in ServerFrame /\ f.k = "ROWS" /\ f.head \in Nat
      /\ Tail(s2c) \in Seq(FramesUpTo(Len(srv.log))) /\ sess.phase # "down"
  BY LogLength, ReadFrames, FrameKinds DEF SessDefer, IsDone, Reading, Joined, TalkInv
<1>2. sess' \in SessType /\ sess'.phase # "down"
  <2>. HIDE DEF f
  <2>1. sess' = [sess EXCEPT !.phase = "drain", !.head = f.head]
    BY DEF SessDefer, f
  <2>. QED
    BY <1>1, <2>1 DEF TalkInv, SessType
<1>. HIDE DEF f
<1>. QED
  BY <1>1, <1>2 DEF SessDefer, WorldInv, TalkInv

(* The room's head is a number in either form of the join.                 *)
LEMMA CaughtUpType ==
  ASSUME NEW sh \in SharedType, NEW ticket \in 0 .. MaxRefresh, NEW head
  PROVE  CaughtUp(sh, ticket, head) \in SharedType
<1>. DEFINE done == IF ~sh.gap /\ sh.cursor >= head THEN MaxOf(sh.refDone, ticket) ELSE sh.refDone
<1>1. done \in 0 .. MaxRefresh
  BY BoundsAreNat DEF MaxOf, SharedType
<1>2. CaughtUp(sh, ticket, head) = IF sh.needsCkpt THEN sh
                                   ELSE [sh EXCEPT !.caughtUp = TRUE, !.refDone = done]
  BY DEF CaughtUp
<1>. HIDE DEF done
<1>. QED
  BY <1>1, <1>2 DEF SharedType

LEMMA SessJoinType ==
  ASSUME WorldInv, TalkInv, SessJoin
  PROVE  WorldInv' /\ TalkInv'
<1>. DEFINE head == IF sess.phase = "drain" THEN sess.head ELSE Head(s2c).head
            sh == CaughtUp(shared, sess.ticket, head)
            se == [sess EXCEPT !.phase = "steady", !.resumed = TRUE, !.ticket = 0, !.head = 0]
<1>1. s2c # <<>> /\ Tail(s2c) \in Seq(FramesUpTo(Len(srv.log))) /\ sess.phase # "down"
      /\ UNCHANGED <<srv, needs, tok, sink, issued, env, asked>>
  BY LogLength, ReadFrames DEF SessJoin, Reading, Joined, TalkInv
<1>2. sh \in SharedType
  <2>. HIDE DEF head
  <2>. QED
    BY CaughtUpType DEF TalkInv, SessType
<1>3. se \in SessType /\ se.phase # "down"
  <2>1. 0 \in 0 .. MaxRefresh
    BY BoundsAreNat
  <2>. QED  BY <2>1 DEF TalkInv, SessType
<1>4. AfterFrame(sh, se, http, Tail(s2c))
  BY DEF SessJoin
<1>5. TalkInv'
  <2>. HIDE DEF sh, se
  <2>. QED  BY <1>1, <1>2, <1>3, <1>4, AfterFrameType DEF TalkInv
<1>. QED
  BY <1>1, <1>5 DEF WorldInv

LEMMA SessDoneType ==
  ASSUME WorldInv, TalkInv, SessDone
  PROVE  WorldInv' /\ TalkInv'
<1>. DEFINE f      == Head(s2c)
            missed == sess.refresh # 0 /\ shared.cursor < f.head
            sh == RefreshRead([shared EXCEPT !.rowsReqOut = FALSE], sess.refresh, f.head)
            se == [sess EXCEPT !.refresh = 0]
            h  == [http EXCEPT !.gapSame = @ /\ ~missed]
<1>1. s2c # <<>> /\ f \in ServerFrame /\ f.k = "ROWS" /\ f.head \in Nat
      /\ Tail(s2c) \in Seq(FramesUpTo(Len(srv.log))) /\ sess.phase # "down"
      /\ UNCHANGED <<srv, needs, tok, sink, issued, env, asked>>
  BY LogLength, ReadFrames, FrameKinds DEF SessDone, IsDone, Reading, TalkInv
<1>2. sh \in SharedType
  <2>1. [shared EXCEPT !.rowsReqOut = FALSE] \in SharedType /\ sess.refresh \in 0 .. MaxRefresh
    BY DEF TalkInv, SharedType, SessType
  <2>. QED
    BY <1>1, <2>1, RefreshReadType
<1>3. se \in SessType /\ se.phase # "down"
  <2>1. 0 \in 0 .. MaxRefresh
    BY BoundsAreNat
  <2>. QED  BY <1>1, <2>1 DEF TalkInv, SessType
<1>4. h \in HttpType /\ CycleComplete(h)
  <2>1. missed \in BOOLEAN
    OBVIOUS
  <2>. HIDE DEF missed
  <2>. QED  BY <2>1, CycleFlags DEF TalkInv
<1>5. AfterFrame(sh, se, h, Tail(s2c))
  BY DEF SessDone
<1>6. TalkInv'
  <2>. HIDE DEF sh, se, h
  <2>. QED  BY <1>1, <1>2, <1>3, <1>4, <1>5, AfterFrameType DEF TalkInv
<1>. QED
  BY <1>1, <1>6 DEF WorldInv

LEMMA SessNudgeType ==
  ASSUME WorldInv, TalkInv, SessNudge
  PROVE  WorldInv' /\ TalkInv'
<1>. DEFINE ids == ToPush(shared, sess.inFlight)
            t   == SendRefresh(PushPending(Turn(shared, sess)))
<1>1. sess.phase = "steady" /\ shared \in SharedType /\ sess \in SessType
      /\ tok' \in TokType /\ UNCHANGED <<srv, needs, issued, asked>>
  BY DEF SessNudge, Steady, WorldInv, TalkInv, TokType
<1>2. t \in TurnType /\ t.se.phase # "down"
  <2>1. Turn(shared, sess) \in TurnType /\ Turn(shared, sess).se = sess
    BY <1>1, TurnIsTurn DEF Turn
  <2>2. PushPending(Turn(shared, sess)) \in TurnType
        /\ PushPending(Turn(shared, sess)).se.phase = "steady"
    BY <1>1, <2>1, PushPendingType, PhaseKept
  <2>. QED
    BY <2>2, SendRefreshType, PhaseKept
<1>3. ids \in SUBSET Own
  BY <1>1, ToPushType
<1>4. CASE Write(shared, ids) /\ UNCHANGED env /\ Finish(t, http, s2c)
  <2>. HIDE DEF ids, t
  <2>1. sink' \in SinkType
    BY <1>1, <1>3, <1>4, WriteType
  <2>2. TalkInv'
    BY <1>1, <1>2, <1>4, FinishType DEF TalkInv
  <2>. QED
    BY <1>1, <1>4, <2>1, <2>2 DEF WorldInv
<1>5. CASE FailedPush(shared, ids)
  <2>. HIDE DEF ids
  <2>. QED  BY <1>1, <1>3, <1>5, FailedPushType DEF WorldInv
<1>. QED
  BY <1>4, <1>5 DEF SessNudge

LEMMA SessProbeType ==
  ASSUME WorldInv, TalkInv, SessProbe
  PROVE  WorldInv' /\ TalkInv'
<1>1. sess.phase = "steady" /\ shared \in SharedType /\ sess \in SessType
      /\ tok' \in TokType /\ UNCHANGED <<srv, needs, sink, issued, env, asked>>
  BY DEF SessProbe, Steady, WorldInv, TalkInv, TokType
<1>2. SendRefresh(Turn(shared, sess)) \in TurnType
      /\ SendRefresh(Turn(shared, sess)).se.phase # "down"
  <2>1. Turn(shared, sess) \in TurnType /\ Turn(shared, sess).se = sess
    BY <1>1, TurnIsTurn DEF Turn
  <2>. QED
    BY <1>1, <2>1, SendRefreshType, PhaseKept
<1>3. TalkInv'
  BY <1>1, <1>2, FinishType DEF SessProbe, TalkInv
<1>. QED
  BY <1>1, <1>3 DEF WorldInv

LEMMA SessRedialType ==
  ASSUME WorldInv, TalkInv, SessRedial
  PROVE  WorldInv' /\ TalkInv'
<1>1. tok' \in TokType /\ UNCHANGED <<srv, needs, sink, issued, env, asked>>
  BY DEF SessRedial, WorldInv, TokType
<1>2. TalkInv'
  BY EndSessionType DEF SessRedial, TalkInv
<1>. QED
  BY <1>1, <1>2 DEF WorldInv

LEMMA HeadOfType ==
  ASSUME NEW pending \in SUBSET Own
  PROVE  HeadOf(pending) \in SUBSET Own /\ HeadOf(pending) \subseteq pending
BY LeastOwn DEF HeadOf

LEMMA SessRetryType ==
  ASSUME WorldInv, TalkInv, SessRetry
  PROVE  WorldInv' /\ TalkInv'
<1>. DEFINE ids == HeadOf(shared.pending)
            sh  == [shared EXCEPT !.retryArmed = FALSE]
            out == IF ids = {} THEN <<>> ELSE <<[k |-> "PUSH", ids |-> ids]>>
            t   == [Turn(Saved(sh, ids), sess) EXCEPT
                      !.out = IF ids = {} THEN @ ELSE <<[k |-> "PUSH", ids |-> ids]>>]
<1>1. sess.phase = "steady" /\ shared \in SharedType /\ sess \in SessType
      /\ UNCHANGED <<srv, needs, tok, issued, asked>>
  BY DEF SessRetry, Steady, TalkInv
<1>2. ids \in SUBSET Own /\ sh \in SharedType
  BY <1>1, HeadOfType DEF SharedType
<1>3. out \in Seq(ClientFrame)
  <2>1. CASE ids = {}
    BY <2>1
  <2>2. CASE ids # {}
    <3>1. [k |-> "PUSH", ids |-> ids] \in ClientFrame
      BY <1>2, <2>2 DEF ClientFrame, PushFrame
    <3>. HIDE DEF ids
    <3>. QED  BY <2>2, <3>1
  <2>. QED
    BY <2>1, <2>2
<1>4. t \in TurnType /\ t.se = sess
  <2>1. Turn(Saved(sh, ids), sess) \in TurnType /\ Turn(Saved(sh, ids), sess).se = sess
    <3>. HIDE DEF sh, ids
    <3>. QED  BY <1>1, <1>2, SavedType, TurnIsTurn DEF Turn
  <2>2. t = [Turn(Saved(sh, ids), sess) EXCEPT !.out = out]
    BY DEF Turn
  <2>. HIDE DEF sh, ids, out, t
  <2>. QED
    BY <1>3, <2>1, <2>2 DEF TurnType
<1>5. SendRefresh(t) \in TurnType /\ SendRefresh(t).se.phase # "down"
  <2>. HIDE DEF t
  <2>. QED  BY <1>1, <1>4, SendRefreshType, PhaseKept
<1>6. CASE Write(sh, ids) /\ UNCHANGED env /\ Finish(SendRefresh(t), http, s2c)
  <2>. HIDE DEF sh, ids, t
  <2>1. sink' \in SinkType
    BY <1>2, <1>6, WriteType
  <2>2. TalkInv'
    BY <1>1, <1>5, <1>6, FinishType DEF TalkInv
  <2>. QED
    BY <1>1, <1>6, <2>1, <2>2 DEF WorldInv
<1>7. CASE FailedPush(sh, ids)
  <2>. HIDE DEF sh, ids
  <2>. QED  BY <1>1, <1>2, <1>7, FailedPushType DEF WorldInv
<1>. QED
  BY <1>6, <1>7 DEF SessRetry

LEMMA AttemptType ==
  ASSUME WorldInv, NEW written \in BOOLEAN, Attempt(written)
  PROVE  env' \in EnvType
BY DiskFaultType DEF Attempt, WorldInv

LEMMA EnqueueBatchType ==
  ASSUME NEW sh \in SharedType, NEW b \in Own, NEW durable \in BOOLEAN
  PROVE  EnqueueBatch(sh, b, durable) \in SharedType
BY DEF EnqueueBatch, SharedType

LEMMA EditedType ==
  ASSUME WorldInv, NEW b \in Own, NEW stored \in BOOLEAN, NEW again \in BOOLEAN
  PROVE  Edited(b, stored, again) \in SinkType
<1>1. sink \in SinkType /\ b \in Items
  BY DEF WorldInv, Items, Ids
<1>. DEFINE outbox == IF stored THEN sink.outbox \cup {b} ELSE sink.outbox
            redo == IF again THEN sink.redo \cup {b} ELSE sink.redo
<1>2. outbox \in SUBSET Own /\ redo \in SUBSET Own /\ sink.got \cup {b} \in SUBSET Items
  BY <1>1 DEF SinkType
<1>3. Edited(b, stored, again)
        = [sink EXCEPT !.got = @ \cup {b}, !.dirty = TRUE, !.outbox = outbox, !.redo = redo]
  BY DEF Edited
<1>. HIDE DEF outbox, redo
<1>. QED
  BY <1>1, <1>2, <1>3 DEF SinkType

LEMMA LocalEditType ==
  ASSUME WorldInv, issued < MaxOwn, LocalEdit(issued + 1)
  PROVE  /\ issued + 1 \in Own /\ issued' \in 0 .. MaxOwn
         /\ needs' \in [Items -> SUBSET Items]
<1>1. issued + 1 \in Own /\ issued + 1 \in Items /\ issued' \in 0 .. MaxOwn
  BY BoundsAreNat DEF LocalEdit, WorldInv, Own, Ids, Items
<1>2. Visible(sink.got, needs) \in SUBSET Items
  BY VisibleType DEF WorldInv, SinkType
<1>. QED
  BY <1>1, <1>2 DEF LocalEdit, WorldInv

LEMMA EnqueueType ==
  ASSUME WorldInv, TalkInv, Enqueue
  PROVE  WorldInv' /\ TalkInv'
<1>. DEFINE b == issued + 1
<1>1. b \in Own /\ issued' \in 0 .. MaxOwn /\ needs' \in [Items -> SUBSET Items]
  BY LocalEditType DEF Enqueue
<1>2. PICK stored \in BOOLEAN, durable \in BOOLEAN :
        /\ Attempt(durable)
        /\ sink' = [Edited(b, stored, stored /\ ~durable) EXCEPT
                      !.rejected = @ \cup (IF stored THEN {b} \cap Oversize ELSE {})]
        /\ shared' = EnqueueBatch(shared, b, durable)
  BY DEF Enqueue
<1>3. tok' = [tok EXCEPT !.nudge = @ \/ b \notin Oversize]
  BY DEF Enqueue
<1>. HIDE DEF b
<1>4. env' \in EnvType
  BY <1>2, AttemptType
<1>5. sink' \in SinkType
  <2>. DEFINE kept == Edited(b, stored, stored /\ ~durable)
  <2>1. kept \in SinkType
    BY <1>1, EditedType
  <2>2. sink' = [kept EXCEPT !.rejected = @ \cup (IF stored THEN {b} \cap Oversize ELSE {})]
    BY <1>2
  <2>. HIDE DEF kept
  <2>. QED
    BY <1>1, <2>1, <2>2 DEF SinkType
<1>6. shared' \in SharedType
  BY <1>1, <1>2, EnqueueBatchType DEF TalkInv
<1>7. tok' \in TokType
  BY <1>3 DEF WorldInv, TokType
<1>. QED
  BY <1>1, <1>4, <1>5, <1>6, <1>7 DEF Enqueue, WorldInv, TalkInv

LEMMA EnqueueEarlyType ==
  ASSUME WorldInv, TalkInv, EnqueueEarly
  PROVE  WorldInv' /\ TalkInv'
<1>. DEFINE b == issued + 1
<1>1. b \in Own /\ issued' \in 0 .. MaxOwn /\ needs' \in [Items -> SUBSET Items]
  BY LocalEditType DEF EnqueueEarly
<1>2. PICK stored \in BOOLEAN :
        /\ Attempt(stored)
        /\ sink' = [Edited(b, stored, TRUE) EXCEPT !.unsent = @ \cup {b}]
  BY DEF EnqueueEarly
<1>. HIDE DEF b
<1>3. env' \in EnvType
  BY <1>2, AttemptType
<1>4. sink' \in SinkType
  <2>. DEFINE kept == Edited(b, stored, TRUE)
  <2>1. kept \in SinkType
    BY <1>1, EditedType
  <2>2. sink' = [kept EXCEPT !.unsent = @ \cup {b}]
    BY <1>2
  <2>. HIDE DEF kept
  <2>. QED
    BY <1>1, <2>1, <2>2 DEF SinkType
<1>. QED
  BY <1>1, <1>3, <1>4 DEF EnqueueEarly, WorldInv, TalkInv

LEMMA RequestCatchUpType ==
  ASSUME WorldInv, TalkInv, RequestCatchUp
  PROVE  WorldInv' /\ TalkInv'
<1>1. shared' \in SharedType
  <2>1. shared.refReq \in 0 .. MaxRefresh /\ shared.refReq < MaxRefresh
    BY DEF RequestCatchUp, TalkInv, SharedType
  <2>2. shared.refReq + 1 \in 0 .. MaxRefresh
    BY <2>1, BoundsAreNat
  <2>. QED
    BY <2>2 DEF RequestCatchUp, TalkInv, SharedType
<1>2. tok' \in TokType
  BY DEF RequestCatchUp, WorldInv, TokType
<1>3. asked' \in Seq(SUBSET Ids)
  <2>1. Rows(srv.log) \in SUBSET Ids
    BY LogLength DEF Rows
  <2>. QED
    BY <2>1, AppendProperties DEF RequestCatchUp, WorldInv
<1>. QED
  BY <1>1, <1>2, <1>3 DEF RequestCatchUp, WorldInv, TalkInv

LEMMA HintsType ==
  ASSUME WorldInv, env.hints < MaxHints, env' = [env EXCEPT !.hints = @ + 1]
  PROVE  env' \in EnvType
<1>1. env.hints \in 0 .. MaxHints
  BY DEF WorldInv, EnvType
<1>2. env.hints + 1 \in 0 .. MaxHints
  BY <1>1, BoundsAreNat
<1>. QED
  BY <1>2 DEF WorldInv, EnvType

LEMMA ProbeType ==
  ASSUME WorldInv, TalkInv, Probe
  PROVE  WorldInv' /\ TalkInv'
<1>1. WorldInv'
  BY HintsType DEF Probe, WorldInv, TokType
<1>2. shared' \in SharedType /\ http' \in HttpType /\ CycleComplete(http')
  BY DEF Probe, TalkInv, SharedType, HttpType, CycleComplete
<1>. QED
  BY <1>1, <1>2 DEF Probe, TalkInv

LEMMA RedialType ==
  ASSUME WorldInv, TalkInv, Redial
  PROVE  WorldInv' /\ TalkInv'
<1>1. WorldInv'
  BY HintsType DEF Redial, WorldInv, TokType
<1>. QED
  BY <1>1 DEF Redial, TalkInv

LEMMA HttpPersistType ==
  ASSUME WorldInv, TalkInv, HttpPersist
  PROVE  WorldInv' /\ TalkInv'
<1>. DEFINE need == ToPersist(Least(http.todo), shared)
<1>1. http \in HttpType /\ shared \in SharedType /\ http.todo # {} /\ need \in SUBSET Own
      /\ UNCHANGED <<srv, needs, c2s, s2c, sess, tok, issued, asked>>
  BY LeastOwn DEF HttpPersist, TalkInv, HttpType, SharedType, ToPersist
<1>2. CASE /\ need # {} /\ DiskFault
           /\ http' = [http EXCEPT !.phase = "capture", !.todo = {}]
           /\ UNCHANGED <<shared, sink>>
  <2>1. http' \in HttpType /\ CycleComplete(http')
    BY <1>1, <1>2 DEF HttpType, CycleComplete
  <2>. QED
    BY <1>1, <1>2, <2>1, DiskFaultType DEF WorldInv, TalkInv
<1>3. CASE /\ sink' = [sink EXCEPT !.outbox = @ \cup need]
           /\ shared' = Saved(shared, need)
           /\ http' = [http EXCEPT !.phase = "post"]
           /\ UNCHANGED env
  <2>. HIDE DEF need
  <2>1. http' \in HttpType /\ CycleComplete(http')
    BY <1>1, <1>3 DEF HttpType, CycleComplete
  <2>2. sink' \in SinkType /\ shared' \in SharedType
    BY <1>1, <1>3, SavedType DEF WorldInv, SinkType
  <2>. QED
    BY <1>1, <1>3, <2>1, <2>2 DEF WorldInv, TalkInv
<1>. QED
  BY <1>2, <1>3 DEF HttpPersist

LEMMA HttpPostType ==
  ASSUME WorldInv, TalkInv, HttpPost
  PROVE  WorldInv' /\ TalkInv'
<1>. DEFINE b       == Least(http.todo)
            isNew   == b \notin Rows(srv.log)
            log     == IF isNew THEN Append(srv.log, b) ELSE srv.log
            stopped == [http EXCEPT !.phase = "capture", !.todo = {}]
            acked   == [http EXCEPT !.phase = "acked", !.todo = @ \ {b},
                                    !.ack = [id |-> b, seq |-> PosIn(log, b)]]
<1>1. http \in HttpType /\ b \in Own /\ b \in Ids /\ b \in 0 .. MaxOwn
      /\ UNCHANGED <<needs, c2s, shared, sess, tok, sink, issued, asked>>
  <2>1. http \in HttpType /\ http.todo # {} /\ http.todo \in SUBSET Own
    BY DEF HttpPost, TalkInv, HttpType, CycleComplete
  <2>. QED
    BY <2>1, LeastOwn, BoundsAreNat DEF HttpPost, Ids, Own
<1>2. log \in Seq(Ids) /\ b \in Rows(log) /\ Len(log) \in Nat
      /\ Len(log) = (IF isNew THEN Len(srv.log) + 1 ELSE Len(srv.log))
  <2>. HIDE DEF b
  <2>1. CASE isNew
    BY <1>1, <2>1, LogLength, AppendedPos
  <2>2. CASE ~isNew
    BY <2>2, LogLength
  <2>. QED
    BY <2>1, <2>2
<1>3. stopped \in HttpType /\ CycleComplete(stopped)
  BY <1>1 DEF HttpType, CycleComplete
<1>4. acked \in HttpType /\ CycleComplete(acked)
  <2>. DEFINE pos == PosIn(log, b)
  <2>1. pos \in Nat
    <3>. HIDE DEF log, b
    <3>. QED  BY <1>2, PosInType
  <2>2. acked = [http EXCEPT !.phase = "acked", !.todo = @ \ {b}, !.ack = [id |-> b, seq |-> pos]]
    OBVIOUS
  <2>. HIDE DEF pos, b, acked
  <2>. QED
    BY <1>1, <2>1, <2>2 DEF HttpType, CycleComplete
<1>5. CASE UNCHANGED <<srv, s2c>> /\ http' = stopped
           /\ (UNCHANGED env \/ (env.drops < MaxDrops /\ env' = [env EXCEPT !.drops = @ + 1]))
  <2>1. env' \in EnvType
    BY <1>5, DropsType DEF WorldInv
  <2>. HIDE DEF stopped
  <2>. QED  BY <1>1, <1>3, <1>5, <2>1 DEF WorldInv, TalkInv
<1>6. CASE /\ srv' = [srv EXCEPT !.log = log, !.used = @ \cup {b}]
           /\ s2c' \in {s2c} \cup (IF isNew
                THEN {Broadcast([k |-> "ROW", id |-> b, seq |-> Len(log)])} ELSE {})
           /\ \/ http' = acked /\ UNCHANGED env
              \/ http' = stopped /\ env.drops < MaxDrops /\ env' = [env EXCEPT !.drops = @ + 1]
  <2>1. srv' \in SrvType /\ srv'.log = log
    <3>. HIDE DEF log, b
    <3>. QED  BY <1>1, <1>2, <1>6 DEF WorldInv, SrvType
  <2>2. s2c' \in Seq(FramesUpTo(Len(srv'.log)))
    <3>1. CASE isNew
      <4>1. Len(srv'.log) = Len(srv.log) + 1
        BY <1>2, <2>1, <3>1
      <4>2. Broadcast([k |-> "ROW", id |-> b, seq |-> Len(srv'.log)]) \in Seq(FramesUpTo(Len(srv'.log)))
        <5>. HIDE DEF b
        <5>. QED  BY <1>1, <4>1, BroadcastType
      <4>3. s2c \in Seq(FramesUpTo(Len(srv'.log)))
        BY <4>1, LogLength, FramesGrow DEF TalkInv
      <4>4. s2c' = s2c \/ s2c' = Broadcast([k |-> "ROW", id |-> b, seq |-> Len(srv'.log)])
        BY <1>6, <2>1
      <4>. QED
        BY <4>2, <4>3, <4>4
    <3>2. CASE ~isNew
      <4>1. s2c' = s2c /\ Len(srv'.log) = Len(srv.log)
        BY <1>2, <1>6, <2>1, <3>2
      <4>. QED
        BY <4>1 DEF TalkInv
    <3>. QED
      BY <3>1, <3>2
  <2>3. http' \in HttpType /\ CycleComplete(http')
    <3>. HIDE DEF acked, stopped
    <3>. QED  BY <1>3, <1>4, <1>6
  <2>4. env' \in EnvType
    BY <1>6, DropsType DEF WorldInv
  <2>5. sess.phase = "down" => s2c' = <<>>
    BY <1>6 DEF TalkInv, Broadcast
  <2>. QED
    BY <1>1, <2>1, <2>2, <2>3, <2>4, <2>5 DEF WorldInv, TalkInv
<1>. QED
  BY <1>5, <1>6 DEF HttpPost

LEMMA HttpAckType ==
  ASSUME WorldInv, TalkInv, HttpAck
  PROVE  WorldInv' /\ TalkInv'
<1>. DEFINE cur == Walk(shared.cursor, http.ack.seq)
<1>1. cur \in Nat
  BY WalkNat DEF TalkInv, SharedType, HttpType
<1>2. PICK retired \in BOOLEAN :
        /\ \/ retired /\ UNCHANGED env
           \/ ~retired /\ DiskFault
        /\ shared' = [Retire(shared, IF retired THEN {http.ack.id} ELSE {}) EXCEPT !.cursor = cur]
        /\ sink' = [sink EXCEPT !.outbox = IF retired THEN @ \ {http.ack.id} ELSE @,
                                !.pcur = MaxOf(@, cur), !.dirty = TRUE]
  BY DEF HttpAck
<1>. HIDE DEF cur
<1>3. Retire(shared, IF retired THEN {http.ack.id} ELSE {}) \in SharedType
  BY RetireType DEF TalkInv
<1>4. shared' \in SharedType
  BY <1>1, <1>2, <1>3 DEF SharedType
<1>5. sink' \in SinkType
  <2>1. sink \in SinkType /\ MaxOf(sink.pcur, cur) \in Nat
    BY <1>1, MaxOfNat DEF WorldInv, SinkType
  <2>. QED
    BY <1>2, <2>1 DEF SinkType
<1>6. http' \in HttpType /\ CycleComplete(http')
  <2>1. NoAck \in [id : 0 .. MaxOwn, seq : Nat]
    BY BoundsAreNat DEF NoAck
  <2>2. http' = [http EXCEPT !.phase = "push", !.ack = NoAck] /\ http \in HttpType
    BY DEF HttpAck, TalkInv
  <2>3. http' \in HttpType /\ http'.phase = "push"
    BY <2>1, <2>2 DEF HttpType
  <2>. QED
    BY <2>3 DEF CycleComplete
<1>7. env' \in EnvType
  BY <1>2, DiskFaultType DEF WorldInv
<1>. QED
  BY <1>4, <1>5, <1>6, <1>7 DEF HttpAck, WorldInv, TalkInv

LEMMA HttpCaptureType ==
  ASSUME WorldInv, TalkInv, HttpCapture
  PROVE  WorldInv' /\ TalkInv'
<1>1. http' \in HttpType /\ CycleComplete(http') /\ shared' \in SharedType
  BY DEF HttpCapture, TalkInv, HttpType, SharedType, CycleComplete
<1>. QED
  BY <1>1 DEF HttpCapture, WorldInv, TalkInv

LEMMA HttpServeType ==
  ASSUME WorldInv, TalkInv, HttpServe
  PROVE  WorldInv' /\ TalkInv'
<1>1. StateOf(srv) \in StateFrame /\ StateOf(srv).head = Len(srv.log)
  BY LogLength DEF StateOf, StateFrame, WorldInv, SrvType
<1>2. MaxOf(http.cursor, srv.ckpt) \in Nat
  BY MaxOfNat DEF WorldInv, SrvType, TalkInv, HttpType
<1>3. http' \in HttpType /\ CycleComplete(http')
  <2>. DEFINE st   == StateOf(srv)
              next == MaxOf(http.cursor, srv.ckpt) + 1
  <2>1. http' = [http EXCEPT !.phase = "answer", !.st = st, !.log = srv.log, !.next = next]
        /\ http \in HttpType
    BY DEF HttpServe, TalkInv
  <2>2. st \in StateFrame /\ st.head = Len(srv.log) /\ next \in Nat /\ next > 0
    BY <1>1, <1>2
  <2>. HIDE DEF st, next
  <2>3. http' \in HttpType /\ http'.phase = "answer" /\ http'.next = next
        /\ http'.st = st /\ http'.log = srv.log
    BY <2>1, <2>2, LogLength DEF HttpType
  <2>. QED
    BY <2>2, <2>3, LogLength DEF CycleComplete
<1>. QED
  BY <1>3 DEF HttpServe, WorldInv, TalkInv

LEMMA HttpFailType ==
  ASSUME WorldInv, TalkInv, HttpFail
  PROVE  WorldInv' /\ TalkInv'
<1>1. http' \in HttpType /\ CycleComplete(http')
  BY RestTypes DEF HttpFail, CycleComplete, IdleHttp
<1>2. shared' \in SharedType
  BY DEF HttpFail, TalkInv, SharedType
<1>. QED
  BY <1>1, <1>2, DropsType DEF HttpFail, WorldInv, TalkInv

LEMMA HttpStateType ==
  ASSUME WorldInv, TalkInv, HttpState
  PROVE  WorldInv' /\ TalkInv'
<1>. DEFINE st   == http.st
            cur  == Clamp(shared.cursor, st)
            late == cur < http.cursor /\ http.cursor <= st.head
            plan == PlanCatchUp(http.cursor, st, Contained(st))
<1>1. st \in StateFrame /\ http.cursor \in Nat /\ http \in HttpType /\ CycleComplete(http)
  BY DEF TalkInv, HttpType
<1>2. cur \in Nat
  BY <1>1 DEF Clamp, TalkInv, SharedType, StateFrame
<1>3. plan \in PlanType
  <2>1. Contained(st) \in BOOLEAN
    BY <1>1 DEF Contained, TalkInv, SharedType, StateFrame, ContainsFrontier
  <2>. QED
    BY <1>1, <2>1, PlanCatchUpType
<1>4. shared' \in SharedType
  <2>1. shared' = [shared EXCEPT !.cursor = cur, !.amnesty = TRUE]
    BY DEF HttpState
  <2>. HIDE DEF cur
  <2>. QED
    BY <1>2, <2>1 DEF TalkInv, SharedType
<1>5. sink' \in SinkType
  BY DEF HttpState, WorldInv, SinkType
<1>6. http' \in HttpType /\ CycleComplete(http')
  <2>1. http.phase = "answer" /\ http' = IF late THEN IdleHttp
            ELSE [http EXCEPT !.phase = IF plan.fetch THEN "fetch" ELSE "settle",
                              !.plan = plan, !.causalSame = TRUE]
    BY DEF HttpState
  <2>. HIDE DEF plan, late
  <2>2. CASE late
    BY <2>1, <2>2, RestTypes DEF CycleComplete, IdleHttp
  <2>3. CASE ~late
    BY <1>1, <1>3, <2>1, <2>3 DEF HttpType, CycleComplete
  <2>. QED
    BY <2>2, <2>3
<1>. QED
  BY <1>4, <1>5, <1>6 DEF HttpState, WorldInv, TalkInv

LEMMA HttpFetchType ==
  ASSUME WorldInv, TalkInv, HttpFetch
  PROVE  WorldInv' /\ TalkInv'
<1>1. http.st.seq \in Nat /\ srv.ids \in SUBSET Items
  BY DEF TalkInv, HttpType, StateFrame, WorldInv, SrvType
<1>2. sink' \in SinkType
  BY <1>1, MaxOfNat DEF HttpFetch, WorldInv, SinkType
<1>3. http' \in HttpType /\ CycleComplete(http')
  BY DEF HttpFetch, TalkInv, HttpType, CycleComplete
<1>. QED
  BY <1>2, <1>3 DEF HttpFetch, WorldInv, TalkInv

LEMMA HttpSettleType ==
  ASSUME WorldInv, TalkInv, HttpSettle
  PROVE  WorldInv' /\ TalkInv'
<1>. DEFINE cur == IF shared.cursor > http.st.head THEN http.plan.after
                   ELSE MaxOf(shared.cursor, http.plan.after)
<1>1. cur \in Nat /\ http.causalSame \in BOOLEAN
  BY DEF MaxOf, TalkInv, SharedType, HttpType, PlanType
<1>2. shared' \in SharedType
  <2>1. shared' = SettleCausal([shared EXCEPT !.cursor = cur], http.causalSame)
    BY DEF HttpSettle
  <2>. HIDE DEF cur
  <2>2. [shared EXCEPT !.cursor = cur] \in SharedType
    BY <1>1 DEF TalkInv, SharedType
  <2>. QED
    BY <1>1, <2>1, <2>2, SettleCausalType
<1>3. http' \in HttpType /\ CycleComplete(http')
  BY RestTypes DEF HttpSettle, TalkInv, HttpType, CycleComplete
<1>. QED
  BY <1>2, <1>3 DEF HttpSettle, WorldInv, TalkInv

LEMMA HttpRowType ==
  ASSUME WorldInv, TalkInv, HttpRow
  PROVE  WorldInv' /\ TalkInv'
<1>. DEFINE gap == IsGap(shared.cursor, http.next)
            row == [id |-> http.log[http.next], seq |-> http.next, cur |-> Walk(shared.cursor, http.next)]
<1>1. http \in HttpType /\ CycleComplete(http) /\ http.phase = "rows"
      /\ http.next <= http.st.head
  BY DEF HttpRow, TalkInv
<1>2. http.next \in 1 .. Len(http.log) /\ http.next \in Nat
  BY <1>1 DEF HttpType, CycleComplete, StateFrame
<1>3. row \in RowType
  <2>1. http.log[http.next] \in Ids
    BY <1>1, <1>2 DEF HttpType
  <2>2. Walk(shared.cursor, http.next) \in Nat
    BY <1>2, WalkNat DEF TalkInv, SharedType
  <2>. QED
    BY <1>2, <2>1, <2>2 DEF RowType
<1>4. gap \in BOOLEAN
  BY DEF IsGap
<1>5. http' = [http EXCEPT !.row = row, !.next = @ + 1, !.gapSame = @ /\ ~gap]
      /\ shared' = [shared EXCEPT !.gap = @ \/ gap]
  BY DEF HttpRow
<1>. HIDE DEF gap, row
<1>6. http' \in HttpType /\ CycleComplete(http')
  <2>. DEFINE next == http.next + 1
              same == http.gapSame /\ ~gap
  <2>0. next \in Nat /\ same \in BOOLEAN
        /\ http' = [http EXCEPT !.row = row, !.next = next, !.gapSame = same]
    BY <1>1, <1>2, <1>4, <1>5 DEF HttpType
  <2>1. http' \in HttpType
    <3>. HIDE DEF next, same
    <3>. QED  BY <1>1, <1>3, <2>0 DEF HttpType
  <2>2. http'.phase = http.phase /\ http'.next = http.next + 1 /\ http'.st = http.st
        /\ http'.log = http.log
    BY <1>1, <1>5 DEF HttpType
  <2>. QED
    BY <1>1, <1>2, <2>1, <2>2 DEF CycleComplete
<1>7. shared' \in SharedType
  BY <1>4, <1>5 DEF TalkInv, SharedType
<1>. QED
  BY <1>6, <1>7 DEF HttpRow, WorldInv, TalkInv

LEMMA HttpApplyRowType ==
  ASSUME WorldInv, TalkInv, HttpApplyRow
  PROVE  WorldInv' /\ TalkInv'
<1>. DEFINE same == ~Parks(http.row)
<1>1. http.row \in RowType /\ http \in HttpType /\ sess \in SessType
  BY DEF TalkInv, HttpType
<1>2. same \in BOOLEAN /\ Imported(http.row) \in SinkType /\ RowOutcome(http.row) \in SharedType
  BY <1>1, ImportType
<1>3. /\ http' = [http EXCEPT !.row = NoRow, !.causalSame = @ /\ same]
      /\ sess' = [sess EXCEPT !.causalSame = @ /\ same]
      /\ sink' = Imported(http.row) /\ shared' = RowOutcome(http.row)
  BY DEF HttpApplyRow
<1>. HIDE DEF same
<1>4. http' \in HttpType /\ CycleComplete(http')
  BY <1>1, <1>2, <1>3, RestTypes DEF TalkInv, HttpType, CycleComplete
<1>5. sess' \in SessType /\ sess'.phase = sess.phase /\ sess'.row = sess.row
  BY <1>1, <1>2, <1>3 DEF SessType
<1>. QED
  BY <1>2, <1>3, <1>4, <1>5 DEF HttpApplyRow, WorldInv, TalkInv

LEMMA HttpDoneType ==
  ASSUME WorldInv, TalkInv, HttpDone
  PROVE  WorldInv' /\ TalkInv'
<1>1. shared' \in SharedType
  BY CertifiedType DEF HttpDone, TalkInv
<1>2. http' \in HttpType /\ CycleComplete(http')
  BY RestTypes DEF HttpDone, CycleComplete, IdleHttp
<1>. QED
  BY <1>1, <1>2 DEF HttpDone, WorldInv, TalkInv

LEMMA FlushSampleType ==
  ASSUME WorldInv, TalkInv, FlushSample
  PROVE  WorldInv' /\ TalkInv'
<1>1. env' \in EnvType
  <2>1. env.flushes \in 0 .. MaxFlushes /\ env.flushes < MaxFlushes
    BY DEF FlushSample, WorldInv, EnvType
  <2>2. env.flushes + 1 \in 0 .. MaxFlushes
    BY <2>1, BoundsAreNat
  <2>. QED
    BY <2>2 DEF FlushSample, WorldInv, EnvType
<1>2. sink' \in SinkType
  BY DEF FlushSample, WorldInv, SinkType
<1>. QED
  BY <1>1, <1>2 DEF FlushSample, WorldInv, TalkInv

LEMMA FlushSaveType ==
  ASSUME WorldInv, TalkInv, FlushSave
  PROVE  WorldInv' /\ TalkInv'
<1>1. sink' \in SinkType
  BY VisibleType DEF FlushSave, WorldInv, SinkType
<1>. QED
  BY <1>1 DEF FlushSave, WorldInv, TalkInv

LEMMA NewSharedType ==
  ASSUME NEW cursor \in Nat, NEW pending \in SUBSET Own
  PROVE  NewShared(cursor, pending) \in SharedType
<1>1. 0 \in 0 .. MaxRefresh
  BY BoundsAreNat
<1>. QED
  BY <1>1 DEF NewShared, SharedType

LEMMA FreshClientType ==
  ASSUME NEW pending \in SUBSET Own
  PROVE  SpawnHttp(IdleHttp, pending) \in HttpType /\ CycleComplete(SpawnHttp(IdleHttp, pending))
<1>1. CycleComplete(IdleHttp)
  BY DEF CycleComplete, IdleHttp
<1>. QED
  BY <1>1, RestTypes, SpawnHttpComplete

LEMMA ConnectType ==
  ASSUME WorldInv, TalkInv, Connect
  PROVE  WorldInv' /\ TalkInv'
<1>. DEFINE pending == sink.outbox \ (sink.rejected \cup Oversize)
<1>1. pending \in SUBSET Own /\ sink.pcur \in Nat
  BY DEF WorldInv, SinkType
<1>2. shared' = NewShared(sink.pcur, pending) /\ http' = SpawnHttp(IdleHttp, pending)
  BY DEF Connect
<1>. HIDE DEF pending
<1>3. shared' \in SharedType /\ http' \in HttpType /\ CycleComplete(http')
  BY <1>1, <1>2, NewSharedType, FreshClientType
<1>4. sink' \in SinkType
  BY DEF Connect, WorldInv, SinkType
<1>. QED
  BY <1>3, <1>4 DEF Connect, WorldInv, TalkInv

LEMMA NoHandType == NoHand \in [ids : SUBSET Own, durable : BOOLEAN]
BY DEF NoHand

LEMMA HandOverType ==
  ASSUME WorldInv, TalkInv, HandOver
  PROVE  WorldInv' /\ TalkInv'
<1>. DEFINE b == Least(sink.unsent)
<1>1. b \in Own
  BY LeastOwn DEF HandOver, WorldInv, SinkType
<1>2. PICK written \in BOOLEAN :
        /\ Attempt(written)
        /\ sink' = [sink EXCEPT !.slot = "handing", !.unsent = @ \ {b},
                                !.hand = [ids |-> {b}, durable |-> written],
                                !.outbox = IF written THEN @ \cup {b} ELSE @]
  BY DEF HandOver
<1>. HIDE DEF b
<1>3. sink' \in SinkType
  BY <1>1, <1>2 DEF WorldInv, SinkType
<1>4. env' \in EnvType
  BY <1>2, AttemptType
<1>. QED
  BY <1>3, <1>4 DEF HandOver, WorldInv, TalkInv

LEMMA HandedType ==
  ASSUME WorldInv, TalkInv, Handed
  PROVE  WorldInv' /\ TalkInv'
<1>1. PICK b \in sink.hand.ids :
        /\ sink' = [sink EXCEPT !.hand = NoHand,
                                !.rejected = @ \cup ({b} \cap sink.outbox \cap Oversize)]
        /\ shared' = EnqueueBatch(shared, b, sink.hand.durable)
        /\ tok' = [tok EXCEPT !.nudge = @ \/ b \notin Oversize]
        /\ UNCHANGED <<srv, needs, c2s, s2c, sess, http, issued, env, asked>>
  BY DEF Handed
<1>2. b \in Own /\ sink.hand.durable \in BOOLEAN
  BY DEF WorldInv, SinkType
<1>3. sink' \in SinkType
  BY <1>1, <1>2, NoHandType DEF WorldInv, SinkType
<1>4. shared' \in SharedType
  BY <1>1, <1>2, EnqueueBatchType DEF TalkInv
<1>5. tok' \in TokType
  BY <1>1 DEF WorldInv, TokType
<1>. QED
  BY <1>1, <1>3, <1>4, <1>5 DEF WorldInv, TalkInv

LEMMA GoLiveType ==
  ASSUME WorldInv, TalkInv, GoLive
  PROVE  WorldInv' /\ TalkInv'
<1>1. sink' \in SinkType
  BY DEF GoLive, WorldInv, SinkType
<1>. QED
  BY <1>1 DEF GoLive, WorldInv, TalkInv

LEMMA CrashType ==
  ASSUME WorldInv, TalkInv, Crash
  PROVE  WorldInv' /\ TalkInv'
<1>1. sink.saved.cur \in Nat /\ sink.saved.got \cup sink.outbox \in SUBSET Items
  BY DEF WorldInv, SinkType, Ids, Items
<1>2. env' \in EnvType
  <2>1. env.crashes \in 0 .. MaxCrashes /\ env.crashes < MaxCrashes
    BY DEF Crash, WorldInv, EnvType
  <2>2. env.crashes + 1 \in 0 .. MaxCrashes
    BY <2>1, BoundsAreNat
  <2>. QED
    BY <2>2 DEF Crash, WorldInv, EnvType
<1>3. sink' \in SinkType
  BY <1>1, NoHandType DEF Crash, WorldInv, SinkType
<1>4. shared' \in SharedType
  BY <1>1, NewSharedType DEF Crash
<1>5. http' \in HttpType /\ CycleComplete(http')
  BY RestTypes DEF Crash, CycleComplete, IdleHttp
<1>6. tok' \in TokType /\ sess' \in SessType /\ sess'.row = NoRow
  BY RestTypes DEF Crash, NoTok, TokType, NewSess
<1>7. c2s' = <<>> /\ s2c' = <<>> /\ asked' = <<>> /\ UNCHANGED <<srv, needs, issued>>
  BY DEF Crash
<1>. QED
  BY <1>2, <1>3, <1>4, <1>5, <1>6, <1>7 DEF WorldInv, TalkInv

LEMMA WipeType ==
  ASSUME WorldInv, TalkInv, Wipe
  PROVE  WorldInv' /\ TalkInv'
<1>1. env' \in EnvType
  <2>1. env.wipes \in 0 .. MaxWipes /\ env.wipes < MaxWipes
    BY DEF Wipe, WorldInv, EnvType
  <2>2. env.wipes + 1 \in 0 .. MaxWipes
    BY <2>1, BoundsAreNat
  <2>. QED
    BY <2>2 DEF Wipe, WorldInv, EnvType
<1>2. srv' \in SrvType
  <2>1. srv.ids \cup Rows(srv.log) \cup {Base} \in SUBSET Items
    BY LogLength DEF Rows, Items, WorldInv, SrvType
  <2>2. Visible(srv.ids \cup Rows(srv.log) \cup {Base}, needs) \in SUBSET Items
    BY <2>1, VisibleType
  <2>3. <<>> \in Seq(Ids)
    OBVIOUS
  <2>. QED
    BY <2>2, <2>3 DEF Wipe, WorldInv, SrvType
<1>3. TalkInv'
  <2>1. CASE sess.phase = "down"
    <3>1. s2c' = <<>> /\ c2s' = <<>> /\ UNCHANGED <<shared, sess, http>>
      BY <2>1 DEF Wipe, TalkInv
    <3>. QED
      BY <2>1, <3>1 DEF TalkInv
  <2>2. CASE sess.phase # "down"
    BY <2>2, EndSessionType DEF Wipe, TalkInv
  <2>. QED
    BY <2>1, <2>2
<1>. QED
  BY <1>1, <1>2, <1>3 DEF Wipe, WorldInv

LEMMA InitType == Init => WorldInv /\ TalkInv
<1>. SUFFICES ASSUME Init  PROVE  WorldInv /\ TalkInv
  OBVIOUS
<1>1. srv \in SrvType
  BY BoundsAreNat, ClientAssumption DEF Init, SrvType, Items
<1>2. issued \in 0 .. MaxOwn /\ asked \in Seq(SUBSET Ids) /\ tok \in TokType
      /\ needs \in [Items -> SUBSET Items]
  BY BoundsAreNat DEF Init, NoTok, TokType
<1>3. env \in EnvType
  <2>1. /\ 0 \in 0 .. MaxHints /\ 0 \in 0 .. MaxDrops /\ 0 \in 0 .. MaxCrashes
        /\ 0 \in 0 .. MaxDisk /\ 0 \in 0 .. MaxCkpts /\ 0 \in 0 .. MaxFlushes
        /\ 0 \in 0 .. MaxWipes
    BY BoundsAreNat
  <2>. QED
    BY <2>1 DEF Init, EnvType
<1>4. sink \in SinkType
  BY NoHandType DEF Init, SinkType, Items
<1>5. shared \in SharedType
  BY NewSharedType DEF Init
<1>6. http \in HttpType /\ CycleComplete(http)
  BY RestTypes DEF Init, CycleComplete, IdleHttp
<1>7. sess \in SessType /\ sess.row = NoRow /\ c2s = <<>> /\ s2c = <<>>
  BY RestTypes DEF Init, NewSess
<1>. QED
  BY <1>1, <1>2, <1>3, <1>4, <1>5, <1>6, <1>7 DEF WorldInv, TalkInv

LEMMA StepType ==
  ASSUME WorldInv, TalkInv, [Next]_vars
  PROVE  WorldInv' /\ TalkInv'
<1>1. CASE Server
  BY <1>1, ServeHelloType, ServeRowsType, ServePushType DEF Server
<1>2. CASE Room
  BY <1>2, RemoteAppendType, PostCheckpointType, WipeType DEF Room
<1>3. CASE Session
  BY <1>3, DialType, SkipStaleType, SessStateType, SessPlanType, SessFetchType, SessRowType,
     SessApplyRowType, SessAckType, SessRejectType, SessQuotaType, SessDeferType, SessJoinType, SessDoneType,
     SessNudgeType, SessProbeType, SessRedialType, SessRetryType DEF Session
<1>4. CASE Https
  BY <1>4, HttpPersistType, HttpPostType, HttpAckType, HttpCaptureType, HttpServeType,
     HttpFailType, HttpStateType, HttpFetchType, HttpSettleType, HttpRowType, HttpApplyRowType,
     HttpDoneType DEF Https
<1>5. CASE Api
  BY <1>5, EnqueueType, EnqueueEarlyType, RequestCatchUpType, ProbeType, RedialType DEF Api
<1>6. CASE Disk
  BY <1>6, FlushSampleType, FlushSaveType DEF Disk
<1>7. CASE Fault
  BY <1>7, DialFailType, DropType, CrashType DEF Fault
<1>8. CASE Join
  BY <1>8, ConnectType, HandOverType, HandedType, GoLiveType DEF Join
<1>9. CASE UNCHANGED vars
  BY <1>9 DEF vars, WorldInv, TalkInv
<1>. QED
  BY <1>1, <1>2, <1>3, <1>4, <1>5, <1>6, <1>7, <1>8, <1>9 DEF Next

(* Every reachable state is well typed, for every number of batches, every *)
(* set of remote rows and every bound on the faults.  The strengthening    *)
(* adds that a backfill answer ends within the log (so the row it names    *)
(* exists), that the HTTPS answer is complete, and that a closed socket    *)
(* carries nothing.                                                        *)
THEOREM TypeCorrect == Spec => []TypeInv
<1>1. Init => TypeInv
  BY InitType, TypeInvParts
<1>2. TypeInv /\ [Next]_vars => TypeInv'
  <2>. SUFFICES ASSUME TypeInv, [Next]_vars  PROVE  TypeInv'
    OBVIOUS
  <2>1. WorldInv /\ TalkInv
    BY TypeInvParts
  <2>2. WorldInv' /\ TalkInv'
    BY <2>1, StepType
  <2>. QED
    BY <2>2, TypeInvParts, PTL
<1>. QED
  BY <1>1, <1>2, PTL DEF Spec

-----------------------------------------------------------------------------
(***************************************************************************)
(* ChatClient implements the abstract Outbox, for every number of batches  *)
(* and every bound on the faults.  The inductive invariant is OutboxInv,   *)
(* under the type invariant proved above.                                  *)
(***************************************************************************)

-----------------------------------------------------------------------------
(* Sets of frames grow with the batches they may speak of.                 *)

LEMMA SeqMono ==
  ASSUME NEW S, NEW T, S \subseteq T, NEW s \in Seq(S)
  PROVE  s \in Seq(T)
OBVIOUS

LEMMA SafePushMono ==
  ASSUME NEW S, NEW T, S \subseteq T, NEW fs \in Seq(SafePush(S))
  PROVE  fs \in Seq(SafePush(T))
<1>1. SafePush(S) \subseteq SafePush(T)
  BY DEF SafePush
<1>. QED
  BY <1>1, SeqMono

LEMMA TrueReplyMono ==
  ASSUME NEW U, NEW V, U \subseteq V, NEW S, NEW T, S \subseteq T,
         NEW fs \in Seq(TrueReply(U, S))
  PROVE  fs \in Seq(TrueReply(V, T))
<1>1. TrueReply(U, S) \subseteq TrueReply(V, T)
  BY DEF TrueReply
<1>. QED
  BY <1>1, SeqMono

(* A frame joins the wire when it speaks of safe batches only.             *)
LEMMA SendPush ==
  ASSUME NEW safe, NEW fs \in Seq(SafePush(safe)), NEW f \in ClientFrame,
         f.k = "PUSH" => f.ids \subseteq safe
  PROVE  Append(fs, f) \in Seq(SafePush(safe))
<1>1. f \in SafePush(safe)
  BY DEF SafePush
<1>. QED
  BY <1>1, AppendProperties

LEMMA SendReply ==
  ASSUME NEW used, NEW safe, NEW fs \in Seq(TrueReply(used, safe)), NEW f \in ServerFrame,
         f.k = "ACK" => f.id \in used,
         f.k = "REJECT" => f.id \in safe
  PROVE  Append(fs, f) \in Seq(TrueReply(used, safe))
<1>1. f \in TrueReply(used, safe)
  BY DEF TrueReply
<1>. QED
  BY <1>1, AppendProperties

-----------------------------------------------------------------------------
(* A session that ends, and a turn that goes on.                           *)

LEMMA EndSessionOutbox ==
  ASSUME NEW sh \in SharedType, NEW h \in HttpType, EndSession(sh, h),
         BuffersSafe(sink', Safe'),
         Unwritten(sh, Safe', sink'.redo, issued'), CycleIsSafe(h, sh, Safe', srv'.used),
         srv'.log \in Seq(srv'.used)
  PROVE  OutboxInv'
<1>1. shared'.pending = sh.pending /\ shared'.unsaved = sh.unsaved
  BY DEF EndSession, SharedType
<1>2. Unwritten(shared', Safe', sink'.redo, issued')
  BY <1>1 DEF Unwritten
<1>3. CycleIsSafe(http', shared', Safe', srv'.used)
  <2>. DEFINE joined == sess.phase \notin {"down", "hello"}
              h1 == [h EXCEPT !.epochSame = @ /\ ~joined]
  <2>1. http' = SpawnHttp(h1, sh.pending)
    BY DEF EndSession
  <2>2. h1.todo = h.todo /\ h1.phase = h.phase /\ h1.ack = h.ack
    BY DEF HttpType
  <2>. HIDE DEF h1
  <2>3. \/ http' = h1
        \/ http'.phase = "push" /\ http'.todo = sh.pending
    BY <2>1 DEF SpawnHttp, IdleHttp
  <2>4. CASE http' = h1
    BY <1>1, <2>2, <2>4 DEF CycleIsSafe
  <2>5. CASE http'.phase = "push" /\ http'.todo = sh.pending
    BY <1>1, <2>5 DEF CycleIsSafe, Unwritten
  <2>. QED
    BY <2>3, <2>4, <2>5
<1>4. c2s' = <<>> /\ s2c' = <<>>
  BY DEF EndSession
<1>. QED
  BY <1>2, <1>3, <1>4 DEF OutboxInv

LEMMA FinishOutbox ==
  ASSUME NEW t \in TurnType, NEW h \in HttpType, NEW rest, Finish(t, h, rest),
         BuffersSafe(sink', Safe'),
         Unwritten(t.sh, Safe', sink'.redo, issued'), CycleIsSafe(h, t.sh, Safe', srv'.used),
         srv'.log \in Seq(srv'.used),
         c2s \in Seq(SafePush(Safe')), t.out \in Seq(SafePush(Safe')),
         rest \in Seq(TrueReply(srv'.used, Safe'))
  PROVE  OutboxInv'
<1>1. CASE t.ok
  <2>1. /\ shared' = t.sh /\ http' = h /\ c2s' = c2s \o t.out /\ s2c' = rest
    BY <1>1 DEF Finish
  <2>2. c2s' \in Seq(SafePush(Safe'))
    BY <2>1
  <2>. QED
    BY <2>1, <2>2 DEF OutboxInv
<1>2. CASE ~t.ok
  BY <1>2, EndSessionOutbox DEF Finish, TurnType
<1>. QED
  BY <1>1, <1>2 DEF TurnType

(* Reads do not touch the outbox.                                          *)
LEMMA RowsReqIsSafe ==
  ASSUME NEW safe, NEW out \in Seq(SafePush(safe)), NEW after \in Nat
  PROVE  Append(out, RowsReq(after, FALSE)) \in Seq(SafePush(safe))
<1>1. RowsReq(after, FALSE) \in ClientFrame /\ RowsReq(after, FALSE).k # "PUSH"
  BY RowsReqType DEF RowsReq
<1>. QED
  BY <1>1, SendPush

LEMMA ReadsKeepOutbox ==
  ASSUME NEW t \in TurnType, NEW safe, t.out \in Seq(SafePush(safe))
  PROVE  /\ RepairGap(t).sh.pending = t.sh.pending /\ RepairGap(t).sh.unsaved = t.sh.unsaved
         /\ RepairGap(t).out \in Seq(SafePush(safe))
         /\ SendRefresh(t).sh.pending = t.sh.pending /\ SendRefresh(t).sh.unsaved = t.sh.unsaved
         /\ SendRefresh(t).out \in Seq(SafePush(safe))
<1>1. t.sh.cursor \in Nat
  BY DEF TurnType, SharedType
<1>2. Append(t.out, RowsReq(t.sh.cursor, FALSE)) \in Seq(SafePush(safe))
  BY <1>1, RowsReqIsSafe
<1>3. RepairGap(t).sh.pending = t.sh.pending /\ RepairGap(t).sh.unsaved = t.sh.unsaved
  BY DEF RepairGap, TurnType, SharedType
<1>4. RepairGap(t).out = t.out \/ RepairGap(t).out = Append(t.out, RowsReq(t.sh.cursor, FALSE))
  BY DEF RepairGap, TurnType
<1>5. SendRefresh(t).sh.pending = t.sh.pending /\ SendRefresh(t).sh.unsaved = t.sh.unsaved
  BY DEF SendRefresh, TurnType, SharedType
<1>6. SendRefresh(t).out = t.out \/ SendRefresh(t).out = Append(t.out, RowsReq(t.sh.cursor, FALSE))
  BY DEF SendRefresh, TurnType
<1>. QED
  BY <1>2, <1>3, <1>4, <1>5, <1>6

LEMMA LedgerOfParts ==
  ASSUME NEW sh1, NEW sh2, sh1.pending = sh2.pending, sh1.unsaved = sh2.unsaved,
         NEW h, NEW safe, NEW used, NEW redo, NEW n,
         Unwritten(sh1, safe, redo, n), CycleIsSafe(h, sh1, safe, used)
  PROVE  Unwritten(sh2, safe, redo, n) /\ CycleIsSafe(h, sh2, safe, used)
BY DEF Unwritten, CycleIsSafe

LEMMA AfterFrameOutbox ==
  ASSUME NEW sh \in SharedType, NEW se \in SessType, NEW h \in HttpType, NEW rest,
         AfterFrame(sh, se, h, rest), BuffersSafe(sink', Safe'),
         Unwritten(sh, Safe', sink'.redo, issued'), CycleIsSafe(h, sh, Safe', srv'.used),
         srv'.log \in Seq(srv'.used),
         c2s \in Seq(SafePush(Safe')), rest \in Seq(TrueReply(srv'.used, Safe'))
  PROVE  OutboxInv'
<1>. DEFINE t0 == Turn(sh, se)
            t1 == RepairGap(t0)
            t  == IF se.phase = "steady" THEN SendRefresh(t1) ELSE t0
<1>1. t0 \in TurnType /\ t0.sh = sh /\ t0.out \in Seq(SafePush(Safe'))
  BY TurnIsTurn DEF Turn
<1>2. t1 \in TurnType /\ t1.sh.pending = sh.pending /\ t1.sh.unsaved = sh.unsaved
      /\ t1.out \in Seq(SafePush(Safe'))
  <2>. HIDE DEF t0
  <2>. QED  BY <1>1, RepairGapType, ReadsKeepOutbox
<1>3. t \in TurnType /\ t.sh.pending = sh.pending /\ t.sh.unsaved = sh.unsaved
      /\ t.out \in Seq(SafePush(Safe'))
  <2>. HIDE DEF t0, t1
  <2>. QED  BY <1>1, <1>2, SendRefreshType, ReadsKeepOutbox
<1>4. Finish(t, h, rest)
  BY DEF AfterFrame
<1>. HIDE DEF t
<1>5. Unwritten(t.sh, Safe', sink'.redo, issued') /\ CycleIsSafe(h, t.sh, Safe', srv'.used)
  BY <1>3, LedgerOfParts
<1>. QED
  BY <1>3, <1>4, <1>5, FinishOutbox

-----------------------------------------------------------------------------
(* The abstract step each change of the outbox or of the room amounts to.  *)

AbstractStep == [Promise!Next]_<<sink.outbox, srv.used \cap Own, sink.redo>>

(* Most steps leave alone the batches that will be handed in again.        *)
SameBuffers ==
  sink'.unsent = sink.unsent /\ sink'.hand = sink.hand /\ sink'.redo = sink.redo

LEMMA BuffersStay ==
  ASSUME OutboxInv, SameBuffers, Safe \subseteq Safe'
  PROVE  sink'.redo = sink.redo /\ BuffersSafe(sink', Safe')
BY DEF OutboxInv, SameBuffers, BuffersSafe

LEMMA SameSink ==
  ASSUME sink' = sink
  PROVE  SameBuffers /\ sink'.outbox = sink.outbox
BY DEF SameBuffers

LEMMA NoStep ==
  ASSUME SameBuffers, sink'.outbox = sink.outbox, srv'.used \cap Own = srv.used \cap Own
  PROVE  AbstractStep
BY DEF AbstractStep, SameBuffers

LEMMA RecordStep ==
  ASSUME NEW B \in SUBSET Own, B \cap Safe \subseteq sink.redo,
         sink'.redo = sink.redo, sink'.outbox = sink.outbox \cup B, srv'.used = srv.used
  PROVE  AbstractStep
<1>1. Promise!Record(B \ sink.outbox)
  BY DEF Promise!Record, Safe
<1>. QED
  BY <1>1 DEF AbstractStep, Promise!Next

LEMMA LandStep ==
  ASSUME NEW b \in Own, b \in Safe, SameBuffers,
         sink'.outbox = sink.outbox, srv'.used = srv.used \cup {b}
  PROVE  AbstractStep
<1>1. CASE b \in srv.used
  <2>1. srv'.used \cap Own = srv.used \cap Own
    BY <1>1
  <2>. QED
    BY <2>1, NoStep
<1>2. CASE b \notin srv.used
  <2>1. Promise!Land(b)
    BY <1>2 DEF Promise!Land, Safe, SameBuffers
  <2>. QED
    BY <2>1 DEF AbstractStep, Promise!Next
<1>. QED
  BY <1>1, <1>2

LEMMA RetireStep ==
  ASSUME NEW b \in Own, b \in srv.used, SameBuffers,
         sink'.outbox = sink.outbox \ {b}, srv'.used = srv.used
  PROVE  AbstractStep
<1>1. CASE b \in sink.outbox
  <2>1. Promise!Retire(b)
    BY <1>1 DEF Promise!Retire, SameBuffers
  <2>. QED
    BY <2>1 DEF AbstractStep, Promise!Next
<1>2. CASE b \notin sink.outbox
  <2>1. sink'.outbox = sink.outbox
    BY <1>2
  <2>. QED
    BY <2>1, NoStep
<1>. QED
  BY <1>1, <1>2

LEMMA HoldStep ==
  ASSUME NEW b \in Own, b \notin Safe, sink'.redo = sink.redo \cup {b},
         sink'.outbox \in {sink.outbox, sink.outbox \cup {b}}, srv'.used = srv.used
  PROVE  AbstractStep
<1>1. Promise!Hold(b)
  BY DEF Promise!Hold, Safe
<1>. QED
  BY <1>1 DEF AbstractStep, Promise!Next

LEMMA RestartStep ==
  ASSUME sink'.redo = {}, sink'.outbox = sink.outbox, srv'.used = srv.used
  PROVE  AbstractStep
<1>1. Promise!Restart
  BY DEF Promise!Restart
<1>. QED
  BY <1>1 DEF AbstractStep, Promise!Next

-----------------------------------------------------------------------------
(* ensure_durable: once ids are written they are safe, and what is still   *)
(* unwritten is not.                                                       *)
LEMMA WriteOutbox ==
  ASSUME WorldInv, TalkInv, OutboxInv, NEW sh \in SharedType,
         sh.pending = shared.pending, sh.unsaved = shared.unsaved,
         NEW ids \in SUBSET Own, ids \subseteq sh.pending, Write(sh, ids),
         UNCHANGED <<srv, issued>>
  PROVE  /\ AbstractStep /\ SameBuffers
         /\ Safe \subseteq Safe' /\ ids \subseteq Safe'
         /\ Unwritten(Saved(sh, ids), Safe', sink'.redo, issued')
         /\ CycleIsSafe(http, Saved(sh, ids), Safe', srv'.used)
<1>. DEFINE B == ids \cap sh.unsaved
<1>1. sink'.outbox = sink.outbox \cup B /\ SameBuffers
  BY DEF Write, WorldInv, SinkType, SameBuffers
<1>2. Unwritten(sh, Safe, sink.redo, issued) /\ CycleIsSafe(http, sh, Safe, srv.used)
  BY LedgerOfParts DEF OutboxInv
<1>3. AbstractStep
  <2>1. B \cap Safe \subseteq sink.redo /\ B \in SUBSET Own /\ srv'.used = srv.used
    BY <1>2 DEF Unwritten
  <2>. QED
    BY <1>1, <2>1, RecordStep DEF SameBuffers
<1>4. Safe' = Safe \cup B
  BY <1>1 DEF Safe
<1>5. ids \subseteq Safe'
  BY <1>2, <1>4 DEF Unwritten
<1>6. Saved(sh, ids).pending = sh.pending /\ Saved(sh, ids).unsaved = sh.unsaved \ ids
  BY DEF Saved, SharedType
<1>7. Unwritten(Saved(sh, ids), Safe', sink'.redo, issued')
  <2>1. sink'.redo = sink.redo
    BY <1>1 DEF SameBuffers
  <2>. QED
    BY <1>2, <1>4, <1>5, <1>6, <2>1 DEF Unwritten
<1>8. CycleIsSafe(http, Saved(sh, ids), Safe', srv'.used)
  BY <1>2, <1>4, <1>5, <1>6 DEF CycleIsSafe
<1>. QED
  BY <1>1, <1>3, <1>4, <1>5, <1>7, <1>8

LEMMA FailedPushOutbox ==
  ASSUME WorldInv, TalkInv, OutboxInv, NEW sh \in SharedType,
         sh.pending = shared.pending, sh.unsaved = shared.unsaved,
         NEW ids \in SUBSET Own, ids \subseteq sh.pending, FailedPush(sh, ids),
         UNCHANGED <<srv, issued>>
  PROVE  OutboxInv' /\ AbstractStep
<1>1. PICK b \in ids \cap sh.unsaved :
        LET earlier == {a \in ids : a < b} IN
        /\ DiskFault
        /\ Write(sh, earlier)
        /\ EndSession(Saved(sh, earlier), http)
  BY DEF FailedPush
<1>. DEFINE earlier == {a \in ids : a < b}
<1>2. earlier \in SUBSET Own /\ earlier \subseteq sh.pending
      /\ Write(sh, earlier) /\ EndSession(Saved(sh, earlier), http)
  BY <1>1
<1>. HIDE DEF earlier
<1>3. /\ AbstractStep /\ SameBuffers /\ Safe \subseteq Safe'
      /\ Unwritten(Saved(sh, earlier), Safe', sink'.redo, issued')
      /\ CycleIsSafe(http, Saved(sh, earlier), Safe', srv'.used)
  BY <1>2, WriteOutbox
<1>4. Saved(sh, earlier) \in SharedType /\ http \in HttpType /\ srv'.log \in Seq(srv'.used)
  BY SavedType DEF TalkInv, OutboxInv
<1>5. OutboxInv'
  BY <1>2, <1>3, <1>4, BuffersStay, EndSessionOutbox
<1>. QED
  BY <1>3, <1>5

(* A turn that sends the written batches ids.                              *)
LEMMA PushTurnOutbox ==
  ASSUME WorldInv, TalkInv, OutboxInv, NEW sh \in SharedType,
         sh.pending = shared.pending, sh.unsaved = shared.unsaved,
         NEW ids \in SUBSET Own, ids \subseteq sh.pending, Write(sh, ids),
         UNCHANGED <<srv, issued>>,
         NEW t \in TurnType, t.sh.pending = sh.pending, t.sh.unsaved = sh.unsaved \ ids,
         t.out \in Seq(SafePush(Safe')), Finish(t, http, s2c)
  PROVE  OutboxInv' /\ AbstractStep
<1>1. /\ AbstractStep /\ SameBuffers
      /\ Safe \subseteq Safe'
      /\ Unwritten(Saved(sh, ids), Safe', sink'.redo, issued')
      /\ CycleIsSafe(http, Saved(sh, ids), Safe', srv'.used)
  BY WriteOutbox
<1>2. Saved(sh, ids).pending = t.sh.pending /\ Saved(sh, ids).unsaved = t.sh.unsaved
  BY DEF Saved, SharedType
<1>3. Unwritten(t.sh, Safe', sink'.redo, issued') /\ CycleIsSafe(http, t.sh, Safe', srv'.used)
  BY <1>1, <1>2, LedgerOfParts
<1>4. c2s \in Seq(SafePush(Safe'))
  BY <1>1, SafePushMono DEF OutboxInv
<1>5. srv'.log \in Seq(srv'.used) /\ s2c \in Seq(TrueReply(srv'.used, Safe')) /\ http \in HttpType
  <2>1. srv.log \in Seq(srv.used) /\ s2c \in Seq(TrueReply(srv.used, Safe)) /\ http \in HttpType
    BY DEF OutboxInv, TalkInv
  <2>. QED
    BY <1>1, <2>1, TrueReplyMono
<1>6. OutboxInv'
  BY <1>1, <1>3, <1>4, <1>5, BuffersStay, FinishOutbox
<1>. QED
  BY <1>1, <1>6

(* push_pending, on a turn that has sent reads only so far.                *)
LEMMA PushPendingOutbox ==
  ASSUME NEW t \in TurnType, NEW safe, t.out \in Seq(SafePush(safe)),
         ToPush(t.sh, t.se.inFlight) \subseteq safe
  PROVE  /\ PushPending(t).out \in Seq(SafePush(safe))
         /\ PushPending(t).sh.pending = t.sh.pending
         /\ PushPending(t).sh.unsaved = t.sh.unsaved \ ToPush(t.sh, t.se.inFlight)
<1>. DEFINE ids == ToPush(t.sh, t.se.inFlight)
<1>1. PushPending(t).sh.pending = t.sh.pending /\ PushPending(t).sh.unsaved = t.sh.unsaved \ ids
  BY DEF PushPending, Saved, TurnType, SharedType
<1>2. ids \in SUBSET Own
  BY ToPushType DEF TurnType
<1>3. PushPending(t).out = IF ids = {} THEN t.out ELSE Append(t.out, [k |-> "PUSH", ids |-> ids])
  BY DEF PushPending, TurnType
<1>4. PushPending(t).out \in Seq(SafePush(safe))
  <2>. HIDE DEF ids
  <2>1. CASE ids = {}
    BY <1>3, <2>1
  <2>2. CASE ids # {}
    <3>1. [k |-> "PUSH", ids |-> ids] \in ClientFrame
      BY <1>2, <2>2 DEF ClientFrame, PushFrame
    <3>2. ids \subseteq safe
      BY DEF ids
    <3>. QED
      BY <1>3, <2>2, <3>1, <3>2, SendPush
  <2>. QED
    BY <2>1, <2>2
<1>. QED
  BY <1>1, <1>4

(* A step that leaves the outbox, its clones and the wire alone.           *)
LEMMA QuietStep ==
  ASSUME OutboxInv, SameBuffers,
         sink'.outbox = sink.outbox, srv'.used = srv.used, srv'.log = srv.log, issued' = issued,
         shared'.pending = shared.pending, shared'.unsaved = shared.unsaved,
         CycleIsSafe(http', shared, Safe, srv.used),
         c2s' \in Seq(SafePush(Safe)), s2c' \in Seq(TrueReply(srv.used, Safe))
  PROVE  OutboxInv' /\ AbstractStep
<1>1. Safe' = Safe
  BY DEF Safe
<1>2. Unwritten(shared', Safe, sink'.redo, issued) /\ CycleIsSafe(http', shared', Safe, srv.used)
      /\ BuffersSafe(sink', Safe')
  BY <1>1, BuffersStay DEF OutboxInv, Unwritten, CycleIsSafe
<1>3. srv'.log \in Seq(srv'.used)
  BY DEF OutboxInv
<1>4. OutboxInv'
  BY <1>1, <1>2, <1>3 DEF OutboxInv
<1>. QED
  BY <1>4, NoStep

(* Reading a frame leaves the rest of the wire true.                       *)
LEMMA ReadReplies ==
  ASSUME NEW used, NEW safe, NEW fs \in Seq(TrueReply(used, safe)), fs # <<>>
  PROVE  /\ Head(fs) \in ServerFrame
         /\ Head(fs).k = "ACK" => Head(fs).id \in used /\ Head(fs).id \in Own
         /\ Head(fs).k = "REJECT" => Head(fs).id \in safe
         /\ Tail(fs) \in Seq(TrueReply(used, safe))
<1>1. Head(fs) \in TrueReply(used, safe) /\ Tail(fs) \in Seq(TrueReply(used, safe))
  BY HeadTailProperties
<1>. QED
  BY <1>1, FrameKinds DEF TrueReply

LEMMA ReadPushes ==
  ASSUME NEW safe, NEW fs \in Seq(SafePush(safe)), fs # <<>>
  PROVE  /\ Head(fs) \in ClientFrame
         /\ Head(fs).k = "PUSH" => Head(fs).ids \subseteq safe
         /\ Tail(fs) \in Seq(SafePush(safe))
<1>1. Head(fs) \in SafePush(safe) /\ Tail(fs) \in Seq(SafePush(safe))
  BY HeadTailProperties
<1>. QED
  BY <1>1 DEF SafePush

-----------------------------------------------------------------------------
(* The actions that touch the outbox, its clones or the wire.              *)

LEMMA ServePushOutbox ==
  ASSUME WorldInv, TalkInv, OutboxInv, ServePush
  PROVE  OutboxInv' /\ AbstractStep
<1>. DEFINE ids == Head(c2s).ids
            b   == Least(ids)
<1>1. /\ c2s # <<>> /\ Head(c2s).k = "PUSH"
      /\ UNCHANGED <<shared, http, sink, issued>>
  BY DEF ServePush
<1>2. Head(c2s) \in ClientFrame /\ ids \subseteq Safe /\ Tail(c2s) \in Seq(SafePush(Safe))
  BY <1>1, ReadPushes DEF OutboxInv
<1>3. ids \in (SUBSET Own) \ {{}} /\ b \in Own /\ b \in ids /\ b \in Safe
  <2>1. ids \in (SUBSET Own) \ {{}}
    BY <1>1, <1>2, PushKind
  <2>. QED
    BY <1>2, <2>1, LeastOwn
<1>4. c2s' \in Seq(SafePush(Safe))
  <2>1. CASE ids = {b}
    BY <1>2, <2>1 DEF ServePush
  <2>2. CASE ids # {b}
    <3>1. [k |-> "PUSH", ids |-> ids \ {b}] \in ClientFrame
      BY <1>3, <2>2 DEF ClientFrame, PushFrame
    <3>2. [k |-> "PUSH", ids |-> ids \ {b}] \in SafePush(Safe)
      BY <1>2, <3>1 DEF SafePush
    <3>3. c2s' = <<[k |-> "PUSH", ids |-> ids \ {b}]>> \o Tail(c2s)
      BY <2>2 DEF ServePush
    <3>. QED
      BY <1>2, <3>2, <3>3
  <2>. QED
    BY <2>1, <2>2
<1>5. CASE /\ UNCHANGED <<srv.log, srv.used>>
           /\ s2c' \in Seq(TrueReply(srv.used, Safe))
  <2>1. CycleIsSafe(http', shared, Safe, srv.used)
    BY <1>1 DEF OutboxInv
  <2>. HIDE DEF ids
  <2>. QED  BY <1>1, <1>4, <1>5, <2>1, SameSink, QuietStep
<1>6. CASE /\ s2c' = Append(s2c, [k |-> "ACK", id |-> b, seq |-> Len(srv.log) + 1])
           /\ srv'.log = Append(srv.log, b) /\ srv'.used = srv.used \cup {b}
  <2>. HIDE DEF b, ids
  <2>1. AbstractStep
    BY <1>1, <1>3, <1>6, SameSink, LandStep
  <2>2. Safe' = Safe
    BY <1>1, <1>3, <1>6 DEF Safe
  <2>3. srv'.log \in Seq(srv'.used)
    BY <1>6 DEF OutboxInv
  <2>4. s2c' \in Seq(TrueReply(srv'.used, Safe'))
    <3>1. [k |-> "ACK", id |-> b, seq |-> Len(srv.log) + 1] \in ServerFrame
      BY <1>3, LogLength DEF ServerFrame, AckFrame
    <3>2. s2c \in Seq(TrueReply(srv'.used, Safe'))
      BY <1>6, <2>2, TrueReplyMono DEF OutboxInv
    <3>. QED
      BY <1>6, <3>1, <3>2, SendReply
  <2>5. Unwritten(shared', Safe', sink'.redo, issued') /\ CycleIsSafe(http', shared', Safe', srv'.used)
        /\ BuffersSafe(sink', Safe')
    BY <1>1, <1>6, <2>2 DEF OutboxInv, Unwritten, CycleIsSafe
  <2>. QED
    BY <1>4, <2>1, <2>2, <2>3, <2>4, <2>5 DEF OutboxInv
<1>7. \/ /\ b \in Rows(srv.log) /\ UNCHANGED srv
         /\ s2c' = Append(s2c, [k |-> "ACK", id |-> b, seq |-> PosIn(srv.log, b)])
      \/ s2c' = Append(s2c, [k |-> "REJECT", id |-> b]) /\ UNCHANGED srv
      \/ s2c' = Append(s2c, [k |-> "QUOTA"]) /\ srv' = [srv EXCEPT !.quota = @ - 1]
      \/ /\ s2c' = Append(s2c, [k |-> "ACK", id |-> b, seq |-> Len(srv.log) + 1])
         /\ srv' = [srv EXCEPT !.log = Append(@, b), !.used = @ \cup {b}]
  BY DEF ServePush
<1>8. srv \in SrvType /\ s2c \in Seq(TrueReply(srv.used, Safe)) /\ srv.log \in Seq(srv.used)
  BY DEF WorldInv, OutboxInv
<1>. HIDE DEF b, ids
<1>9. CASE /\ b \in Rows(srv.log) /\ UNCHANGED srv
           /\ s2c' = Append(s2c, [k |-> "ACK", id |-> b, seq |-> PosIn(srv.log, b)])
  <2>1. b \in srv.used
    BY <1>8, <1>9 DEF Rows
  <2>2. [k |-> "ACK", id |-> b, seq |-> PosIn(srv.log, b)] \in ServerFrame
    BY <1>3, <1>9, LogLength, PosInType DEF ServerFrame, AckFrame
  <2>3. s2c' \in Seq(TrueReply(srv.used, Safe))
    BY <1>8, <1>9, <2>1, <2>2, SendReply
  <2>. QED
    BY <1>5, <1>9, <2>3
<1>10. CASE s2c' = Append(s2c, [k |-> "REJECT", id |-> b]) /\ UNCHANGED srv
  <2>1. [k |-> "REJECT", id |-> b] \in ServerFrame
    BY <1>3 DEF ServerFrame, ErrorFrame
  <2>2. s2c' \in Seq(TrueReply(srv.used, Safe))
    BY <1>3, <1>8, <1>10, <2>1, SendReply
  <2>. QED
    BY <1>5, <1>10, <2>2
<1>11. CASE s2c' = Append(s2c, [k |-> "QUOTA"]) /\ srv' = [srv EXCEPT !.quota = @ - 1]
  <2>1. [k |-> "QUOTA"] \in ServerFrame
    BY DEF ServerFrame, ErrorFrame
  <2>2. s2c' \in Seq(TrueReply(srv.used, Safe))
    BY <1>8, <1>11, <2>1, SendReply
  <2>3. srv'.log = srv.log /\ srv'.used = srv.used
    BY <1>8, <1>11 DEF SrvType
  <2>. QED
    BY <1>5, <2>2, <2>3
<1>12. CASE /\ s2c' = Append(s2c, [k |-> "ACK", id |-> b, seq |-> Len(srv.log) + 1])
            /\ srv' = [srv EXCEPT !.log = Append(@, b), !.used = @ \cup {b}]
  <2>1. srv'.log = Append(srv.log, b) /\ srv'.used = srv.used \cup {b}
    BY <1>8, <1>12 DEF SrvType
  <2>. QED
    BY <1>6, <1>12, <2>1
<1>. QED
  BY <1>7, <1>9, <1>10, <1>11, <1>12

LEMMA RemoteAppendOutbox ==
  ASSUME WorldInv, TalkInv, OutboxInv, NEW r \in Remote, NEW kind \in Kinds, RemoteAppend(r, kind)
  PROVE  OutboxInv' /\ AbstractStep
<1>1. r \notin Own /\ r \in Ids
  BY RoomAssumption, BoundsAreNat DEF Own, Ids
<1>2. srv'.log = Append(srv.log, r) /\ srv'.used = srv.used \cup {r}
      /\ UNCHANGED <<c2s, shared, http, sink, issued>>
  BY DEF RemoteAppend, WorldInv, SrvType
<1>3. AbstractStep
  <2>1. srv'.used \cap Own = srv.used \cap Own
    BY <1>1, <1>2
  <2>. QED
    BY <1>2, <2>1, SameSink, NoStep
<1>4. Safe' = Safe \cup {r}
  BY <1>2 DEF Safe
<1>5. Unwritten(shared', Safe', sink'.redo, issued') /\ CycleIsSafe(http', shared', Safe', srv'.used)
      /\ BuffersSafe(sink', Safe')
  <2>1. shared.unsaved \subseteq Own
    BY DEF TalkInv, SharedType
  <2>. QED
    BY <1>1, <1>2, <1>4, <2>1 DEF OutboxInv, Unwritten, CycleIsSafe, BuffersSafe
<1>6. srv'.log \in Seq(srv'.used)
  BY <1>2 DEF OutboxInv
<1>7. c2s' \in Seq(SafePush(Safe'))
  BY <1>2, <1>4, SafePushMono DEF OutboxInv
<1>8. s2c' \in Seq(TrueReply(srv'.used, Safe'))
  <2>. DEFINE f == [k |-> "ROW", id |-> r, seq |-> Len(srv.log) + 1]
  <2>1. s2c \in Seq(TrueReply(srv'.used, Safe'))
    BY <1>2, <1>4, TrueReplyMono DEF OutboxInv
  <2>2. f \in ServerFrame /\ f.k # "ACK" /\ f.k # "REJECT"
    BY <1>1, LogLength DEF ServerFrame, RowFrame
  <2>3. s2c' = s2c \/ s2c' = Append(s2c, f)
    BY DEF RemoteAppend, Broadcast
  <2>. HIDE DEF f
  <2>. QED
    BY <2>1, <2>2, <2>3, SendReply
<1>. QED
  BY <1>3, <1>5, <1>6, <1>7, <1>8 DEF OutboxInv

LEMMA WipeOutbox ==
  ASSUME WorldInv, TalkInv, OutboxInv, Wipe
  PROVE  OutboxInv' /\ AbstractStep
<1>1. srv'.log = <<>> /\ srv'.used = srv.used /\ UNCHANGED <<sink, issued>>
  BY DEF Wipe, WorldInv, SrvType
<1>2. AbstractStep
  BY <1>1, SameSink, NoStep
<1>3. Safe' = Safe
  BY <1>1 DEF Safe
<1>4. Unwritten(shared, Safe', sink'.redo, issued') /\ CycleIsSafe(http, shared, Safe', srv'.used)
      /\ srv'.log \in Seq(srv'.used) /\ BuffersSafe(sink', Safe')
  BY <1>1, <1>3 DEF OutboxInv
<1>5. CASE sess.phase = "down"
  <2>1. UNCHANGED <<shared, http, c2s, s2c>>
    BY <1>5 DEF Wipe
  <2>. QED
    BY <1>1, <1>2, <1>3, <1>4, <2>1 DEF OutboxInv
<1>6. CASE sess.phase # "down"
  <2>1. EndSession(shared, http)
    BY <1>6 DEF Wipe
  <2>. QED
    BY <1>2, <1>4, <2>1, EndSessionOutbox DEF TalkInv
<1>. QED
  BY <1>5, <1>6

(* A session that ends without touching the outbox.                        *)
LEMMA EndQuietly ==
  ASSUME WorldInv, TalkInv, OutboxInv, EndSession(shared, http), UNCHANGED <<srv, issued, sink>>
  PROVE  OutboxInv' /\ AbstractStep
<1>1. Safe' = Safe
  BY DEF Safe
<1>2. OutboxInv'
  BY <1>1, EndSessionOutbox DEF OutboxInv, TalkInv
<1>. QED
  BY <1>2, SameSink, NoStep

LEMMA DropOutbox ==
  ASSUME WorldInv, TalkInv, OutboxInv, Drop
  PROVE  OutboxInv' /\ AbstractStep
BY EndQuietly DEF Drop

LEMMA SessRedialOutbox ==
  ASSUME WorldInv, TalkInv, OutboxInv, SessRedial
  PROVE  OutboxInv' /\ AbstractStep
BY EndQuietly DEF SessRedial

LEMMA SessPlanOutbox ==
  ASSUME WorldInv, TalkInv, OutboxInv, SessPlan
  PROVE  OutboxInv' /\ AbstractStep
<1>. DEFINE sh == [shared EXCEPT !.cursor = sess.plan.after]
            se == IF sess.plan.fetch
                    THEN [sess EXCEPT !.ticket = shared.refReq, !.phase = "fetch", !.plan = NoPlan]
                    ELSE [Backfilling(sess) EXCEPT !.ticket = shared.refReq]
            out == <<RowsReq(sess.plan.after, sess.resumed /\ ~sess.repair)>>
            t0 == [Turn(sh, se) EXCEPT !.out = out]
            t1 == PushPending(t0)
            t2 == IF sess.plan.fetch THEN t1
                  ELSE [t1 EXCEPT !.sh = SettleCausal(@, sess.causalSame)]
            ids == ToPush(sh, sess.inFlight)
<1>1. sess.plan.after \in Nat /\ sess.resumed \in BOOLEAN /\ sess.repair \in BOOLEAN
      /\ sess.causalSame \in BOOLEAN /\ sess \in SessType /\ shared.refReq \in 0 .. MaxRefresh
      /\ UNCHANGED <<srv, issued>>
  BY DEF SessPlan, TalkInv, SessType, PlanType, SharedType
<1>2. sh \in SharedType /\ sh.pending = shared.pending /\ sh.unsaved = shared.unsaved
  BY <1>1 DEF TalkInv, SharedType
<1>3. se \in SessType
  <2>1. Backfilling(sess) \in SessType
    BY <1>1, BackfillingType
  <2>. QED
    BY <1>1, <2>1, RestTypes DEF SessType
<1>4. ids \in SUBSET Own /\ ids \subseteq sh.pending
  <2>1. ids \in SUBSET Own
    BY <1>2, ToPushType
  <2>. QED
    BY <2>1 DEF ToPush
<1>5. out \in Seq(ClientFrame) /\ \A safe : out \in Seq(SafePush(safe))
  <2>1. RowsReq(sess.plan.after, sess.resumed /\ ~sess.repair) \in ClientFrame
        /\ RowsReq(sess.plan.after, sess.resumed /\ ~sess.repair).k # "PUSH"
    BY <1>1, RowsReqType DEF RowsReq
  <2>2. \A safe : RowsReq(sess.plan.after, sess.resumed /\ ~sess.repair) \in SafePush(safe)
    BY <2>1 DEF SafePush
  <2>. QED
    BY <2>1, <2>2
<1>6. t0 \in TurnType /\ t0.se = se /\ t0.sh = sh /\ t0.out = out
  <2>1. Turn(sh, se) \in TurnType /\ Turn(sh, se).se = se /\ Turn(sh, se).sh = sh
    <3>. HIDE DEF sh, se
    <3>. QED  BY <1>2, <1>3, TurnIsTurn DEF Turn
  <2>2. t0 = [Turn(sh, se) EXCEPT !.out = out]
    OBVIOUS
  <2>. HIDE DEF sh, se, t0, out
  <2>. QED
    BY <1>5, <2>1, <2>2 DEF TurnType
<1>7. ToPush(t0.sh, t0.se.inFlight) = ids
  <2>1. se.inFlight = sess.inFlight
    BY <1>1 DEF Backfilling, SessType
  <2>. HIDE DEF t0, sh, se
  <2>. QED  BY <1>6, <2>1
<1>8. CASE FailedPush(sh, ids)
  <2>. HIDE DEF sh, ids
  <2>. QED  BY <1>1, <1>2, <1>4, <1>8, FailedPushOutbox
<1>9. CASE Write(sh, ids) /\ Finish(t2, http, s2c)
  <2>1. ids \subseteq Safe'
    <3>. HIDE DEF sh, ids
    <3>. QED  BY <1>1, <1>2, <1>4, <1>9, WriteOutbox
  <2>2. t1 \in TurnType /\ t1.sh.pending = sh.pending /\ t1.sh.unsaved = sh.unsaved \ ids
        /\ t1.out \in Seq(SafePush(Safe'))
    <3>1. t0.out \in Seq(SafePush(Safe'))
      BY <1>5, <1>6
    <3>. HIDE DEF t0, sh, se, ids
    <3>. QED  BY <1>6, <1>7, <2>1, <3>1, PushPendingType, PushPendingOutbox
  <2>3. t2 \in TurnType /\ t2.sh.pending = sh.pending /\ t2.sh.unsaved = sh.unsaved \ ids
        /\ t2.out \in Seq(SafePush(Safe'))
    <3>. HIDE DEF t1, sh, ids
    <3>1. SettleCausal(t1.sh, sess.causalSame) \in SharedType
          /\ SettleCausal(t1.sh, sess.causalSame).pending = t1.sh.pending
          /\ SettleCausal(t1.sh, sess.causalSame).unsaved = t1.sh.unsaved
      BY <1>1, <2>2, SettleCausalType DEF TurnType, SettleCausal, SharedType
    <3>. QED
      BY <2>2, <3>1 DEF TurnType
  <2>. HIDE DEF t2, sh, ids
  <2>. QED
    BY <1>1, <1>2, <1>4, <1>9, <2>3, PushTurnOutbox
<1>. QED
  BY <1>8, <1>9 DEF SessPlan

LEMMA SessNudgeOutbox ==
  ASSUME WorldInv, TalkInv, OutboxInv, SessNudge
  PROVE  OutboxInv' /\ AbstractStep
<1>. DEFINE ids == ToPush(shared, sess.inFlight)
            t0  == Turn(shared, sess)
            t1  == PushPending(t0)
            t   == SendRefresh(t1)
<1>1. shared \in SharedType /\ sess \in SessType /\ UNCHANGED <<srv, issued>>
  BY DEF SessNudge, TalkInv
<1>2. ids \in SUBSET Own /\ ids \subseteq shared.pending
  <2>1. ids \in SUBSET Own
    BY <1>1, ToPushType
  <2>. QED
    BY <2>1 DEF ToPush
<1>3. t0 \in TurnType /\ t0.sh = shared /\ t0.se = sess /\ t0.out = <<>>
  BY <1>1, TurnIsTurn DEF Turn
<1>4. CASE Write(shared, ids) /\ Finish(t, http, s2c)
  <2>1. ids \subseteq Safe'
    <3>. HIDE DEF ids
    <3>. QED  BY <1>1, <1>2, <1>4, WriteOutbox
  <2>2. t1 \in TurnType /\ t1.sh.pending = shared.pending /\ t1.sh.unsaved = shared.unsaved \ ids
        /\ t1.out \in Seq(SafePush(Safe'))
    <3>1. t0.out \in Seq(SafePush(Safe')) /\ ToPush(t0.sh, t0.se.inFlight) = ids
      BY <1>3
    <3>. HIDE DEF t0, ids
    <3>. QED  BY <1>3, <2>1, <3>1, PushPendingType, PushPendingOutbox
  <2>3. t \in TurnType /\ t.sh.pending = shared.pending /\ t.sh.unsaved = shared.unsaved \ ids
        /\ t.out \in Seq(SafePush(Safe'))
    <3>. HIDE DEF t1, ids
    <3>. QED  BY <2>2, SendRefreshType, ReadsKeepOutbox
  <2>. HIDE DEF t, ids
  <2>. QED
    BY <1>1, <1>2, <1>4, <2>3, PushTurnOutbox
<1>5. CASE FailedPush(shared, ids)
  <2>. HIDE DEF ids
  <2>. QED  BY <1>1, <1>2, <1>5, FailedPushOutbox
<1>. QED
  BY <1>4, <1>5 DEF SessNudge

LEMMA SessRetryOutbox ==
  ASSUME WorldInv, TalkInv, OutboxInv, SessRetry
  PROVE  OutboxInv' /\ AbstractStep
<1>. DEFINE ids == HeadOf(shared.pending)
            sh  == [shared EXCEPT !.retryArmed = FALSE]
            out == IF ids = {} THEN <<>> ELSE <<[k |-> "PUSH", ids |-> ids]>>
            t0  == [Turn(Saved(sh, ids), sess) EXCEPT
                      !.out = IF ids = {} THEN @ ELSE <<[k |-> "PUSH", ids |-> ids]>>]
            t   == SendRefresh(t0)
<1>1. shared \in SharedType /\ sess \in SessType /\ UNCHANGED <<srv, issued>>
  BY DEF SessRetry, TalkInv
<1>2. ids \in SUBSET Own /\ ids \subseteq shared.pending
  BY <1>1, HeadOfType DEF SharedType
<1>3. sh \in SharedType /\ sh.pending = shared.pending /\ sh.unsaved = shared.unsaved
  BY <1>1 DEF SharedType
<1>4. CASE Write(sh, ids) /\ Finish(t, http, s2c)
  <2>1. ids \subseteq Safe'
    <3>. HIDE DEF sh, ids
    <3>. QED  BY <1>1, <1>2, <1>3, <1>4, WriteOutbox
  <2>2. out \in Seq(SafePush(Safe')) /\ out \in Seq(ClientFrame)
    <3>. HIDE DEF ids
    <3>1. CASE ids = {}
      BY <3>1
    <3>2. CASE ids # {}
      <4>1. [k |-> "PUSH", ids |-> ids] \in ClientFrame
        BY <1>2, <3>2 DEF ClientFrame, PushFrame
      <4>2. [k |-> "PUSH", ids |-> ids] \in SafePush(Safe')
        BY <2>1, <4>1 DEF SafePush
      <4>. QED
        BY <3>2, <4>1, <4>2
    <3>. QED
      BY <3>1, <3>2
  <2>3. t0 \in TurnType /\ t0.sh = Saved(sh, ids) /\ t0.out = out
    <3>1. Turn(Saved(sh, ids), sess) \in TurnType /\ Turn(Saved(sh, ids), sess).sh = Saved(sh, ids)
      <4>. HIDE DEF sh, ids
      <4>. QED  BY <1>1, <1>3, SavedType, TurnIsTurn DEF Turn
    <3>2. t0 = [Turn(Saved(sh, ids), sess) EXCEPT !.out = out]
      BY DEF Turn
    <3>. HIDE DEF sh, ids, out, t0
    <3>. QED
      BY <2>2, <3>1, <3>2 DEF TurnType
  <2>4. Saved(sh, ids).pending = sh.pending /\ Saved(sh, ids).unsaved = sh.unsaved \ ids
    BY <1>3 DEF Saved, SharedType
  <2>5. t \in TurnType /\ t.sh.pending = sh.pending /\ t.sh.unsaved = sh.unsaved \ ids
        /\ t.out \in Seq(SafePush(Safe'))
    <3>. HIDE DEF t0, sh, ids, out
    <3>. QED  BY <2>2, <2>3, <2>4, SendRefreshType, ReadsKeepOutbox
  <2>. HIDE DEF t, sh, ids
  <2>. QED
    BY <1>1, <1>2, <1>3, <1>4, <2>5, PushTurnOutbox
<1>5. CASE FailedPush(sh, ids)
  <2>. HIDE DEF sh, ids
  <2>. QED  BY <1>1, <1>2, <1>3, <1>5, FailedPushOutbox
<1>. QED
  BY <1>4, <1>5 DEF SessRetry

(* A frame whose handling leaves the outbox alone.                         *)
LEMMA FrameOutbox ==
  ASSUME WorldInv, TalkInv, OutboxInv, UNCHANGED <<srv, issued>>, SameBuffers,
         sink'.outbox = sink.outbox, NEW sh \in SharedType, sh.pending = shared.pending, sh.unsaved = shared.unsaved,
         NEW se \in SessType, NEW h \in HttpType,
         h.todo = http.todo, h.phase = http.phase, h.ack = http.ack,
         NEW rest \in Seq(TrueReply(srv.used, Safe)), AfterFrame(sh, se, h, rest)
  PROVE  OutboxInv' /\ AbstractStep
<1>1. Safe' = Safe
  BY DEF Safe
<1>2. Unwritten(sh, Safe', sink'.redo, issued') /\ CycleIsSafe(h, sh, Safe', srv'.used)
      /\ BuffersSafe(sink', Safe')
  BY <1>1, BuffersStay DEF OutboxInv, Unwritten, CycleIsSafe
<1>3. c2s \in Seq(SafePush(Safe')) /\ rest \in Seq(TrueReply(srv'.used, Safe'))
      /\ srv'.log \in Seq(srv'.used)
  BY <1>1 DEF OutboxInv
<1>4. OutboxInv'
  BY <1>2, <1>3, AfterFrameOutbox
<1>. QED
  BY <1>4, NoStep

LEMMA SessApplyRowOutbox ==
  ASSUME WorldInv, TalkInv, OutboxInv, SessApplyRow
  PROVE  OutboxInv' /\ AbstractStep
<1>. DEFINE same == ~Parks(sess.row)
            se   == [sess EXCEPT !.row = NoRow, !.causalSame = @ /\ same]
            h    == [http EXCEPT !.causalSame = @ /\ same]
<1>1. sess.row \in RowType /\ sess \in SessType /\ http \in HttpType /\ shared \in SharedType
      /\ sink \in SinkType
  BY DEF TalkInv, SessType, WorldInv
<1>2. same \in BOOLEAN /\ RowOutcome(sess.row) \in SharedType
  BY <1>1, ImportType
<1>3. RowOutcome(sess.row).pending = shared.pending /\ RowOutcome(sess.row).unsaved = shared.unsaved
      /\ Imported(sess.row).outbox = sink.outbox /\ Imported(sess.row).unsent = sink.unsent
      /\ Imported(sess.row).redo = sink.redo /\ Imported(sess.row).hand = sink.hand
  BY <1>1 DEF RowOutcome, Imported, SharedType, SinkType
<1>4. AfterFrame(RowOutcome(sess.row), se, h, s2c) /\ sink' = Imported(sess.row)
      /\ UNCHANGED <<srv, issued>>
  BY DEF SessApplyRow
<1>5. se \in SessType /\ h \in HttpType
      /\ h.todo = http.todo /\ h.phase = http.phase /\ h.ack = http.ack
  <2>. HIDE DEF same
  <2>. QED  BY <1>1, <1>2, RestTypes DEF SessType, HttpType
<1>6. s2c \in Seq(TrueReply(srv.used, Safe))
  BY DEF OutboxInv
<1>7. SameBuffers /\ sink'.outbox = sink.outbox
  BY <1>3, <1>4 DEF SameBuffers
<1>. HIDE DEF se, h
<1>. QED
  BY <1>2, <1>3, <1>4, <1>5, <1>6, <1>7, FrameOutbox

LEMMA SessAckOutbox ==
  ASSUME WorldInv, TalkInv, OutboxInv, SessAck
  PROVE  OutboxInv' /\ AbstractStep
<1>. DEFINE ack == Head(s2c)
            h   == [http EXCEPT !.gapSame = @ /\ ~IsGap(shared.cursor, ack.seq)]
<1>1. ack.id \in srv.used /\ ack.id \in Own /\ Tail(s2c) \in Seq(TrueReply(srv.used, Safe))
      /\ ack \in AckFrame
  <2>1. s2c # <<>> /\ ack.k = "ACK"
    BY DEF SessAck, Reading
  <2>2. ack \in ServerFrame /\ ack.id \in srv.used /\ ack.id \in Own
        /\ Tail(s2c) \in Seq(TrueReply(srv.used, Safe))
    BY <2>1, ReadReplies DEF OutboxInv
  <2>. QED
    BY <2>1, <2>2 DEF ServerFrame, StateFrame, RowFrame, RowsFrame, AckFrame, ErrorFrame,
                       MarkFrame
<1>2. PICK retired \in BOOLEAN :
        /\ sink' = [sink EXCEPT !.outbox = IF retired THEN @ \ {ack.id} ELSE @,
                                !.pcur = MaxOf(@, Acked(shared, ack, retired).cursor), !.dirty = TRUE]
        /\ AfterFrame(Acked(shared, ack, retired), sess, h, Tail(s2c))
  BY DEF SessAck
<1>. DEFINE gone == IF retired THEN {ack.id} ELSE {}
            sh   == Acked(shared, ack, retired)
<1>3. sh \in SharedType /\ sh.pending = shared.pending \ gone /\ sh.unsaved = shared.unsaved \ gone
  <2>1. sh \in SharedType
    BY <1>1, AckedType DEF TalkInv
  <2>2. shared \in SharedType
    BY DEF TalkInv
  <2>. QED
    BY <2>1, <2>2 DEF Acked, Retire, Drain, SharedType
<1>4. sink'.outbox = sink.outbox \ gone /\ SameBuffers /\ UNCHANGED <<srv, issued>>
  BY <1>2 DEF SessAck, WorldInv, SinkType, SameBuffers
<1>5. AbstractStep
  <2>1. CASE retired
    BY <1>1, <1>4, <2>1, RetireStep
  <2>2. CASE ~retired
    BY <1>4, <2>2, NoStep
  <2>. QED
    BY <2>1, <2>2
<1>6. Safe' = Safe
  BY <1>1, <1>4 DEF Safe
<1>7. gone \subseteq Safe
  BY <1>1 DEF Safe
<1>8. h \in HttpType /\ h.todo = http.todo /\ h.phase = http.phase /\ h.ack = http.ack
      /\ sess \in SessType
  BY DEF TalkInv, HttpType, IsGap
<1>. HIDE DEF sh, h, gone
<1>9. Unwritten(sh, Safe', sink'.redo, issued') /\ CycleIsSafe(h, sh, Safe', srv'.used)
  BY <1>3, <1>4, <1>6, <1>7, <1>8, BuffersStay DEF OutboxInv, Unwritten, CycleIsSafe
<1>10. c2s \in Seq(SafePush(Safe')) /\ Tail(s2c) \in Seq(TrueReply(srv'.used, Safe'))
       /\ srv'.log \in Seq(srv'.used) /\ BuffersSafe(sink', Safe')
  BY <1>1, <1>4, <1>6, BuffersStay DEF OutboxInv
<1>11. AfterFrame(sh, sess, h, Tail(s2c))
  BY <1>2 DEF sh
<1>12. OutboxInv'
  BY <1>3, <1>8, <1>9, <1>10, <1>11, AfterFrameOutbox
<1>. QED
  BY <1>5, <1>12

LEMMA SessRejectOutbox ==
  ASSUME WorldInv, TalkInv, OutboxInv, SessReject
  PROVE  OutboxInv' /\ AbstractStep
<1>. DEFINE b  == Head(s2c).id
            sh == Retire(shared, {b})
<1>1. b \in Safe /\ Tail(s2c) \in Seq(TrueReply(srv.used, Safe)) /\ UNCHANGED <<srv, issued>>
  <2>1. s2c # <<>> /\ Head(s2c).k = "REJECT"
    BY DEF SessReject, Reading
  <2>. QED
    BY <2>1, ReadReplies DEF OutboxInv, SessReject
<1>2. CASE /\ sink' = [sink EXCEPT !.rejected = @ \cup ({b} \cap sink.outbox)]
           /\ AfterFrame(sh, sess, http, Tail(s2c))
  <2>1. sink'.outbox = sink.outbox /\ SameBuffers
    BY <1>2 DEF WorldInv, SinkType, SameBuffers
  <2>2. Safe' = Safe
    BY <1>1, <2>1 DEF Safe
  <2>3. sh \in SharedType /\ sh.pending = shared.pending \ {b} /\ sh.unsaved = shared.unsaved \ {b}
    BY RetireType DEF TalkInv, Retire, SharedType
  <2>. HIDE DEF sh
  <2>5. Unwritten(sh, Safe', sink'.redo, issued') /\ CycleIsSafe(http, sh, Safe', srv'.used)
    BY <1>1, <2>1, <2>2, <2>3, BuffersStay DEF OutboxInv, Unwritten, CycleIsSafe
  <2>4. c2s \in Seq(SafePush(Safe')) /\ Tail(s2c) \in Seq(TrueReply(srv'.used, Safe'))
        /\ srv'.log \in Seq(srv'.used) /\ sess \in SessType /\ http \in HttpType
        /\ BuffersSafe(sink', Safe')
    BY <1>1, <2>1, <2>2, BuffersStay DEF OutboxInv, TalkInv
  <2>6. OutboxInv'
    BY <1>2, <2>3, <2>4, <2>5, AfterFrameOutbox
  <2>. QED
    BY <1>1, <2>1, <2>6, NoStep
<1>3. CASE EndSession(shared, http) /\ UNCHANGED sink
  BY <1>1, <1>3, EndQuietly
<1>. QED
  BY <1>2, <1>3 DEF SessReject

LEMMA SessQuotaOutbox ==
  ASSUME WorldInv, TalkInv, OutboxInv, SessQuota
  PROVE  OutboxInv' /\ AbstractStep
<1>. DEFINE sh == [shared EXCEPT !.quotaBlocked = TRUE, !.retryArmed = TRUE]
<1>1. s2c # <<>> /\ UNCHANGED <<srv, issued, sink>> /\ AfterFrame(sh, sess, http, Tail(s2c))
  BY DEF SessQuota, Reading
<1>2. Tail(s2c) \in Seq(TrueReply(srv.used, Safe))
  BY <1>1, ReadReplies DEF OutboxInv
<1>3. sh \in SharedType /\ sh.pending = shared.pending /\ sh.unsaved = shared.unsaved
  BY DEF TalkInv, SharedType
<1>4. sess \in SessType /\ http \in HttpType
  BY DEF TalkInv
<1>. HIDE DEF sh
<1>. QED
  BY <1>1, <1>2, <1>3, <1>4, SameSink, FrameOutbox

LEMMA SessJoinOutbox ==
  ASSUME WorldInv, TalkInv, OutboxInv, SessJoin
  PROVE  OutboxInv' /\ AbstractStep
<1>. DEFINE head == IF sess.phase = "drain" THEN sess.head ELSE Head(s2c).head
            sh == CaughtUp(shared, sess.ticket, head)
            se == [sess EXCEPT !.phase = "steady", !.resumed = TRUE, !.ticket = 0, !.head = 0]
<1>1. s2c # <<>> /\ UNCHANGED <<srv, issued, sink>> /\ AfterFrame(sh, se, http, Tail(s2c))
  BY DEF SessJoin, Reading
<1>2. Tail(s2c) \in Seq(TrueReply(srv.used, Safe))
  BY <1>1, ReadReplies DEF OutboxInv
<1>3. sh \in SharedType /\ sh.pending = shared.pending /\ sh.unsaved = shared.unsaved
  <2>. HIDE DEF head
  <2>1. sh \in SharedType
    BY CaughtUpType DEF TalkInv, SessType
  <2>. QED
    BY <2>1 DEF CaughtUp, TalkInv, SharedType
<1>4. se \in SessType /\ http \in HttpType
  <2>1. 0 \in 0 .. MaxRefresh
    BY BoundsAreNat
  <2>. QED  BY <2>1 DEF TalkInv, SessType
<1>. HIDE DEF sh, se
<1>. QED
  BY <1>1, <1>2, <1>3, <1>4, SameSink, FrameOutbox

LEMMA SessDoneOutbox ==
  ASSUME WorldInv, TalkInv, OutboxInv, SessDone
  PROVE  OutboxInv' /\ AbstractStep
<1>. DEFINE f      == Head(s2c)
            missed == sess.refresh # 0 /\ shared.cursor < f.head
            sh0 == [shared EXCEPT !.rowsReqOut = FALSE]
            sh  == RefreshRead(sh0, sess.refresh, f.head)
            se  == [sess EXCEPT !.refresh = 0]
            h   == [http EXCEPT !.gapSame = @ /\ ~missed]
<1>1. s2c # <<>> /\ f.k = "ROWS" /\ UNCHANGED <<srv, issued, sink>> /\ AfterFrame(sh, se, h, Tail(s2c))
  BY DEF SessDone, Reading, IsDone
<1>2. Tail(s2c) \in Seq(TrueReply(srv.used, Safe)) /\ f.head \in Nat
  BY <1>1, ReadReplies, FrameKinds DEF OutboxInv
<1>3. sh \in SharedType /\ sh.pending = shared.pending /\ sh.unsaved = shared.unsaved
  <2>1. sh0 \in SharedType /\ sess.refresh \in 0 .. MaxRefresh
        /\ sh0.pending = shared.pending /\ sh0.unsaved = shared.unsaved
    BY DEF TalkInv, SharedType, SessType
  <2>. HIDE DEF sh0
  <2>2. sh \in SharedType
    BY <1>2, <2>1, RefreshReadType
  <2>. QED
    BY <2>1, <2>2 DEF RefreshRead, SharedType
<1>4. se \in SessType
  <2>1. 0 \in 0 .. MaxRefresh
    BY BoundsAreNat
  <2>. QED  BY <2>1 DEF TalkInv, SessType
<1>5. h \in HttpType /\ h.todo = http.todo /\ h.phase = http.phase /\ h.ack = http.ack
  BY DEF TalkInv, HttpType
<1>. HIDE DEF sh, se, h
<1>. QED
  BY <1>1, <1>2, <1>3, <1>4, <1>5, SameSink, FrameOutbox

LEMMA SessProbeOutbox ==
  ASSUME WorldInv, TalkInv, OutboxInv, SessProbe
  PROVE  OutboxInv' /\ AbstractStep
<1>. DEFINE t0 == Turn(shared, sess)
            t  == SendRefresh(t0)
<1>1. UNCHANGED <<srv, issued, sink>> /\ Finish(t, http, s2c)
  BY DEF SessProbe
<1>2. t0 \in TurnType /\ t0.sh = shared /\ t0.out = <<>>
  BY TurnIsTurn DEF Turn, TalkInv
<1>3. Safe' = Safe
  BY <1>1 DEF Safe
<1>4. t \in TurnType /\ t.sh.pending = shared.pending /\ t.sh.unsaved = shared.unsaved
      /\ t.out \in Seq(SafePush(Safe'))
  <2>1. t0.out \in Seq(SafePush(Safe'))
    BY <1>2
  <2>. HIDE DEF t0
  <2>. QED  BY <1>2, <2>1, SendRefreshType, ReadsKeepOutbox
<1>5. Unwritten(t.sh, Safe', sink'.redo, issued') /\ CycleIsSafe(http, t.sh, Safe', srv'.used)
  <2>. HIDE DEF t
  <2>. QED  BY <1>1, <1>3, <1>4, LedgerOfParts DEF OutboxInv
<1>6. c2s \in Seq(SafePush(Safe')) /\ s2c \in Seq(TrueReply(srv'.used, Safe'))
      /\ srv'.log \in Seq(srv'.used) /\ http \in HttpType /\ BuffersSafe(sink', Safe')
  BY <1>1, <1>3 DEF OutboxInv, TalkInv
<1>7. OutboxInv'
  <2>. HIDE DEF t
  <2>. QED  BY <1>1, <1>4, <1>5, <1>6, FinishOutbox
<1>. QED
  BY <1>1, <1>7, SameSink, NoStep

LEMMA IdleIsSafe ==
  ASSUME NEW sh, NEW safe, NEW used
  PROVE  CycleIsSafe(IdleHttp, sh, safe, used)
BY DEF CycleIsSafe, IdleHttp

LEMMA NewBatchOutbox ==
  ASSUME WorldInv, OutboxInv, issued < MaxOwn, issued' = issued + 1
  PROVE  /\ issued' \in Own /\ 1 .. issued \subseteq 1 .. issued' /\ issued' \in 1 .. issued'
         /\ issued' \notin Safe \cup shared.pending \cup shared.unsaved \cup sink.redo
<1>1. issued' \in Own /\ issued' \notin 1 .. issued /\ 1 .. issued \subseteq 1 .. issued'
      /\ issued' \in 1 .. issued'
  BY BoundsAreNat DEF WorldInv, Own
<1>. QED
  BY <1>1 DEF OutboxInv, Unwritten

(* A batch that appears on disk, or in a buffer, keeps the rest safe.      *)
LEMMA GrownOutbox ==
  ASSUME OutboxInv, UNCHANGED <<srv, c2s, s2c, http>>, Safe \subseteq Safe',
         Unwritten(shared', Safe', sink'.redo, issued'),
         shared.unsaved \subseteq Safe' \cup shared'.unsaved,
         BuffersSafe(sink', Safe')
  PROVE  OutboxInv'
<1>1. CycleIsSafe(http', shared', Safe', srv'.used)
  BY DEF OutboxInv, CycleIsSafe
<1>2. c2s' \in Seq(SafePush(Safe')) /\ s2c' \in Seq(TrueReply(srv'.used, Safe'))
  BY SafePushMono, TrueReplyMono DEF OutboxInv
<1>3. srv'.log \in Seq(srv'.used)
  BY DEF OutboxInv
<1>. QED
  BY <1>1, <1>2, <1>3 DEF OutboxInv

LEMMA EnqueueOutbox ==
  ASSUME WorldInv, TalkInv, OutboxInv, Enqueue
  PROVE  OutboxInv' /\ AbstractStep
<1>. DEFINE b == issued + 1
<1>1. issued < MaxOwn /\ issued' = issued + 1 /\ UNCHANGED <<srv, c2s, s2c, http>>
  BY DEF Enqueue, LocalEdit
<1>2. b \in Own /\ issued' = b /\ 1 .. issued \subseteq 1 .. b /\ b \in 1 .. b
      /\ b \notin Safe \cup shared.pending \cup shared.unsaved \cup sink.redo
  BY <1>1, NewBatchOutbox
<1>3. PICK stored, durable \in BOOLEAN :
        /\ durable => stored
        /\ sink' = [Edited(b, stored, stored /\ ~durable) EXCEPT
                      !.rejected = @ \cup (IF stored THEN {b} \cap Oversize ELSE {})]
        /\ shared' = EnqueueBatch(shared, b, durable)
  BY DEF Enqueue
<1>. HIDE DEF b
<1>. DEFINE B == IF stored THEN {b} ELSE {}
            R == IF stored /\ ~durable THEN {b} ELSE {}
<1>4. sink'.outbox = sink.outbox \cup B /\ sink'.redo = sink.redo \cup R
      /\ sink'.unsent = sink.unsent /\ sink'.hand = sink.hand
  BY <1>3 DEF Edited, WorldInv, SinkType
<1>5. AbstractStep
  <2>1. CASE stored /\ ~durable
    BY <1>1, <1>2, <1>4, <2>1, HoldStep
  <2>2. CASE ~(stored /\ ~durable)
    <3>1. B \in SUBSET Own /\ B \cap Safe \subseteq sink.redo /\ sink'.redo = sink.redo
      BY <1>2, <1>4, <2>2
    <3>. QED
      BY <1>1, <1>4, <3>1, RecordStep
  <2>. QED
    BY <2>1, <2>2
<1>6. Safe' = Safe \cup B /\ Safe \subseteq Safe'
  BY <1>1, <1>4 DEF Safe
<1>7. \/ shared' = shared
      \/ /\ shared'.pending = shared.pending \cup {b}
         /\ shared'.unsaved = IF durable THEN shared.unsaved ELSE shared.unsaved \cup {b}
  BY <1>3 DEF EnqueueBatch, TalkInv, SharedType
<1>8. Unwritten(shared', Safe', sink'.redo, issued')
  BY <1>2, <1>3, <1>4, <1>6, <1>7 DEF OutboxInv, Unwritten
<1>9. shared.unsaved \subseteq shared'.unsaved /\ BuffersSafe(sink', Safe')
  BY <1>4, <1>6, <1>7 DEF OutboxInv, BuffersSafe
<1>. QED
  BY <1>1, <1>5, <1>6, <1>8, <1>9, GrownOutbox

LEMMA EnqueueEarlyOutbox ==
  ASSUME WorldInv, TalkInv, OutboxInv, EnqueueEarly
  PROVE  OutboxInv' /\ AbstractStep
<1>. DEFINE b == issued + 1
<1>1. issued < MaxOwn /\ issued' = issued + 1 /\ UNCHANGED <<srv, shared, c2s, s2c, http>>
  BY DEF EnqueueEarly, LocalEdit
<1>2. b \in Own /\ issued' = b /\ 1 .. issued \subseteq 1 .. b /\ b \in 1 .. b
      /\ b \notin Safe \cup shared.pending \cup shared.unsaved \cup sink.redo
  BY <1>1, NewBatchOutbox
<1>3. PICK stored \in BOOLEAN :
        sink' = [Edited(b, stored, TRUE) EXCEPT !.unsent = @ \cup {b}]
  BY DEF EnqueueEarly
<1>. HIDE DEF b
<1>. DEFINE B == IF stored THEN {b} ELSE {}
<1>4. sink'.outbox = sink.outbox \cup B /\ sink'.redo = sink.redo \cup {b}
      /\ sink'.unsent = sink.unsent \cup {b} /\ sink'.hand = sink.hand
  BY <1>3 DEF Edited, WorldInv, SinkType
<1>5. AbstractStep
  BY <1>1, <1>2, <1>4, HoldStep
<1>6. Safe' = Safe \cup B /\ Safe \subseteq Safe'
  BY <1>1, <1>4 DEF Safe
<1>7. Unwritten(shared', Safe', sink'.redo, issued')
  BY <1>1, <1>2, <1>4, <1>6 DEF OutboxInv, Unwritten
<1>8. BuffersSafe(sink', Safe')
  BY <1>4, <1>6 DEF OutboxInv, BuffersSafe
<1>. QED
  BY <1>1, <1>5, <1>6, <1>7, <1>8, GrownOutbox

(* The client is built from the outbox, so what it clones is on disk.      *)
LEMMA ConnectOutbox ==
  ASSUME WorldInv, TalkInv, OutboxInv, Connect
  PROVE  OutboxInv' /\ AbstractStep
<1>. DEFINE pending == sink.outbox \ (sink.rejected \cup Oversize)
<1>1. sink'.outbox = sink.outbox /\ SameBuffers /\ UNCHANGED <<srv, c2s, s2c, issued>>
  BY DEF Connect, WorldInv, SinkType, SameBuffers
<1>2. shared'.pending = pending /\ shared'.unsaved = {} /\ pending \subseteq Safe
  BY DEF Connect, NewShared, Safe
<1>3. http' = IdleHttp \/ (http'.phase = "push" /\ http'.todo = pending)
  BY DEF Connect, SpawnHttp, IdleHttp
<1>. HIDE DEF pending
<1>4. Safe' = Safe
  BY <1>1 DEF Safe
<1>5. Unwritten(shared', Safe', sink'.redo, issued') /\ BuffersSafe(sink', Safe')
  BY <1>1, <1>2, <1>4, BuffersStay DEF OutboxInv, Unwritten
<1>6. CycleIsSafe(http', shared', Safe', srv'.used)
  <2>1. CASE http' = IdleHttp
    BY <2>1, IdleIsSafe
  <2>2. CASE http'.phase = "push" /\ http'.todo = pending
    BY <1>2, <1>4, <2>2 DEF CycleIsSafe
  <2>. QED
    BY <1>3, <2>1, <2>2
<1>7. OutboxInv'
  BY <1>1, <1>4, <1>5, <1>6 DEF OutboxInv
<1>. QED
  BY <1>1, <1>7, NoStep

(* The buffered batches were all handed in once before.                    *)
LEMMA HandOverOutbox ==
  ASSUME WorldInv, TalkInv, OutboxInv, HandOver
  PROVE  OutboxInv' /\ AbstractStep
<1>. DEFINE b == Least(sink.unsent)
<1>1. b \in sink.unsent /\ b \in Own /\ b \in sink.redo
  BY LeastOwn DEF HandOver, WorldInv, SinkType, OutboxInv, BuffersSafe
<1>2. PICK written \in BOOLEAN :
        sink' = [sink EXCEPT !.slot = "handing", !.unsent = @ \ {b},
                             !.hand = [ids |-> {b}, durable |-> written],
                             !.outbox = IF written THEN @ \cup {b} ELSE @]
  BY DEF HandOver
<1>. DEFINE B == IF written THEN {b} ELSE {}
<1>3. sink'.outbox = sink.outbox \cup B /\ sink'.redo = sink.redo
      /\ sink'.unsent = sink.unsent \ {b} /\ sink'.hand = [ids |-> {b}, durable |-> written]
  BY <1>2 DEF WorldInv, SinkType
<1>4. UNCHANGED <<srv, shared, http, issued, c2s, s2c>>
  BY DEF HandOver
<1>. HIDE DEF b
<1>5. AbstractStep
  <2>1. B \in SUBSET Own /\ B \cap Safe \subseteq sink.redo /\ srv'.used = srv.used
    BY <1>1, <1>4
  <2>. QED
    BY <1>3, <2>1, RecordStep
<1>6. Safe' = Safe \cup B
  BY <1>3, <1>4 DEF Safe
<1>7. BuffersSafe(sink', Safe')
  BY <1>1, <1>3, <1>6 DEF OutboxInv, BuffersSafe
<1>8. Unwritten(shared', Safe', sink'.redo, issued')
  BY <1>1, <1>3, <1>4, <1>6 DEF OutboxInv, Unwritten
<1>9. shared.unsaved \subseteq shared'.unsaved /\ UNCHANGED <<srv, http, c2s, s2c>>
  BY <1>4
<1>. QED
  BY <1>5, <1>6, <1>7, <1>8, <1>9, GrownOutbox

(* The batch in hand joins the queue as the write left it.                 *)
LEMMA HandedOutbox ==
  ASSUME WorldInv, TalkInv, OutboxInv, Handed
  PROVE  OutboxInv' /\ AbstractStep
<1>1. PICK b \in sink.hand.ids :
        /\ sink' = [sink EXCEPT !.hand = NoHand,
                                !.rejected = @ \cup ({b} \cap sink.outbox \cap Oversize)]
        /\ shared' = EnqueueBatch(shared, b, sink.hand.durable)
        /\ UNCHANGED <<srv, http, issued, c2s, s2c>>
  BY DEF Handed
<1>2. b \in Own /\ b \in sink.redo /\ (sink.hand.durable => b \in Safe)
  BY DEF WorldInv, SinkType, OutboxInv, BuffersSafe
<1>3. sink'.outbox = sink.outbox /\ sink'.redo = sink.redo
      /\ sink'.unsent = sink.unsent /\ sink'.hand = NoHand
  BY <1>1 DEF WorldInv, SinkType
<1>4. /\ shared'.pending \subseteq shared.pending \cup {b}
      /\ shared.unsaved \subseteq shared'.unsaved
      /\ shared'.unsaved \subseteq shared.unsaved \cup {b}
      /\ b \in shared'.pending \ shared.pending => sink.hand.durable \/ b \in shared'.unsaved
  BY <1>1 DEF EnqueueBatch, TalkInv, SharedType
<1>5. AbstractStep
  BY <1>1, <1>3 DEF AbstractStep
<1>6. Safe' = Safe
  BY <1>1, <1>3 DEF Safe
<1>7. BuffersSafe(sink', Safe')
  BY <1>3, <1>6 DEF OutboxInv, BuffersSafe, NoHand
<1>8. Unwritten(shared', Safe', sink'.redo, issued')
  BY <1>1, <1>2, <1>3, <1>4, <1>6 DEF OutboxInv, Unwritten
<1>. QED
  BY <1>1, <1>4, <1>5, <1>6, <1>7, <1>8, GrownOutbox

LEMMA GoLiveOutbox ==
  ASSUME WorldInv, TalkInv, OutboxInv, GoLive
  PROVE  OutboxInv' /\ AbstractStep
<1>1. sink'.outbox = sink.outbox /\ SameBuffers
      /\ UNCHANGED <<srv, c2s, s2c, shared, http, issued>>
  BY DEF GoLive, WorldInv, SinkType, SameBuffers
<1>. QED
  BY <1>1, QuietStep DEF OutboxInv

LEMMA HttpPersistOutbox ==
  ASSUME WorldInv, TalkInv, OutboxInv, HttpPersist
  PROVE  OutboxInv' /\ AbstractStep
<1>. DEFINE b    == Least(http.todo)
            need == {b} \cap shared.unsaved
<1>1. b \in http.todo /\ b \in Own /\ http \in HttpType /\ shared \in SharedType
      /\ UNCHANGED <<srv, c2s, s2c, issued>>
  BY LeastOwn DEF HttpPersist, TalkInv, HttpType
<1>2. CASE http' = [http EXCEPT !.phase = "capture", !.todo = {}] /\ UNCHANGED <<shared, sink>>
  <2>1. http'.phase = "capture" /\ http'.todo = {}
    BY <1>1, <1>2 DEF HttpType
  <2>2. CycleIsSafe(http', shared, Safe, srv.used)
    BY <2>1 DEF CycleIsSafe
  <2>3. c2s' \in Seq(SafePush(Safe)) /\ s2c' \in Seq(TrueReply(srv.used, Safe))
    BY <1>1 DEF OutboxInv
  <2>. QED
    BY <1>1, <1>2, <2>2, <2>3, SameSink, QuietStep
<1>3. CASE /\ sink' = [sink EXCEPT !.outbox = @ \cup need]
           /\ shared' = Saved(shared, need)
           /\ http' = [http EXCEPT !.phase = "post"]
  <2>. HIDE DEF b
  <2>1. sink'.outbox = sink.outbox \cup need /\ SameBuffers
    BY <1>3 DEF WorldInv, SinkType, SameBuffers
  <2>2. need \in SUBSET Own /\ need \cap Safe \subseteq sink.redo /\ need \subseteq shared.unsaved
    BY <1>1 DEF OutboxInv, Unwritten
  <2>3. AbstractStep
    BY <1>1, <2>1, <2>2, RecordStep DEF SameBuffers
  <2>4. Safe' = Safe \cup need
    BY <1>1, <2>1 DEF Safe
  <2>5. shared'.unsaved = shared.unsaved \ need /\ shared'.pending = shared.pending
    BY <1>1, <1>3 DEF Saved, SharedType
  <2>6. b \in Safe'
    BY <1>1, <2>4 DEF OutboxInv, CycleIsSafe
  <2>7. Unwritten(shared', Safe', sink'.redo, issued')
    BY <1>1, <2>1, <2>2, <2>4, <2>5, BuffersStay DEF OutboxInv, Unwritten
  <2>8. CycleIsSafe(http', shared', Safe', srv'.used)
    <3>1. http'.todo = http.todo /\ http'.phase = "post"
      BY <1>1, <1>3 DEF HttpType
    <3>2. Least(http'.todo) \in Safe'
      BY <2>6, <3>1 DEF b
    <3>. QED
      BY <1>1, <2>4, <2>5, <3>1, <3>2 DEF OutboxInv, CycleIsSafe
  <2>9. c2s' \in Seq(SafePush(Safe')) /\ s2c' \in Seq(TrueReply(srv'.used, Safe'))
        /\ srv'.log \in Seq(srv'.used) /\ BuffersSafe(sink', Safe')
    BY <1>1, <2>1, <2>4, SafePushMono, TrueReplyMono, BuffersStay DEF OutboxInv
  <2>. QED
    BY <2>3, <2>7, <2>8, <2>9 DEF OutboxInv
<1>. QED
  BY <1>2, <1>3 DEF HttpPersist, ToPersist

LEMMA HttpPostOutbox ==
  ASSUME WorldInv, TalkInv, OutboxInv, HttpPost
  PROVE  OutboxInv' /\ AbstractStep
<1>. DEFINE b       == Least(http.todo)
            isNew   == b \notin Rows(srv.log)
            log     == IF isNew THEN Append(srv.log, b) ELSE srv.log
            stopped == [http EXCEPT !.phase = "capture", !.todo = {}]
            ack     == [id |-> b, seq |-> PosIn(log, b)]
            acked   == [http EXCEPT !.phase = "acked", !.todo = @ \ {b}, !.ack = ack]
            row     == [k |-> "ROW", id |-> b, seq |-> Len(log)]
<1>1. http.phase = "post" /\ http \in HttpType /\ http.todo # {} /\ http.todo \in SUBSET Own
      /\ srv \in SrvType /\ UNCHANGED <<c2s, shared, sink, issued>>
  BY DEF HttpPost, TalkInv, HttpType, CycleComplete, WorldInv
<1>2. b \in Own /\ b \in http.todo /\ b \in Safe
  BY <1>1, LeastOwn DEF OutboxInv, CycleIsSafe
<1>3. stopped.phase = "capture" /\ stopped.todo = {}
  BY <1>1 DEF HttpType
<1>4. acked.phase = "acked" /\ acked.todo \subseteq http.todo /\ acked.ack.id = b
  <2>1. acked.phase = "acked" /\ acked.todo = http.todo \ {b} /\ acked.ack = ack
    <3>. HIDE DEF ack, b
    <3>. QED  BY <1>1 DEF HttpType
  <2>. QED
    BY <2>1
<1>5. CASE UNCHANGED <<srv, s2c>> /\ http' = stopped
  <2>1. CycleIsSafe(http', shared, Safe, srv.used)
    <3>. HIDE DEF stopped
    <3>. QED  BY <1>3, <1>5 DEF CycleIsSafe
  <2>2. c2s' \in Seq(SafePush(Safe)) /\ s2c' \in Seq(TrueReply(srv.used, Safe))
    BY <1>1, <1>5 DEF OutboxInv
  <2>. QED
    BY <1>1, <1>5, <2>1, <2>2, SameSink, QuietStep
<1>6. CASE /\ srv' = [srv EXCEPT !.log = log, !.used = @ \cup {b}]
           /\ s2c' \in {s2c} \cup (IF isNew THEN {Broadcast(row)} ELSE {})
           /\ http' = acked \/ http' = stopped
  <2>1. srv'.log = log /\ srv'.used = srv.used \cup {b}
    <3>. HIDE DEF log, b
    <3>. QED  BY <1>1, <1>6 DEF SrvType
  <2>2. AbstractStep
    <3>. HIDE DEF b
    <3>. QED  BY <1>1, <1>2, <2>1, SameSink, LandStep
  <2>3. Safe' = Safe
    <3>. HIDE DEF b
    <3>. QED  BY <1>1, <1>2, <2>1 DEF Safe
  <2>4. srv'.log \in Seq(srv'.used)
    <3>1. srv.log \in Seq(srv'.used) /\ b \in srv'.used
      <4>. HIDE DEF b
      <4>. QED  BY <2>1, SeqMono DEF OutboxInv
    <3>. HIDE DEF b
    <3>. QED  BY <2>1, <3>1
  <2>5. CycleIsSafe(http', shared', Safe', srv'.used) /\ Unwritten(shared', Safe', sink'.redo, issued')
    <3>1. b \in srv'.used
      <4>. HIDE DEF b
      <4>. QED  BY <2>1
    <3>. HIDE DEF acked, stopped, b
    <3>. QED  BY <1>1, <1>3, <1>4, <1>6, <2>3, <3>1 DEF OutboxInv, CycleIsSafe
  <2>6. s2c' \in Seq(TrueReply(srv'.used, Safe'))
    <3>1. s2c \in Seq(TrueReply(srv'.used, Safe'))
      <4>. HIDE DEF b
      <4>. QED  BY <2>1, <2>3, TrueReplyMono DEF OutboxInv
    <3>2. CASE isNew
      <4>1. row \in ServerFrame /\ row.k # "ACK" /\ row.k # "REJECT"
        <5>1. b \in Ids /\ Len(log) \in Nat
          <6>1. Len(srv.log) \in Nat /\ srv.log \in Seq(Ids)
            BY LogLength
          <6>. QED
            BY <1>2, <3>2, <6>1 DEF Ids
        <5>. HIDE DEF log, b
        <5>. QED  BY <5>1 DEF ServerFrame, RowFrame
      <4>2. s2c' = s2c \/ s2c' = Append(s2c, row)
        BY <1>6 DEF Broadcast
      <4>. HIDE DEF row
      <4>. QED  BY <3>1, <4>1, <4>2, SendReply
    <3>3. CASE ~isNew
      <4>1. s2c' = s2c
        BY <1>6, <3>3
      <4>. QED
        BY <3>1, <4>1
    <3>. QED
      BY <3>2, <3>3
  <2>7. c2s' \in Seq(SafePush(Safe')) /\ BuffersSafe(sink', Safe')
    BY <1>1, <2>3 DEF OutboxInv
  <2>. QED
    BY <2>2, <2>4, <2>5, <2>6, <2>7 DEF OutboxInv
<1>. QED
  BY <1>5, <1>6 DEF HttpPost

LEMMA HttpAckOutbox ==
  ASSUME WorldInv, TalkInv, OutboxInv, HttpAck
  PROVE  OutboxInv' /\ AbstractStep
<1>. DEFINE b == http.ack.id
<1>1. http.phase = "acked" /\ b \in srv.used /\ http \in HttpType /\ shared \in SharedType
      /\ UNCHANGED <<srv, c2s, s2c, issued>>
  BY DEF HttpAck, OutboxInv, CycleIsSafe, TalkInv
<1>2. PICK retired \in BOOLEAN :
        /\ shared' = [Retire(shared, IF retired THEN {b} ELSE {}) EXCEPT
                        !.cursor = Walk(shared.cursor, http.ack.seq)]
        /\ sink' = [sink EXCEPT !.outbox = IF retired THEN @ \ {b} ELSE @,
                                !.pcur = MaxOf(@, Walk(shared.cursor, http.ack.seq)), !.dirty = TRUE]
  BY DEF HttpAck
<1>. DEFINE gone == IF retired THEN {b} ELSE {}
<1>3. sink'.outbox = sink.outbox \ gone /\ SameBuffers
  BY <1>2 DEF WorldInv, SinkType, SameBuffers
<1>4. shared'.pending = shared.pending \ gone /\ shared'.unsaved = shared.unsaved \ gone
  BY <1>1, <1>2 DEF Retire, SharedType
<1>5. http'.phase = "push" /\ http'.todo = http.todo
  BY <1>1 DEF HttpAck, HttpType
<1>. HIDE DEF b
<1>6. gone \subseteq Safe
  BY <1>1 DEF Safe
<1>7. AbstractStep
  <2>1. CASE retired /\ b \in Own
    BY <1>1, <1>3, <2>1, RetireStep
  <2>2. CASE ~retired \/ b \notin Own
    <3>1. sink.outbox \subseteq Own
      BY DEF WorldInv, SinkType
    <3>2. sink'.outbox = sink.outbox
      BY <1>3, <2>2, <3>1
    <3>. QED
      BY <1>1, <1>3, <3>2, NoStep
  <2>. QED
    BY <2>1, <2>2
<1>8. Safe' = Safe
  BY <1>1, <1>3 DEF Safe
<1>9. Unwritten(shared', Safe', sink'.redo, issued') /\ CycleIsSafe(http', shared', Safe', srv'.used)
  BY <1>1, <1>3, <1>4, <1>5, <1>6, <1>8, BuffersStay DEF OutboxInv, Unwritten, CycleIsSafe
<1>10. c2s' \in Seq(SafePush(Safe')) /\ s2c' \in Seq(TrueReply(srv'.used, Safe'))
       /\ srv'.log \in Seq(srv'.used) /\ BuffersSafe(sink', Safe')
  BY <1>1, <1>3, <1>8, BuffersStay DEF OutboxInv
<1>. QED
  BY <1>7, <1>9, <1>10 DEF OutboxInv

-----------------------------------------------------------------------------
(* The actions that leave the outbox alone.                                *)

(* A cycle whose clone and phase are kept, or past its pushes, stays safe. *)
LEMMA CycleMoves ==
  ASSUME NEW g, NEW h, NEW sh, NEW safe, NEW used, CycleIsSafe(h, sh, safe, used),
         g.todo = h.todo, g.phase \notin {"post", "acked"}
  PROVE  CycleIsSafe(g, sh, safe, used)
BY DEF CycleIsSafe

LEMMA RoomQuiet ==
  ASSUME WorldInv, TalkInv, OutboxInv, ServeHello \/ ServeRows \/ PostCheckpoint
  PROVE  OutboxInv' /\ AbstractStep
<1>1. CycleIsSafe(http, shared, Safe, srv.used) /\ c2s \in Seq(SafePush(Safe))
      /\ s2c \in Seq(TrueReply(srv.used, Safe))
  BY DEF OutboxInv
<1>2. CASE ServeHello
  <2>1. StateOf(srv) \in ServerFrame /\ StateOf(srv).k = "STATE"
    BY LogLength DEF StateOf, ServerFrame, StateFrame, WorldInv, SrvType
  <2>2. s2c' \in Seq(TrueReply(srv.used, Safe))
    BY <1>1, <1>2, <2>1, SendReply DEF ServeHello
  <2>3. c2s' \in Seq(SafePush(Safe))
    BY <1>1, <1>2, ReadPushes DEF ServeHello
  <2>. QED
    BY <1>1, <1>2, <2>2, <2>3, SameSink, QuietStep DEF ServeHello
<1>3. CASE ServeRows
  <2>. DEFINE f == [k |-> "ROWS", next |-> MaxOf(Head(c2s).after, srv.ckpt) + 1,
                    head |-> Len(srv.log), ex |-> Head(c2s).ex]
  <2>1. c2s # <<>> /\ Head(c2s).k = "ROWS_REQ" /\ c2s' = Tail(c2s) /\ s2c' = Append(s2c, f)
        /\ UNCHANGED <<srv, shared, http, sink, issued>>
    BY <1>3 DEF ServeRows
  <2>2. Head(c2s) \in ClientFrame /\ c2s' \in Seq(SafePush(Safe))
    BY <1>1, <2>1, ReadPushes
  <2>3. f \in ServerFrame
    <3>1. Head(c2s).after \in Nat /\ Head(c2s).ex \in BOOLEAN
      BY <2>1, <2>2, PushKind
    <3>2. MaxOf(Head(c2s).after, srv.ckpt) \in Nat
      BY <3>1, MaxOfNat DEF WorldInv, SrvType
    <3>. QED
      BY <3>1, <3>2, LogLength DEF ServerFrame, RowsFrame
  <2>4. s2c' \in Seq(TrueReply(srv.used, Safe))
    <3>1. f.k # "ACK" /\ f.k # "REJECT"
      OBVIOUS
    <3>. HIDE DEF f
    <3>. QED  BY <1>1, <2>1, <2>3, <3>1, SendReply
  <2>. QED
    BY <1>1, <2>1, <2>2, <2>4, SameSink, QuietStep
<1>4. CASE PostCheckpoint
  <2>1. srv'.log = srv.log /\ srv'.used = srv.used
    BY <1>4 DEF PostCheckpoint, WorldInv, SrvType
  <2>. QED
    BY <1>1, <1>4, <2>1, SameSink, QuietStep DEF PostCheckpoint
<1>. QED
  BY <1>2, <1>3, <1>4

LEMMA SessionQuiet ==
  ASSUME WorldInv, TalkInv, OutboxInv, Dial \/ SkipStale \/ SessState \/ SessFetch \/ SessRow
           \/ SessDefer
  PROVE  OutboxInv' /\ AbstractStep
<1>1. CycleIsSafe(http, shared, Safe, srv.used) /\ c2s \in Seq(SafePush(Safe))
      /\ s2c \in Seq(TrueReply(srv.used, Safe))
  BY DEF OutboxInv
<1>2. shared \in SharedType /\ sink \in SinkType /\ http \in HttpType
  BY DEF TalkInv, WorldInv
<1>3. CASE Dial
  <2>1. [k |-> "HELLO"] \in SafePush(Safe)
    BY DEF SafePush, ClientFrame, HelloFrame
  <2>2. c2s' \in Seq(SafePush(Safe)) /\ s2c' \in Seq(TrueReply(srv.used, Safe))
    BY <1>3, <2>1 DEF Dial
  <2>3. shared'.pending = shared.pending /\ shared'.unsaved = shared.unsaved
    BY <1>2, <1>3 DEF Dial, SharedType
  <2>. QED
    BY <1>1, <1>3, <2>2, <2>3, SameSink, QuietStep DEF Dial
<1>4. CASE SkipStale
  <2>1. s2c' \in Seq(TrueReply(srv.used, Safe))
    BY <1>1, <1>4, ReadReplies DEF SkipStale
  <2>. QED
    BY <1>1, <1>4, <2>1, SameSink, QuietStep DEF SkipStale
<1>5. CASE SessState
  <2>1. s2c' \in Seq(TrueReply(srv.used, Safe))
    BY <1>1, <1>5, ReadReplies DEF SessState
  <2>2. shared'.pending = shared.pending /\ shared'.unsaved = shared.unsaved
        /\ sink'.outbox = sink.outbox /\ SameBuffers
    BY <1>2, <1>5 DEF SessState, SharedType, SinkType, SameBuffers
  <2>. QED
    BY <1>1, <1>5, <2>1, <2>2, QuietStep DEF SessState
<1>6. CASE SessFetch
  <2>1. shared'.pending = shared.pending /\ shared'.unsaved = shared.unsaved
        /\ sink'.outbox = sink.outbox /\ SameBuffers
    BY <1>2, <1>6 DEF SessFetch, SettleCausal, SharedType, SinkType, SameBuffers
  <2>2. s2c' \in Seq(TrueReply(srv.used, Safe))
    <3>. DEFINE F == TrueReply(srv.used, Safe)
    <3>1. s2c \in Seq(F) /\ [k |-> "END"] \in F
      BY <1>1, MarkIsFrame DEF TrueReply
    <3>2. s2c' = s2c \/ \E n \in DOMAIN s2c : s2c' = Marked(n)
      BY <1>6 DEF SessFetch
    <3>. HIDE DEF F
    <3>3. s2c' \in Seq(F)
      BY <3>1, <3>2, MarkedType
    <3>. QED
      BY <3>3 DEF F
  <2>. QED
    BY <1>1, <1>6, <2>1, <2>2, QuietStep DEF SessFetch
<1>7. CASE SessRow
  <2>. DEFINE f   == Head(s2c)
              seq == RowSeq(f)
              g   == [f EXCEPT !.next = seq + 1]
  <2>1. s2c # <<>> /\ IsRow(f) /\ UNCHANGED <<srv, c2s, sink, issued>>
    BY <1>7 DEF SessRow, Reading
  <2>2. f \in ServerFrame /\ Tail(s2c) \in Seq(TrueReply(srv.used, Safe))
    BY <1>1, <2>1, ReadReplies
  <2>3. s2c' \in Seq(TrueReply(srv.used, Safe))
    <3>1. CASE f.k = "ROW"
      BY <1>7, <2>2, <3>1 DEF SessRow
    <3>2. CASE f.k # "ROW"
      <4>1. f \in RowsFrame
        BY <2>1, <2>2, <3>2 DEF IsRow, ServerFrame, StateFrame, RowFrame, AckFrame, ErrorFrame,
                              MarkFrame
      <4>2. seq \in Nat
        BY <3>2, <4>1, NextSeqType DEF RowSeq
      <4>3. g \in RowsFrame
        BY <4>1, <4>2 DEF RowsFrame
      <4>4. g \in TrueReply(srv.used, Safe)
        BY <4>3 DEF TrueReply, ServerFrame, RowsFrame
      <4>5. s2c' = <<g>> \o Tail(s2c)
        BY <1>7, <3>2 DEF SessRow
      <4>. HIDE DEF g
      <4>. QED
        BY <2>2, <4>4, <4>5
    <3>. QED
      BY <3>1, <3>2
  <2>4. shared'.pending = shared.pending /\ shared'.unsaved = shared.unsaved
        /\ http'.todo = http.todo /\ http'.phase = http.phase /\ http'.ack = http.ack
    BY <1>2, <1>7 DEF SessRow, SharedType, HttpType
  <2>5. CycleIsSafe(http', shared, Safe, srv.used)
    BY <1>1, <2>4 DEF CycleIsSafe
  <2>. QED
    BY <1>1, <2>1, <2>3, <2>4, <2>5, SameSink, QuietStep
<1>8. CASE SessDefer
  <2>1. s2c' \in Seq(TrueReply(srv.used, Safe))
    BY <1>1, <1>8, ReadReplies DEF SessDefer, Reading
  <2>. QED
    BY <1>1, <1>8, <2>1, SameSink, QuietStep DEF SessDefer
<1>. QED
  BY <1>3, <1>4, <1>5, <1>6, <1>7, <1>8

LEMMA DialFailOutbox ==
  ASSUME WorldInv, TalkInv, OutboxInv, DialFail
  PROVE  OutboxInv' /\ AbstractStep
<1>1. http' = http \/ (http'.phase = "push" /\ http'.todo = shared.pending)
  BY DEF DialFail, SpawnHttp, IdleHttp
<1>2. CycleIsSafe(http', shared, Safe, srv.used)
  BY <1>1 DEF OutboxInv, CycleIsSafe, Unwritten
<1>3. c2s \in Seq(SafePush(Safe)) /\ s2c \in Seq(TrueReply(srv.used, Safe))
  BY DEF OutboxInv
<1>. QED
  BY <1>2, <1>3, SameSink, QuietStep DEF DialFail

LEMMA ApiQuiet ==
  ASSUME WorldInv, TalkInv, OutboxInv, RequestCatchUp \/ Probe \/ Redial
  PROVE  OutboxInv' /\ AbstractStep
<1>1. shared'.pending = shared.pending /\ shared'.unsaved = shared.unsaved
  BY DEF RequestCatchUp, Probe, Redial, TalkInv, SharedType
<1>2. http'.todo = http.todo /\ http'.phase = http.phase /\ http'.ack = http.ack
  BY DEF RequestCatchUp, Probe, Redial, TalkInv, HttpType
<1>3. CycleIsSafe(http', shared, Safe, srv.used)
  BY <1>2 DEF OutboxInv, CycleIsSafe
<1>4. c2s \in Seq(SafePush(Safe)) /\ s2c \in Seq(TrueReply(srv.used, Safe))
  BY DEF OutboxInv
<1>5. UNCHANGED <<sink, srv, issued, c2s, s2c>>
  BY DEF RequestCatchUp, Probe, Redial
<1>. QED
  BY <1>1, <1>3, <1>4, <1>5, SameSink, QuietStep

LEMMA HttpsQuiet ==
  ASSUME WorldInv, TalkInv, OutboxInv,
         HttpCapture \/ HttpServe \/ HttpFail \/ HttpState \/ HttpFetch \/ HttpSettle
           \/ HttpRow \/ HttpApplyRow \/ HttpDone
  PROVE  OutboxInv' /\ AbstractStep
<1>1. shared \in SharedType /\ sink \in SinkType /\ http \in HttpType
  BY DEF TalkInv, WorldInv
<1>2. UNCHANGED <<srv, c2s, s2c, issued>>
  BY DEF HttpCapture, HttpServe, HttpFail, HttpState, HttpFetch, HttpSettle, HttpRow,
         HttpApplyRow, HttpDone
<1>3. shared'.pending = shared.pending /\ shared'.unsaved = shared.unsaved
  <2>1. CASE HttpDone
    BY <1>1, <2>1 DEF HttpDone, Certified, SharedType
  <2>2. CASE HttpApplyRow
    BY <1>1, <2>2 DEF HttpApplyRow, RowOutcome, SharedType
  <2>3. CASE HttpSettle
    <3>. DEFINE cur == IF shared.cursor > http.st.head THEN http.plan.after
                       ELSE MaxOf(shared.cursor, http.plan.after)
    <3>1. shared' = SettleCausal([shared EXCEPT !.cursor = cur], http.causalSame)
      BY <2>3 DEF HttpSettle
    <3>. HIDE DEF cur
    <3>. QED
      BY <1>1, <3>1 DEF SettleCausal, SharedType
  <2>4. CASE HttpCapture \/ HttpServe \/ HttpFail \/ HttpState \/ HttpFetch \/ HttpRow
    BY <1>1, <2>4 DEF HttpCapture, HttpServe, HttpFail, HttpState, HttpFetch, HttpRow, SharedType
  <2>. QED
    BY <2>1, <2>2, <2>3, <2>4
<1>4. sink'.outbox = sink.outbox /\ SameBuffers
  <2>1. CASE HttpCapture \/ HttpServe \/ HttpFail \/ HttpSettle \/ HttpRow \/ HttpDone
    <3>1. sink' = sink
      BY <2>1 DEF HttpCapture, HttpServe, HttpFail, HttpSettle, HttpRow, HttpDone
    <3>. QED
      BY <3>1 DEF SameBuffers
  <2>2. CASE HttpState
    <3>1. sink' \in {sink, [sink EXCEPT !.pcur = 0, !.dirty = TRUE]}
      BY <2>2 DEF HttpState
    <3>. QED
      BY <1>1, <3>1 DEF SinkType, SameBuffers
  <2>3. CASE HttpFetch
    BY <1>1, <2>3 DEF HttpFetch, SinkType, SameBuffers
  <2>4. CASE HttpApplyRow
    BY <1>1, <2>4 DEF HttpApplyRow, Imported, SinkType, SameBuffers
  <2>. QED
    BY <2>1, <2>2, <2>3, <2>4
<1>5. CycleIsSafe(http', shared, Safe, srv.used)
  <2>1. CycleIsSafe(http, shared, Safe, srv.used)
    BY DEF OutboxInv
  <2>2. CASE http' = IdleHttp
    BY <2>2, IdleIsSafe
  <2>3. CASE http' # IdleHttp
    <3>1. CASE HttpApplyRow
      BY <1>1, <2>1, <3>1 DEF HttpApplyRow, HttpType, CycleIsSafe
    <3>2. CASE HttpCapture \/ HttpServe \/ HttpState \/ HttpFetch \/ HttpSettle \/ HttpRow
      <4>1. http'.todo = http.todo
        BY <1>1, <2>3, <3>2 DEF HttpCapture, HttpServe, HttpState, HttpFetch, HttpSettle, HttpRow, HttpType
      <4>2. http'.phase \notin {"post", "acked"}
        <5>1. CASE HttpCapture
          BY <1>1, <5>1 DEF HttpCapture, HttpType
        <5>2. CASE HttpServe
          BY <1>1, <5>2 DEF HttpServe, HttpType
        <5>3. CASE HttpState
          <6>1. http'.phase \in {"fetch", "settle"}
            BY <1>1, <2>3, <5>3 DEF HttpState, HttpType
          <6>. QED  BY <6>1
        <5>4. CASE HttpFetch \/ HttpSettle \/ HttpRow
          BY <1>1, <5>4 DEF HttpFetch, HttpSettle, HttpRow, HttpType
        <5>. QED
          BY <3>2, <5>1, <5>2, <5>3, <5>4
      <4>. QED
        BY <2>1, <4>1, <4>2, CycleMoves
    <3>3. CASE HttpFail \/ HttpDone
      BY <2>3, <3>3 DEF HttpFail, HttpDone
    <3>. QED
      BY <3>1, <3>2, <3>3
  <2>. QED
    BY <2>2, <2>3
<1>6. c2s \in Seq(SafePush(Safe)) /\ s2c \in Seq(TrueReply(srv.used, Safe))
  BY DEF OutboxInv
<1>. QED
  BY <1>2, <1>3, <1>4, <1>5, <1>6, QuietStep

LEMMA DiskQuiet ==
  ASSUME WorldInv, TalkInv, OutboxInv, FlushSample \/ FlushSave
  PROVE  OutboxInv' /\ AbstractStep
<1>1. sink'.outbox = sink.outbox /\ SameBuffers /\ UNCHANGED <<srv, c2s, s2c, shared, http, issued>>
  BY DEF FlushSample, FlushSave, WorldInv, SinkType, SameBuffers
<1>. QED
  BY <1>1, QuietStep DEF OutboxInv

(* A kill forgets what was never written, and keeps the outbox.            *)
LEMMA CrashOutbox ==
  ASSUME WorldInv, TalkInv, OutboxInv, Crash
  PROVE  OutboxInv' /\ AbstractStep
<1>1. /\ sink'.outbox = sink.outbox /\ sink'.unsent = {} /\ sink'.redo = {}
      /\ sink'.hand = NoHand /\ UNCHANGED <<srv, issued>> /\ c2s' = <<>> /\ s2c' = <<>> /\ http' = IdleHttp
  BY DEF Crash, WorldInv, SinkType
<1>2. shared'.pending = {} /\ shared'.unsaved = {}
  BY DEF Crash, NewShared
<1>3. Safe' = Safe
  BY <1>1 DEF Safe
<1>4. Unwritten(shared', Safe', sink'.redo, issued')
  BY <1>1, <1>2, <1>3 DEF OutboxInv, Unwritten
<1>5. CycleIsSafe(http', shared', Safe', srv'.used)
  BY <1>1, IdleIsSafe
<1>6. srv'.log \in Seq(srv'.used)
  BY <1>1 DEF OutboxInv
<1>7. OutboxInv'
  BY <1>1, <1>4, <1>5, <1>6 DEF OutboxInv, BuffersSafe, NoHand
<1>. QED
  BY <1>1, <1>7, RestartStep

LEMMA InitOutbox == Init => OutboxInv /\ Promise!Init
<1>. SUFFICES ASSUME Init  PROVE  OutboxInv /\ Promise!Init
  OBVIOUS
<1>1. /\ sink.outbox = {} /\ srv.used = {} /\ srv.log = <<>> /\ c2s = <<>> /\ s2c = <<>>
      /\ shared.pending = {} /\ shared.unsaved = {} /\ sink.unsent = {} /\ sink.redo = {}
      /\ sink.hand = NoHand
  BY DEF Init, NewShared
<1>2. http.phase = "idle" /\ http.todo = {}
  BY DEF Init, IdleHttp
<1>3. OutboxInv
  BY <1>1, <1>2 DEF OutboxInv, Unwritten, CycleIsSafe, BuffersSafe, NoHand, Safe
<1>. QED
  BY <1>1, <1>3 DEF Promise!Init

LEMMA StepOutbox ==
  ASSUME WorldInv, TalkInv, OutboxInv, [Next]_vars
  PROVE  OutboxInv' /\ AbstractStep
<1>1. CASE Server
  BY <1>1, RoomQuiet, ServePushOutbox DEF Server
<1>2. CASE Room
  BY <1>2, RemoteAppendOutbox, RoomQuiet, WipeOutbox DEF Room
<1>3. CASE Session
  BY <1>3, SessionQuiet, SessPlanOutbox, SessApplyRowOutbox, SessAckOutbox, SessRejectOutbox,
     SessQuotaOutbox, SessJoinOutbox, SessDoneOutbox, SessNudgeOutbox, SessProbeOutbox,
     SessRedialOutbox, SessRetryOutbox DEF Session
<1>4. CASE Https
  BY <1>4, HttpPersistOutbox, HttpPostOutbox, HttpAckOutbox, HttpsQuiet DEF Https
<1>5. CASE Api
  BY <1>5, EnqueueOutbox, EnqueueEarlyOutbox, ApiQuiet DEF Api
<1>6. CASE Disk
  BY <1>6, DiskQuiet DEF Disk
<1>7. CASE Fault
  BY <1>7, DialFailOutbox, DropOutbox, CrashOutbox DEF Fault
<1>8. CASE Join
  BY <1>8, ConnectOutbox, HandOverOutbox, HandedOutbox, GoLiveOutbox DEF Join
<1>9. CASE UNCHANGED vars
  <2>1. OutboxInv'
    BY <1>9 DEF vars, OutboxInv, BuffersSafe, Safe
  <2>. QED
    BY <1>9, <2>1, SameSink, NoStep DEF vars
<1>. QED
  BY <1>1, <1>2, <1>3, <1>4, <1>5, <1>6, <1>7, <1>8, <1>9 DEF Next

(* The device and its room implement the outbox promise: a batch is on     *)
(* disk before the room sees it, it leaves the disk only once the room has *)
(* it, and a batch the room has is never written again unless its writer   *)
(* hands it in twice, whatever is lost, refused, retried on either         *)
(* transport, or killed, for any number of batches.                        *)
THEOREM OutboxKeptAlways == Spec => OutboxKept
<1>1. Init => Promise!Init /\ OutboxInv
  BY InitOutbox
<1>2. TypeInv /\ OutboxInv /\ [Next]_vars => OutboxInv' /\ AbstractStep
  BY TypeInvParts, StepOutbox
<1>3. AbstractStep => [Promise!Next]_(Promise!vars)
  BY DEF AbstractStep, Promise!vars
<1>. QED
  BY <1>1, <1>2, <1>3, TypeCorrect, PTL DEF Spec, OutboxKept, Promise!Spec

=============================================================================

------------------------------ MODULE Rooms_proofs -----------------------------
(***************************************************************************)
(* Rooms, for any number of sessions, rooms, edits and rows: whichever     *)
(* sessions overlap, no edit a room heard is lost, and no cursor passes a  *)
(* row that its document lacks.                                            *)
(*                                                                         *)
(* A room's cursor is that of the snapshot its session was read from, and  *)
(* moves over rows the document takes and over batches it has already.     *)
(* The batches a room takes over from the outbox may be those of another   *)
(* session: the document has them if it was read after they were written,  *)
(* which is what `past.missed` excludes, for as long as the session may    *)
(* still be given a room that reads the outbox again.                      *)
(***************************************************************************)
EXTENDS Rooms, Filters_proofs

(* The shapes of the records, by their fields. *)
IsSnap(s) == DOMAIN s = {"doc", "cur"} /\ s.cur \in Nat
IsCore(k) ==
  /\ DOMAIN k = {"made", "doc", "from", "room", "held", "viewed"}
  /\ k.made \in BOOLEAN /\ k.held \in BOOLEAN /\ k.from \in Nat /\ k.room \in RoomIds \cup {0}
IsRoom(rm) ==
  /\ DOMAIN rm = {"core", "live", "cur", "dirty", "saver", "client", "unsent", "queue"}
  /\ rm.core \in SessionIds \cup {0} /\ rm.live \in BOOLEAN /\ rm.dirty \in BOOLEAN
  /\ rm.saver \in BOOLEAN /\ rm.cur \in Nat
IsThread(h) == DOMAIN h = {"pc", "core", "room"} /\ h.core \in SessionIds \cup {0}

RoomsType ==
  /\ IsSeq(edge)
  /\ DOMAIN past = {"sent", "peers", "bare", "missed", "wiped"} /\ past.sent \in Nat
  /\ past.missed \in BOOLEAN /\ past.wiped \in BOOLEAN
  /\ DOMAIN disk = {"snap", "out"} /\ IsSnap(disk.snap)
  /\ DOMAIN cores = SessionIds /\ \A c \in SessionIds : IsCore(cores[c])
  /\ DOMAIN rooms = RoomIds /\ \A r \in RoomIds : IsRoom(rooms[r])
  /\ DOMAIN thread = Threads /\ \A t \in Threads : IsThread(thread[t])
  /\ table \in SessionIds \cup {0}

(* A thread that reads a session's document is alone with it. *)
Reading(t) == thread[t].pc \in {"outbox", "insert"}
AloneWith(t, c) ==
  /\ table # c /\ ~cores[c].held /\ cores[c].room = 0
  /\ \A u \in Threads \ {t} : thread[u].core # c
  /\ \A r \in RoomIds : rooms[r].core # c

ThreadsTrue ==
  \A t \in Threads :
    /\ thread[t].pc \in {"outbox", "insert", "ensure", "start", "place", "return", "close"}
         => thread[t].core # 0
    /\ thread[t].pc \in {"idle", "load", "unlist", "erase"} => thread[t].core = 0
    /\ Reading(t) => AloneWith(t, thread[t].core)
    /\ thread[t].pc = "place" =>
         thread[t].room \in RoomIds /\ rooms[thread[t].room].core = thread[t].core
    /\ thread[t].pc \in {"unlist", "close", "erase"} => past.wiped /\ chatRow = "gone"

(* A live room is its session's, or in the hands of a thread. *)
Placing(r) == \E t \in Threads : thread[t].pc = "place" /\ thread[t].room = r
HomesTrue ==
  /\ \A c \in SessionIds : Alive(c) => cores[c].made
  /\ \A c \in SessionIds : cores[c].room # 0 => rooms[cores[c].room].core = c
  /\ \A r \in RoomIds :
       /\ rooms[r].core # 0 => cores[rooms[r].core].made
       /\ rooms[r].live \/ rooms[r].saver \/ Running(r) => rooms[r].core # 0
       /\ rooms[r].live => Alive(rooms[r].core)
                           /\ (cores[rooms[r].core].room = r \/ Placing(r))

WithinEdge ==
  /\ disk.snap.cur <= Len(edge)
  /\ \A c \in SessionIds : cores[c].from <= Len(edge)
  /\ \A r \in RoomIds : rooms[r].cur <= Len(edge)

HeardKept ==
  ~past.wiped => \A e \in 1..past.sent : e \in past.bare \/ e \in Written \/ e \in Outbox

(* The document ds has the edits of the first n rows of the edge. *)
Covers(rows, n, ds) == \A i \in 1..n : rows[i][1] \in ds
Taken(r) == rooms[r].queue \cup rooms[r].unsent
RoomCovered(r) ==
  rooms[r].core # 0 /\ Alive(rooms[r].core) =>
    /\ Covers(edge, rooms[r].cur, cores[rooms[r].core].doc)
    /\ \A b \in Taken(r) : b[1] \in cores[rooms[r].core].doc

DocsTrue ==
  /\ Covers(edge, disk.snap.cur, disk.snap.doc)
  /\ \A c \in SessionIds : Covers(edge, cores[c].from, cores[c].doc)
  /\ \A r \in RoomIds : RoomCovered(r)
  /\ \A c \in SessionIds : Between(c) => Outbox \subseteq cores[c].doc

RoomsInv ==
  /\ RoomsType /\ ThreadsTrue /\ HomesTrue /\ WithinEdge /\ HeardKept
  /\ past.missed \/ DocsTrue

------------------------------------------------------------------------------
(* Sequences of rows. *)
Extends(p, q) ==
  Len(p) \in Nat /\ Len(q) \in Nat /\ Len(p) <= Len(q) /\ \A i \in 1..Len(p) : q[i] = p[i]

(* A sequence of rows extends itself. *)
LEMMA ExtendsSelf == ASSUME NEW p, IsSeq(p) PROVE Extends(p, p) /\ DOMAIN p = 1..Len(p)
BY DEF Extends, IsSeq

(* One more row extends the edge. *)
LEMMA AppendExtends ==
  ASSUME NEW p, NEW x, IsSeq(p)
  PROVE  /\ IsSeq(Append(p, x)) /\ Extends(p, Append(p, x))
         /\ DOMAIN Append(p, x) = DOMAIN p \cup {Len(p) + 1}
         /\ Append(p, x)[Len(p) + 1] = x /\ Len(Append(p, x)) = Len(p) + 1
<1>1. PICK T : p \in Seq(T)
  BY DEF IsSeq
<1>2. p \in Seq(T \cup {x}) /\ Append(p, x) \in Seq(T \cup {x})
  BY <1>1
<1>3. /\ DOMAIN Append(p, x) = DOMAIN p \cup {Len(p) + 1} /\ Len(p) \in Nat
      /\ \A i \in DOMAIN p : Append(p, x)[i] = p[i]
      /\ Append(p, x)[Len(p) + 1] = x /\ Len(Append(p, x)) = Len(p) + 1
      /\ DOMAIN p = 1..Len(p)
  BY <1>2
<1> QED
  BY <1>2, <1>3 DEF IsSeq, Extends

(* A document that grows covers what it covered, of an edge that grows. *)
LEMMA CoversGrow ==
  ASSUME NEW p, NEW q, NEW n \in Nat, NEW ds, NEW es, Extends(p, q), n <= Len(p), ds \subseteq es,
         Covers(p, n, ds)
  PROVE  Covers(q, n, es)
BY DEF Extends, Covers

------------------------------------------------------------------------------
(* What a step may do to the documents. *)
Grown(c) == cores'[c].from = cores[c].from /\ cores[c].doc \subseteq cores'[c].doc
SameRoom(r) ==
  /\ rooms'[r].core = rooms[r].core /\ rooms'[r].cur = rooms[r].cur /\ Taken(r)' \subseteq Taken(r)

(* What a step must show of documents, rooms and waiting sessions for the
   documents to stay true: each is as it was, or newly covered. *)
LEMMA DocsKeep ==
  ASSUME RoomsType, RoomsType', WithinEdge, HomesTrue, DocsTrue, Extends(edge, edge'),
         disk'.snap = disk.snap \/ Covers(edge', disk'.snap.cur, disk'.snap.doc),
         \A c \in SessionIds : Grown(c) \/ Covers(edge', cores'[c].from, cores'[c].doc),
         \A r \in RoomIds : SameRoom(r) \/ RoomCovered(r)',
         \A c \in SessionIds : Alive(c)' =>
           (Alive(c) /\ Grown(c)) \/ \A r \in RoomIds : rooms[r].core # c,
         \A c \in SessionIds : Between(c)' =>
           \/ Between(c) /\ Grown(c) /\ Outbox' \subseteq Outbox
           \/ Outbox' \subseteq cores'[c].doc
  PROVE  DocsTrue'
<1>1. Covers(edge', disk'.snap.cur, disk'.snap.doc)
  BY CoversGrow DEF DocsTrue, WithinEdge, RoomsType, IsSnap
<1>2. ASSUME NEW c \in SessionIds PROVE Covers(edge', cores'[c].from, cores'[c].doc)
  <2>1. cores[c].from \in Nat /\ cores[c].from <= Len(edge) /\ Covers(edge, cores[c].from, cores[c].doc)
    BY DEF DocsTrue, WithinEdge, RoomsType, IsCore
  <2> QED
    BY <2>1, CoversGrow DEF Grown
<1>3. ASSUME NEW r \in RoomIds, SameRoom(r) PROVE RoomCovered(r)'
  <2> SUFFICES ASSUME rooms'[r].core # 0, Alive(rooms[r].core)'
               PROVE  /\ Covers(edge', rooms'[r].cur, cores'[rooms'[r].core].doc)
                      /\ \A b \in Taken(r)' : b[1] \in cores'[rooms'[r].core].doc
    BY DEF RoomCovered
  <2> DEFINE c == rooms[r].core
  <2>1. c \in SessionIds /\ rooms'[r].core = c /\ rooms'[r].cur = rooms[r].cur
        /\ Taken(r)' \subseteq Taken(r)
    BY <1>3 DEF SameRoom, RoomsType, IsRoom
  <2>2. Alive(c) /\ Grown(c)
    BY <2>1
  <2>3. /\ Covers(edge, rooms[r].cur, cores[c].doc)
        /\ \A b \in Taken(r) : b[1] \in cores[c].doc
    BY <2>1, <2>2 DEF DocsTrue, RoomCovered
  <2>4. Covers(edge', rooms[r].cur, cores'[c].doc)
    BY <2>2, <2>3, CoversGrow DEF Grown, WithinEdge, RoomsType, IsRoom
  <2> QED
    BY <2>1, <2>2, <2>3, <2>4 DEF Grown
<1>4. ASSUME NEW c \in SessionIds, Between(c)' PROVE Outbox' \subseteq cores'[c].doc
  BY <1>4 DEF DocsTrue, Grown
<1> QED
  BY <1>1, <1>2, <1>3, <1>4 DEF DocsTrue

Shape == RoomsType /\ ThreadsTrue /\ HomesTrue /\ WithinEdge

(* 0 is no session and no room. *)
LEMMA IdsPositive == SessionIds \subseteq Nat \ {0} /\ RoomIds \subseteq Nat \ {0}
<1> DEFINE m == Cardinality(SessionIds)
           n == Cardinality(RoomIds)
<1>1. SessionIds = 1..m /\ RoomIds = 1..n
  BY RoomsAssumption
<1> HIDE DEF m, n
<1>2. 1..m \subseteq Nat \ {0} /\ 1..n \subseteq Nat \ {0}
  OBVIOUS
<1> QED
  BY <1>1, <1>2

------------------------------------------------------------------------------
(* Threads. *)
LEMMA GoIs ==
  ASSUME RoomsType, NEW t \in Threads, NEW pc, Go(t, pc)
  PROVE  /\ DOMAIN thread' = Threads /\ \A u \in Threads : IsThread(thread'[u])
         /\ \A u \in Threads : thread'[u].core = thread[u].core /\ thread'[u].room = thread[u].room
         /\ thread'[t].pc = pc /\ \A u \in Threads \ {t} : thread'[u].pc = thread[u].pc
BY DEF Go, RoomsType, IsThread

(* A thread is given its whole state. *)
LEMMA SetThread ==
  ASSUME RoomsType, NEW t \in Threads, NEW pc, NEW c \in SessionIds \cup {0}, NEW r,
         thread' = [thread EXCEPT ![t] = [pc |-> pc, core |-> c, room |-> r]]
  PROVE  /\ DOMAIN thread' = Threads /\ \A u \in Threads : IsThread(thread'[u])
         /\ thread'[t].core = c /\ thread'[t].pc = pc /\ thread'[t].room = r
         /\ \A u \in Threads \ {t} : thread'[u] = thread[u]
BY DEF RoomsType, IsThread

(* A field of one session, or a whole session, is set. *)
LEMMA HeldIs ==
  ASSUME RoomsType, NEW c \in SessionIds, NEW t, cores' = Held(c, t)
  PROVE  /\ DOMAIN cores' = SessionIds /\ \A d \in SessionIds : IsCore(cores'[d])
         /\ \A d \in SessionIds : cores'[d].made = cores[d].made /\ cores'[d].doc = cores[d].doc
         /\ \A d \in SessionIds : cores'[d].from = cores[d].from /\ cores'[d].room = cores[d].room
         /\ \A d \in SessionIds \ {c} : cores'[d].held = cores[d].held
<1>1. CASE t = "ui"
  <2> DEFINE s == [cores[c] EXCEPT !.held = TRUE]
  <2>1. cores' = [cores EXCEPT ![c] = s]
    BY <1>1 DEF Held
  <2>2. /\ DOMAIN cores' = SessionIds /\ cores'[c] = s
        /\ \A d \in SessionIds \ {c} : cores'[d] = cores[d]
    BY <2>1 DEF RoomsType
  <2>3. /\ IsCore(s) /\ s.made = cores[c].made /\ s.doc = cores[c].doc
        /\ s.from = cores[c].from /\ s.room = cores[c].room
    BY DEF RoomsType, IsCore
  <2> HIDE DEF s
  <2> QED
    BY <1>1, <2>2, <2>3 DEF RoomsType
<1>2. CASE t # "ui"
  BY <1>2 DEF Held, RoomsType
<1> QED
  BY <1>1, <1>2

(* Steps of the threads that leave rooms, disk and edge alone. *)
LEMMA QuietKeeps ==
  ASSUME RoomsInv, RoomsType', ThreadsTrue', UNCHANGED <<disk, edge, rooms>>,
         past'.sent = past.sent, past'.bare = past.bare, past'.missed = past.missed,
         past.wiped => past'.wiped,
         \A c \in SessionIds : Alive(c)' => Alive(c),
         \A c \in SessionIds : /\ cores'[c].from = cores[c].from /\ cores'[c].room = cores[c].room
                               /\ cores'[c].doc = cores[c].doc /\ cores'[c].made = cores[c].made,
         \A r \in RoomIds : rooms[r].live => Alive(rooms[r].core)' /\ (Placing(r) => Placing(r)'),
         \A c \in SessionIds : Between(c)' => Between(c)
  PROVE  RoomsInv'
<1>1. WithinEdge'
  BY DEF RoomsInv, WithinEdge
<1>2. HomesTrue'
  BY DEF RoomsInv, HomesTrue, Running, RoomsType, IsRoom, IsCore
<1>3. HeardKept'
  BY DEF RoomsInv, HeardKept, Written, Outbox
<1>4. past'.missed \/ DocsTrue'
  <2> SUFFICES ASSUME DocsTrue PROVE DocsTrue'
    BY DEF RoomsInv
  <2>1. Extends(edge, edge') /\ Outbox' = Outbox
    BY ExtendsSelf DEF RoomsInv, RoomsType, Outbox
  <2>2. (\A c \in SessionIds : Grown(c)) /\ \A r \in RoomIds : SameRoom(r)
    BY DEF Grown, SameRoom, Taken
  <2> QED
    BY <2>1, <2>2, DocsKeep DEF RoomsInv
<1> QED
  BY <1>1, <1>2, <1>3, <1>4 DEF RoomsInv

(* The listed session is held again, or a thread goes to load a new one. *)
LEMMA OpenKeeps ==
  ASSUME RoomsInv, NEW t \in Threads, OpenSession(t)
  PROVE  RoomsInv'
<1>1. UNCHANGED <<chatRow, disk, edge, rooms, table, past>>
  BY DEF OpenSession
<1>2. CASE table # 0 /\ cores' = Held(table, t) /\ UNCHANGED thread
  <2>1. /\ DOMAIN cores' = SessionIds /\ \A d \in SessionIds : IsCore(cores'[d])
        /\ \A d \in SessionIds : /\ cores'[d].made = cores[d].made /\ cores'[d].doc = cores[d].doc
                                 /\ cores'[d].from = cores[d].from /\ cores'[d].room = cores[d].room
        /\ \A d \in SessionIds \ {table} : cores'[d].held = cores[d].held
    <3>1. RoomsType /\ table \in SessionIds /\ cores' = Held(table, t)
      BY <1>2 DEF RoomsInv, RoomsType
    <3> QED
      BY <3>1, HeldIs
  <2>2. RoomsType'
    BY <1>1, <1>2, <2>1 DEF RoomsInv, RoomsType
  <2>3. ThreadsTrue'
    BY <1>1, <1>2, <2>1 DEF RoomsInv, ThreadsTrue, Reading, AloneWith, RoomsType, IsThread
  <2>4. \A c \in SessionIds : Alive(c)' <=> Alive(c)
    BY <1>1, <1>2, <2>1 DEF Alive, UsedBy, RoomsInv, RoomsType, IsCore
  <2>5. \A c \in SessionIds : Between(c)' => Between(c)
    BY <1>1, <1>2, <2>1, <2>4 DEF Between, MayJoin
  <2>6. \A r \in RoomIds : rooms[r].live => Alive(rooms[r].core)' /\ (Placing(r) => Placing(r)')
    BY <1>1, <1>2, <2>4 DEF RoomsInv, HomesTrue, Placing, RoomsType, IsRoom
  <2> QED
    BY <1>1, <2>1, <2>2, <2>3, <2>4, <2>5, <2>6, QuietKeeps
<1>3. CASE thread[t].pc = "idle" /\ Go(t, "load") /\ UNCHANGED cores
  <2>1. /\ DOMAIN thread' = Threads /\ \A u \in Threads : IsThread(thread'[u])
        /\ \A u \in Threads : thread'[u].core = thread[u].core /\ thread'[u].room = thread[u].room
        /\ thread'[t].pc = "load" /\ \A u \in Threads \ {t} : thread'[u].pc = thread[u].pc
    BY <1>3, GoIs DEF RoomsInv
  <2>2. RoomsType'
    BY <1>1, <1>3, <2>1 DEF RoomsInv, RoomsType
  <2>3. ThreadsTrue'
    BY <1>1, <1>3, <2>1 DEF RoomsInv, ThreadsTrue, Reading, AloneWith
  <2>4. \A c \in SessionIds : Alive(c)' <=> Alive(c)
    BY <1>1, <1>3, <2>1 DEF Alive, UsedBy
  <2>5. \A c \in SessionIds : Between(c)' => Between(c)
    BY <1>1, <1>3, <2>1, <2>4 DEF Between, MayJoin
  <2>6. \A r \in RoomIds : rooms[r].live => Alive(rooms[r].core)' /\ (Placing(r) => Placing(r)')
    BY <1>1, <1>3, <2>1, <2>4 DEF RoomsInv, HomesTrue, Placing, RoomsType, IsRoom
  <2> QED
    BY <1>1, <1>3, <2>2, <2>3, <2>4, <2>5, <2>6, QuietKeeps
<1> QED
  BY <1>2, <1>3 DEF OpenSession

(* A thread goes on to start a room, or returns. *)
LEMMA EnsureKeeps ==
  ASSUME RoomsInv, NEW t \in Threads, EnsureRoom(t)
  PROVE  RoomsInv'
<1> DEFINE pc == IF cores[thread[t].core].room = 0 /\ chatRow = "live" THEN "start" ELSE "return"
<1>1. thread[t].pc = "ensure" /\ Go(t, pc) /\ UNCHANGED <<chatRow, disk, edge, cores, rooms, table, past>>
  BY DEF EnsureRoom
<1>2. /\ DOMAIN thread' = Threads /\ \A u \in Threads : IsThread(thread'[u])
      /\ \A u \in Threads : thread'[u].core = thread[u].core /\ thread'[u].room = thread[u].room
      /\ thread'[t].pc = pc /\ \A u \in Threads \ {t} : thread'[u].pc = thread[u].pc
  BY <1>1, GoIs DEF RoomsInv
<1>3. pc \in {"start", "return"} /\ (pc = "start" => cores[thread[t].core].room = 0 /\ chatRow = "live")
  OBVIOUS
<1> HIDE DEF pc
<1>4. RoomsType'
  BY <1>1, <1>2 DEF RoomsInv, RoomsType
<1>5. ThreadsTrue'
  BY <1>1, <1>2, <1>3 DEF RoomsInv, ThreadsTrue, Reading, AloneWith
<1>6. \A c \in SessionIds : Alive(c)' <=> Alive(c)
  BY <1>1, <1>2 DEF Alive, UsedBy
<1>7. \A c \in SessionIds : Between(c)' => Between(c)
  BY <1>1, <1>2, <1>3, <1>6 DEF Between, MayJoin
<1>8. \A r \in RoomIds : rooms[r].live => Alive(rooms[r].core)' /\ (Placing(r) => Placing(r)')
  BY <1>1, <1>2, <1>6 DEF RoomsInv, HomesTrue, Placing, RoomsType, IsRoom
<1> QED
  BY <1>1, <1>4, <1>5, <1>6, <1>7, <1>8, QuietKeeps

(* The registry changes: the listed session may get a room it lacked. *)
LEMMA RegistryKeeps ==
  ASSUME RoomsInv, RegistryChanged
  PROVE  RoomsInv'
<1>1. /\ thread["task"].pc = "idle" /\ table # 0 /\ UNCHANGED <<disk, edge, cores, rooms, table, past>>
      /\ thread' = [thread EXCEPT !["task"] = [pc |-> "ensure", core |-> table, room |-> 0]]
      /\ (chatRow' = "gone" <=> chatRow = "gone")
  BY DEF RegistryChanged
<1>2. table \in SessionIds /\ "task" \in Threads
  BY <1>1 DEF RoomsInv, RoomsType, Threads
<1>3. /\ DOMAIN thread' = Threads /\ \A u \in Threads : IsThread(thread'[u])
      /\ thread'["task"].core = table /\ thread'["task"].pc = "ensure"
      /\ \A u \in Threads \ {"task"} : thread'[u] = thread[u]
  BY <1>1, <1>2, SetThread DEF RoomsInv
<1>4. RoomsType'
  BY <1>1, <1>3 DEF RoomsInv, RoomsType
<1>5. ThreadsTrue'
  BY <1>1, <1>2, <1>3 DEF RoomsInv, ThreadsTrue, Reading, AloneWith, RoomsType, IsRoom
<1>6. thread["task"].core = 0
  BY <1>1, <1>2 DEF RoomsInv, ThreadsTrue
<1>7. \A c \in SessionIds : Alive(c)' <=> Alive(c)
  <2> SUFFICES ASSUME NEW c \in SessionIds PROVE Alive(c)' <=> Alive(c)
    OBVIOUS
  <2>1. ASSUME Alive(c) PROVE Alive(c)'
    <3>1. CASE table = c \/ cores[c].held
      BY <1>1, <3>1 DEF Alive
    <3>2. CASE \E t \in Threads : thread[t].core = c
      <4>1. c # 0
        BY IdsPositive
      <4> QED
        BY <1>1, <1>2, <1>3, <1>6, <3>2, <4>1 DEF Alive, UsedBy
    <3> QED
      BY <2>1, <3>1, <3>2 DEF Alive, UsedBy
  <2>2. ASSUME Alive(c)' PROVE Alive(c)
    BY <1>1, <1>3, <2>2 DEF Alive, UsedBy
  <2> QED
    BY <2>1, <2>2
<1>8. \A c \in SessionIds : Between(c)' => Between(c)
  BY <1>1, <1>3, <1>7 DEF Between, MayJoin
<1>9. \A r \in RoomIds : rooms[r].live => Alive(rooms[r].core)' /\ (Placing(r) => Placing(r)')
  BY <1>1, <1>3, <1>7 DEF RoomsInv, HomesTrue, Placing, RoomsType, IsRoom
<1> QED
  BY <1>1, <1>4, <1>5, <1>7, <1>8, <1>9, QuietKeeps

(* A view is attached. *)
LEMMA AttachKeeps ==
  ASSUME RoomsInv, NEW c \in SessionIds, Attach(c)
  PROVE  RoomsInv'
<1> DEFINE s == [cores[c] EXCEPT !.viewed = TRUE]
<1>1. cores' = [cores EXCEPT ![c] = s] /\ UNCHANGED <<chatRow, disk, edge, rooms, table, thread, past>>
  BY DEF Attach
<1>2. /\ IsCore(s) /\ s.made = cores[c].made /\ s.doc = cores[c].doc /\ s.held = cores[c].held
      /\ s.from = cores[c].from /\ s.room = cores[c].room
  BY DEF RoomsInv, RoomsType, IsCore
<1> HIDE DEF s
<1>3. /\ DOMAIN cores' = SessionIds /\ \A d \in SessionIds : IsCore(cores'[d])
      /\ \A d \in SessionIds : cores'[d].made = cores[d].made /\ cores'[d].doc = cores[d].doc
      /\ \A d \in SessionIds : cores'[d].from = cores[d].from /\ cores'[d].room = cores[d].room
      /\ \A d \in SessionIds : cores'[d].held = cores[d].held
  BY <1>1, <1>2 DEF RoomsInv, RoomsType
<1>4. RoomsType'
  BY <1>1, <1>3 DEF RoomsInv, RoomsType
<1>5. ThreadsTrue'
  BY <1>1, <1>3 DEF RoomsInv, ThreadsTrue, Reading, AloneWith, RoomsType, IsThread
<1>6. \A d \in SessionIds : Alive(d)' <=> Alive(d)
  BY <1>1, <1>3 DEF Alive, UsedBy
<1>7. \A d \in SessionIds : Between(d)' => Between(d)
  BY <1>1, <1>3, <1>6 DEF Between, MayJoin
<1>8. \A r \in RoomIds : rooms[r].live => Alive(rooms[r].core)' /\ (Placing(r) => Placing(r)')
  BY <1>1, <1>6 DEF RoomsInv, HomesTrue, Placing, RoomsType, IsRoom
<1> QED
  BY <1>1, <1>3, <1>4, <1>5, <1>6, <1>7, <1>8, QuietKeeps

(* The row of a deleted chat goes. *)
LEMMA DeleteKeeps ==
  ASSUME RoomsInv, DeleteSession
  PROVE  RoomsInv'
<1>1. /\ thread["ui"].pc = "idle" /\ chatRow' = "gone" /\ Go("ui", "unlist")
      /\ past' = [past EXCEPT !.wiped = TRUE] /\ UNCHANGED <<disk, edge, cores, rooms, table>>
  BY DEF DeleteSession
<1>2. "ui" \in Threads
  BY DEF Threads
<1>3. /\ DOMAIN thread' = Threads /\ \A u \in Threads : IsThread(thread'[u])
      /\ \A u \in Threads : thread'[u].core = thread[u].core /\ thread'[u].room = thread[u].room
      /\ thread'["ui"].pc = "unlist" /\ \A u \in Threads \ {"ui"} : thread'[u].pc = thread[u].pc
  BY <1>1, <1>2, GoIs DEF RoomsInv
<1>4. /\ DOMAIN past' = DOMAIN past /\ past'.wiped = TRUE /\ past'.sent = past.sent
      /\ past'.bare = past.bare /\ past'.missed = past.missed
  BY <1>1 DEF RoomsInv, RoomsType
<1>5. RoomsType'
  BY <1>1, <1>3, <1>4 DEF RoomsInv, RoomsType
<1>6. ThreadsTrue'
  BY <1>1, <1>3, <1>4 DEF RoomsInv, ThreadsTrue, Reading, AloneWith
<1>7. \A c \in SessionIds : Alive(c)' <=> Alive(c)
  BY <1>1, <1>3 DEF Alive, UsedBy
<1>8. \A c \in SessionIds : Between(c)' => Between(c)
  BY <1>1, <1>2, <1>3, <1>7 DEF Between, MayJoin
<1>9. \A r \in RoomIds : rooms[r].live => Alive(rooms[r].core)' /\ (Placing(r) => Placing(r)')
  BY <1>1, <1>3, <1>7 DEF RoomsInv, HomesTrue, Placing, RoomsType, IsRoom
<1> QED
  BY <1>1, <1>4, <1>5, <1>6, <1>7, <1>8, <1>9, QuietKeeps

(* The listing of a deleted chat goes. *)
LEMMA UnlistKeeps ==
  ASSUME RoomsInv, Unlist
  PROVE  RoomsInv'
<1> DEFINE pc == IF table = 0 THEN "erase" ELSE "close"
<1>1. /\ thread["ui"].pc = "unlist" /\ table' = 0 /\ UNCHANGED <<chatRow, disk, edge, cores, rooms, past>>
      /\ thread' = [thread EXCEPT !["ui"] = [pc |-> pc, core |-> table, room |-> 0]]
  BY DEF Unlist
<1>2. table \in SessionIds \cup {0} /\ "ui" \in Threads
  BY DEF RoomsInv, RoomsType, Threads
<1>3. /\ DOMAIN thread' = Threads /\ \A u \in Threads : IsThread(thread'[u])
      /\ thread'["ui"].core = table /\ thread'["ui"].pc = pc
      /\ \A u \in Threads \ {"ui"} : thread'[u] = thread[u]
  BY <1>1, <1>2, SetThread DEF RoomsInv
<1>4. RoomsType'
  BY <1>1, <1>3 DEF RoomsInv, RoomsType
<1>5. thread["ui"].core = 0 /\ past.wiped /\ chatRow = "gone"
  BY <1>1, <1>2 DEF RoomsInv, ThreadsTrue
<1>6. ThreadsTrue'
  BY <1>1, <1>2, <1>3, <1>5 DEF RoomsInv, ThreadsTrue, Reading, AloneWith, RoomsType, IsRoom
<1>7. \A c \in SessionIds : Alive(c)' <=> Alive(c)
  <2> SUFFICES ASSUME NEW c \in SessionIds PROVE Alive(c)' <=> Alive(c)
    OBVIOUS
  <2>0. c # 0
    BY IdsPositive
  <2>1. ASSUME Alive(c) PROVE Alive(c)'
    <3>1. CASE table = c \/ cores[c].held
      BY <1>1, <1>2, <1>3, <3>1 DEF Alive, UsedBy
    <3>2. CASE \E t \in Threads : thread[t].core = c
      BY <1>1, <1>2, <1>3, <1>5, <2>0, <3>2 DEF Alive, UsedBy
    <3> QED
      BY <2>1, <3>1, <3>2 DEF Alive, UsedBy
  <2>2. ASSUME Alive(c)' PROVE Alive(c)
    BY <1>1, <1>3, <2>0, <2>2 DEF Alive, UsedBy
  <2> QED
    BY <2>1, <2>2
<1>8. \A c \in SessionIds : Between(c)' => Between(c)
  BY <1>1, <1>3, <1>5, <1>7 DEF Between, MayJoin
<1>9. \A r \in RoomIds : rooms[r].live => Alive(rooms[r].core)' /\ (Placing(r) => Placing(r)')
  BY <1>1, <1>3, <1>7 DEF RoomsInv, HomesTrue, Placing, RoomsType, IsRoom
<1> QED
  BY <1>1, <1>4, <1>6, <1>7, <1>8, <1>9, QuietKeeps

------------------------------------------------------------------------------
(* Opening. *)
LEMMA LeastExists ==
  ASSUME NEW S \in SUBSET Nat, S # {}
  PROVE  \E c \in S : \A d \in S : c <= d
<1> SUFFICES ASSUME \A c \in S : \E d \in S : ~(c <= d) PROVE FALSE
  OBVIOUS
<1> DEFINE Below == {n \in Nat : \A d \in S : n <= d}
<1>1. 0 \in Below
  OBVIOUS
<1>2. ASSUME NEW n \in Nat, n \in Below PROVE n + 1 \in Below
  <2>1. n \notin S /\ \A d \in S : n <= d
    BY <1>2
  <2>2. \A d \in S : n + 1 <= d
    BY <2>1
  <2> QED
    BY <2>2
<1>3. Nat \subseteq Below
  <2> HIDE DEF Below
  <2> QED
    BY <1>1, <1>2, SetInduction
<1>4. PICK d \in S : TRUE
  OBVIOUS
<1>5. d \in Nat /\ d + 1 \in Nat
  OBVIOUS
<1>6. d + 1 \in Below
  BY <1>3, <1>5
<1>7. d + 1 <= d
  BY <1>6
<1> QED
  BY <1>5, <1>7

(* The new session is one that was not made. *)
LEMMA NewSessionIs ==
  ASSUME \E c \in SessionIds : ~cores[c].made
  PROVE  NewSession \in SessionIds /\ ~cores[NewSession].made
<1> DEFINE S == {c \in SessionIds : ~cores[c].made}
<1>1. S \in SUBSET Nat /\ S # {}
  BY IdsPositive
<1> HIDE DEF S
<1>2. PICK c \in S : \A d \in S : c <= d
  BY <1>1, LeastExists
<1>3. \A d \in SessionIds : d < c => cores[d].made
  <2> SUFFICES ASSUME NEW d \in SessionIds, d < c PROVE d \notin S
    BY DEF S
  <2>1. d \in Nat /\ c \in Nat
    BY <1>1, IdsPositive
  <2> QED
    BY <1>2, <2>1
<1>4. c \in SessionIds /\ ~cores[c].made
  BY DEF S
<1> QED
  BY <1>3, <1>4 DEF NewSession

(* The new room is one that no session had. *)
LEMMA NewRoomIs ==
  ASSUME \E r \in RoomIds : rooms[r].core = 0
  PROVE  NewRoom \in RoomIds /\ rooms[NewRoom].core = 0
<1> DEFINE S == {r \in RoomIds : rooms[r].core = 0}
<1>1. S \in SUBSET Nat /\ S # {}
  BY IdsPositive
<1> HIDE DEF S
<1>2. PICK r \in S : \A d \in S : r <= d
  BY <1>1, LeastExists
<1>3. \A d \in RoomIds : d < r => rooms[d].core # 0
  <2> SUFFICES ASSUME NEW d \in RoomIds, d < r PROVE d \notin S
    BY DEF S
  <2>1. d \in Nat /\ r \in Nat
    BY <1>1, IdsPositive
  <2> QED
    BY <1>2, <2>1
<1>4. r \in RoomIds /\ rooms[r].core = 0
  BY DEF S
<1> QED
  BY <1>3, <1>4 DEF NewRoom

(* A session is made from the snapshot: its cursor is covered at once. *)
LEMMA SnapshotKeeps ==
  ASSUME RoomsInv, NEW t \in Threads, LoadSnapshot(t)
  PROVE  RoomsInv'
<1> DEFINE s == [Unmade EXCEPT !.made = TRUE, !.doc = disk.snap.doc, !.from = disk.snap.cur]
<1>0. PICK c \in SessionIds : c = NewSession /\ ~cores[c].made
  BY NewSessionIs DEF LoadSnapshot
<1>1. /\ thread[t].pc = "load" /\ cores' = [cores EXCEPT ![c] = s]
      /\ thread' = [thread EXCEPT ![t] = [pc |-> "outbox", core |-> c, room |-> 0]]
      /\ UNCHANGED <<chatRow, disk, edge, rooms, table, past>>
  BY <1>0 DEF LoadSnapshot
<1>2. c \in SessionIds /\ ~cores[c].made
  BY <1>0
<1>3. /\ IsCore(s) /\ s.made /\ s.doc = disk.snap.doc /\ s.from = disk.snap.cur /\ s.room = 0
      /\ ~s.held
  BY DEF Unmade, IsCore, RoomsInv, RoomsType, IsSnap
<1> HIDE DEF s
<1>4. /\ DOMAIN cores' = SessionIds /\ cores'[c] = s
      /\ \A d \in SessionIds \ {c} : cores'[d] = cores[d]
  BY <1>1, <1>2 DEF RoomsInv, RoomsType
<1>5. /\ DOMAIN thread' = Threads /\ \A u \in Threads : IsThread(thread'[u])
      /\ thread'[t].core = c /\ thread'[t].pc = "outbox"
      /\ \A u \in Threads \ {t} : thread'[u] = thread[u]
  <2>1. c \in SessionIds \cup {0}
    BY <1>2
  <2> QED
    BY <1>1, <2>1, SetThread DEF RoomsInv
<1>6. thread[t].core = 0 /\ c # 0
  BY <1>1, <1>2, IdsPositive DEF RoomsInv, ThreadsTrue
<1>7. /\ ~Alive(c) /\ table # c /\ (\A u \in Threads : thread[u].core # c)
      /\ \A r \in RoomIds : rooms[r].core # c
  <2>1. ~Alive(c)
    BY <1>2 DEF RoomsInv, HomesTrue
  <2>2. \A r \in RoomIds : rooms[r].core # c
    BY <1>2, <1>6 DEF RoomsInv, HomesTrue
  <2> QED
    BY <2>1, <2>2 DEF Alive, UsedBy
<1>8. RoomsType'
  BY <1>1, <1>3, <1>4, <1>5 DEF RoomsInv, RoomsType
<1>9. ThreadsTrue'
  <2> SUFFICES ASSUME NEW u \in Threads
               PROVE  /\ thread'[u].pc \in {"outbox", "insert", "ensure", "start", "place", "return",
                                            "close"} => thread'[u].core # 0
                      /\ thread'[u].pc \in {"idle", "load", "unlist", "erase"} => thread'[u].core = 0
                      /\ Reading(u)' => AloneWith(u, thread[u].core)'
                      /\ thread'[u].pc = "place" => thread'[u].room \in RoomIds
                                                    /\ rooms'[thread'[u].room].core = thread'[u].core
                      /\ thread'[u].pc \in {"unlist", "close", "erase"} =>
                           past'.wiped /\ chatRow' = "gone"
    BY DEF ThreadsTrue
  <2>1. CASE u = t
    BY <1>1, <1>3, <1>4, <1>5, <1>6, <1>7, <2>1 DEF Reading, AloneWith
  <2>2. CASE u # t
    BY <1>1, <1>4, <1>5, <1>6, <1>7, <2>2 DEF Reading, AloneWith, RoomsInv, ThreadsTrue, RoomsType,
       IsThread
  <2> QED
    BY <2>1, <2>2
<1>10. \A d \in SessionIds \ {c} : Alive(d)' <=> Alive(d)
  <2> SUFFICES ASSUME NEW d \in SessionIds \ {c} PROVE Alive(d)' <=> Alive(d)
    OBVIOUS
  <2>1. d # 0
    BY IdsPositive
  <2> QED
    BY <1>1, <1>4, <1>5, <1>6, <2>1 DEF Alive, UsedBy
<1>11. HomesTrue'
  BY <1>1, <1>2, <1>3, <1>4, <1>5, <1>6, <1>7, <1>10 DEF RoomsInv, HomesTrue, Running, RoomsType,
     IsRoom, IsCore, Placing
<1>12. WithinEdge'
  BY <1>1, <1>3, <1>4 DEF RoomsInv, WithinEdge
<1>13. HeardKept'
  BY <1>1 DEF RoomsInv, HeardKept, Written, Outbox
<1>14. past'.missed \/ DocsTrue'
  <2> SUFFICES ASSUME DocsTrue PROVE DocsTrue'
    BY <1>1 DEF RoomsInv
  <2>1. Extends(edge, edge') /\ Outbox' = Outbox
    BY <1>1, ExtendsSelf DEF RoomsInv, RoomsType, Outbox
  <2>2. \A d \in SessionIds : Grown(d) \/ Covers(edge', cores'[d].from, cores'[d].doc)
    BY <1>1, <1>3, <1>4 DEF Grown, DocsTrue
  <2>3. \A d \in SessionIds \ {c} : Grown(d)
    BY <1>4 DEF Grown
  <2>4. \A r \in RoomIds : SameRoom(r)
    BY <1>1 DEF SameRoom, Taken
  <2>5. ~Between(c)'
    BY <1>5 DEF Between
  <2>6. \A d \in SessionIds \ {c} : Between(d)' => Between(d)
    BY <1>1, <1>4, <1>5, <1>6, <1>10 DEF Between, MayJoin
  <2> QED
    BY <1>1, <1>7, <1>8, <1>10, <2>1, <2>2, <2>3, <2>4, <2>5, <2>6, DocsKeep DEF RoomsInv
<1> QED
  BY <1>8, <1>9, <1>11, <1>12, <1>13, <1>14 DEF RoomsInv

(* The document of one session is set. *)
LEMMA DocIs ==
  ASSUME RoomsType, NEW c \in SessionIds, NEW ds, cores' = [cores EXCEPT ![c].doc = ds]
  PROVE  /\ DOMAIN cores' = SessionIds /\ \A d \in SessionIds : IsCore(cores'[d])
         /\ \A d \in SessionIds : cores'[d].made = cores[d].made /\ cores'[d].held = cores[d].held
         /\ \A d \in SessionIds : cores'[d].from = cores[d].from /\ cores'[d].room = cores[d].room
         /\ cores'[c].doc = ds /\ \A d \in SessionIds \ {c} : cores'[d] = cores[d]
<1> DEFINE s == [cores[c] EXCEPT !.doc = ds]
<1>1. cores' = [cores EXCEPT ![c] = s]
  OBVIOUS
<1>2. /\ IsCore(s) /\ s.made = cores[c].made /\ s.doc = ds /\ s.held = cores[c].held
      /\ s.from = cores[c].from /\ s.room = cores[c].room
  BY DEF RoomsType, IsCore
<1> HIDE DEF s
<1> QED
  BY <1>1, <1>2 DEF RoomsType

(* The outbox is read into a document nobody else knows yet. *)
LEMMA OutboxKeeps ==
  ASSUME RoomsInv, NEW t \in Threads, LoadOutbox(t)
  PROVE  RoomsInv'
<1> PICK c \in SessionIds \cup {0} : c = thread[t].core
  BY DEF RoomsInv, RoomsType, IsThread
<1>1. /\ thread[t].pc = "outbox" /\ cores' = [cores EXCEPT ![c].doc = cores[c].doc \cup Outbox]
      /\ Go(t, "insert") /\ UNCHANGED <<chatRow, disk, edge, rooms, table, past>>
  BY DEF LoadOutbox
<1>2. c \in SessionIds /\ AloneWith(t, c)
  BY <1>1 DEF RoomsInv, ThreadsTrue, Reading
<1>3. /\ DOMAIN cores' = SessionIds /\ \A d \in SessionIds : IsCore(cores'[d])
      /\ \A d \in SessionIds : cores'[d].made = cores[d].made /\ cores'[d].held = cores[d].held
      /\ \A d \in SessionIds : cores'[d].from = cores[d].from /\ cores'[d].room = cores[d].room
      /\ cores'[c].doc = cores[c].doc \cup Outbox
      /\ \A d \in SessionIds \ {c} : cores'[d] = cores[d]
  BY <1>1, <1>2, DocIs DEF RoomsInv
<1>4. /\ DOMAIN thread' = Threads /\ \A u \in Threads : IsThread(thread'[u])
      /\ \A u \in Threads : thread'[u].core = thread[u].core /\ thread'[u].room = thread[u].room
      /\ thread'[t].pc = "insert" /\ \A u \in Threads \ {t} : thread'[u].pc = thread[u].pc
  BY <1>1, GoIs DEF RoomsInv
<1>5. RoomsType'
  BY <1>1, <1>3, <1>4 DEF RoomsInv, RoomsType
<1>6. ThreadsTrue'
  BY <1>1, <1>2, <1>3, <1>4 DEF RoomsInv, ThreadsTrue, Reading, AloneWith, RoomsType, IsThread
<1>7. \A d \in SessionIds : Alive(d)' <=> Alive(d)
  BY <1>1, <1>3, <1>4 DEF Alive, UsedBy
<1>8. HomesTrue'
  BY <1>1, <1>3, <1>4, <1>7 DEF RoomsInv, HomesTrue, Running, RoomsType, IsRoom, IsCore, Placing
<1>9. WithinEdge' /\ HeardKept'
  BY <1>1, <1>3 DEF RoomsInv, WithinEdge, HeardKept, Written, Outbox
<1>10. past'.missed \/ DocsTrue'
  <2> SUFFICES ASSUME DocsTrue PROVE DocsTrue'
    BY <1>1 DEF RoomsInv
  <2>1. Extends(edge, edge') /\ Outbox' = Outbox /\ disk'.snap = disk.snap
    BY <1>1, ExtendsSelf DEF RoomsInv, RoomsType, Outbox
  <2>2. \A d \in SessionIds : Grown(d)
    BY <1>3 DEF Grown
  <2>3. \A r \in RoomIds : SameRoom(r)
    BY <1>1 DEF SameRoom, Taken
  <2>4. Outbox' \subseteq cores'[c].doc
    BY <1>3, <2>1
  <2>5. \A d \in SessionIds \ {c} : Between(d)' => Between(d)
    BY <1>1, <1>3, <1>4, <1>7 DEF Between, MayJoin
  <2> QED
    BY <1>5, <1>7, <2>1, <2>2, <2>3, <2>4, <2>5, DocsKeep DEF RoomsInv
<1> QED
  BY <1>5, <1>6, <1>8, <1>9, <1>10 DEF RoomsInv

(* The session is listed, or dropped in favour of the one that is. *)
LEMMA InsertKeeps ==
  ASSUME RoomsInv, NEW t \in Threads, Insert(t)
  PROVE  RoomsInv'
<1> PICK c \in SessionIds \cup {0} : c = thread[t].core
  BY DEF RoomsInv, RoomsType, IsThread
<1>1. thread[t].pc = "insert" /\ UNCHANGED <<chatRow, disk, edge, rooms, past>>
  BY DEF Insert
<1>2. c \in SessionIds /\ c # 0 /\ AloneWith(t, c)
  BY <1>1, IdsPositive DEF RoomsInv, ThreadsTrue, Reading
<1>3. PICK k \in SessionIds : /\ k = (IF table = 0 THEN c ELSE table) /\ table' = k
                              /\ thread' = [thread EXCEPT ![t].pc = "ensure", ![t].core = k]
                              /\ cores' = IF k = c THEN cores
                                          ELSE [cores EXCEPT ![c] = [Unmade EXCEPT !.made = TRUE]]
  BY <1>1, <1>2 DEF Insert, RoomsInv, RoomsType
<1>4. /\ DOMAIN thread' = Threads /\ \A u \in Threads : IsThread(thread'[u])
      /\ thread'[t].core = k /\ thread'[t].pc = "ensure"
      /\ \A u \in Threads \ {t} : thread'[u] = thread[u]
  BY <1>3 DEF RoomsInv, RoomsType, IsThread
<1> DEFINE s == [Unmade EXCEPT !.made = TRUE]
<1>5. IsCore(s) /\ s.made /\ s.doc = {} /\ s.from = 0 /\ s.room = 0 /\ ~s.held
  BY DEF Unmade, IsCore
<1> HIDE DEF s
<1>6. k # c => cores' = [cores EXCEPT ![c] = s]
  BY <1>3 DEF s
<1>7. /\ DOMAIN cores' = SessionIds /\ \A d \in SessionIds : IsCore(cores'[d])
      /\ \A d \in SessionIds \ {c} : cores'[d] = cores[d]
      /\ cores'[c] = IF k = c THEN cores[c] ELSE s
  BY <1>2, <1>3, <1>5, <1>6 DEF RoomsInv, RoomsType
<1>8. RoomsType'
  BY <1>1, <1>3, <1>4, <1>7 DEF RoomsInv, RoomsType
<1>9. \A u \in Threads : Reading(u) => u = t \/ AloneWith(u, thread[u].core)
  BY DEF RoomsInv, ThreadsTrue
<1>10. ThreadsTrue'
  <2>1. ASSUME NEW u \in Threads \ {t}, Reading(u)' PROVE AloneWith(u, thread[u].core)'
    <3>1. Reading(u) /\ AloneWith(u, thread[u].core) /\ thread[u].core \in SessionIds
      BY <1>4, <2>1 DEF RoomsInv, ThreadsTrue, Reading, RoomsType, IsThread
    <3>2. thread[u].core # c /\ thread[u].core # k
      BY <1>2, <1>3, <3>1 DEF AloneWith
    <3> QED
      BY <1>1, <1>3, <1>4, <1>7, <3>1, <3>2 DEF AloneWith
  <2> QED
    BY <1>1, <1>2, <1>3, <1>4, <1>7, <2>1, IdsPositive DEF RoomsInv, ThreadsTrue, Reading, RoomsType,
       IsThread
<1>11. \A d \in SessionIds \ {c} : Alive(d)' <=> Alive(d)
  <2> SUFFICES ASSUME NEW d \in SessionIds \ {c} PROVE Alive(d)' <=> Alive(d)
    OBVIOUS
  <2>1. d # 0
    BY IdsPositive
  <2> QED
    BY <1>1, <1>2, <1>3, <1>4, <1>7, <2>1 DEF Alive, UsedBy
<1>12. Alive(c) /\ (k # c => ~Alive(c)') /\ (k = c => Alive(c)')
  BY <1>2, <1>3, <1>4, <1>5, <1>7 DEF Alive, UsedBy, AloneWith
<1>13. \A r \in RoomIds : rooms[r].core # c
  BY <1>2 DEF AloneWith
<1>14. \A r \in RoomIds : Placing(r) => Placing(r)'
  BY <1>1, <1>4 DEF Placing
<1>15. \A d \in SessionIds : cores'[d].room = cores[d].room /\ (cores[d].made => cores'[d].made)
  BY <1>2, <1>5, <1>7 DEF AloneWith
<1>16. HomesTrue'
  <2>1. \A d \in SessionIds : Alive(d)' => cores'[d].made
    BY <1>11, <1>12, <1>15 DEF RoomsInv, HomesTrue
  <2>2. \A d \in SessionIds : cores'[d].room # 0 => rooms'[cores'[d].room].core = d
    BY <1>1, <1>15 DEF RoomsInv, HomesTrue
  <2>3. ASSUME NEW r \in RoomIds
        PROVE  /\ rooms'[r].core # 0 => cores'[rooms'[r].core].made
               /\ rooms'[r].live \/ rooms'[r].saver \/ Running(r)' => rooms'[r].core # 0
               /\ rooms'[r].live => Alive(rooms[r].core)'
                                    /\ (cores'[rooms'[r].core].room = r \/ Placing(r)')
    BY <1>1, <1>11, <1>13, <1>14, <1>15 DEF RoomsInv, HomesTrue, Running, RoomsType, IsRoom
  <2> QED
    BY <2>1, <2>2, <2>3 DEF HomesTrue
<1>17. WithinEdge' /\ HeardKept'
  BY <1>1, <1>5, <1>7 DEF RoomsInv, WithinEdge, HeardKept, Written, Outbox, RoomsType, IsCore
<1>18. past'.missed \/ DocsTrue'
  <2> SUFFICES ASSUME DocsTrue PROVE DocsTrue'
    BY <1>1 DEF RoomsInv
  <2>1. Extends(edge, edge') /\ Outbox' = Outbox /\ disk'.snap = disk.snap
    BY <1>1, ExtendsSelf DEF RoomsInv, RoomsType, Outbox
  <2>2. \A d \in SessionIds \ {c} : Grown(d)
    BY <1>7 DEF Grown
  <2>3. Grown(c) \/ Covers(edge', cores'[c].from, cores'[c].doc)
    BY <1>5, <1>7 DEF Grown, Covers
  <2>4. \A r \in RoomIds : SameRoom(r)
    BY <1>1 DEF SameRoom, Taken
  <2>5. \A d \in SessionIds \ {c} : Between(d)' => Between(d)
    BY <1>1, <1>4, <1>7, <1>11, <1>2, <1>3 DEF Between, MayJoin
  <2>6. Between(c)' => Between(c) /\ Grown(c)
    BY <1>1, <1>2, <1>4, <1>7, <1>12 DEF Between, MayJoin, Grown
  <2>7. \A d \in SessionIds : Alive(d)' =>
           (Alive(d) /\ Grown(d)) \/ \A r \in RoomIds : rooms[r].core # d
    BY <1>11, <1>13, <2>2
  <2>8. \A d \in SessionIds : Grown(d) \/ Covers(edge', cores'[d].from, cores'[d].doc)
    BY <2>2, <2>3
  <2>9. \A d \in SessionIds : Between(d)' => Between(d) /\ Grown(d) /\ Outbox' \subseteq Outbox
    BY <2>1, <2>2, <2>5, <2>6
  <2> QED
    BY <1>8, <2>1, <2>4, <2>7, <2>8, <2>9, DocsKeep DEF RoomsInv
<1> QED
  BY <1>8, <1>10, <1>16, <1>17, <1>18 DEF RoomsInv

------------------------------------------------------------------------------
(* Sessions and rooms that are placed, left, saved, closed or freed. *)
FlushedFrom(r) ==
  /\ rooms[r].core # 0 /\ Alive(rooms[r].core)
  /\ disk'.snap.doc = cores[rooms[r].core].doc /\ disk'.snap.cur = rooms[r].cur
NoMore(r) ==
  /\ rooms'[r].core = rooms[r].core /\ Taken(r)' \subseteq Taken(r)
  /\ rooms'[r].cur = rooms[r].cur \/ rooms'[r].cur = 0
  /\ rooms'[r].saver => rooms[r].saver
  /\ rooms'[r].live => rooms[r].live
  /\ Running(r)' => Running(r)
  /\ rooms'[r].client = "none" => rooms[r].client = "none"
SameOrFreed(c) ==
  /\ cores'[c].made = cores[c].made
  /\ Alive(c)' => Alive(c)
  /\ \/ cores'[c].from = cores[c].from /\ cores'[c].doc = cores[c].doc
     \/ cores'[c].from = 0 /\ ~Alive(c)'

(* What a step must show that only takes away: it flushes at most a room that is
   alive, and rooms hold no more than they did. *)
LEMMA LeaveKeeps ==
  ASSUME RoomsInv, RoomsType', ThreadsTrue', edge' = edge, past' = past, disk'.out = disk.out,
         disk'.snap = disk.snap \/ \E r \in RoomIds : FlushedFrom(r),
         \A r \in RoomIds : NoMore(r),
         \A c \in SessionIds : SameOrFreed(c),
         \A c \in SessionIds : cores'[c].room # 0 => rooms'[cores'[c].room].core = c,
         \A r \in RoomIds : rooms'[r].live => Alive(rooms[r].core)'
                              /\ (cores'[rooms'[r].core].room = r \/ Placing(r)'),
         \A c \in SessionIds : Between(c)' => Between(c)
  PROVE  RoomsInv'
<1>1. Outbox' = Outbox /\ Written' = Written /\ Extends(edge, edge')
  BY ExtendsSelf DEF Outbox, Written, RoomsInv, RoomsType
<1>2. HeardKept'
  BY <1>1 DEF RoomsInv, HeardKept
<1>3. WithinEdge'
  <2>1. Len(edge) \in Nat /\ WithinEdge
    BY <1>1 DEF Extends, RoomsInv
  <2>2. disk'.snap.cur <= Len(edge)
    BY <2>1 DEF WithinEdge, FlushedFrom
  <2>3. \A c \in SessionIds : cores'[c].from <= Len(edge)
    BY <2>1 DEF WithinEdge, SameOrFreed
  <2>4. \A r \in RoomIds : rooms'[r].cur <= Len(edge)
    BY <2>1 DEF WithinEdge, NoMore
  <2> QED
    BY <2>2, <2>3, <2>4 DEF WithinEdge
<1>4. HomesTrue'
  <2>1. \A c \in SessionIds : Alive(c)' => cores'[c].made
    BY DEF RoomsInv, HomesTrue, SameOrFreed
  <2>2. \A r \in RoomIds : rooms'[r].core # 0 => cores'[rooms'[r].core].made
    BY DEF RoomsInv, HomesTrue, NoMore, SameOrFreed, RoomsType, IsRoom
  <2>3. \A r \in RoomIds : rooms'[r].live \/ rooms'[r].saver \/ Running(r)' => rooms'[r].core # 0
    BY DEF RoomsInv, HomesTrue, NoMore
  <2> QED
    BY <2>1, <2>2, <2>3 DEF HomesTrue
<1>5. past'.missed \/ DocsTrue'
  <2> SUFFICES ASSUME DocsTrue PROVE DocsTrue'
    BY DEF RoomsInv
  <2>1. disk'.snap = disk.snap \/ Covers(edge', disk'.snap.cur, disk'.snap.doc)
    BY DEF FlushedFrom, DocsTrue, RoomCovered
  <2>2. \A c \in SessionIds : Grown(c) \/ Covers(edge', cores'[c].from, cores'[c].doc)
    BY DEF SameOrFreed, Grown, Covers
  <2>3. ASSUME NEW r \in RoomIds PROVE SameRoom(r) \/ RoomCovered(r)'
    <3>1. SUFFICES ASSUME rooms'[r].cur = 0, rooms'[r].core # 0, Alive(rooms[r].core)'
                   PROVE RoomCovered(r)'
      BY DEF NoMore, SameRoom, RoomCovered
    <3> PICK d : d = rooms[r].core
      OBVIOUS
    <3>2. d \in SessionIds /\ rooms'[r].core = d /\ Taken(r)' \subseteq Taken(r)
      BY <3>1 DEF NoMore, RoomsInv, RoomsType, IsRoom
    <3>0. Alive(d)'
      BY <3>1, <3>2 DEF Alive, UsedBy
    <3>3. Alive(d) /\ cores'[d].doc = cores[d].doc
      BY <3>0, <3>2 DEF SameOrFreed
    <3>4. \A b \in Taken(r) : b[1] \in cores[d].doc
      BY <3>1, <3>2, <3>3 DEF DocsTrue, RoomCovered
    <3>5. Covers(edge', rooms'[r].cur, cores'[rooms'[r].core].doc)
      BY <3>1 DEF Covers
    <3> QED
      BY <3>2, <3>3, <3>4, <3>5 DEF RoomCovered
  <2>4. \A c \in SessionIds : Alive(c)' => Alive(c) /\ Grown(c)
    BY DEF SameOrFreed, Grown
  <2>5. \A c \in SessionIds : Between(c)' => Between(c) /\ Grown(c) /\ Outbox' \subseteq Outbox
    BY <1>1, <2>4 DEF Between
  <2> QED
    BY <1>1, <2>1, <2>2, <2>3, <2>4, <2>5, DocsKeep DEF RoomsInv
<1> QED
  BY <1>2, <1>3, <1>4, <1>5 DEF RoomsInv

(* A room dropped while its document is there. *)
DroppedAt(r) ==
  /\ DOMAIN rooms' = RoomIds /\ \A q \in RoomIds : IsRoom(rooms'[q]) /\ NoMore(q)
  /\ ~rooms'[r].live
  /\ \A q \in RoomIds \ {r} : rooms'[q] = rooms[q]
  /\ DOMAIN disk' = DOMAIN disk /\ IsSnap(disk'.snap) /\ disk'.out = disk.out
  /\ \/ disk'.snap = disk.snap
     \/ disk'.snap.doc = cores[rooms[r].core].doc /\ disk'.snap.cur = rooms[r].cur

(* A dropped room, with what its flush writes. *)
LEMMA DroppedIs ==
  ASSUME RoomsType, NEW r \in RoomIds, rooms' = Dropped(r, TRUE),
         disk' = [disk EXCEPT !.snap = FlushTo(disk.snap, r, TRUE)]
  PROVE  DroppedAt(r)
<1> DEFINE client == IF rooms[r].client = "up" THEN "closing" ELSE "off"
           rm == [rooms[r] EXCEPT !.live = FALSE, !.client = client, !.dirty = FALSE]
<1>1. rooms' = [rooms EXCEPT ![r] = rm]
  BY DEF Dropped, RoomsType, IsRoom
<1>2. /\ IsRoom(rm) /\ ~rm.live /\ rm.core = rooms[r].core /\ rm.cur = rooms[r].cur
      /\ rm.queue = rooms[r].queue /\ rm.unsent = rooms[r].unsent /\ rm.saver = rooms[r].saver
      /\ rm.client = client
  BY DEF RoomsType, IsRoom
<1>3. (client \in {"up", "closing"} => rooms[r].client \in {"up", "closing"}) /\ client # "none"
  OBVIOUS
<1> HIDE DEF rm, client
<1>4. /\ DOMAIN rooms' = RoomIds /\ rooms'[r] = rm /\ \A q \in RoomIds \ {r} : rooms'[q] = rooms[q]
  BY <1>1 DEF RoomsType
<1>5. \A q \in RoomIds : IsRoom(rooms'[q]) /\ NoMore(q)
  BY <1>2, <1>3, <1>4 DEF NoMore, Taken, Running, RoomsType
<1> DEFINE snap == FlushTo(disk.snap, r, TRUE)
<1>6. snap = disk.snap \/ (/\ IsSnap(snap) /\ snap.doc = cores[rooms[r].core].doc
                           /\ snap.cur = rooms[r].cur)
  BY DEF FlushTo, IsSnap, RoomsType, IsRoom
<1> HIDE DEF snap
<1>7. DOMAIN disk' = DOMAIN disk /\ disk'.snap = snap /\ disk'.out = disk.out
  BY DEF RoomsType, snap
<1>8. ~rooms'[r].live
  BY <1>2, <1>4
<1>9. IsSnap(disk'.snap)
  BY <1>6, <1>7 DEF RoomsType
<1>10. \/ disk'.snap = disk.snap
       \/ disk'.snap.doc = cores[rooms[r].core].doc /\ disk'.snap.cur = rooms[r].cur
  BY <1>6, <1>7
<1> QED
  BY <1>4, <1>5, <1>7, <1>8, <1>9, <1>10 DEF DroppedAt

(* A reference to a session is given up, and with the last one the session. *)
Leaves(c, u) ==
  /\ thread[u].pc = "return" /\ thread[u].core = c
  /\ thread'[u].pc = "idle" /\ thread'[u].core = 0

(* A session let go of, freed with its room if that was its last reference. *)
LEMMA ReleaseKeeps ==
  ASSUME RoomsInv, NEW c \in SessionIds, Alive(c), NEW s, NEW referred \in BOOLEAN,
         IsCore(s), s.made = cores[c].made, s.from = cores[c].from, s.doc = cores[c].doc,
         s.room = cores[c].room,
         Release(c, s, referred), UNCHANGED <<chatRow, edge, past>>,
         DOMAIN thread' = Threads, \A u \in Threads : IsThread(thread'[u]),
         \A u \in Threads : thread'[u] = thread[u] \/ Leaves(c, u),
         table' = table \/ (table = c /\ table' = 0),
         \A u \in Threads : Reading(u) => thread[u].core # c,
         referred <=> s.held \/ table' = c \/ \E u \in Threads : thread'[u].core = c
  PROVE  RoomsInv'
<1> DEFINE r == cores[c].room
           free == [Unmade EXCEPT !.made = TRUE]
<1>1. /\ cores' = [cores EXCEPT ![c] = IF referred THEN s ELSE free]
      /\ rooms' = IF ~referred /\ r # 0 THEN Dropped(r, TRUE) ELSE rooms
      /\ disk' = [disk EXCEPT !.snap = IF ~referred /\ r # 0 THEN FlushTo(disk.snap, r, TRUE)
                                       ELSE disk.snap]
  BY DEF Release
<1>2. IsCore(free) /\ free.made /\ free.from = 0 /\ free.room = 0 /\ ~free.held
  BY DEF Unmade, IsCore
<1>3. cores[c].made /\ c # 0 /\ 0 \notin RoomIds
  BY IdsPositive DEF RoomsInv, HomesTrue
<1> HIDE DEF free
<1>4. /\ DOMAIN cores' = SessionIds /\ \A d \in SessionIds : IsCore(cores'[d])
      /\ \A d \in SessionIds \ {c} : cores'[d] = cores[d]
      /\ cores'[c] = IF referred THEN s ELSE free
  BY <1>1, <1>2 DEF RoomsInv, RoomsType
<1>5. r \in RoomIds \cup {0} /\ (r # 0 => rooms[r].core = c)
  BY DEF RoomsInv, RoomsType, IsCore, HomesTrue
<1>6. /\ DOMAIN rooms' = RoomIds /\ \A q \in RoomIds : IsRoom(rooms'[q]) /\ NoMore(q)
      /\ ~referred /\ r # 0 => ~rooms'[r].live
      /\ DOMAIN disk' = DOMAIN disk /\ IsSnap(disk'.snap) /\ disk'.out = disk.out
      /\ disk'.snap = disk.snap \/ \E q \in RoomIds : FlushedFrom(q)
  <2>1. CASE referred \/ r = 0
    <3>1. rooms' = rooms /\ disk'.snap = disk.snap /\ disk'.out = disk.out
          /\ DOMAIN disk' = DOMAIN disk
      BY <1>1, <2>1 DEF RoomsInv, RoomsType
    <3>2. \A q \in RoomIds : NoMore(q)
      BY <3>1 DEF NoMore, Taken, Running
    <3> QED
      BY <2>1, <3>1, <3>2 DEF RoomsInv, RoomsType
  <2>2. CASE ~referred /\ r # 0
    <3>1. r \in RoomIds /\ rooms' = Dropped(r, TRUE)
          /\ disk' = [disk EXCEPT !.snap = FlushTo(disk.snap, r, TRUE)]
      BY <1>1, <1>5, <2>2
    <3>2. DroppedAt(r)
      BY <3>1, DroppedIs DEF RoomsInv
    <3>3. disk'.snap = disk.snap \/ FlushedFrom(r)
      BY <1>3, <1>5, <2>2, <3>2 DEF DroppedAt, FlushedFrom
    <3> QED
      BY <3>1, <3>2, <3>3 DEF DroppedAt
  <2> QED
    BY <2>1, <2>2
<1>7. RoomsType'
  <2>1. table' \in SessionIds \cup {0}
    BY DEF RoomsInv, RoomsType
  <2> QED
    BY <1>4, <1>6, <2>1 DEF RoomsInv, RoomsType
<1>8. \A d \in SessionIds \ {c} : Alive(d)' <=> Alive(d)
  <2> SUFFICES ASSUME NEW d \in SessionIds \ {c} PROVE Alive(d)' <=> Alive(d)
    OBVIOUS
  <2>1. d # 0 /\ (table' = d <=> table = d)
    BY IdsPositive
  <2>2. \A u \in Threads : thread'[u].core = d <=> thread[u].core = d
    BY <2>1 DEF Leaves
  <2> QED
    BY <1>4, <2>1, <2>2 DEF Alive, UsedBy
<1>9. Alive(c)' <=> referred
  <2>1. cores'[c].held <=> referred /\ s.held
    BY <1>2, <1>4
  <2> QED
    BY <2>1 DEF Alive, UsedBy
<1>10. ThreadsTrue'
  <2>1. ASSUME NEW u \in Threads, Reading(u)' PROVE AloneWith(u, thread[u].core)'
    <3>1. thread'[u] = thread[u] /\ Reading(u) /\ AloneWith(u, thread[u].core)
      BY <2>1 DEF Reading, Leaves, RoomsInv, ThreadsTrue
    <3> DEFINE d == thread[u].core
    <3>2. d \in SessionIds \ {c} /\ d # 0
      BY <3>1, IdsPositive DEF RoomsInv, ThreadsTrue, RoomsType, IsThread, Reading
    <3>3. table' # d /\ cores'[d] = cores[d] /\ \A v \in Threads \ {u} : thread'[v].core # d
      BY <1>4, <3>1, <3>2 DEF AloneWith, Leaves
    <3>4. \A q \in RoomIds : rooms'[q].core # d
      BY <1>6, <3>1 DEF AloneWith, NoMore
    <3> QED
      BY <3>1, <3>3, <3>4 DEF AloneWith
  <2>2. \A u \in Threads : thread'[u].pc = "place" =>
           thread'[u].room \in RoomIds /\ rooms'[thread'[u].room].core = thread'[u].core
    BY <1>6 DEF RoomsInv, ThreadsTrue, NoMore, Leaves
  <2>3. ASSUME NEW u \in Threads
        PROVE /\ thread'[u].pc \in {"outbox", "insert", "ensure", "start", "place", "return", "close"}
                   => thread'[u].core # 0
              /\ thread'[u].pc \in {"idle", "load", "unlist", "erase"} => thread'[u].core = 0
              /\ thread'[u].pc \in {"unlist", "close", "erase"} => past'.wiped /\ chatRow' = "gone"
    BY DEF RoomsInv, ThreadsTrue, Leaves
  <2> QED
    BY <2>1, <2>2, <2>3 DEF ThreadsTrue
<1>11. \A d \in SessionIds : SameOrFreed(d)
  <2>1. SameOrFreed(c)
    BY <1>2, <1>3, <1>4, <1>9 DEF SameOrFreed
  <2>2. \A d \in SessionIds \ {c} : SameOrFreed(d)
    BY <1>4, <1>8 DEF SameOrFreed
  <2> QED
    BY <2>1, <2>2
<1>12. \A d \in SessionIds : cores'[d].room # 0 =>
          cores'[d].room = cores[d].room /\ rooms'[cores'[d].room].core = d
  <2> SUFFICES ASSUME NEW d \in SessionIds, cores'[d].room # 0
               PROVE cores'[d].room = cores[d].room /\ rooms'[cores'[d].room].core = d
    OBVIOUS
  <2>1. cores'[d].room = cores[d].room /\ cores[d].room \in RoomIds
    BY <1>2, <1>4 DEF RoomsInv, RoomsType, IsCore
  <2> QED
    BY <1>6, <2>1 DEF RoomsInv, HomesTrue, NoMore
<1>13. \A q \in RoomIds : Placing(q) => Placing(q)'
  BY DEF Placing, Leaves
<1>14. ASSUME NEW q \in RoomIds, rooms'[q].live
       PROVE  Alive(rooms[q].core)' /\ (cores'[rooms'[q].core].room = q \/ Placing(q)')
  <2> PICK d : d = rooms[q].core
    OBVIOUS
  <2>1. rooms'[q].core = d /\ rooms[q].live /\ d \in SessionIds
        /\ Alive(d) /\ (cores[d].room = q \/ Placing(q))
    BY <1>6, <1>14 DEF NoMore, RoomsInv, HomesTrue, RoomsType, IsRoom
  <2>2. CASE d = c /\ ~referred
    <3>1. cores[c].room # q
      BY <1>3, <1>6, <1>14, <2>2
    <3>2. PICK u \in Threads : thread[u].pc = "place" /\ thread[u].room = q
      BY <2>1, <2>2, <3>1 DEF Placing
    <3>3. thread[u].core = c /\ thread'[u] = thread[u]
      BY <2>1, <2>2, <3>2 DEF RoomsInv, ThreadsTrue, Leaves
    <3> QED
      BY <2>2, <3>3
  <2>3. CASE d # c \/ referred
    <3>1. cores'[d].room = cores[d].room
      BY <1>4, <2>1, <2>3
    <3>2. Alive(d)'
      BY <1>8, <1>9, <2>1, <2>3
    <3>3. Alive(rooms[q].core)'
      BY <2>1, <3>2 DEF Alive, UsedBy
    <3> QED
      BY <1>13, <2>1, <3>1, <3>3
  <2> QED
    BY <2>2, <2>3
<1>15. ASSUME NEW d \in SessionIds, Between(d)' PROVE Between(d)
  <2>1. Alive(d)' /\ cores'[d].made
    BY <1>15 DEF Between
  <2>2. Alive(d) /\ cores[d].made /\ cores'[d].room = cores[d].room
    BY <1>2, <1>3, <1>4, <1>8, <1>9, <2>1
  <2>3. ~\E u \in Threads : thread[u].core = d /\ thread[u].pc = "outbox"
    BY <1>15 DEF Between, Leaves
  <2>4. MayJoin(d)
    BY <1>6, <1>15, <2>2 DEF Between, MayJoin, NoMore, Leaves
  <2> QED
    BY <2>2, <2>3, <2>4 DEF Between
<1> QED
  BY <1>6, <1>7, <1>10, <1>11, <1>12, <1>14, <1>15, LeaveKeeps

(* A thread returns, and lets go of the session unless the user keeps it. *)
LEMMA ReturnKeeps ==
  ASSUME RoomsInv, NEW t \in Threads, Return(t)
  PROVE  RoomsInv'
<1> PICK c \in SessionIds \cup {0} : c = thread[t].core
  BY DEF RoomsInv, RoomsType, IsThread
<1> DEFINE s == Held(c, t)[c]
           referred == t = "ui" \/ table = c \/ cores[c].held \/ UsedBy(c, Threads \ {t})
<1>1. /\ thread[t].pc = "return" /\ thread' = [thread EXCEPT ![t] = Waiting]
      /\ Release(c, s, referred) /\ UNCHANGED <<chatRow, edge, table, past>>
  BY DEF Return
<1>2. c \in SessionIds
  BY <1>1 DEF RoomsInv, ThreadsTrue
<1>3. /\ IsCore(s) /\ s.made = cores[c].made /\ s.doc = cores[c].doc
      /\ s.from = cores[c].from /\ s.room = cores[c].room
      /\ s.held <=> t = "ui" \/ cores[c].held
  <2>1. CASE t = "ui"
    <3> DEFINE h == [cores[c] EXCEPT !.held = TRUE]
    <3>1. s = h
      BY <1>2, <2>1 DEF Held, RoomsInv, RoomsType
    <3>2. /\ IsCore(h) /\ h.made = cores[c].made /\ h.doc = cores[c].doc
          /\ h.from = cores[c].from /\ h.room = cores[c].room /\ h.held
      BY <1>2 DEF RoomsInv, RoomsType, IsCore
    <3> QED
      BY <2>1, <3>1, <3>2
  <2>2. CASE t # "ui"
    BY <1>2, <2>2 DEF Held, RoomsInv, RoomsType, IsCore
  <2> QED
    BY <2>1, <2>2
<1> HIDE DEF s
<1>4. Alive(c)
  BY <1>2 DEF Alive, UsedBy
<1>5. /\ DOMAIN thread' = Threads /\ \A u \in Threads : IsThread(thread'[u])
      /\ thread'[t].pc = "idle" /\ thread'[t].core = 0
      /\ \A u \in Threads \ {t} : thread'[u] = thread[u]
  BY <1>1 DEF RoomsInv, RoomsType, IsThread, Waiting
<1>6. \A u \in Threads : thread'[u] = thread[u] \/ Leaves(c, u)
  BY <1>1, <1>5 DEF Leaves
<1>7. \A u \in Threads : Reading(u) => thread[u].core # c
  BY <1>1 DEF RoomsInv, ThreadsTrue, Reading, AloneWith
<1>8. referred <=> s.held \/ table' = c \/ \E u \in Threads : thread'[u].core = c
  BY <1>1, <1>2, <1>3, <1>5, IdsPositive DEF UsedBy
<1>9. referred \in BOOLEAN
  OBVIOUS
<1> HIDE DEF referred
<1> QED
  BY <1>1, <1>2, <1>3, <1>4, <1>5, <1>6, <1>7, <1>8, <1>9, ReleaseKeeps

(* The user lets go of a session. *)
LEMMA CloseSessionKeeps ==
  ASSUME RoomsInv, NEW c \in SessionIds, CloseSession(c)
  PROVE  RoomsInv'
<1> DEFINE s == [cores[c] EXCEPT !.held = FALSE, !.viewed = FALSE]
           referred == table = c \/ UsedBy(c, Threads)
<1>1. cores[c].held /\ Release(c, s, referred) /\ UNCHANGED <<chatRow, edge, table, thread, past>>
  BY DEF CloseSession
<1>2. /\ IsCore(s) /\ s.made = cores[c].made /\ s.doc = cores[c].doc
      /\ s.from = cores[c].from /\ s.room = cores[c].room /\ ~s.held
  BY DEF RoomsInv, RoomsType, IsCore
<1> HIDE DEF s
<1>3. Alive(c)
  BY <1>1 DEF Alive
<1>4. \A u \in Threads : Reading(u) => thread[u].core # c
  BY <1>1 DEF RoomsInv, ThreadsTrue, AloneWith
<1>5. referred <=> s.held \/ table' = c \/ \E u \in Threads : thread'[u].core = c
  BY <1>1, <1>2 DEF UsedBy
<1>6. referred \in BOOLEAN
  OBVIOUS
<1>7. DOMAIN thread' = Threads /\ \A u \in Threads : IsThread(thread'[u])
  BY <1>1 DEF RoomsInv, RoomsType
<1> HIDE DEF referred
<1> QED
  BY <1>1, <1>2, <1>3, <1>4, <1>5, <1>6, <1>7, ReleaseKeeps

(* The listing lets go of a session. *)
LEMMA EvictKeeps ==
  ASSUME RoomsInv, Evict
  PROVE  RoomsInv'
<1> PICK c \in SessionIds \cup {0} : c = table
  BY DEF RoomsInv, RoomsType
<1> DEFINE referred == cores[c].held \/ UsedBy(c, Threads)
<1>1. c # 0 /\ Release(c, cores[c], referred) /\ table' = 0 /\ UNCHANGED <<chatRow, edge, thread, past>>
  BY DEF Evict
<1>2. IsCore(cores[c]) /\ Alive(c) /\ c \in SessionIds
  BY <1>1 DEF RoomsInv, RoomsType, Alive
<1>4. \A u \in Threads : Reading(u) => thread[u].core # c
  BY <1>1 DEF RoomsInv, ThreadsTrue, AloneWith
<1>5. referred <=> cores[c].held \/ table' = c \/ \E u \in Threads : thread'[u].core = c
  BY <1>1, <1>2 DEF UsedBy
<1>6. referred \in BOOLEAN
  BY <1>2 DEF IsCore
<1>7. DOMAIN thread' = Threads /\ \A u \in Threads : IsThread(thread'[u])
  BY <1>1 DEF RoomsInv, RoomsType
<1> HIDE DEF referred
<1> QED
  BY <1>1, <1>2, <1>4, <1>5, <1>6, <1>7, ReleaseKeeps

(* The room of one session is set. *)
LEMMA RoomIs ==
  ASSUME RoomsType, NEW c \in SessionIds, NEW r \in RoomIds \cup {0},
         cores' = [cores EXCEPT ![c].room = r]
  PROVE  /\ DOMAIN cores' = SessionIds /\ \A d \in SessionIds : IsCore(cores'[d])
         /\ \A d \in SessionIds : cores'[d].made = cores[d].made /\ cores'[d].held = cores[d].held
         /\ \A d \in SessionIds : cores'[d].from = cores[d].from /\ cores'[d].doc = cores[d].doc
         /\ cores'[c].room = r /\ \A d \in SessionIds \ {c} : cores'[d] = cores[d]
<1> DEFINE s == [cores[c] EXCEPT !.room = r]
<1>1. cores' = [cores EXCEPT ![c] = s]
  OBVIOUS
<1>2. /\ IsCore(s) /\ s.made = cores[c].made /\ s.doc = cores[c].doc /\ s.held = cores[c].held
      /\ s.from = cores[c].from /\ s.room = r
  BY DEF RoomsType, IsCore
<1> HIDE DEF s
<1> QED
  BY <1>1, <1>2 DEF RoomsType

(* The room of a deleted chat is dropped before what it would save is erased. *)
LEMMA CloseRoomKeeps ==
  ASSUME RoomsInv, CloseRoom
  PROVE  RoomsInv'
<1> "ui" \in Threads
  BY DEF Threads
<1> PICK c \in SessionIds \cup {0} : c = thread["ui"].core
  BY DEF RoomsInv, RoomsType, IsThread
<1> DEFINE r == cores[c].room
<1>1. /\ thread["ui"].pc = "close" /\ UNCHANGED <<chatRow, edge, table, past>>
      /\ thread' = [thread EXCEPT !["ui"] = [pc |-> "erase", core |-> 0, room |-> 0]]
      /\ IF r = 0 THEN UNCHANGED <<rooms, disk, cores>>
         ELSE /\ rooms' = Dropped(r, TRUE)
              /\ disk' = [disk EXCEPT !.snap = FlushTo(disk.snap, r, TRUE)]
              /\ cores' = [cores EXCEPT ![c].room = 0]
  <2>1. [Waiting EXCEPT !.pc = "erase"] = [pc |-> "erase", core |-> 0, room |-> 0]
    BY DEF Waiting
  <2> QED
    BY <2>1 DEF CloseRoom
<1>2. c \in SessionIds /\ c # 0 /\ past.wiped /\ chatRow = "gone" /\ Alive(c)
  BY <1>1 DEF RoomsInv, ThreadsTrue, Alive, UsedBy
<1>3. /\ DOMAIN thread' = Threads /\ \A u \in Threads : IsThread(thread'[u])
      /\ thread'["ui"].core = 0 /\ thread'["ui"].pc = "erase"
      /\ \A u \in Threads \ {"ui"} : thread'[u] = thread[u]
  <2>1. 0 \in SessionIds \cup {0}
    OBVIOUS
  <2> QED
    BY <1>1, <2>1, SetThread DEF RoomsInv
<1>4. r \in RoomIds \cup {0} /\ (r # 0 => rooms[r].core = c) /\ 0 \notin RoomIds
  BY <1>2, IdsPositive DEF RoomsInv, RoomsType, IsCore, HomesTrue
<1>5. /\ DOMAIN cores' = SessionIds /\ \A d \in SessionIds : IsCore(cores'[d])
      /\ \A d \in SessionIds : cores'[d].made = cores[d].made /\ cores'[d].held = cores[d].held
      /\ \A d \in SessionIds : cores'[d].from = cores[d].from /\ cores'[d].doc = cores[d].doc
      /\ \A d \in SessionIds \ {c} : cores'[d] = cores[d]
      /\ cores'[c].room = 0
  <2>1. CASE r = 0
    BY <1>1, <2>1 DEF RoomsInv, RoomsType
  <2>2. CASE r # 0
    <3> PICK z \in RoomIds \cup {0} : z = 0
      OBVIOUS
    <3>1. cores' = [cores EXCEPT ![c].room = z]
      BY <1>1, <2>2
    <3>2. RoomsType /\ c \in SessionIds
      BY <1>2 DEF RoomsInv
    <3>3. /\ DOMAIN cores' = SessionIds /\ \A d \in SessionIds : IsCore(cores'[d])
          /\ \A d \in SessionIds : cores'[d].made = cores[d].made /\ cores'[d].held = cores[d].held
          /\ \A d \in SessionIds : cores'[d].from = cores[d].from /\ cores'[d].doc = cores[d].doc
          /\ cores'[c].room = z /\ \A d \in SessionIds \ {c} : cores'[d] = cores[d]
      BY <3>1, <3>2, RoomIs
    <3> QED
      BY <3>3
  <2> QED
    BY <2>1, <2>2
<1>6. /\ DOMAIN rooms' = RoomIds /\ \A q \in RoomIds : IsRoom(rooms'[q]) /\ NoMore(q)
      /\ (r # 0 => ~rooms'[r].live)
      /\ DOMAIN disk' = DOMAIN disk /\ IsSnap(disk'.snap) /\ disk'.out = disk.out
      /\ disk'.snap = disk.snap \/ \E q \in RoomIds : FlushedFrom(q)
  <2>1. CASE r = 0
    BY <1>1, <2>1 DEF NoMore, Taken, Running, RoomsInv, RoomsType
  <2>2. CASE r # 0
    <3>1. r \in RoomIds /\ rooms' = Dropped(r, TRUE)
          /\ disk' = [disk EXCEPT !.snap = FlushTo(disk.snap, r, TRUE)]
      BY <1>1, <1>4, <2>2
    <3>2. DroppedAt(r)
      BY <3>1, DroppedIs DEF RoomsInv
    <3>3. disk'.snap = disk.snap \/ FlushedFrom(r)
      BY <1>2, <1>4, <2>2, <3>2 DEF DroppedAt, FlushedFrom
    <3> QED
      BY <3>1, <3>2, <3>3 DEF DroppedAt
  <2> QED
    BY <2>1, <2>2
<1>7. RoomsType'
  BY <1>1, <1>3, <1>5, <1>6 DEF RoomsInv, RoomsType
<1>8. \A d \in SessionIds : (Alive(d)' => Alive(d)) /\ (d # c => (Alive(d) => Alive(d)'))
  <2> SUFFICES ASSUME NEW d \in SessionIds
               PROVE (Alive(d)' => Alive(d)) /\ (d # c => (Alive(d) => Alive(d)'))
    OBVIOUS
  <2>1. d # 0
    BY IdsPositive
  <2> QED
    BY <1>1, <1>3, <1>5, <2>1 DEF Alive, UsedBy
<1>9. ThreadsTrue'
  <2>1. ASSUME NEW u \in Threads, Reading(u)' PROVE AloneWith(u, thread[u].core)'
    <3>1. u # "ui" /\ thread'[u] = thread[u] /\ Reading(u) /\ AloneWith(u, thread[u].core)
      BY <1>3, <2>1 DEF Reading, RoomsInv, ThreadsTrue
    <3> DEFINE d == thread[u].core
    <3>2. d \in SessionIds \ {c} /\ d # 0
      BY <3>1, IdsPositive DEF RoomsInv, ThreadsTrue, RoomsType, IsThread, Reading, AloneWith
    <3>3. table' # d /\ cores'[d] = cores[d] /\ \A v \in Threads \ {u} : thread'[v].core # d
      BY <1>1, <1>3, <1>5, <3>1, <3>2 DEF AloneWith
    <3>4. \A q \in RoomIds : rooms'[q].core # d
      BY <1>6, <3>1 DEF AloneWith, NoMore
    <3> QED
      BY <3>1, <3>3, <3>4 DEF AloneWith
  <2>2. \A u \in Threads : thread'[u].pc = "place" =>
           thread'[u].room \in RoomIds /\ rooms'[thread'[u].room].core = thread'[u].core
    BY <1>3, <1>6 DEF RoomsInv, ThreadsTrue, NoMore
  <2>3. ASSUME NEW u \in Threads
        PROVE /\ thread'[u].pc \in {"outbox", "insert", "ensure", "start", "place", "return", "close"}
                   => thread'[u].core # 0
              /\ thread'[u].pc \in {"idle", "load", "unlist", "erase"} => thread'[u].core = 0
              /\ thread'[u].pc \in {"unlist", "close", "erase"} => past'.wiped /\ chatRow' = "gone"
    BY <1>1, <1>2, <1>3 DEF RoomsInv, ThreadsTrue
  <2> QED
    BY <2>1, <2>2, <2>3 DEF ThreadsTrue
<1>10. \A d \in SessionIds : SameOrFreed(d)
  BY <1>5, <1>8 DEF SameOrFreed
<1>11. \A d \in SessionIds : cores'[d].room # 0 => rooms'[cores'[d].room].core = d
  BY <1>5, <1>6 DEF RoomsInv, HomesTrue, NoMore, RoomsType, IsCore
<1>12. ASSUME NEW q \in RoomIds, rooms'[q].live
       PROVE  Alive(rooms[q].core)' /\ (cores'[rooms'[q].core].room = q \/ Placing(q)')
  <2> PICK d : d = rooms[q].core
    OBVIOUS
  <2>1. rooms'[q].core = d /\ rooms[q].live /\ d \in SessionIds
        /\ Alive(d) /\ (cores[d].room = q \/ Placing(q))
    BY <1>6, <1>12 DEF NoMore, RoomsInv, HomesTrue, RoomsType, IsRoom
  <2>2. Placing(q) => Placing(q)' /\ \E u \in Threads : thread'[u].core = d
    BY <1>1, <1>3, <2>1 DEF Placing, RoomsInv, ThreadsTrue
  <2>3. d = c => Placing(q)
    BY <1>4, <1>6, <1>12, <2>1
  <2>4. Alive(d)'
    BY <1>8, <2>1, <2>2, <2>3 DEF Alive, UsedBy
  <2>5. Alive(rooms[q].core)'
    BY <2>1, <2>4 DEF Alive, UsedBy
  <2> QED
    BY <1>5, <2>1, <2>2, <2>3, <2>5
<1>13. ASSUME NEW d \in SessionIds, Between(d)' PROVE Between(d)
  <2>1. Alive(d) /\ cores[d].made
    BY <1>5, <1>8, <1>13 DEF Between
  <2>2. ~\E u \in Threads : thread[u].core = d /\ thread[u].pc = "outbox"
    BY <1>1, <1>3, <1>13 DEF Between
  <2>3. MayJoin(d)
    BY <1>1, <1>2, <1>3, <1>6, <1>13 DEF Between, MayJoin, NoMore
  <2> QED
    BY <2>1, <2>2, <2>3 DEF Between
<1> QED
  BY <1>1, <1>6, <1>7, <1>9, <1>10, <1>11, <1>12, <1>13, LeaveKeeps

(* The room takes its place, or another is there and it is dropped. *)
LEMMA PlaceKeeps ==
  ASSUME RoomsInv, NEW t \in Threads, PlaceRoom(t)
  PROVE  RoomsInv'
<1> PICK c \in SessionIds \cup {0} : c = thread[t].core
  BY DEF RoomsInv, RoomsType, IsThread
<1> PICK r : r = thread[t].room
  OBVIOUS
<1>1. /\ thread[t].pc = "place" /\ Go(t, "return") /\ UNCHANGED <<chatRow, edge, table, past>>
      /\ \/ /\ cores[c].room = 0
            /\ cores' = [cores EXCEPT ![c].room = r]
            /\ UNCHANGED <<rooms, disk>>
         \/ /\ cores[c].room # 0
            /\ rooms' = Dropped(r, TRUE)
            /\ disk' = [disk EXCEPT !.snap = FlushTo(disk.snap, r, TRUE)]
            /\ UNCHANGED cores
  BY DEF PlaceRoom
<1>2. c \in SessionIds /\ c # 0 /\ Alive(c) /\ r \in RoomIds /\ rooms[r].core = c
  BY <1>1 DEF RoomsInv, ThreadsTrue, Alive, UsedBy
<1>3. /\ DOMAIN thread' = Threads /\ \A u \in Threads : IsThread(thread'[u])
      /\ \A u \in Threads : thread'[u].core = thread[u].core /\ thread'[u].room = thread[u].room
      /\ thread'[t].pc = "return" /\ \A u \in Threads \ {t} : thread'[u].pc = thread[u].pc
  BY <1>1, GoIs DEF RoomsInv
<1>4. r # 0
  BY <1>2, IdsPositive
<1>5. /\ DOMAIN cores' = SessionIds /\ \A d \in SessionIds : IsCore(cores'[d])
      /\ \A d \in SessionIds : cores'[d].made = cores[d].made /\ cores'[d].held = cores[d].held
      /\ \A d \in SessionIds : cores'[d].from = cores[d].from /\ cores'[d].doc = cores[d].doc
      /\ \A d \in SessionIds \ {c} : cores'[d] = cores[d]
      /\ cores'[c].room = cores[c].room \/ (cores[c].room = 0 /\ cores'[c].room = r)
  <2>1. CASE cores' = cores
    BY <2>1 DEF RoomsInv, RoomsType
  <2>2. CASE cores[c].room = 0 /\ cores' = [cores EXCEPT ![c].room = r]
    <3>1. r \in RoomIds \cup {0}
      BY <1>2
    <3> QED
      BY <1>2, <2>2, <3>1, RoomIs DEF RoomsInv
  <2> QED
    BY <1>1, <2>1, <2>2
<1>6. /\ DOMAIN rooms' = RoomIds /\ \A q \in RoomIds : IsRoom(rooms'[q]) /\ NoMore(q)
      /\ cores'[c].room = r \/ ~rooms'[r].live
      /\ DOMAIN disk' = DOMAIN disk /\ IsSnap(disk'.snap) /\ disk'.out = disk.out
      /\ disk'.snap = disk.snap \/ \E q \in RoomIds : FlushedFrom(q)
  <2>1. CASE UNCHANGED <<rooms, disk>> /\ cores' = [cores EXCEPT ![c].room = r]
    BY <1>2, <2>1 DEF NoMore, Taken, Running, RoomsInv, RoomsType
  <2>2. CASE rooms' = Dropped(r, TRUE) /\ disk' = [disk EXCEPT !.snap = FlushTo(disk.snap, r, TRUE)]
    <3>2. DroppedAt(r)
      BY <1>2, <2>2, DroppedIs DEF RoomsInv
    <3>3. disk'.snap = disk.snap \/ FlushedFrom(r)
      BY <1>2, <3>2 DEF DroppedAt, FlushedFrom
    <3> QED
      BY <1>2, <3>2, <3>3 DEF DroppedAt
  <2> QED
    BY <1>1, <2>1, <2>2
<1>7. RoomsType'
  BY <1>1, <1>3, <1>5, <1>6 DEF RoomsInv, RoomsType
<1>8. \A d \in SessionIds : Alive(d)' <=> Alive(d)
  BY <1>1, <1>3, <1>5 DEF Alive, UsedBy
<1>9. ThreadsTrue'
  <2>1. ASSUME NEW u \in Threads, Reading(u)' PROVE AloneWith(u, thread[u].core)'
    <3>1. u # t /\ Reading(u) /\ AloneWith(u, thread[u].core) /\ thread'[u].core = thread[u].core
      BY <1>3, <2>1 DEF Reading, RoomsInv, ThreadsTrue
    <3> DEFINE d == thread[u].core
    <3>2. d \in SessionIds \ {c} /\ d # 0
      BY <3>1, IdsPositive DEF RoomsInv, ThreadsTrue, RoomsType, IsThread, Reading, AloneWith
    <3>3. table' # d /\ cores'[d] = cores[d] /\ \A v \in Threads \ {u} : thread'[v].core # d
      BY <1>1, <1>3, <1>5, <3>1, <3>2 DEF AloneWith
    <3>4. \A q \in RoomIds : rooms'[q].core # d
      BY <1>6, <3>1 DEF AloneWith, NoMore
    <3> QED
      BY <3>1, <3>3, <3>4 DEF AloneWith
  <2>2. \A u \in Threads : thread'[u].pc = "place" =>
           thread'[u].room \in RoomIds /\ rooms'[thread'[u].room].core = thread'[u].core
    BY <1>3, <1>6 DEF RoomsInv, ThreadsTrue, NoMore
  <2>3. ASSUME NEW u \in Threads
        PROVE /\ thread'[u].pc \in {"outbox", "insert", "ensure", "start", "place", "return", "close"}
                   => thread'[u].core # 0
              /\ thread'[u].pc \in {"idle", "load", "unlist", "erase"} => thread'[u].core = 0
              /\ thread'[u].pc \in {"unlist", "close", "erase"} => past'.wiped /\ chatRow' = "gone"
    BY <1>1, <1>2, <1>3 DEF RoomsInv, ThreadsTrue
  <2> QED
    BY <2>1, <2>2, <2>3 DEF ThreadsTrue
<1>10. \A d \in SessionIds : SameOrFreed(d)
  BY <1>5, <1>8 DEF SameOrFreed
<1>11. \A d \in SessionIds : cores'[d].room # 0 => rooms'[cores'[d].room].core = d
  BY <1>2, <1>5, <1>6 DEF RoomsInv, HomesTrue, NoMore, RoomsType, IsCore
<1>12. ASSUME NEW q \in RoomIds, rooms'[q].live
       PROVE  Alive(rooms[q].core)' /\ (cores'[rooms'[q].core].room = q \/ Placing(q)')
  <2> PICK d : d = rooms[q].core
    OBVIOUS
  <2>1. rooms'[q].core = d /\ rooms[q].live /\ d \in SessionIds
        /\ Alive(d) /\ (cores[d].room = q \/ Placing(q))
    BY <1>6, <1>12 DEF NoMore, RoomsInv, HomesTrue, RoomsType, IsRoom
  <2>2. Alive(rooms[q].core)'
    BY <1>8, <2>1 DEF Alive, UsedBy
  <2>3. CASE q = r
    BY <1>2, <1>6, <1>12, <2>1, <2>2, <2>3
  <2>4. CASE q # r
    <3>1. Placing(q) => Placing(q)'
      BY <1>3, <2>4 DEF Placing
    <3>2. cores[d].room = q => cores'[d].room = q
      BY <1>5, <2>1, <2>4, IdsPositive
    <3> QED
      BY <2>1, <2>2, <3>1, <3>2
  <2> QED
    BY <2>3, <2>4
<1>13. ASSUME NEW d \in SessionIds, Between(d)' PROVE Between(d)
  <2>1. Alive(d) /\ cores[d].made
    BY <1>5, <1>8, <1>13 DEF Between
  <2>2. ~\E u \in Threads : thread[u].core = d /\ thread[u].pc = "outbox"
    BY <1>1, <1>3, <1>13 DEF Between
  <2>3. MayJoin(d)
    BY <1>1, <1>3, <1>4, <1>5, <1>6, <1>13 DEF Between, MayJoin, NoMore
  <2> QED
    BY <2>1, <2>2, <2>3 DEF Between
<1> QED
  BY <1>1, <1>6, <1>7, <1>9, <1>10, <1>11, <1>12, <1>13, LeaveKeeps

------------------------------------------------------------------------------
(* The tasks of a room. *)
LessRoom(a, b) ==
  /\ b.core = a.core /\ (b.cur = a.cur \/ b.cur = 0)
  /\ b.queue \subseteq a.queue /\ b.unsent \subseteq a.unsent
  /\ (b.saver => a.saver) /\ (b.live => a.live)
  /\ b.client \in {"up", "closing"} => a.client \in {"up", "closing"}
  /\ b.client = "none" => a.client = "none"

(* What is left of a room of which nothing runs holds no more than the room did. *)
LEMMA RestIs ==
  ASSUME NEW rm, IsRoom(rm)
  PROVE  IsRoom(Rest(rm)) /\ LessRoom(rm, Rest(rm))
<1> DEFINE left == [NoRoom EXCEPT !.core = rm.core, !.client = "off"]
<1>1. /\ IsRoom(left) /\ left.core = rm.core /\ left.cur = 0 /\ left.queue = {} /\ left.unsent = {}
      /\ ~left.saver /\ ~left.live /\ left.client = "off"
  BY DEF NoRoom, IsRoom
<1>2. Rest(rm) = rm \/ Rest(rm) = left
  BY DEF Rest
<1> HIDE DEF left
<1> QED
  BY <1>1, <1>2 DEF LessRoom

(* A room with less in it, put in its place. *)
LEMMA LessRoomIs ==
  ASSUME RoomsType, NEW r \in RoomIds, NEW rm, IsRoom(rm), LessRoom(rooms[r], rm),
         rooms' = [rooms EXCEPT ![r] = rm]
  PROVE  DOMAIN rooms' = RoomIds /\ \A q \in RoomIds : IsRoom(rooms'[q]) /\ NoMore(q)
<1>1. /\ DOMAIN rooms' = RoomIds /\ rooms'[r] = rm /\ \A q \in RoomIds \ {r} : rooms'[q] = rooms[q]
  BY DEF RoomsType
<1>2. IsRoom(rooms'[r]) /\ NoMore(r)
  BY <1>1 DEF NoMore, Taken, Running, LessRoom
<1>3. \A q \in RoomIds \ {r} : IsRoom(rooms'[q]) /\ NoMore(q)
  BY <1>1 DEF NoMore, Taken, Running, RoomsType
<1> QED
  BY <1>1, <1>2, <1>3

(* A flush leaves the snapshot, or writes the document and the cursor of a room. *)
LEMMA FlushIs ==
  ASSUME RoomsType, NEW r \in RoomIds, NEW alive,
         disk' = [disk EXCEPT !.snap = FlushTo(disk.snap, r, alive)]
  PROVE  /\ DOMAIN disk' = DOMAIN disk /\ IsSnap(disk'.snap) /\ disk'.out = disk.out
         /\ \/ disk'.snap = disk.snap
            \/ alive /\ disk'.snap.doc = cores[rooms[r].core].doc /\ disk'.snap.cur = rooms[r].cur
<1> DEFINE snap == FlushTo(disk.snap, r, alive)
<1>1. snap = disk.snap \/ (/\ alive /\ IsSnap(snap) /\ snap.doc = cores[rooms[r].core].doc
                           /\ snap.cur = rooms[r].cur)
  BY DEF FlushTo, IsSnap, RoomsType, IsRoom
<1> HIDE DEF snap
<1>2. DOMAIN disk' = DOMAIN disk /\ disk'.snap = snap /\ disk'.out = disk.out
  BY DEF RoomsType, snap
<1> QED
  BY <1>1, <1>2 DEF RoomsType

(* The steps of a task of a room that take away from it, and may flush. *)
LEMMA TaskKeeps ==
  ASSUME RoomsInv, UNCHANGED <<chatRow, edge, cores, table, thread, past>>,
         DOMAIN rooms' = RoomIds, \A q \in RoomIds : IsRoom(rooms'[q]) /\ NoMore(q),
         DOMAIN disk' = DOMAIN disk, IsSnap(disk'.snap), disk'.out = disk.out,
         disk'.snap = disk.snap \/ \E q \in RoomIds : FlushedFrom(q)
  PROVE  RoomsInv'
<1>1. RoomsType'
  BY DEF RoomsInv, RoomsType
<1>2. ThreadsTrue'
  BY DEF RoomsInv, ThreadsTrue, Reading, AloneWith, NoMore
<1>3. \A c \in SessionIds : Alive(c)' <=> Alive(c)
  BY DEF Alive, UsedBy
<1>4. \A c \in SessionIds : SameOrFreed(c)
  BY <1>3 DEF SameOrFreed
<1>5. \A c \in SessionIds : cores'[c].room # 0 => rooms'[cores'[c].room].core = c
  BY DEF RoomsInv, RoomsType, IsCore, HomesTrue, NoMore
<1>6. ASSUME NEW r \in RoomIds, rooms'[r].live
      PROVE  Alive(rooms[r].core)' /\ (cores'[rooms'[r].core].room = r \/ Placing(r)')
  <2>1. rooms'[r].core = rooms[r].core /\ Alive(rooms[r].core)
        /\ (cores[rooms[r].core].room = r \/ Placing(r))
    BY <1>6 DEF RoomsInv, HomesTrue, NoMore
  <2> QED
    BY <2>1 DEF Placing, Alive, UsedBy
<1>7. \A c \in SessionIds : Between(c)' => Between(c)
  BY <1>3 DEF Between, MayJoin, NoMore
<1> QED
  BY <1>1, <1>2, <1>4, <1>5, <1>6, <1>7, LeaveKeeps

(* The saver flushes. *)
LEMMA SaveKeeps ==
  ASSUME RoomsInv, NEW r \in RoomIds, Save(r)
  PROVE  RoomsInv'
<1> DEFINE rm == [rooms[r] EXCEPT !.dirty = FALSE]
<1>1. /\ rooms[r].live /\ rooms' = [rooms EXCEPT ![r] = rm]
      /\ disk' = [disk EXCEPT !.snap = FlushTo(disk.snap, r, TRUE)]
      /\ UNCHANGED <<chatRow, edge, cores, table, thread, past>>
  BY DEF Save
<1>2. IsRoom(rm) /\ LessRoom(rooms[r], rm)
  BY DEF RoomsInv, RoomsType, IsRoom, LessRoom
<1> HIDE DEF rm
<1>3. DOMAIN rooms' = RoomIds /\ \A q \in RoomIds : IsRoom(rooms'[q]) /\ NoMore(q)
  BY <1>1, <1>2, LessRoomIs DEF RoomsInv
<1>4. rooms[r].core # 0 /\ Alive(rooms[r].core)
  BY <1>1 DEF RoomsInv, HomesTrue
<1>5. /\ DOMAIN disk' = DOMAIN disk /\ IsSnap(disk'.snap) /\ disk'.out = disk.out
      /\ disk'.snap = disk.snap \/ FlushedFrom(r)
  BY <1>1, <1>4, FlushIs DEF RoomsInv, FlushedFrom
<1> QED
  BY <1>1, <1>3, <1>5, TaskKeeps

(* The saver ends, with a last flush if the document is there. *)
LEMMA SaverEndsKeeps ==
  ASSUME RoomsInv, NEW r \in RoomIds, SaverEnds(r)
  PROVE  RoomsInv'
<1> DEFINE rm == [rooms[r] EXCEPT !.saver = FALSE, !.dirty = FALSE]
<1> PICK alive : alive = Alive(rooms[r].core)
  OBVIOUS
<1>1. /\ rooms[r].saver /\ rooms' = [rooms EXCEPT ![r] = Rest(rm)]
      /\ disk' = [disk EXCEPT !.snap = FlushTo(disk.snap, r, alive)]
      /\ UNCHANGED <<chatRow, edge, cores, table, thread, past>>
  BY DEF SaverEnds
<1>2. IsRoom(rm) /\ LessRoom(rooms[r], rm)
  BY DEF RoomsInv, RoomsType, IsRoom, LessRoom
<1> HIDE DEF rm
<1>3. IsRoom(Rest(rm)) /\ LessRoom(rooms[r], Rest(rm))
  BY <1>2, RestIs DEF LessRoom
<1>4. DOMAIN rooms' = RoomIds /\ \A q \in RoomIds : IsRoom(rooms'[q]) /\ NoMore(q)
  BY <1>1, <1>3, LessRoomIs DEF RoomsInv
<1>5. rooms[r].core # 0
  BY <1>1 DEF RoomsInv, HomesTrue
<1>6. /\ DOMAIN disk' = DOMAIN disk /\ IsSnap(disk'.snap) /\ disk'.out = disk.out
      /\ disk'.snap = disk.snap \/ FlushedFrom(r)
  BY <1>1, <1>5, FlushIs DEF RoomsInv, FlushedFrom
<1> QED
  BY <1>1, <1>4, <1>6, TaskKeeps

(* The client of a dropped room ends. *)
LEMMA ClientEndsKeeps ==
  ASSUME RoomsInv, NEW r \in RoomIds, ClientEnds(r)
  PROVE  RoomsInv'
<1> DEFINE rm == [rooms[r] EXCEPT !.client = "off"]
<1>1. /\ rooms' = [rooms EXCEPT ![r] = Rest(rm)]
      /\ UNCHANGED <<chatRow, disk, edge, cores, table, thread, past>>
  BY DEF ClientEnds
<1>2. IsRoom(rm) /\ LessRoom(rooms[r], rm)
  BY DEF RoomsInv, RoomsType, IsRoom, LessRoom
<1> HIDE DEF rm
<1>3. IsRoom(Rest(rm)) /\ LessRoom(rooms[r], Rest(rm))
  BY <1>2, RestIs DEF LessRoom
<1>4. DOMAIN rooms' = RoomIds /\ \A q \in RoomIds : IsRoom(rooms'[q]) /\ NoMore(q)
  BY <1>1, <1>3, LessRoomIs DEF RoomsInv
<1>5. IsSnap(disk'.snap)
  BY <1>1 DEF RoomsInv, RoomsType
<1> QED
  BY <1>1, <1>4, <1>5, TaskKeeps

------------------------------------------------------------------------------
(* Steps after which everyone refers to what they did. *)
SameHomes ==
  /\ UNCHANGED <<chatRow, table, thread>> /\ past'.wiped = past.wiped
  /\ \A c \in SessionIds : /\ cores'[c].made = cores[c].made /\ cores'[c].held = cores[c].held
                           /\ cores'[c].room = cores[c].room
  /\ \A r \in RoomIds : /\ rooms'[r].core = rooms[r].core /\ rooms'[r].live = rooms[r].live
                        /\ rooms'[r].saver = rooms[r].saver
                        /\ Running(r)' => Running(r) \/ rooms[r].live
                        /\ rooms'[r].client = "none" => rooms[r].client = "none"

(* After such steps threads, homes and waiting sessions are as they were. *)
LEMMA HomesStay ==
  ASSUME RoomsInv, SameHomes
  PROVE  /\ ThreadsTrue' /\ HomesTrue' /\ \A c \in SessionIds : Alive(c)' <=> Alive(c)
         /\ \A c \in SessionIds : Between(c)' => Between(c)
<1>1. \A c \in SessionIds : Alive(c)' <=> Alive(c)
  BY DEF SameHomes, Alive, UsedBy
<1>2. ThreadsTrue'
  <2>1. ASSUME NEW u \in Threads, Reading(u)' PROVE AloneWith(u, thread[u].core)'
    <3>1. Reading(u) /\ AloneWith(u, thread[u].core) /\ thread[u].core \in SessionIds
      BY <2>1 DEF SameHomes, Reading, RoomsInv, ThreadsTrue, RoomsType, IsThread
    <3> QED
      BY <3>1 DEF AloneWith, SameHomes
  <2>2. ASSUME NEW u \in Threads
        PROVE /\ thread'[u].pc \in {"outbox", "insert", "ensure", "start", "place", "return", "close"}
                   => thread'[u].core # 0
              /\ thread'[u].pc \in {"idle", "load", "unlist", "erase"} => thread'[u].core = 0
              /\ thread'[u].pc \in {"unlist", "close", "erase"} => past'.wiped /\ chatRow' = "gone"
              /\ thread'[u].pc = "place" =>
                   thread'[u].room \in RoomIds /\ rooms'[thread'[u].room].core = thread'[u].core
    BY DEF SameHomes, RoomsInv, ThreadsTrue
  <2> QED
    BY <2>1, <2>2 DEF ThreadsTrue
<1>3. HomesTrue'
  <2>1. \A c \in SessionIds : Alive(c)' => cores'[c].made
    BY <1>1 DEF RoomsInv, HomesTrue, SameHomes
  <2>2. \A c \in SessionIds : cores'[c].room # 0 => rooms'[cores'[c].room].core = c
    BY DEF RoomsInv, HomesTrue, SameHomes, RoomsType, IsCore
  <2>3. ASSUME NEW r \in RoomIds
        PROVE  /\ rooms'[r].core # 0 => cores'[rooms'[r].core].made
               /\ rooms'[r].live \/ rooms'[r].saver \/ Running(r)' => rooms'[r].core # 0
    BY DEF RoomsInv, HomesTrue, SameHomes, RoomsType, IsRoom
  <2>4. ASSUME NEW r \in RoomIds, rooms'[r].live
        PROVE  Alive(rooms[r].core)' /\ (cores'[rooms'[r].core].room = r \/ Placing(r)')
    <3> PICK d : d = rooms[r].core
      OBVIOUS
    <3>1. d \in SessionIds /\ rooms'[r].core = d /\ Alive(d) /\ (cores[d].room = r \/ Placing(r))
      BY <2>4 DEF SameHomes, RoomsInv, HomesTrue, RoomsType, IsRoom
    <3>2. Alive(d)' /\ (Placing(r) => Placing(r)')
      BY <1>1, <3>1 DEF Placing, SameHomes
    <3> QED
      BY <3>1, <3>2 DEF Alive, UsedBy, SameHomes
  <2> QED
    BY <2>1, <2>2, <2>3, <2>4 DEF HomesTrue
<1>4. \A c \in SessionIds : Between(c)' => Between(c)
  BY <1>1 DEF Between, MayJoin, SameHomes
<1> QED
  BY <1>1, <1>2, <1>3, <1>4

(* A row of another device extends the edge past every cursor. *)
LEMMA PeerRowKeeps ==
  ASSUME RoomsInv, PeerRow
  PROVE  RoomsInv'
<1> DEFINE x == <<MaxSends + past.peers + 1, 0>>
<1>1. /\ past' = [past EXCEPT !.peers = past.peers + 1] /\ edge' = Append(edge, x)
      /\ UNCHANGED <<chatRow, disk, cores, rooms, table, thread>>
  BY DEF PeerRow
<1> HIDE DEF x
<1>2. /\ IsSeq(edge') /\ Extends(edge, edge') /\ DOMAIN edge' = DOMAIN edge \cup {Len(edge) + 1}
      /\ DOMAIN edge = 1..Len(edge)
  BY <1>1, AppendExtends, ExtendsSelf DEF RoomsInv, RoomsType
<1>3. /\ DOMAIN past' = DOMAIN past /\ past'.sent = past.sent /\ past'.bare = past.bare
      /\ past'.missed = past.missed /\ past'.wiped = past.wiped
  BY <1>1 DEF RoomsInv, RoomsType
<1>4. RoomsType'
  BY <1>1, <1>2, <1>3 DEF RoomsInv, RoomsType
<1>5. SameHomes
  BY <1>1, <1>3 DEF SameHomes, Running
<1>6. /\ ThreadsTrue' /\ HomesTrue' /\ (\A c \in SessionIds : Alive(c)' <=> Alive(c))
      /\ \A c \in SessionIds : Between(c)' => Between(c)
  BY <1>5, HomesStay
<1>7. WithinEdge'
  BY <1>1, <1>2 DEF RoomsInv, WithinEdge, Extends, RoomsType, IsSnap, IsCore, IsRoom
<1>8. Outbox' = Outbox /\ Written \subseteq Written'
  BY <1>1, <1>2 DEF Outbox, Written, Extends
<1>9. HeardKept'
  BY <1>3, <1>8 DEF RoomsInv, HeardKept
<1>10. past'.missed \/ DocsTrue'
  <2> SUFFICES ASSUME DocsTrue PROVE DocsTrue'
    BY <1>3 DEF RoomsInv
  <2>1. (\A c \in SessionIds : Grown(c)) /\ \A r \in RoomIds : SameRoom(r)
    BY <1>1 DEF Grown, SameRoom, Taken
  <2>2. disk'.snap = disk.snap
    BY <1>1
  <2> QED
    BY <1>2, <1>4, <1>6, <1>8, <2>1, <2>2, DocsKeep DEF RoomsInv
<1> QED
  BY <1>4, <1>6, <1>7, <1>9, <1>10 DEF RoomsInv

(* What is on disk is erased: an empty snapshot covers nothing. *)
LEMMA DeleteSnapshotKeeps ==
  ASSUME RoomsInv, DeleteSnapshot
  PROVE  RoomsInv'
<1> "ui" \in Threads
  BY DEF Threads
<1>1. /\ thread["ui"].pc = "erase" /\ UNCHANGED <<chatRow, edge, cores, rooms, table, past>>
      /\ thread' = [thread EXCEPT !["ui"] = [pc |-> "idle", core |-> 0, room |-> 0]]
      /\ disk'.snap = NoSnap /\ disk'.out = {} /\ DOMAIN disk' = {"snap", "out"}
  BY DEF DeleteSnapshot, Waiting
<1>2. /\ DOMAIN thread' = Threads /\ \A u \in Threads : IsThread(thread'[u])
      /\ thread'["ui"].core = 0 /\ thread'["ui"].pc = "idle"
      /\ \A u \in Threads \ {"ui"} : thread'[u] = thread[u]
  <2>1. 0 \in SessionIds \cup {0}
    OBVIOUS
  <2> QED
    BY <1>1, <2>1, SetThread DEF RoomsInv
<1>3. thread["ui"].core = 0 /\ past.wiped
  BY <1>1 DEF RoomsInv, ThreadsTrue
<1>4. IsSnap(NoSnap) /\ NoSnap.cur = 0 /\ IsSnap(disk'.snap) /\ disk'.snap.cur = 0
  BY <1>1 DEF NoSnap, IsSnap
<1>5. RoomsType'
  BY <1>1, <1>2, <1>4 DEF RoomsInv, RoomsType
<1>6. \A c \in SessionIds : Alive(c)' <=> Alive(c)
  BY <1>1, <1>2, <1>3, IdsPositive DEF Alive, UsedBy
<1>7. ThreadsTrue'
  <2>1. ASSUME NEW u \in Threads, Reading(u)' PROVE AloneWith(u, thread[u].core)'
    <3>1. u # "ui" /\ Reading(u) /\ AloneWith(u, thread[u].core) /\ thread'[u].core = thread[u].core
          /\ thread[u].core # 0
      BY <1>2, <2>1 DEF Reading, RoomsInv, ThreadsTrue
    <3> QED
      BY <1>1, <1>2, <3>1 DEF AloneWith
  <2>2. ASSUME NEW u \in Threads
        PROVE /\ thread'[u].pc \in {"outbox", "insert", "ensure", "start", "place", "return", "close"}
                   => thread'[u].core # 0
              /\ thread'[u].pc \in {"idle", "load", "unlist", "erase"} => thread'[u].core = 0
              /\ thread'[u].pc \in {"unlist", "close", "erase"} => past'.wiped /\ chatRow' = "gone"
              /\ thread'[u].pc = "place" =>
                   thread'[u].room \in RoomIds /\ rooms'[thread'[u].room].core = thread'[u].core
    BY <1>1, <1>2, <1>3 DEF RoomsInv, ThreadsTrue
  <2> QED
    BY <2>1, <2>2 DEF ThreadsTrue
<1>8. HomesTrue'
  <2>1. \A r \in RoomIds : Placing(r) => Placing(r)'
    BY <1>1, <1>2 DEF Placing
  <2>2. \A r \in RoomIds : rooms[r].live => Alive(rooms[r].core)'
    <3> SUFFICES ASSUME NEW r \in RoomIds, rooms[r].live PROVE Alive(rooms[r].core)'
      OBVIOUS
    <3> PICK d : d = rooms[r].core
      OBVIOUS
    <3>1. d \in SessionIds /\ Alive(d)
      BY DEF RoomsInv, HomesTrue, RoomsType, IsRoom
    <3> QED
      BY <1>1, <1>6, <3>1 DEF Alive, UsedBy
  <2> QED
    BY <1>1, <1>6, <2>1, <2>2 DEF RoomsInv, HomesTrue, Running
<1>9. WithinEdge' /\ HeardKept'
  BY <1>1, <1>3, <1>4 DEF RoomsInv, WithinEdge, HeardKept, RoomsType, IsSeq
<1>10. past'.missed \/ DocsTrue'
  <2> SUFFICES ASSUME DocsTrue PROVE DocsTrue'
    BY <1>1 DEF RoomsInv
  <2>1. (\A c \in SessionIds : Grown(c)) /\ \A r \in RoomIds : SameRoom(r)
    BY <1>1 DEF Grown, SameRoom, Taken
  <2>2. Covers(edge', disk'.snap.cur, disk'.snap.doc)
    BY <1>4 DEF Covers
  <2>3. Outbox' = {} /\ Extends(edge, edge')
    BY <1>1, ExtendsSelf DEF Outbox, RoomsInv, RoomsType
  <2> QED
    BY <1>5, <1>6, <2>1, <2>2, <2>3, DocsKeep DEF RoomsInv
<1> QED
  BY <1>5, <1>7, <1>8, <1>9, <1>10 DEF RoomsInv

(* The room takes over the outbox.  It is live and has no client yet, so that
   the document of its session has the edits of the outbox (`Between`).      *)
LEMMA JoinKeeps ==
  ASSUME RoomsInv, NEW r \in RoomIds, Join(r)
  PROVE  RoomsInv'
<1> DEFINE rm == [rooms[r] EXCEPT !.client = "up", !.unsent = {},
                                  !.queue = disk.out \cup rooms[r].unsent]
<1>1. /\ rooms[r].live /\ rooms[r].client = "none" /\ rooms' = [rooms EXCEPT ![r] = rm]
      /\ UNCHANGED <<chatRow, disk, edge, cores, table, thread, past>>
  BY DEF Join
<1>2. /\ IsRoom(rm) /\ rm.core = rooms[r].core /\ rm.live /\ rm.saver = rooms[r].saver
      /\ rm.cur = rooms[r].cur /\ rm.client = "up" /\ rm.unsent = {}
      /\ rm.queue = disk.out \cup rooms[r].unsent
  BY <1>1 DEF RoomsInv, RoomsType, IsRoom
<1> HIDE DEF rm
<1>3. /\ DOMAIN rooms' = RoomIds /\ rooms'[r] = rm /\ \A q \in RoomIds \ {r} : rooms'[q] = rooms[q]
  BY <1>1 DEF RoomsInv, RoomsType
<1>4. RoomsType'
  BY <1>1, <1>2, <1>3 DEF RoomsInv, RoomsType
<1>5. SameHomes
  BY <1>1, <1>2, <1>3 DEF SameHomes, Running
<1>6. /\ ThreadsTrue' /\ HomesTrue' /\ (\A c \in SessionIds : Alive(c)' <=> Alive(c))
      /\ \A c \in SessionIds : Between(c)' => Between(c)
  BY <1>5, HomesStay
<1>7. WithinEdge' /\ HeardKept'
  BY <1>1, <1>2, <1>3 DEF RoomsInv, WithinEdge, HeardKept, Written, Outbox
<1> PICK c : c = rooms[r].core
  OBVIOUS
<1>8. c \in SessionIds /\ Alive(c) /\ cores[c].made /\ c # 0
  BY <1>1 DEF RoomsInv, HomesTrue, RoomsType, IsRoom
<1>9. Between(c)
  <2>1. \A t \in Threads : thread[t].pc = "outbox" => thread[t].core # c
    BY DEF RoomsInv, ThreadsTrue, Reading, AloneWith
  <2>2. MayJoin(c)
    BY <1>1 DEF MayJoin
  <2> QED
    BY <1>8, <2>1, <2>2 DEF Between
<1>10. past'.missed \/ DocsTrue'
  <2> SUFFICES ASSUME DocsTrue PROVE DocsTrue'
    BY <1>1 DEF RoomsInv
  <2>1. Outbox \subseteq cores[c].doc /\ RoomCovered(r)
    BY <1>8, <1>9 DEF DocsTrue
  <2>2. Covers(edge, rooms[r].cur, cores[c].doc) /\ \A b \in Taken(r) : b[1] \in cores[c].doc
    BY <1>8, <2>1 DEF RoomCovered
  <2>3. \A b \in Taken(r)' : b \in disk.out \/ b \in Taken(r)
    BY <1>2, <1>3 DEF Taken
  <2>4. \A b \in Taken(r)' : b[1] \in cores[c].doc
    BY <2>1, <2>2, <2>3 DEF Outbox
  <2>5. RoomCovered(r)'
    BY <1>1, <1>2, <1>3, <2>2, <2>4 DEF RoomCovered
  <2>6. \A q \in RoomIds : SameRoom(q) \/ RoomCovered(q)'
    BY <1>3, <2>5 DEF SameRoom, Taken
  <2>7. (\A d \in SessionIds : Grown(d)) /\ Outbox' = Outbox /\ disk'.snap = disk.snap
        /\ Extends(edge, edge')
    BY <1>1, ExtendsSelf DEF Grown, Outbox, RoomsInv, RoomsType
  <2> QED
    BY <1>4, <1>6, <2>6, <2>7, DocsKeep DEF RoomsInv
<1> QED
  BY <1>4, <1>6, <1>7, <1>10 DEF RoomsInv

(* The cursor of a room goes to n, or stays. *)
LEMMA AdvancedIs ==
  ASSUME RoomsType, NEW r \in RoomIds, NEW n \in Nat, NEW q,
         rooms' = [Advanced(r, n) EXCEPT ![r].queue = q]
  PROVE  /\ DOMAIN rooms' = RoomIds /\ \A u \in RoomIds : IsRoom(rooms'[u])
         /\ rooms'[r].core = rooms[r].core /\ rooms'[r].live = rooms[r].live
         /\ rooms'[r].saver = rooms[r].saver /\ rooms'[r].client = rooms[r].client
         /\ rooms'[r].unsent = rooms[r].unsent /\ rooms'[r].queue = q
         /\ rooms'[r].cur = IF n > rooms[r].cur THEN n ELSE rooms[r].cur
         /\ \A u \in RoomIds \ {r} : rooms'[u] = rooms[u]
<1> DEFINE cur == IF n > rooms[r].cur THEN n ELSE rooms[r].cur
           rm == [rooms[r] EXCEPT !.cur = cur, !.dirty = TRUE]
           ro == [rm EXCEPT !.queue = q]
<1>1. Advanced(r, n) = [rooms EXCEPT ![r] = rm]
  BY DEF Advanced, RoomsType, IsRoom
<1>2. cur \in Nat
  BY DEF RoomsType, IsRoom
<1> HIDE DEF cur
<1>3. /\ IsRoom(rm) /\ rm.core = rooms[r].core /\ rm.live = rooms[r].live
      /\ rm.saver = rooms[r].saver /\ rm.client = rooms[r].client
      /\ rm.unsent = rooms[r].unsent /\ rm.cur = cur
  BY <1>2 DEF RoomsType, IsRoom
<1> HIDE DEF rm
<1>4. /\ IsRoom(ro) /\ ro.core = rm.core /\ ro.live = rm.live /\ ro.saver = rm.saver
      /\ ro.client = rm.client /\ ro.unsent = rm.unsent /\ ro.cur = rm.cur /\ ro.queue = q
  BY <1>3 DEF IsRoom
<1>5. rooms' = [rooms EXCEPT ![r] = ro]
  BY <1>1 DEF RoomsType
<1> HIDE DEF ro
<1>6. DOMAIN rooms' = RoomIds /\ rooms'[r] = ro /\ \A u \in RoomIds \ {r} : rooms'[u] = rooms[u]
  BY <1>5 DEF RoomsType
<1> QED
  BY <1>3, <1>4, <1>6 DEF RoomsType, cur

(* A row goes into the document as the cursor passes it. *)
LEMMA ImportKeeps ==
  ASSUME RoomsInv, NEW r \in RoomIds, Import(r)
  PROVE  RoomsInv'
<1> PICK c : c = rooms[r].core
  OBVIOUS
<1> DEFINE n == rooms[r].cur + 1
           ds == cores[c].doc \cup {edge[n][1]}
<1>1. /\ Running(r) /\ n <= Len(edge) /\ Alive(c) /\ cores' = [cores EXCEPT ![c].doc = ds]
      /\ rooms' = Advanced(r, n) /\ UNCHANGED <<chatRow, disk, edge, table, thread, past>>
  BY DEF Import
<1>2. c \in SessionIds /\ c # 0 /\ n \in Nat /\ n > rooms[r].cur /\ rooms[r].cur \in Nat
  BY <1>1 DEF RoomsInv, HomesTrue, RoomsType, IsRoom
<1>3. /\ DOMAIN cores' = SessionIds /\ \A d \in SessionIds : IsCore(cores'[d])
      /\ \A d \in SessionIds : cores'[d].made = cores[d].made /\ cores'[d].held = cores[d].held
      /\ \A d \in SessionIds : cores'[d].from = cores[d].from /\ cores'[d].room = cores[d].room
      /\ cores'[c].doc = ds /\ \A d \in SessionIds \ {c} : cores'[d] = cores[d]
  BY <1>1, <1>2, DocIs DEF RoomsInv
<1>4. /\ DOMAIN rooms' = RoomIds /\ \A u \in RoomIds : IsRoom(rooms'[u])
      /\ rooms'[r].core = rooms[r].core /\ rooms'[r].live = rooms[r].live
      /\ rooms'[r].saver = rooms[r].saver /\ rooms'[r].client = rooms[r].client
      /\ Taken(r)' = Taken(r) /\ rooms'[r].cur = n
      /\ \A u \in RoomIds \ {r} : rooms'[u] = rooms[u]
  <2> PICK q : q = rooms[r].queue
    OBVIOUS
  <2>1. rooms' = [Advanced(r, n) EXCEPT ![r].queue = q]
    BY <1>1 DEF Advanced, RoomsInv, RoomsType, IsRoom
  <2> HIDE DEF n
  <2>2. /\ DOMAIN rooms' = RoomIds /\ \A u \in RoomIds : IsRoom(rooms'[u])
        /\ rooms'[r].core = rooms[r].core /\ rooms'[r].live = rooms[r].live
        /\ rooms'[r].saver = rooms[r].saver /\ rooms'[r].client = rooms[r].client
        /\ rooms'[r].unsent = rooms[r].unsent /\ rooms'[r].queue = q
        /\ rooms'[r].cur = IF n > rooms[r].cur THEN n ELSE rooms[r].cur
        /\ \A u \in RoomIds \ {r} : rooms'[u] = rooms[u]
    <3>1. RoomsType /\ n \in Nat
      BY <1>2 DEF RoomsInv
    <3> QED
      BY <2>1, <3>1, AdvancedIs
  <2> QED
    BY <1>2, <2>2 DEF Taken
<1> HIDE DEF n
<1>5. RoomsType'
  BY <1>1, <1>3, <1>4 DEF RoomsInv, RoomsType
<1>6. SameHomes
  BY <1>1, <1>3, <1>4 DEF SameHomes, Running
<1>7. /\ ThreadsTrue' /\ HomesTrue' /\ (\A d \in SessionIds : Alive(d)' <=> Alive(d))
      /\ \A d \in SessionIds : Between(d)' => Between(d)
  BY <1>6, HomesStay
<1>8. WithinEdge' /\ HeardKept'
  BY <1>1, <1>3, <1>4 DEF RoomsInv, WithinEdge, HeardKept, Written, Outbox
<1>9. past'.missed \/ DocsTrue'
  <2> SUFFICES ASSUME DocsTrue PROVE DocsTrue'
    BY <1>1 DEF RoomsInv
  <2>1. Covers(edge, rooms[r].cur, cores[c].doc) /\ \A b \in Taken(r) : b[1] \in cores[c].doc
    BY <1>1, <1>2 DEF DocsTrue, RoomCovered
  <2>2. Covers(edge', n, cores'[c].doc)
    <3> SUFFICES ASSUME NEW i \in 1..n PROVE edge[i][1] \in ds
      BY <1>1, <1>3 DEF Covers
    <3>1. i \in 1..rooms[r].cur \/ i = n
      BY <1>2 DEF n
    <3> QED
      BY <2>1, <3>1 DEF Covers
  <2>3. RoomCovered(r)'
    BY <1>3, <1>4, <2>1, <2>2 DEF RoomCovered
  <2>4. \A q \in RoomIds : SameRoom(q) \/ RoomCovered(q)'
    BY <1>4, <2>3 DEF SameRoom, Taken
  <2>5. \A d \in SessionIds : Grown(d)
    BY <1>3 DEF Grown
  <2>6. Outbox' = Outbox /\ disk'.snap = disk.snap /\ Extends(edge, edge')
    BY <1>1, ExtendsSelf DEF Outbox, RoomsInv, RoomsType
  <2> QED
    BY <1>5, <1>7, <2>4, <2>5, <2>6, DocsKeep DEF RoomsInv
<1> QED
  BY <1>5, <1>7, <1>8, <1>9 DEF RoomsInv

(* A batch goes to the edge before it leaves the outbox. *)
LEMMA PushAckedKeeps ==
  ASSUME RoomsInv, NEW r \in RoomIds, NEW b, PushAcked(r, b)
  PROVE  RoomsInv'
<1> DEFINE known == \E i \in DOMAIN edge : edge[i] = b
           grown == IF known THEN edge ELSE Append(edge, b)
           seq == CHOOSE i \in DOMAIN grown : grown[i] = b
           n == IF seq = rooms[r].cur + 1 THEN seq ELSE 0
           rest == rooms[r].queue \ {b}
<1>1. /\ Running(r) /\ b \in rooms[r].queue /\ edge' = grown
      /\ disk' = [disk EXCEPT !.out = disk.out \ {b}]
      /\ rooms' = [Advanced(r, n) EXCEPT ![r].queue = rest]
      /\ UNCHANGED <<chatRow, cores, table, thread, past>>
  <2>1. Advanced(r, n)[r].queue = rooms[r].queue
    BY DEF Advanced, RoomsInv, RoomsType, IsRoom
  <2> HIDE DEF n
  <2> QED
    BY <2>1 DEF PushAcked, n
<1>2. /\ IsSeq(grown) /\ Extends(edge, grown) /\ DOMAIN grown = 1..Len(grown)
      /\ \E i \in DOMAIN grown : grown[i] = b
  <2>1. CASE known
    BY <2>1, ExtendsSelf DEF RoomsInv, RoomsType
  <2>2. CASE ~known
    <3>1. grown = Append(edge, b)
      BY <2>2
    <3>2. /\ IsSeq(grown) /\ Extends(edge, grown) /\ DOMAIN grown = DOMAIN edge \cup {Len(edge) + 1}
          /\ grown[Len(edge) + 1] = b
      BY <3>1, AppendExtends DEF RoomsInv, RoomsType
    <3> HIDE DEF grown
    <3> QED
      BY <3>2, ExtendsSelf
  <2> QED
    BY <2>1, <2>2
<1> HIDE DEF grown, known
<1>3. seq \in 1..Len(grown) /\ grown[seq] = b
  BY <1>2
<1> HIDE DEF seq
<1>4. n \in Nat /\ (n = 0 \/ (n = seq /\ n = rooms[r].cur + 1)) /\ rooms[r].cur \in Nat
  BY <1>3 DEF RoomsInv, RoomsType, IsRoom
<1> HIDE DEF n, rest
<1>5. /\ DOMAIN rooms' = RoomIds /\ \A u \in RoomIds : IsRoom(rooms'[u])
      /\ rooms'[r].core = rooms[r].core /\ rooms'[r].live = rooms[r].live
      /\ rooms'[r].saver = rooms[r].saver /\ rooms'[r].client = rooms[r].client
      /\ rooms'[r].unsent = rooms[r].unsent /\ rooms'[r].queue = rest
      /\ rooms'[r].cur = IF n > rooms[r].cur THEN n ELSE rooms[r].cur
      /\ \A u \in RoomIds \ {r} : rooms'[u] = rooms[u]
  BY <1>1, <1>4, AdvancedIs DEF RoomsInv
<1>6. /\ Taken(r)' \subseteq Taken(r)
      /\ rooms'[r].cur = rooms[r].cur \/ (rooms'[r].cur = rooms[r].cur + 1 /\ rooms'[r].cur = seq)
  BY <1>4, <1>5 DEF Taken, rest
<1>7. disk'.snap = disk.snap /\ disk'.out = disk.out \ {b} /\ DOMAIN disk' = DOMAIN disk
  BY <1>1 DEF RoomsInv, RoomsType
<1>8. RoomsType'
  BY <1>1, <1>2, <1>5, <1>7 DEF RoomsInv, RoomsType
<1>9. SameHomes
  BY <1>1, <1>5 DEF SameHomes, Running
<1>10. /\ ThreadsTrue' /\ HomesTrue' /\ (\A d \in SessionIds : Alive(d)' <=> Alive(d))
       /\ \A d \in SessionIds : Between(d)' => Between(d)
  BY <1>9, HomesStay
<1>11. Extends(edge, edge') /\ DOMAIN edge = 1..Len(edge)
  BY <1>1, <1>2, ExtendsSelf DEF RoomsInv, RoomsType
<1>12. WithinEdge'
  <2>1. disk'.snap.cur <= Len(edge')
    BY <1>7, <1>11 DEF RoomsInv, WithinEdge, Extends, RoomsType, IsSnap
  <2>2. \A c \in SessionIds : cores'[c].from <= Len(edge')
    BY <1>1, <1>11 DEF RoomsInv, WithinEdge, Extends, RoomsType, IsCore
  <2>3. \A q \in RoomIds : rooms[q].cur <= Len(edge')
    BY <1>11 DEF RoomsInv, WithinEdge, Extends, RoomsType, IsRoom
  <2>4. \A q \in RoomIds : rooms'[q].cur <= Len(edge')
    BY <1>1, <1>3, <1>5, <1>6, <2>3
  <2> QED
    BY <2>1, <2>2, <2>4 DEF WithinEdge
<1>13. Outbox' \subseteq Outbox /\ Written \subseteq Written' /\ Outbox \subseteq Outbox' \cup Written'
  <2>1. Outbox' \subseteq Outbox /\ Outbox \subseteq Outbox' \cup {b[1]}
    BY <1>7 DEF Outbox
  <2>2. Written \subseteq Written' /\ b[1] \in Written'
    BY <1>1, <1>2, <1>3, <1>11 DEF Written, Extends
  <2> QED
    BY <2>1, <2>2
<1>14. HeardKept'
  BY <1>1, <1>13 DEF RoomsInv, HeardKept
<1>15. past'.missed \/ DocsTrue'
  <2> SUFFICES ASSUME DocsTrue PROVE DocsTrue'
    BY <1>1 DEF RoomsInv
  <2>1. RoomCovered(r)'
    <3> SUFFICES ASSUME rooms'[r].core # 0, Alive(rooms[r].core)'
                 PROVE  /\ Covers(edge', rooms'[r].cur, cores'[rooms'[r].core].doc)
                        /\ \A x \in Taken(r)' : x[1] \in cores'[rooms'[r].core].doc
      BY DEF RoomCovered
    <3> PICK c : c = rooms[r].core
      OBVIOUS
    <3>1. c # 0 /\ Alive(c) /\ rooms'[r].core = c /\ cores' = cores /\ c \in SessionIds
      BY <1>1, <1>5 DEF Alive, UsedBy, RoomsInv, RoomsType, IsRoom
    <3>2. Covers(edge, rooms[r].cur, cores[c].doc) /\ \A x \in Taken(r) : x[1] \in cores[c].doc
      BY <3>1 DEF DocsTrue, RoomCovered
    <3>3. Covers(edge', rooms[r].cur, cores[c].doc)
      BY <1>4, <1>11, <3>2, CoversGrow DEF RoomsInv, WithinEdge
    <3>4. b[1] \in cores[c].doc
      BY <1>1, <3>2 DEF Taken
    <3>5. Covers(edge', rooms'[r].cur, cores[c].doc)
      <4> SUFFICES ASSUME NEW i \in 1..rooms'[r].cur PROVE edge'[i][1] \in cores[c].doc
        BY DEF Covers
      <4>1. i \in 1..rooms[r].cur \/ i = seq
        BY <1>4, <1>6
      <4> QED
        BY <1>1, <1>3, <3>3, <3>4, <4>1 DEF Covers
    <3> QED
      BY <1>6, <3>1, <3>2, <3>5
  <2>2. \A q \in RoomIds : SameRoom(q) \/ RoomCovered(q)'
    BY <1>5, <2>1 DEF SameRoom, Taken
  <2>3. \A d \in SessionIds : Grown(d)
    BY <1>1 DEF Grown
  <2> QED
    BY <1>7, <1>8, <1>10, <1>11, <1>13, <2>2, <2>3, DocsKeep DEF RoomsInv
<1> QED
  BY <1>8, <1>10, <1>12, <1>14, <1>15 DEF RoomsInv

(* An edit: heard by the rooms of its session, and marked if it missed one. *)
LEMMA SendKeeps ==
  ASSUME RoomsInv, NEW c \in SessionIds, Send(c)
  PROVE  RoomsInv'
<1> DEFINE e == past.sent + 1
           ds == cores[c].doc \cup {e}
           out == disk.out \cup {<<e, r>> : r \in Hears(c)}
           up(r) == [rooms[r] EXCEPT !.queue = rooms[r].queue \cup {<<e, r>>}, !.dirty = TRUE]
           wait(r) == [rooms[r] EXCEPT !.unsent = rooms[r].unsent \cup {<<e, r>>}, !.dirty = TRUE]
<1>1. /\ cores' = [cores EXCEPT ![c].doc = ds] /\ disk' = [disk EXCEPT !.out = out]
      /\ rooms' = [r \in RoomIds |-> IF r \notin Hears(c) THEN rooms[r]
                                     ELSE IF rooms[r].client = "up" THEN up(r) ELSE wait(r)]
      /\ UNCHANGED <<chatRow, edge, table, thread>>
  BY DEF Send
<1>2. /\ DOMAIN past' = DOMAIN past /\ past'.sent = e /\ past'.wiped = past.wiped
      /\ past'.bare = (IF Hears(c) = {} THEN past.bare \cup {e} ELSE past.bare)
      /\ past'.missed = (past.missed \/ \E d \in SessionIds \ {c} : Between(d))
  BY DEF Send, RoomsInv, RoomsType
<1>3. e \in Nat /\ past'.missed \in BOOLEAN
  BY <1>2 DEF RoomsInv, RoomsType
<1>4. /\ DOMAIN cores' = SessionIds /\ \A d \in SessionIds : IsCore(cores'[d])
      /\ \A d \in SessionIds : cores'[d].made = cores[d].made /\ cores'[d].held = cores[d].held
      /\ \A d \in SessionIds : cores'[d].from = cores[d].from /\ cores'[d].room = cores[d].room
      /\ cores'[c].doc = ds /\ \A d \in SessionIds \ {c} : cores'[d] = cores[d]
  BY <1>1, DocIs DEF RoomsInv
<1>5. disk'.snap = disk.snap /\ disk'.out = out /\ DOMAIN disk' = DOMAIN disk
  BY <1>1 DEF RoomsInv, RoomsType
<1>6. ASSUME NEW r \in RoomIds
      PROVE  /\ IsRoom(rooms'[r]) /\ rooms'[r].core = rooms[r].core /\ rooms'[r].live = rooms[r].live
             /\ rooms'[r].saver = rooms[r].saver /\ rooms'[r].cur = rooms[r].cur
             /\ rooms'[r].client = rooms[r].client
             /\ r \notin Hears(c) => Taken(r)' = Taken(r)
             /\ Taken(r)' \subseteq Taken(r) \cup {<<e, r>>}
  <2>1. IsRoom(rooms[r])
    BY DEF RoomsInv, RoomsType
  <2>2. /\ IsRoom(up(r)) /\ up(r).core = rooms[r].core /\ up(r).live = rooms[r].live
        /\ up(r).saver = rooms[r].saver /\ up(r).cur = rooms[r].cur /\ up(r).client = rooms[r].client
        /\ up(r).queue = rooms[r].queue \cup {<<e, r>>} /\ up(r).unsent = rooms[r].unsent
    BY <2>1 DEF IsRoom
  <2>3. /\ IsRoom(wait(r)) /\ wait(r).core = rooms[r].core /\ wait(r).live = rooms[r].live
        /\ wait(r).saver = rooms[r].saver /\ wait(r).cur = rooms[r].cur
        /\ wait(r).client = rooms[r].client /\ wait(r).queue = rooms[r].queue
        /\ wait(r).unsent = rooms[r].unsent \cup {<<e, r>>}
    BY <2>1 DEF IsRoom
  <2>4. rooms'[r] = IF r \notin Hears(c) THEN rooms[r]
                    ELSE IF rooms[r].client = "up" THEN up(r) ELSE wait(r)
    BY <1>1
  <2> HIDE DEF up, wait, e
  <2>5. CASE r \notin Hears(c)
    BY <2>1, <2>4, <2>5 DEF Taken
  <2>6. CASE r \in Hears(c) /\ rooms[r].client = "up"
    BY <2>2, <2>4, <2>6 DEF Taken
  <2>7. CASE r \in Hears(c) /\ rooms[r].client # "up"
    BY <2>3, <2>4, <2>7 DEF Taken
  <2> QED
    BY <2>5, <2>6, <2>7
<1>7. DOMAIN rooms' = RoomIds
  BY <1>1
<1> HIDE DEF up, wait, out, e, ds
<1>8. RoomsType'
  BY <1>1, <1>2, <1>3, <1>4, <1>5, <1>6, <1>7 DEF RoomsInv, RoomsType
<1>9. SameHomes
  BY <1>1, <1>2, <1>4, <1>6 DEF SameHomes, Running
<1>10. /\ ThreadsTrue' /\ HomesTrue' /\ (\A d \in SessionIds : Alive(d)' <=> Alive(d))
       /\ \A d \in SessionIds : Between(d)' => Between(d)
  BY <1>9, HomesStay
<1>11. WithinEdge'
  BY <1>1, <1>4, <1>5, <1>6 DEF RoomsInv, WithinEdge
<1>12. /\ Outbox' \subseteq Outbox \cup {e} /\ Outbox \subseteq Outbox' /\ Written' = Written
       /\ Hears(c) # {} => e \in Outbox'
  <2>1. Written' = Written
    BY <1>1 DEF Written
  <2>2. disk'.out = disk.out \cup {<<e, r>> : r \in Hears(c)}
    BY <1>5 DEF out
  <2>3. \A b \in disk'.out : b \in disk.out \/ b[1] = e
    BY <2>2
  <2>4. \A b \in disk'.out : b[1] \in Outbox \cup {e}
    BY <2>3 DEF Outbox
  <2>5. Outbox \subseteq Outbox'
    BY <2>2 DEF Outbox
  <2>6. ASSUME NEW r \in Hears(c) PROVE e \in Outbox'
    <3>1. <<e, r>> \in disk'.out /\ <<e, r>>[1] = e
      BY <2>2
    <3> QED
      BY <3>1 DEF Outbox
  <2>7. Outbox' \subseteq Outbox \cup {e}
    BY <2>4 DEF Outbox
  <2> QED
    BY <2>1, <2>5, <2>6, <2>7
<1>13. HeardKept'
  <2>1. \A x \in 1..e : x = e \/ x \in 1..past.sent
    BY DEF e, RoomsInv, RoomsType
  <2>2. e \in past'.bare \/ e \in Outbox'
    BY <1>2, <1>12
  <2>3. past.bare \subseteq past'.bare
    BY <1>2
  <2> QED
    BY <1>2, <1>12, <2>1, <2>2, <2>3 DEF RoomsInv, HeardKept
<1>14. past'.missed \/ DocsTrue'
  <2> SUFFICES ASSUME DocsTrue, \A d \in SessionIds \ {c} : ~Between(d) PROVE DocsTrue'
    BY <1>2 DEF RoomsInv
  <2>1. \A d \in SessionIds : Grown(d)
    BY <1>4 DEF Grown, ds
  <2>2. ASSUME NEW r \in RoomIds, r \in Hears(c) PROVE RoomCovered(r)'
    <3> SUFFICES ASSUME Alive(c)'
                 PROVE  /\ Covers(edge', rooms'[r].cur, cores'[c].doc)
                        /\ \A x \in Taken(r)' : x[1] \in cores'[c].doc
      <4>1. rooms'[r].core = c
        BY <1>6, <2>2 DEF Hears
      <4> QED
        BY <4>1 DEF RoomCovered, Alive, UsedBy
    <3>1. rooms[r].core = c /\ c # 0 /\ Alive(c)
      BY <1>10, <2>2, IdsPositive DEF Hears
    <3>2. Covers(edge, rooms[r].cur, cores[c].doc) /\ \A x \in Taken(r) : x[1] \in cores[c].doc
      BY <3>1 DEF DocsTrue, RoomCovered
    <3> QED
      BY <1>1, <1>4, <1>6, <3>2 DEF Covers, ds
  <2>3. \A r \in RoomIds : SameRoom(r) \/ RoomCovered(r)'
    BY <1>6, <2>2 DEF SameRoom
  <2>4. \A d \in SessionIds : Between(d)' => Outbox' \subseteq cores'[d].doc
    <3> SUFFICES ASSUME NEW d \in SessionIds, Between(d)' PROVE Outbox' \subseteq cores'[d].doc
      OBVIOUS
    <3>1. d = c /\ Outbox \subseteq cores[c].doc
      BY <1>10 DEF DocsTrue
    <3> QED
      BY <1>4, <1>12, <3>1 DEF ds
  <2>5. Extends(edge, edge')
    BY <1>1, ExtendsSelf DEF RoomsInv, RoomsType
  <2> QED
    BY <1>5, <1>8, <1>10, <2>1, <2>3, <2>4, <2>5, DocsKeep DEF RoomsInv
<1> QED
  BY <1>8, <1>10, <1>11, <1>13, <1>14 DEF RoomsInv

(* A room is started: at the cursor that was read with the document, which
   covers it, with nothing taken over yet.                                 *)
LEMMA StartKeeps ==
  ASSUME RoomsInv, NEW t \in Threads, StartRoom(t)
  PROVE  RoomsInv'
<1> PICK c \in SessionIds \cup {0} : c = thread[t].core
  BY DEF RoomsInv, RoomsType, IsThread
<1> PICK r : r = NewRoom
  OBVIOUS
<1> DEFINE fresh == [NoRoom EXCEPT !.core = c, !.live = TRUE, !.saver = TRUE, !.cur = cores[c].from]
<1>1. /\ thread[t].pc = "start" /\ UNCHANGED <<chatRow, disk, edge, cores, table, past>>
      /\ rooms' = [rooms EXCEPT ![r] = fresh]
      /\ thread' = [thread EXCEPT ![t].pc = "place", ![t].room = r]
  BY DEF StartRoom, StartsAt
<1>2. r \in RoomIds /\ rooms[r].core = 0 /\ r # 0
  BY NewRoomIs, IdsPositive DEF StartRoom
<1>3. c \in SessionIds /\ c # 0 /\ Alive(c) /\ cores[c].made
  BY <1>1 DEF RoomsInv, ThreadsTrue, HomesTrue, Alive, UsedBy
<1>4. /\ IsRoom(fresh) /\ fresh.core = c /\ fresh.live /\ fresh.saver /\ fresh.cur = cores[c].from
      /\ fresh.client = "none" /\ fresh.unsent = {} /\ fresh.queue = {}
  BY <1>3 DEF IsRoom, NoRoom, RoomsInv, RoomsType, IsCore
<1> HIDE DEF fresh
<1>5. /\ DOMAIN rooms' = RoomIds /\ rooms'[r] = fresh /\ \A q \in RoomIds : IsRoom(rooms'[q])
      /\ \A q \in RoomIds \ {r} : rooms'[q] = rooms[q]
  BY <1>1, <1>2, <1>4 DEF RoomsInv, RoomsType
<1>6. /\ DOMAIN thread' = Threads /\ \A u \in Threads : IsThread(thread'[u])
      /\ \A u \in Threads : thread'[u].core = thread[u].core
      /\ thread'[t].pc = "place" /\ thread'[t].room = r
      /\ \A u \in Threads \ {t} : thread'[u] = thread[u]
  BY <1>1 DEF RoomsInv, RoomsType, IsThread
<1>7. RoomsType'
  BY <1>1, <1>5, <1>6 DEF RoomsInv, RoomsType
<1>8. \A d \in SessionIds : Alive(d)' <=> Alive(d)
  BY <1>1, <1>6 DEF Alive, UsedBy
<1>9. ThreadsTrue'
  <2>1. ASSUME NEW u \in Threads, Reading(u)' PROVE AloneWith(u, thread[u].core)'
    <3>1. u # t /\ Reading(u) /\ AloneWith(u, thread[u].core) /\ thread'[u].core = thread[u].core
      BY <1>6, <2>1 DEF Reading, RoomsInv, ThreadsTrue
    <3> PICK d : d = thread[u].core
      OBVIOUS
    <3>2. d # c /\ table # d /\ ~cores[d].held /\ cores[d].room = 0
          /\ (\A v \in Threads \ {u} : thread[v].core # d) /\ \A q \in RoomIds : rooms[q].core # d
      BY <3>1 DEF AloneWith
    <3>3. \A q \in RoomIds : rooms'[q].core # d
      BY <1>4, <1>5, <3>2
    <3> QED
      BY <1>1, <1>6, <3>1, <3>2, <3>3 DEF AloneWith
  <2>2. ASSUME NEW u \in Threads, thread'[u].pc = "place"
        PROVE  thread'[u].room \in RoomIds /\ rooms'[thread'[u].room].core = thread'[u].core
    <3>1. CASE u = t
      BY <1>2, <1>4, <1>5, <1>6, <3>1
    <3>2. CASE u # t
      <4>1. thread'[u] = thread[u] /\ thread[u].pc = "place"
        BY <1>6, <2>2, <3>2
      <4>2. /\ thread[u].core # 0 /\ thread[u].room \in RoomIds
            /\ rooms[thread[u].room].core = thread[u].core
        BY <4>1 DEF RoomsInv, ThreadsTrue
      <4> QED
        BY <1>2, <1>5, <4>1, <4>2
    <3> QED
      BY <3>1, <3>2
  <2>3. ASSUME NEW u \in Threads
        PROVE /\ thread'[u].pc \in {"outbox", "insert", "ensure", "start", "place", "return", "close"}
                   => thread'[u].core # 0
              /\ thread'[u].pc \in {"idle", "load", "unlist", "erase"} => thread'[u].core = 0
              /\ thread'[u].pc \in {"unlist", "close", "erase"} => past'.wiped /\ chatRow' = "gone"
    BY <1>1, <1>3, <1>6 DEF RoomsInv, ThreadsTrue
  <2> QED
    BY <2>1, <2>2, <2>3 DEF ThreadsTrue
<1>10. HomesTrue'
  <2>1. \A d \in SessionIds : Alive(d)' => cores'[d].made
    BY <1>1, <1>8 DEF RoomsInv, HomesTrue
  <2>2. ASSUME NEW d \in SessionIds, cores'[d].room # 0 PROVE rooms'[cores'[d].room].core = d
    <3>1. cores[d].room \in RoomIds /\ rooms[cores[d].room].core = d /\ d # 0
      BY <1>1, <2>2, IdsPositive DEF RoomsInv, HomesTrue, RoomsType, IsCore
    <3> QED
      BY <1>1, <1>2, <1>5, <3>1
  <2>3. ASSUME NEW q \in RoomIds
        PROVE  /\ rooms'[q].core # 0 => cores'[rooms'[q].core].made
               /\ rooms'[q].live \/ rooms'[q].saver \/ Running(q)' => rooms'[q].core # 0
    BY <1>1, <1>3, <1>4, <1>5 DEF RoomsInv, HomesTrue, Running
  <2>4. ASSUME NEW q \in RoomIds, rooms'[q].live
        PROVE  Alive(rooms[q].core)' /\ (cores'[rooms'[q].core].room = q \/ Placing(q)')
    <3> PICK d : d = rooms'[q].core
      OBVIOUS
    <3>1. CASE q = r
      <4>1. d = c /\ Placing(q)'
        BY <1>4, <1>5, <1>6, <3>1 DEF Placing
      <4>2. Alive(c)'
        BY <1>3, <1>8
      <4> QED
        BY <1>4, <1>5, <3>1, <4>1, <4>2 DEF Alive, UsedBy
    <3>2. CASE q # r
      <4>1. rooms'[q] = rooms[q] /\ rooms[q].core = d /\ d \in SessionIds
            /\ Alive(d) /\ (cores[d].room = q \/ Placing(q))
        BY <1>5, <2>4, <3>2 DEF RoomsInv, HomesTrue, RoomsType, IsRoom
      <4>2. Placing(q) => Placing(q)'
        BY <1>1, <1>6 DEF Placing
      <4>3. Alive(d)'
        BY <1>8, <4>1
      <4> QED
        BY <1>1, <4>1, <4>2, <4>3 DEF Alive, UsedBy
    <3> QED
      BY <3>1, <3>2
  <2> QED
    BY <2>1, <2>2, <2>3, <2>4 DEF HomesTrue
<1>11. WithinEdge'
  BY <1>1, <1>3, <1>4, <1>5 DEF RoomsInv, WithinEdge
<1>12. HeardKept'
  BY <1>1 DEF RoomsInv, HeardKept, Written, Outbox
<1>13. ASSUME NEW d \in SessionIds, Between(d)' PROVE Between(d)
  <2>1. Alive(d) /\ cores[d].made
    BY <1>1, <1>8, <1>13 DEF Between
  <2>2. ~\E u \in Threads : thread[u].core = d /\ thread[u].pc = "outbox"
    BY <1>1, <1>6, <1>13 DEF Between
  <2>3. MayJoin(d)
    <3>1. CASE d = c
      BY <1>1, <3>1 DEF MayJoin
    <3>2. CASE d # c
      <4>1. \A q \in RoomIds : rooms'[q].core = d => rooms'[q] = rooms[q]
        BY <1>4, <1>5, <3>2
      <4>2. \A u \in Threads : thread'[u].core = d => thread'[u] = thread[u]
        BY <1>6, <3>2
      <4> QED
        BY <1>1, <1>13, <4>1, <4>2 DEF Between, MayJoin
    <3> QED
      BY <3>1, <3>2
  <2> QED
    BY <2>1, <2>2, <2>3 DEF Between
<1>14. past'.missed \/ DocsTrue'
  <2> SUFFICES ASSUME DocsTrue PROVE DocsTrue'
    BY <1>1 DEF RoomsInv
  <2>1. Extends(edge, edge') /\ Outbox' = Outbox /\ \A d \in SessionIds : Grown(d)
    BY <1>1, ExtendsSelf DEF RoomsInv, RoomsType, Outbox, Grown
  <2>2. RoomCovered(r)'
    <3>1. /\ rooms'[r].core = c /\ rooms'[r].cur = cores[c].from /\ Taken(r)' = {}
          /\ Covers(edge, cores[c].from, cores[c].doc)
      BY <1>3, <1>4, <1>5 DEF Taken, DocsTrue
    <3> QED
      BY <1>1, <3>1 DEF RoomCovered, Covers
  <2>3. \A q \in RoomIds : SameRoom(q) \/ RoomCovered(q)'
    BY <1>5, <2>2 DEF SameRoom, Taken
  <2> QED
    BY <1>1, <1>7, <1>8, <1>13, <2>1, <2>3, DocsKeep DEF RoomsInv
<1> QED
  BY <1>7, <1>9, <1>10, <1>11, <1>12, <1>14 DEF RoomsInv

------------------------------------------------------------------------------
(* The invariant holds at first, and after every step. *)
LEMMA RoomsInvInit == RoomsInit => RoomsInv
<1> SUFFICES ASSUME RoomsInit PROVE RoomsInv
  OBVIOUS
<1>1. IsSeq(edge) /\ Len(edge) = 0 /\ Written = {} /\ Outbox = {}
  BY DEF RoomsInit, IsSeq, Written, Outbox
<1>2. RoomsType
  BY <1>1 DEF RoomsInit, RoomsType, NoSnap, IsSnap, Unmade, IsCore, NoRoom, IsRoom, Waiting, IsThread
<1>3. \A c \in SessionIds : c # 0 /\ ~Alive(c) /\ ~cores[c].made
  BY IdsPositive DEF RoomsInit, Alive, UsedBy, Unmade, Waiting
<1>4. ThreadsTrue /\ HomesTrue
  BY <1>3 DEF RoomsInit, ThreadsTrue, HomesTrue, Reading, Running, Unmade, Waiting, NoRoom
<1>5. WithinEdge /\ HeardKept
  BY <1>1 DEF RoomsInit, WithinEdge, HeardKept, NoSnap, Unmade, NoRoom
<1>6. DocsTrue
  BY <1>1, <1>3 DEF RoomsInit, DocsTrue, Covers, RoomCovered, Between, NoSnap, Unmade, NoRoom
<1> QED
  BY <1>2, <1>4, <1>5, <1>6 DEF RoomsInv

(* Every step keeps the invariant. *)
LEMMA RoomsInvStep == RoomsInv /\ [RoomsNext]_roomsVars => RoomsInv'
<1> SUFFICES ASSUME RoomsInv, [RoomsNext]_roomsVars PROVE RoomsInv'
  OBVIOUS
<1>1. ASSUME NEW t \in Threads,
             \/ OpenSession(t) \/ LoadSnapshot(t) \/ LoadOutbox(t) \/ Insert(t)
             \/ EnsureRoom(t) \/ StartRoom(t) \/ PlaceRoom(t) \/ Return(t)
      PROVE  RoomsInv'
  BY <1>1, OpenKeeps, SnapshotKeeps, OutboxKeeps, InsertKeeps, EnsureKeeps, StartKeeps, PlaceKeeps,
     ReturnKeeps
<1>2. ASSUME NEW c \in SessionIds, Attach(c) \/ Send(c) \/ CloseSession(c) PROVE RoomsInv'
  BY <1>2, AttachKeeps, SendKeeps, CloseSessionKeeps
<1>3. CASE RegistryChanged \/ Evict \/ DeleteSession \/ Unlist \/ CloseRoom \/ DeleteSnapshot
           \/ PeerRow
  BY <1>3, RegistryKeeps, EvictKeeps, DeleteKeeps, UnlistKeeps, CloseRoomKeeps, DeleteSnapshotKeeps,
     PeerRowKeeps
<1>4. ASSUME NEW r \in RoomIds, Join(r) \/ Import(r) \/ Save(r) \/ SaverEnds(r) \/ ClientEnds(r)
      PROVE  RoomsInv'
  BY <1>4, JoinKeeps, ImportKeeps, SaveKeeps, SaverEndsKeeps, ClientEndsKeeps
<1>5. ASSUME NEW r \in RoomIds, NEW b \in rooms[r].queue, PushAcked(r, b) PROVE RoomsInv'
  BY <1>5, PushAckedKeeps
<1>6. CASE UNCHANGED roomsVars
  <2>1. UNCHANGED <<chatRow, disk, edge, cores, rooms, table, thread, past>>
    BY <1>6 DEF roomsVars
  <2>2. RoomsType'
    BY <2>1 DEF RoomsInv, RoomsType
  <2>3. SameHomes
    BY <2>1 DEF SameHomes, Running
  <2>4. ThreadsTrue'
    BY <2>3, HomesStay
  <2>5. (\A c \in SessionIds : Alive(c)' <=> Alive(c)) /\ \A c \in SessionIds : Between(c)' => Between(c)
    BY <2>3, HomesStay
  <2>6. \A r \in RoomIds : rooms[r].live => Alive(rooms[r].core)' /\ (Placing(r) => Placing(r)')
    BY <2>1 DEF Alive, UsedBy, Placing, RoomsInv, HomesTrue
  <2> QED
    BY <2>1, <2>2, <2>4, <2>5, <2>6, QuietKeeps
<1> QED
  BY <1>1, <1>2, <1>3, <1>4, <1>5, <1>6 DEF RoomsNext, RoomSteps

(* The invariant is stronger than the property. *)
LEMMA RoomsInvImplies == RoomsInv => ReopenKeepsEdits
<1> SUFFICES ASSUME RoomsInv PROVE ReopenKeepsEdits
  OBVIOUS
<1>1. ~past.wiped => \A e \in 1..past.sent : e \in past.bare \/ e \in Written \/ e \in Outbox
  BY DEF RoomsInv, HeardKept
<1>2. ASSUME ~past.missed, NEW r \in RoomIds, Running(r), Alive(rooms[r].core)
      PROVE  \A i \in 1..rooms[r].cur : edge[i][1] \in cores[rooms[r].core].doc
  <2>1. RoomCovered(r) /\ rooms[r].core # 0
    BY <1>2 DEF RoomsInv, DocsTrue, HomesTrue
  <2> QED
    BY <1>2, <2>1 DEF RoomCovered, Covers
<1>3. ~past.missed => \A i \in 1..disk.snap.cur : edge[i][1] \in disk.snap.doc
  BY DEF RoomsInv, DocsTrue, Covers
<1> QED
  BY <1>1, <1>2, <1>3 DEF ReopenKeepsEdits

(* session/mod.rs:293-356, live/room.rs:92-222: whatever sessions of a chat overlap,
   opened twice, evicted and opened again, closed or deleted, an edit that a
   room heard is at the edge or in the outbox until the chat is deleted, and
   no cursor, of a room that runs or of the snapshot, passes a row that its
   document lacks.                                                          *)
THEOREM ReopenKeepsEditsAlways == RoomsSpec => []ReopenKeepsEdits
BY RoomsInvInit, RoomsInvStep, RoomsInvImplies, PTL DEF RoomsSpec
=============================================================================

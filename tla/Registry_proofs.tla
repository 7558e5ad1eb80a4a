--------------------------- MODULE Registry_proofs --------------------------
(***************************************************************************)
(* Registry, for any set of rows and fields, any instance and every bound: *)
(* no batch leaves the queue but to the room or with an unsaved process,   *)
(* and the cursor of the replica, in memory and on disk, stands for what   *)
(* the replica holds.                                                      *)
(*                                                                         *)
(* HeldTo(rm, auth, n) says that auth holds what the room rm holds up to n. *)
(* An answer of the room was computed from a cursor n the replica once had: *)
(* it is true of the room up to its own number, and lacks only rows the    *)
(* replica holds up to n.  The invariant says so of each answer, hello and *)
(* pull on its way, however the room and the replica move on meanwhile.    *)
(***************************************************************************)
EXTENDS Registry, Filters_proofs, FiniteSetTheorems, SequenceTheorems

(* The shapes of the records, by their fields.                             *)
IsRow(row) ==
  /\ DOMAIN row = {"seq", "state", "del", "has", "clk"}
  /\ row.seq \in Nat /\ row.state \in {"absent", "live", "dead"}
AllRows(rows) == DOMAIN rows = RowIds /\ \A r \in RowIds : IsRow(rows[r])
SomeRows(rows) == DOMAIN rows \subseteq RowIds /\ \A r \in DOMAIN rows : IsRow(rows[r])

IsBatch(b) == DOMAIN b = {"id", "ops", "flying"} /\ Len(b.ops) \in Nat
Batches(p) == IsSeq(p) /\ \A b \in Range(p) : IsBatch(b)

IsDoc(d) ==
  /\ DOMAIN d = {"auth", "pending", "cursor", "clock", "fresh"}
  /\ AllRows(d.auth) /\ Batches(d.pending) /\ d.cursor \in Nat

IsRoom(rm) ==
  DOMAIN rm = {"rows", "seq", "floor"} /\ AllRows(rm.rows) /\ rm.seq \in Nat

IsState(m) == m.k = "state" /\ m.seq \in Nat /\ m.full \in BOOLEAN /\ SomeRows(m.rows)
IsRows(m) == m.k = "rows" /\ m.seq \in Nat /\ SomeRows(m.rows)
IsHello(m) == m.k = "hello" /\ m.cursor \in Nat /\ m.anew \in BOOLEAN
IsPush(m) == m.k = "push" /\ Len(m.ops) \in Nat

IsHttp(h) ==
  /\ DOMAIN h = {"phase", "batches", "since", "answer"}
  /\ h.phase \in {"idle", "start", "post", "ack", "pull", "answer"}
  /\ Batches(h.batches) /\ (h.phase = "ack" => h.batches # <<>>)
  /\ h.since \in Nat /\ (h.phase = "answer" => IsState(h.answer))

IsPast(p) ==
  /\ DOMAIN p = {"issued", "order", "lostWrite", "wiped", "missed", "regress", "unmarked",
                 "mixed", "last", "back", "observed"}
  /\ IsSeq(p.order) /\ p.wiped \in BOOLEAN /\ p.regress \in BOOLEAN

IsLimit(l) ==
  /\ DOMAIN l = {"own", "peer", "drops", "kills", "wipes", "gcs", "lost", "fails", "saves",
                 "peerWall", "cap", "https", "kinds", "peerKinds", "rows"}
  /\ l.cap \in Nat \ {0} /\ l.rows \subseteq RowIds

RegistryType ==
  /\ IsLimit(lim)
  /\ IsRoom(room) /\ IsDoc(doc) /\ IsHttp(http) /\ IsPast(past)
  /\ DOMAIN disk = {"saved", "dirty"} /\ IsDoc(disk.saved)
  /\ DOMAIN net = {"phase", "ready"}
  /\ net.phase \in {"down", "hello", "joined", "live"} /\ net.ready \in BOOLEAN

(* What is on the way in each phase of the session.                        *)
ToRoom == IsSeq(c2s) /\ \A m \in Range(c2s) : IsHello(m) \/ IsPush(m)
ToClient == IsSeq(s2c) /\ \A m \in Range(s2c) : IsState(m) \/ IsRows(m) \/ m.k = "ack"

SessionTrue ==
  /\ ToRoom /\ ToClient
  /\ net.phase = "down" => c2s = <<>> /\ s2c = <<>> /\ ~net.ready
  /\ net.phase = "hello" /\ ~net.ready =>
       s2c = <<>> /\ c2s # <<>> /\ Head(c2s).k = "hello" /\ Tail(c2s) = <<>>
  /\ net.phase = "hello" /\ net.ready =>
       c2s = <<>> /\ s2c # <<>> /\ Head(s2c).k = "state"
       /\ \A m \in Range(Tail(s2c)) : m.k # "state"
  /\ net.phase \in {"joined", "live"} =>
       /\ net.ready /\ \A m \in Range(s2c) : m.k # "state"
       /\ \A m \in Range(c2s) : m.k # "hello"

(* What was acknowledged has reached the room.                             *)
AcksTrue ==
  /\ \A m \in Range(s2c) : m.k = "ack" => m.id \in Range(past.order)
  /\ http.phase = "ack" => Head(http.batches).id \in Range(past.order)

There(rm, r) == rm.rows[r].state # "absent"
HeldTo(rm, auth, n) ==
  \A r \in RowIds : There(rm, r) /\ rm.rows[r].seq <= n => auth[r] = rm.rows[r]

(* An answer computed from the cursor n.                                   *)
AnswerTrue(rm, a, n) ==
  /\ a.seq <= rm.seq /\ \A r \in DOMAIN a.rows : a.rows[r].seq <= a.seq
  /\ \A r \in RowIds : There(rm, r) /\ rm.rows[r].seq <= a.seq =>
       IF r \in DOMAIN a.rows THEN a.rows[r] = rm.rows[r]
       ELSE ~a.full /\ rm.rows[r].seq <= n

(* A broadcast: all that changed with its number.                          *)
RowsTrue(rm, f) ==
  /\ f.seq <= rm.seq /\ \A r \in DOMAIN f.rows : f.rows[r].seq = f.seq
  /\ \A r \in RowIds : There(rm, r) /\ rm.rows[r].seq <= f.seq =>
       IF r \in DOMAIN f.rows THEN f.rows[r] = rm.rows[r] ELSE rm.rows[r].seq < f.seq

RoomTrue(rm) == \A r \in RowIds : rm.rows[r].seq <= rm.seq
DocTrue(rm, d) == d.cursor <= rm.seq /\ HeldTo(rm, d.auth, d.cursor)

Busy(h) == h.phase # "idle"
Pulling(h) == h.phase \in {"pull", "answer"}

HelloTrue(rm, d, h, m) ==
  /\ m.cursor <= rm.seq /\ HeldTo(rm, d.auth, m.cursor)
  /\ Busy(h) => m.cursor <= d.cursor
StateTrue(rm, d, h, m) ==
  /\ \E n \in Nat : /\ n <= rm.seq /\ HeldTo(rm, d.auth, n) /\ AnswerTrue(rm, m, n)
                    /\ Busy(h) => n <= d.cursor
  /\ Busy(h) => d.cursor <= m.seq
  /\ Pulling(h) => h.since <= m.seq
FlightTrue(rm, d, h, m) ==
  /\ m.k = "hello" => HelloTrue(rm, d, h, m)
  /\ m.k = "state" => StateTrue(rm, d, h, m)
  /\ m.k = "rows" => RowsTrue(rm, m)
PullTrue(rm, d, h) ==
  Pulling(h) => /\ h.since <= rm.seq /\ HeldTo(rm, d.auth, h.since)
                /\ h.phase = "answer" => AnswerTrue(rm, h.answer, h.since)

(* The room rm, the replica d, the saved one, the HTTPS task h and all the
   messages on their way.                                                   *)
CursorsAre(rm, d, saved, h, ms) ==
  /\ RoomTrue(rm) /\ DocTrue(rm, d) /\ DocTrue(rm, saved) /\ PullTrue(rm, d, h)
  /\ \A m \in ms : FlightTrue(rm, d, h, m)

Flying == Range(c2s) \cup Range(s2c)
CursorsTrue == CursorsAre(room, doc, disk.saved, http, Flying)

Honest == past.wiped \/ past.regress \/ CursorsTrue

RegistryInv == RegistryType /\ SessionTrue /\ AcksTrue /\ NothingLost /\ Honest

------------------------------------------------------------------------------
(* Sequences. *)
LEMMA NoneIsSeq == IsSeq(<<>>) /\ Range(<<>>) = {}
<1>1. <<>> \in Seq({}) /\ DOMAIN <<>> = {}
  OBVIOUS
<1>2. Range(<<>>) = {}
  BY <1>1 DEF Range
<1> QED
  BY <1>1, <1>2 DEF IsSeq

(* A sequence of one. *)
LEMMA OneIsSeq == ASSUME NEW x PROVE IsSeq(<<x>>) /\ Range(<<x>>) = {x} /\ Len(<<x>>) = 1
<1>1. <<x>> \in Seq({x}) /\ DOMAIN <<x>> = {1} /\ <<x>>[1] = x /\ Len(<<x>>) = 1
  OBVIOUS
<1>2. Range(<<x>>) = {x}
  BY <1>1 DEF Range
<1> QED
  BY <1>1, <1>2 DEF IsSeq

(* Append adds one element, after the others. *)
LEMMA AppendIsSeq ==
  ASSUME NEW s, NEW x, IsSeq(s)
  PROVE  /\ IsSeq(Append(s, x)) /\ Range(Append(s, x)) = Range(s) \cup {x}
         /\ DOMAIN Append(s, x) = DOMAIN s \cup {Len(s) + 1} /\ Len(s) \in Nat
         /\ \A i \in DOMAIN s : Append(s, x)[i] = s[i]
         /\ Append(s, x)[Len(s) + 1] = x /\ Len(Append(s, x)) = Len(s) + 1
<1>1. PICK T : s \in Seq(T)
  BY DEF IsSeq
<1>2. s \in Seq(T \cup {x}) /\ Append(s, x) \in Seq(T \cup {x})
  BY <1>1
<1>3. DOMAIN Append(s, x) = DOMAIN s \cup {Len(s) + 1} /\ Len(s) \in Nat
      /\ (\A i \in DOMAIN s : Append(s, x)[i] = s[i])
      /\ Append(s, x)[Len(s) + 1] = x /\ Len(Append(s, x)) = Len(s) + 1
  BY <1>2
<1>4. Range(Append(s, x)) = Range(s) \cup {x}
  BY <1>3 DEF Range
<1> QED
  BY <1>2, <1>3, <1>4 DEF IsSeq

(* A function over 1..n is a sequence. *)
LEMMA MapIsSeq ==
  ASSUME NEW q, NEW n \in Nat, DOMAIN q = 1..n, q = [i \in DOMAIN q |-> q[i]]
  PROVE  IsSeq(q)
<1> DEFINE T == {q[i] : i \in 1..n}
<1>1. \A i \in 1..n : q[i] \in T
  OBVIOUS
<1> HIDE DEF T
<1>2. q \in [1..n -> T]
  BY <1>1
<1>3. q \in Seq(T)
  BY <1>2
<1> QED
  BY <1>3 DEF IsSeq

(* Concatenation holds the elements of both, those of the left one first. *)
LEMMA ConcatIsSeq ==
  ASSUME NEW s, NEW t, IsSeq(s), IsSeq(t)
  PROVE  /\ IsSeq(s \o t) /\ Range(s \o t) = Range(s) \cup Range(t)
         /\ s # <<>> => s \o t # <<>> /\ Head(s \o t) = Head(s) /\ Tail(s \o t) = Tail(s) \o t
         /\ s \o <<>> = s
<1>1. PICK S, T : s \in Seq(S) /\ t \in Seq(T)
  BY DEF IsSeq
<1> DEFINE U == S \cup T
<1>2. s \in Seq(U) /\ t \in Seq(U) /\ s \o t \in Seq(U)
  BY <1>1
<1>3. Len(s) \in Nat /\ Len(t) \in Nat /\ Len(s \o t) = Len(s) + Len(t)
      /\ DOMAIN s = 1..Len(s) /\ DOMAIN t = 1..Len(t) /\ DOMAIN (s \o t) = 1..(Len(s) + Len(t))
  BY <1>2
<1>4. \A i \in DOMAIN (s \o t) : (s \o t)[i] = IF i <= Len(s) THEN s[i] ELSE t[i - Len(s)]
  BY <1>2, <1>3
<1>5. \A i \in DOMAIN s : i \in DOMAIN (s \o t) /\ (s \o t)[i] = s[i]
  BY <1>3, <1>4
<1>6. \A i \in DOMAIN t : Len(s) + i \in DOMAIN (s \o t) /\ (s \o t)[Len(s) + i] = t[i]
  BY <1>3, <1>4
<1>7. \A i \in DOMAIN (s \o t) : \/ i \in DOMAIN s /\ (s \o t)[i] = s[i]
                                 \/ i - Len(s) \in DOMAIN t /\ (s \o t)[i] = t[i - Len(s)]
  BY <1>3, <1>4
<1>8. Range(s \o t) = Range(s) \cup Range(t)
  BY <1>5, <1>6, <1>7 DEF Range
<1>9. ASSUME s # <<>> PROVE s \o t # <<>> /\ Head(s \o t) = Head(s) /\ Tail(s \o t) = Tail(s) \o t
  <2>1. Len(s) > 0 /\ Head(s) = s[1] /\ Tail(s) \in Seq(U) /\ Len(Tail(s)) = Len(s) - 1
        /\ \A i \in 1..(Len(s) - 1) : Tail(s)[i] = s[i + 1]
    BY <1>2, <1>9
  <2>2. s \o t # <<>> /\ Head(s \o t) = (s \o t)[1] /\ Tail(s \o t) \in Seq(U)
        /\ Len(Tail(s \o t)) = Len(s) + Len(t) - 1
        /\ \A i \in 1..(Len(s) + Len(t) - 1) : Tail(s \o t)[i] = (s \o t)[i + 1]
    BY <1>2, <1>3, <2>1
  <2>3. Tail(s) \o t \in Seq(U) /\ Len(Tail(s) \o t) = Len(s) + Len(t) - 1
    BY <1>2, <1>3, <2>1
  <2>4. \A i \in 1..(Len(s) + Len(t) - 1) :
          (Tail(s) \o t)[i] = IF i <= Len(s) - 1 THEN Tail(s)[i] ELSE t[i - (Len(s) - 1)]
    BY <1>2, <1>3, <2>1
  <2>5. \A i \in 1..(Len(s) + Len(t) - 1) : (Tail(s) \o t)[i] = Tail(s \o t)[i]
    BY <1>3, <1>4, <2>1, <2>2, <2>4
  <2>6. Tail(s) \o t = Tail(s \o t)
    BY <2>2, <2>3, <2>5
  <2> QED
    BY <1>3, <1>4, <2>1, <2>2, <2>6
<1>10. s \o <<>> = s
  BY <1>2
<1> QED
  BY <1>2, <1>8, <1>9, <1>10 DEF IsSeq

(* A sequence is its head and its tail. *)
LEMMA TailIsSeq ==
  ASSUME NEW s, IsSeq(s), s # <<>>
  PROVE  /\ IsSeq(Tail(s)) /\ Range(s) = Range(Tail(s)) \cup {Head(s)}
         /\ DOMAIN Tail(s) = 1..(Len(s) - 1) /\ DOMAIN s = 1..Len(s) /\ Len(s) \in Nat \ {0}
         /\ \A i \in DOMAIN Tail(s) : i + 1 \in DOMAIN s /\ Tail(s)[i] = s[i + 1]
<1>1. PICK T : s \in Seq(T)
  BY DEF IsSeq
<1>2. Tail(s) \in Seq(T) /\ Len(s) \in Nat \ {0} /\ Head(s) = s[1]
      /\ DOMAIN s = 1..Len(s) /\ DOMAIN Tail(s) = 1..(Len(s) - 1)
      /\ \A i \in 1..(Len(s) - 1) : Tail(s)[i] = s[i + 1]
  BY <1>1
<1>3. \A i \in DOMAIN s : i = 1 \/ (i - 1 \in DOMAIN Tail(s) /\ s[i] = Tail(s)[i - 1])
  BY <1>2
<1>4. \A i \in DOMAIN Tail(s) : i + 1 \in DOMAIN s /\ Tail(s)[i] = s[i + 1]
  BY <1>2
<1>5. Range(s) \subseteq Range(Tail(s)) \cup {Head(s)}
  BY <1>2, <1>3 DEF Range
<1>6. Range(Tail(s)) \cup {Head(s)} \subseteq Range(s)
  <2>1. 1 \in DOMAIN s
    BY <1>2
  <2> QED
    BY <1>2, <1>4, <2>1 DEF Range
<1> QED
  BY <1>2, <1>4, <1>5, <1>6 DEF IsSeq

(* Without its last element a sequence keeps its head. *)
LEMMA FrontIsSeq ==
  ASSUME NEW s, IsSeq(s), s # <<>>
  PROVE  IsSeq(Front(s)) /\ Range(Front(s)) \subseteq Range(s)
         /\ (Len(s) > 1 => Front(s) # <<>> /\ Head(Front(s)) = Head(s)
                           /\ Range(Tail(Front(s))) \subseteq Range(Tail(s)))
<1>1. PICK T : s \in Seq(T)
  BY DEF IsSeq
<1>2. Front(s) = [i \in 1..(Len(s) - 1) |-> s[i]] /\ Len(s) \in Nat \ {0} /\ DOMAIN s = 1..Len(s)
  BY <1>1 DEF Front
<1>3. Front(s) \in Seq(T) /\ Len(Front(s)) = Len(s) - 1 /\ Head(Front(s)) = Front(s)[1]
  BY <1>1, <1>2
<1>4. Range(Front(s)) \subseteq Range(s)
  BY <1>2 DEF Range
<1>5. ASSUME Len(s) > 1
      PROVE  Front(s) # <<>> /\ Head(Front(s)) = Head(s)
             /\ Range(Tail(Front(s))) \subseteq Range(Tail(s))
  <2>1. Front(s) # <<>> /\ Head(Front(s)) = s[1] /\ Head(s) = s[1]
    <3>1. 1 \in 1..(Len(s) - 1) /\ Front(s)[1] = s[1] /\ Len(Front(s)) # 0 /\ Len(<<>>) = 0
      BY <1>2, <1>3, <1>5
    <3> QED
      BY <1>1, <1>3, <3>1
  <2>2. DOMAIN Tail(Front(s)) = 1..(Len(s) - 2) /\ DOMAIN Tail(s) = 1..(Len(s) - 1)
        /\ (\A i \in 1..(Len(s) - 2) : Tail(Front(s))[i] = s[i + 1])
        /\ (\A i \in 1..(Len(s) - 1) : Tail(s)[i] = s[i + 1])
    BY <1>1, <1>2, <1>3, <1>5
  <2>3. Range(Tail(Front(s))) \subseteq Range(Tail(s))
    BY <1>2, <2>2 DEF Range
  <2> QED
    BY <2>1, <2>3
<1> QED
  BY <1>3, <1>4, <1>5 DEF IsSeq

------------------------------------------------------------------------------
(* The rows of the room. *)
LEMMA ApplyOpRow ==
  ASSUME NEW row, NEW op, IsRow(row), Changes(row, op), NEW seq \in Nat
  PROVE  /\ IsRow([ApplyOp(row, op) EXCEPT !.seq = seq])
         /\ [ApplyOp(row, op) EXCEPT !.seq = seq].seq = seq
         /\ [ApplyOp(row, op) EXCEPT !.seq = seq].state # "absent"
<1>1. DOMAIN ApplyOp(row, op) = DOMAIN row /\ ApplyOp(row, op).state \in {"live", "dead"}
  <2>1. DOMAIN Buried(row, op) = DOMAIN row /\ Buried(row, op).state = "dead"
    BY DEF Buried, IsRow
  <2> DEFINE base == MergeBase(row)
  <2>2. DOMAIN base = DOMAIN row /\ base.state = "live"
    BY DEF MergeBase, IsRow
  <2> HIDE DEF base
  <2>3. DOMAIN Merged(row, op) = DOMAIN base /\ Merged(row, op).state = base.state
    BY <2>2 DEF Merged, base
  <2> QED
    BY <2>1, <2>2, <2>3 DEF ApplyOp
<1> QED
  BY <1>1 DEF IsRow

(* Rows that a batch numbered seq leaves. *)
MergedFrom(rows, seq, new) ==
  AllRows(new) /\ \A r \in RowIds : new[r] = rows[r]
                     \/ (new[r].seq = seq /\ new[r].state # "absent")

(* One op merged keeps the rows merged so far: a row changed has the new number. *)
LEMMA MergeOneRows ==
  ASSUME NEW rows, NEW seq \in Nat, NEW old, NEW op, MergedFrom(rows, seq, old)
  PROVE  MergedFrom(rows, seq, MergeOne(old, seq, op))
<1>1. CASE ~Changes(old[op.row], op) \/ op.row \notin RowIds
  BY <1>1 DEF MergeOne, MergedFrom, AllRows
<1>2. CASE Changes(old[op.row], op) /\ op.row \in RowIds
  <2> DEFINE row == [ApplyOp(old[op.row], op) EXCEPT !.seq = seq]
  <2>1. IsRow(row) /\ row.seq = seq /\ row.state # "absent"
    BY <1>2, ApplyOpRow DEF MergedFrom, AllRows
  <2>2. MergeOne(old, seq, op) = [old EXCEPT ![op.row] = row]
    BY <1>2 DEF MergeOne
  <2> HIDE DEF row
  <2> QED
    BY <1>2, <2>1, <2>2 DEF MergedFrom, AllRows
<1> QED
  BY <1>1, <1>2

Merging(k, rows, seq, ops, i) == IF i = 0 THEN rows ELSE MergeOne(k[i - 1], seq, ops[i])

(* MergeInto is the last value of a recursive function on the ops. *)
LEMMA MergeIntoIs ==
  ASSUME NEW rows, NEW seq, NEW ops, Len(ops) \in Nat
  PROVE  \E k : /\ k = [i \in 0..Len(ops) |-> Merging(k, rows, seq, ops, i)]
                /\ MergeInto(rows, seq, ops) = k[Len(ops)]
<1>. DEFINE Has == {n \in Nat : \E k : k = [i \in 0..n |-> Merging(k, rows, seq, ops, i)]}
<1>1. 0 \in Has
  <2>. DEFINE k == [i \in 0..0 |-> rows]
  <2>1. k = [i \in 0..0 |-> Merging(k, rows, seq, ops, i)]
    BY DEF Merging
  <2>. QED
    BY <2>1
<1>2. ASSUME NEW n \in Nat, n \in Has  PROVE n + 1 \in Has
  <2>1. PICK k : k = [i \in 0..n |-> Merging(k, rows, seq, ops, i)]
    BY <1>2
  <2>. DEFINE h == [i \in 0..(n + 1) |->
                      IF i = n + 1 THEN Merging(k, rows, seq, ops, i) ELSE k[i]]
  <2>2. \A i \in 0..(n + 1) : h[i] = Merging(h, rows, seq, ops, i)
    <3>. SUFFICES ASSUME NEW i \in 0..(n + 1)  PROVE h[i] = Merging(h, rows, seq, ops, i)
      OBVIOUS
    <3>1. i = 0 \/ h[i - 1] = k[i - 1]
      OBVIOUS
    <3>2. Merging(h, rows, seq, ops, i) = Merging(k, rows, seq, ops, i)
      BY <3>1 DEF Merging
    <3>3. i # n + 1 => k[i] = Merging(k, rows, seq, ops, i)
      BY <2>1
    <3>. QED
      BY <3>2, <3>3
  <2>3. h = [i \in 0..(n + 1) |-> h[i]]
    OBVIOUS
  <2>. HIDE DEF h
  <2>4. h = [i \in 0..(n + 1) |-> Merging(h, rows, seq, ops, i)]
    BY <2>2, <2>3
  <2>. QED
    BY <2>4
<1>3. Nat \subseteq Has
  <2>. HIDE DEF Has
  <2>. QED
    BY <1>1, <1>2, SetInduction
<1>4. \E k : k = [i \in 0..Len(ops) |-> Merging(k, rows, seq, ops, i)]
  BY <1>3
<1>. QED
  BY <1>4 DEF MergeInto, Merging

(* A batch changes rows, and each row it changes takes its number. *)
LEMMA MergeIntoRows ==
  ASSUME NEW rows, NEW seq \in Nat, NEW ops, Len(ops) \in Nat, AllRows(rows)
  PROVE  MergedFrom(rows, seq, MergeInto(rows, seq, ops))
<1>1. PICK k : /\ k = [i \in 0..Len(ops) |-> Merging(k, rows, seq, ops, i)]
               /\ MergeInto(rows, seq, ops) = k[Len(ops)]
  BY MergeIntoIs
<1>. DEFINE Goods == {n \in Nat : MergedFrom(rows, seq, k[n])}
<1>2. 0 \in Goods
  <2>1. k[0] = rows
    BY <1>1 DEF Merging
  <2>. QED
    BY <2>1 DEF MergedFrom
<1>3. ASSUME NEW n \in 0..(Len(ops) - 1), n \in Goods  PROVE n + 1 \in Goods
  <2>1. k[n + 1] = Merging(k, rows, seq, ops, n + 1)
    BY <1>1
  <2>2. k[n + 1] = MergeOne(k[n], seq, ops[n + 1])
    BY <2>1 DEF Merging
  <2>3. MergedFrom(rows, seq, k[n])
    BY <1>3
  <2>. QED
    BY <2>2, <2>3, MergeOneRows
<1>4. Len(ops) \in Goods
  <2>. HIDE DEF Goods
  <2>. QED
    BY <1>2, <1>3, UpTo
<1>. QED
  BY <1>1, <1>4

(* Whatever the room does, a row it changes and keeps gets a later number. *)
Grew(rm, rn) ==
  /\ IsRoom(rn) /\ rm.seq <= rn.seq /\ (RoomTrue(rm) => RoomTrue(rn))
  /\ \A r \in RowIds : rn.rows[r] = rm.rows[r] \/ ~There(rn, r) \/ rn.rows[r].seq > rm.seq

(* The room that takes ops grows, and its broadcast is true of it. *)
LEMMA TakeGrows ==
  ASSUME NEW ops, Len(ops) \in Nat, IsRoom(room)
  PROVE  /\ Grew(room, Take(ops).room)
         /\ IsSeq(Take(ops).frames)
         /\ \A f \in Range(Take(ops).frames) :
               IsRows(f) /\ (RoomTrue(room) => RowsTrue(Take(ops).room, f))
<1>. DEFINE rows == MergeInto(room.rows, room.seq + 1, ops)
            touched == {r \in RowIds : rows[r] # room.rows[r]}
            rn == [room EXCEPT !.rows = rows, !.seq = @ + 1]
            f == [k |-> "rows", seq |-> room.seq + 1, rows |-> [r \in touched |-> rows[r]]]
<1>1. MergedFrom(room.rows, room.seq + 1, rows)
  BY MergeIntoRows DEF IsRoom
<1>2. Take(ops) = [room |-> IF touched = {} THEN room ELSE rn,
                   frames |-> IF touched = {} THEN <<>> ELSE <<f>>]
  BY DEF Take
<1>. HIDE DEF rows
<1>3. DOMAIN rn = {"rows", "seq", "floor"} /\ rn.rows = rows /\ rn.seq = room.seq + 1
  BY DEF IsRoom
<1>4. CASE touched = {}
  BY <1>2, <1>4, NoneIsSeq DEF Grew, IsRoom
<1>5. CASE touched # {}
  <2>1. Take(ops).room = rn /\ Take(ops).frames = <<f>>
    BY <1>2, <1>5
  <2>2. Grew(room, rn)
    BY <1>1, <1>3 DEF Grew, IsRoom, MergedFrom, RoomTrue, There, AllRows, IsRow
  <2>3. IsRows(f)
    BY <1>1 DEF IsRows, SomeRows, MergedFrom, AllRows, IsRoom
  <2>4. RoomTrue(room) => RowsTrue(rn, f)
    BY <1>1, <1>3 DEF RowsTrue, RoomTrue, MergedFrom, AllRows, IsRow, IsRoom, There
  <2>5. IsSeq(<<f>>) /\ Range(<<f>>) = {f}
    BY OneIsSeq
  <2>. QED
    BY <2>1, <2>2, <2>3, <2>4, <2>5
<1>. QED
  BY <1>4, <1>5

------------------------------------------------------------------------------
(* The replica. *)
LEMMA BatchCount ==
  ASSUME NEW n \in Nat, NEW cap \in Nat \ {0}
  PROVE  (n + cap - 1) \div cap \in Nat
OBVIOUS

(* A product of naturals, for ChunkLen. *)
LEMMA ProductNat ==
  ASSUME NEW a \in Nat, NEW b \in Nat
  PROVE  a * b \in Nat
OBVIOUS

(* A chunk of ops is a finite one. *)
LEMMA ChunkLen ==
  ASSUME NEW ops, IsSeq(ops), NEW k \in Nat \ {0}, lim.cap \in Nat \ {0}
  PROVE  Len(Chunk(ops, k)) \in Nat
<1>1. PICK T : ops \in Seq(T)
  BY DEF IsSeq
<1> DEFINE a == (k - 1) * lim.cap
           b == IF k * lim.cap < Len(ops) THEN k * lim.cap ELSE Len(ops)
<1>2. a \in Nat /\ b \in Nat /\ b <= Len(ops)
  BY <1>1, ProductNat
<1>3. Chunk(ops, k) = SubSeq(ops, a + 1, b)
  BY DEF Chunk
<1> HIDE DEF a, b
<1>4. SubSeq(ops, a + 1, b) \in Seq(T)
  BY <1>1, <1>2
<1> QED
  BY <1>3, <1>4

(* A queue that only grew. *)
Extended(p, q) ==
  /\ IsSeq(q) /\ Len(p) \in Nat /\ Len(q) \in Nat /\ Len(p) <= Len(q)
  /\ DOMAIN q = 1..Len(q) /\ \A i \in DOMAIN p : i \in DOMAIN q /\ q[i] = p[i]
QueuedOn(d, e) ==
  IsDoc(e) /\ e.auth = d.auth /\ e.cursor = d.cursor /\ Extended(d.pending, e.pending)

(* A queue extends itself. *)
LEMMA ExtendedSelf == ASSUME NEW p, IsSeq(p) PROVE Extended(p, p)
<1>1. PICK T : p \in Seq(T)
  BY DEF IsSeq
<1> QED
  BY <1>1 DEF Extended

(* One more batch keeps what the queue of d held. *)
LEMMA BatchedQueues ==
  ASSUME NEW d, NEW e, NEW ops, Len(ops) \in Nat, QueuedOn(d, e)
  PROVE  QueuedOn(d, Batched(e, ops))
<1> DEFINE c == Tick(e.clock, wall)
           b == [id |-> StampOf(c, Me), ops |-> ops, flying |-> FALSE]
           q == Append(e.pending, b)
<1>1. IsBatch(b)
  BY DEF IsBatch
<1>2. Batched(e, ops) = [e EXCEPT !.clock = c, !.fresh = FALSE, !.pending = q]
  BY DEF Batched
<1> HIDE DEF b
<1>3. /\ IsSeq(q) /\ Range(q) = Range(e.pending) \cup {b}
      /\ DOMAIN q = DOMAIN e.pending \cup {Len(e.pending) + 1}
      /\ (\A i \in DOMAIN e.pending : q[i] = e.pending[i])
      /\ Len(q) = Len(e.pending) + 1
  BY AppendIsSeq DEF QueuedOn, IsDoc, Batches
<1> HIDE DEF q, c
<1>4. LET n == Batched(e, ops)
      IN  DOMAIN n = DOMAIN e /\ n.auth = e.auth /\ n.cursor = e.cursor /\ n.pending = q
  BY <1>2 DEF QueuedOn, IsDoc
<1>5. Batches(q)
  BY <1>1, <1>3 DEF QueuedOn, IsDoc, Batches
<1>6. Extended(d.pending, q)
  BY <1>3 DEF QueuedOn, Extended
<1> HIDE DEF Batched
<1> QED
  BY <1>4, <1>5, <1>6 DEF QueuedOn, IsDoc

Queueing(k, d, ops, i) == IF i = 0 THEN d ELSE Batched(k[i - 1], Chunk(ops, i))

(* Enqueue is the last value of a recursive function on the chunks. *)
LEMMA EnqueueIs ==
  ASSUME NEW d, NEW ops, Len(ops) \in Nat, lim.cap \in Nat \ {0}
  PROVE  \E n \in Nat : \E k : /\ k = [i \in 0..n |-> Queueing(k, d, ops, i)]
                               /\ Enqueue(d, ops) = k[n]
<1>. DEFINE Has == {n \in Nat : \E k : k = [i \in 0..n |-> Queueing(k, d, ops, i)]}
<1>1. 0 \in Has
  <2>. DEFINE k == [i \in 0..0 |-> d]
  <2>1. k = [i \in 0..0 |-> Queueing(k, d, ops, i)]
    BY DEF Queueing
  <2>. QED
    BY <2>1
<1>2. ASSUME NEW n \in Nat, n \in Has  PROVE n + 1 \in Has
  <2>1. PICK k : k = [i \in 0..n |-> Queueing(k, d, ops, i)]
    BY <1>2
  <2>. DEFINE h == [i \in 0..(n + 1) |-> IF i = n + 1 THEN Queueing(k, d, ops, i) ELSE k[i]]
  <2>2. \A i \in 0..(n + 1) : h[i] = Queueing(h, d, ops, i)
    <3>. SUFFICES ASSUME NEW i \in 0..(n + 1)  PROVE h[i] = Queueing(h, d, ops, i)
      OBVIOUS
    <3>1. i = 0 \/ h[i - 1] = k[i - 1]
      OBVIOUS
    <3>2. Queueing(h, d, ops, i) = Queueing(k, d, ops, i)
      BY <3>1 DEF Queueing
    <3>3. i # n + 1 => k[i] = Queueing(k, d, ops, i)
      BY <2>1
    <3>. QED
      BY <3>2, <3>3
  <2>3. h = [i \in 0..(n + 1) |-> h[i]]
    OBVIOUS
  <2>. HIDE DEF h
  <2>4. h = [i \in 0..(n + 1) |-> Queueing(h, d, ops, i)]
    BY <2>2, <2>3
  <2>. QED
    BY <2>4
<1>3. Nat \subseteq Has
  <2>. HIDE DEF Has
  <2>. QED
    BY <1>1, <1>2, SetInduction
<1>. DEFINE n == (Len(ops) + lim.cap - 1) \div lim.cap
<1>4. n \in Nat
  BY BatchCount
<1>. HIDE DEF n
<1>5. \E k : k = [i \in 0..n |-> Queueing(k, d, ops, i)]
  BY <1>3, <1>4
<1>6. \E k : k = [i \in 0..n |-> Queueing(k, d, ops, i)] /\ Enqueue(d, ops) = k[n]
  BY <1>5 DEF Enqueue, Queueing, n
<1>. QED
  BY <1>4, <1>6

(* New batches go to the end of the queue, and nothing else changes. *)
LEMMA EnqueueQueues ==
  ASSUME NEW d, NEW ops, IsSeq(ops), IsDoc(d), lim.cap \in Nat \ {0}
  PROVE  QueuedOn(d, Enqueue(d, ops))
<1>0. Len(ops) \in Nat
  BY DEF IsSeq
<1>a. PICK n \in Nat : \E k : /\ k = [i \in 0..n |-> Queueing(k, d, ops, i)]
                             /\ Enqueue(d, ops) = k[n]
  BY <1>0, EnqueueIs
<1>1. PICK k : /\ k = [i \in 0..n |-> Queueing(k, d, ops, i)]
               /\ Enqueue(d, ops) = k[n]
  BY <1>a
<1>. DEFINE Goods == {i \in Nat : QueuedOn(d, k[i])}
<1>2. 0 \in Goods
  <2>1. k[0] = d
    BY <1>1 DEF Queueing
  <2>. QED
    BY <2>1, ExtendedSelf DEF QueuedOn, IsDoc, Batches
<1>3. ASSUME NEW i \in 0..(n - 1), i \in Goods  PROVE i + 1 \in Goods
  <2>1. k[i + 1] = Queueing(k, d, ops, i + 1)
    BY <1>1
  <2>2. k[i + 1] = Batched(k[i], Chunk(ops, i + 1))
    BY <2>1 DEF Queueing
  <2>3. QueuedOn(d, k[i]) /\ Len(Chunk(ops, i + 1)) \in Nat
    BY <1>3, ChunkLen
  <2>. QED
    BY <2>2, <2>3, BatchedQueues
<1>4. n \in Goods
  <2>. HIDE DEF Goods
  <2>. QED
    BY <1>2, <1>3, UpTo
<1>. QED
  BY <1>1, <1>4

(* A finite set listed is a sequence. *)
LEMMA SetToSeqIsSeq ==
  ASSUME NEW S, IsFiniteSet(S)
  PROVE  IsSeq(SetToSeq(S))
<1>1. Cardinality(S) \in Nat /\ ExistsBijection(1..Cardinality(S), S)
  BY FS_CardinalityType
<1>2. \E f \in [1..Cardinality(S) -> S] : IsInjective(f)
  BY <1>1 DEF ExistsBijection, Bijection, Injection, IsInjective
<1>3. SetToSeq(S) \in [1..Cardinality(S) -> S]
  BY <1>2 DEF SetToSeq
<1>4. SetToSeq(S) \in Seq(S)
  BY <1>1, <1>3
<1> QED
  BY <1>4 DEF IsSeq

(* What a function takes a finite set to is finite. *)
LEMMA ImageFinite ==
  ASSUME NEW S, IsFiniteSet(S), NEW f, DOMAIN f = S
  PROVE  IsFiniteSet({f[x] : x \in S})
<1> DEFINE T == {f[x] : x \in S}
           g == [x \in S |-> f[x]]
<1>1. g \in Surjection(S, T)
  BY DEF Surjection
<1> HIDE DEF T, g
<1>2. IsFiniteSet(T)
  BY <1>1, FS_Surjection
<1> QED
  BY <1>2 DEF T

(* The seeds of a set of rows, which Limits makes finite, are a sequence. *)
LEMMA SeedsIsSeq ==
  ASSUME NEW d, NEW rs \in SUBSET RowIds
  PROVE  IsSeq(Seeds(d, rs))
<1>1. IsFiniteSet(rs)
  BY LimitsAssumption, FS_Subset
<1> DEFINE f == [r \in rs |-> SeedOp(r, d.auth[r])]
<1>2. IsFiniteSet({f[r] : r \in rs})
  BY <1>1, ImageFinite
<1>3. {f[r] : r \in rs} = {SeedOp(r, d.auth[r]) : r \in rs}
  OBVIOUS
<1> QED
  BY <1>2, <1>3, SetToSeqIsSeq DEF Seeds

(* Marking batches in flight keeps the replica but for the marks. *)
LEMMA MarkedKeeps ==
  ASSUME NEW d, NEW flag, IsDoc(d)
  PROVE  LET e == Marked(d, flag)
         IN  /\ IsDoc(e) /\ e.auth = d.auth /\ e.cursor = d.cursor
             /\ {b.id : b \in Range(e.pending)} = {b.id : b \in Range(d.pending)}
<1> DEFINE q == [i \in DOMAIN d.pending |-> [d.pending[i] EXCEPT !.flying = flag]]
           e == Marked(d, flag)
<1>1. PICK T : d.pending \in Seq(T)
  BY DEF IsDoc, Batches, IsSeq
<1>2. DOMAIN d.pending = 1..Len(d.pending) /\ Len(d.pending) \in Nat
  BY <1>1
<1>3. \A i \in DOMAIN d.pending : IsBatch(d.pending[i])
  BY DEF IsDoc, Batches, Range
<1>4. \A i \in DOMAIN q : IsBatch(q[i]) /\ q[i].id = d.pending[i].id
  BY <1>3 DEF IsBatch
<1>5. IsSeq(q)
  <2>1. DOMAIN q = 1..Len(d.pending) /\ q = [i \in DOMAIN q |-> q[i]]
    BY <1>2
  <2> HIDE DEF q
  <2> QED
    BY <1>2, <2>1, MapIsSeq
<1>6. DOMAIN q = DOMAIN d.pending
  OBVIOUS
<1>7. DOMAIN e = DOMAIN d /\ e.auth = d.auth /\ e.cursor = d.cursor /\ e.pending = q
  BY DEF Marked, IsDoc
<1> HIDE DEF q, e
<1>8. Batches(q)
  BY <1>4, <1>5 DEF Batches, Range
<1>9. {b.id : b \in Range(q)} = {b.id : b \in Range(d.pending)}
  BY <1>4, <1>6 DEF Range
<1>10. IsDoc(e)
  BY <1>7, <1>8 DEF IsDoc
<1> QED
  BY <1>7, <1>9, <1>10 DEF e

(* Only keeps the elements of s that are in S. *)
LEMMA OnlyRange ==
  ASSUME NEW s, IsSeq(s), NEW S
  PROVE  IsSeq(Only(s, S)) /\ Range(Only(s, S)) = Range(s) \cap S
<1>1. PICK T : s \in Seq(T)
  BY DEF IsSeq
<1>2. /\ Only(s, S) \in Seq(T)
      /\ \A x : (\E i \in DOMAIN Only(s, S) : Only(s, S)[i] = x)
                  <=> x \in S /\ \E i \in DOMAIN s : s[i] = x
  BY <1>1, OnlyKeeps
<1>3. Range(Only(s, S)) = Range(s) \cap S
  BY <1>2 DEF Range
<1> QED
  BY <1>2, <1>3 DEF IsSeq

(* An acknowledgement takes from the queue no batch but its own. *)
LEMMA AckBatchKeeps ==
  ASSUME NEW d, NEW id, IsDoc(d)
  PROVE  LET e == AckBatch(d, id)
         IN  /\ IsDoc(e) /\ e.auth = d.auth /\ e.cursor = d.cursor
             /\ {b.id : b \in Range(d.pending)} \subseteq {b.id : b \in Range(e.pending)} \cup {id}
<1> DEFINE S == {b \in Range(d.pending) : b.id # id}
           q == Only(d.pending, S)
           e == AckBatch(d, id)
<1>1. IsSeq(q) /\ Range(q) = Range(d.pending) \cap S
  BY OnlyRange DEF IsDoc, Batches
<1>2. DOMAIN e = DOMAIN d /\ e.auth = d.auth /\ e.cursor = d.cursor /\ e.pending = q
  BY DEF AckBatch, IsDoc
<1>3. Batches(q)
  BY <1>1 DEF Batches, IsDoc
<1> HIDE DEF e, q
<1>4. IsDoc(e)
  BY <1>2, <1>3 DEF IsDoc
<1>5. {b.id : b \in Range(d.pending)} \subseteq {b.id : b \in Range(q)} \cup {id}
  BY <1>1
<1> QED
  BY <1>2, <1>4, <1>5 DEF e

(* What may be pushed is in the queue. *)
LEMMA PushableIs ==
  ASSUME NEW d, IsDoc(d)
  PROVE  Batches(Pushable(d)) /\ Range(Pushable(d)) \subseteq Range(d.pending)
BY OnlyRange DEF Pushable, Batches, IsDoc

(* The pushes for a queue are messages. *)
LEMMA PushesAre ==
  ASSUME NEW d, IsDoc(d)
  PROVE  IsSeq(Pushes(d)) /\ \A m \in Range(Pushes(d)) : IsPush(m)
<1> DEFINE p == Pushable(d)
<1>1. Batches(p)
  BY PushableIs
<1> HIDE DEF p
<1>2. Pushes(d) = [i \in DOMAIN p |-> [k |-> "push", id |-> p[i].id, ops |-> p[i].ops]]
  BY DEF Pushes, p
<1>3. DOMAIN p = 1..Len(p) /\ Len(p) \in Nat
  BY <1>1 DEF Batches, IsSeq
<1>4. Pushes(d) \in Seq({Pushes(d)[i] : i \in DOMAIN p})
  BY <1>2, <1>3
<1>5. \A i \in DOMAIN p : IsPush(Pushes(d)[i])
  BY <1>1, <1>2 DEF Batches, IsBatch, IsPush, Range
<1> QED
  BY <1>2, <1>4, <1>5 DEF IsSeq, Range

(* Rows put over others replace those they name. *)
LEMMA PutRows ==
  ASSUME NEW auth, NEW rows, AllRows(auth), SomeRows(rows)
  PROVE  AllRows(Put(auth, rows))
         /\ \A r \in RowIds : Put(auth, rows)[r] = IF r \in DOMAIN rows THEN rows[r] ELSE auth[r]
BY DEF Put, AllRows, SomeRows

(* A broadcast changes the rows it names and moves the cursor by one or not at all. *)
LEMMA ApplyRowsKeeps ==
  ASSUME NEW d, NEW f, IsDoc(d), IsRows(f)
  PROVE  LET e == ApplyRows(d, f)
         IN  /\ IsDoc(e) /\ e.auth = Put(d.auth, f.rows) /\ e.pending = d.pending
             /\ e.cursor = IF f.seq = d.cursor + 1 THEN f.seq ELSE d.cursor
<1> DEFINE e == ApplyRows(d, f)
<1>1. /\ DOMAIN e = DOMAIN d /\ e.auth = Put(d.auth, f.rows) /\ e.pending = d.pending
      /\ e.cursor = IF f.seq = d.cursor + 1 THEN f.seq ELSE d.cursor
  BY DEF ApplyRows, IsDoc
<1>2. AllRows(Put(d.auth, f.rows))
  BY PutRows DEF IsDoc, IsRows
<1> HIDE DEF e
<1>3. IsDoc(e)
  BY <1>1, <1>2 DEF IsDoc, IsRows
<1> QED
  BY <1>1, <1>3 DEF e

(* What an answer makes of the rows held. *)
AnswerAuth(d, a) == Put(IF a.full /\ a.seq >= d.cursor THEN NoRows ELSE d.auth, a.rows)

(* Adopting rows and a cursor, with seeds queued behind, keeps the queue. *)
LEMMA AdoptKeeps ==
  ASSUME NEW d, NEW rows, NEW seq \in Nat, NEW ops, IsDoc(d), AllRows(rows), IsSeq(ops),
         lim.cap \in Nat \ {0}
  PROVE  LET e == Enqueue([d EXCEPT !.auth = rows, !.cursor = seq, !.fresh = FALSE], ops)
         IN  /\ IsDoc(e) /\ e.auth = rows /\ e.cursor = seq
             /\ Extended(d.pending, e.pending)
<1> DEFINE n == [d EXCEPT !.auth = rows, !.cursor = seq, !.fresh = FALSE]
<1>1. IsDoc(n) /\ n.auth = rows /\ n.cursor = seq /\ n.pending = d.pending
  BY DEF IsDoc
<1> HIDE DEF n
<1>2. QueuedOn(n, Enqueue(n, ops))
  BY <1>1, EnqueueQueues
<1>3. LET e == Enqueue(n, ops)
      IN  IsDoc(e) /\ e.auth = rows /\ e.cursor = seq /\ Extended(d.pending, e.pending)
  BY <1>1, <1>2 DEF QueuedOn
<1> QED
  BY <1>3 DEF n

(* An answer gives the replica its rows and its number, and keeps the queue. *)
LEMMA ApplyStateKeeps ==
  ASSUME NEW d, NEW a, IsDoc(d), IsState(a), lim.cap \in Nat \ {0}
  PROVE  LET e == ApplyState(d, a)
         IN  /\ IsDoc(e) /\ e.auth = AnswerAuth(d, a) /\ e.cursor = a.seq
             /\ Extended(d.pending, e.pending)
<1> DEFINE e == ApplyState(d, a)
           adopt(rows, seeds) == Enqueue([d EXCEPT !.auth = rows, !.cursor = a.seq, !.fresh = FALSE],
                                         Seeds(d, seeds))
<1>1. \A rs \in SUBSET RowIds : IsSeq(Seeds(d, rs))
  BY SeedsIsSeq
<1>2. AllRows(NoRows) /\ AllRows(d.auth) /\ SomeRows(a.rows) /\ a.seq \in Nat
  BY DEF NoRows, AbsentRow, AllRows, IsRow, IsDoc, IsState
<1>3. AllRows(Put(d.auth, a.rows)) /\ AllRows(Put(NoRows, a.rows))
  BY <1>2, PutRows
<1>4. Held(d) \in SUBSET RowIds /\ Held(d) \ DOMAIN a.rows \in SUBSET RowIds /\ {} \in SUBSET RowIds
  BY DEF Held
<1>5. \E rs \in SUBSET RowIds : e = adopt(AnswerAuth(d, a), rs)
  <2>1. CASE ~a.full
    <3>1. AnswerAuth(d, a) = Put(d.auth, a.rows)
      BY <2>1 DEF AnswerAuth
    <3>2. e = adopt(Put(d.auth, a.rows), {})
      BY <2>1 DEF ApplyState
    <3> QED
      BY <1>4, <3>1, <3>2
  <2>2. CASE a.full /\ a.seq < d.cursor
    <3>1. AnswerAuth(d, a) = Put(d.auth, a.rows)
      BY <1>2, <2>2 DEF AnswerAuth, IsDoc
    <3>2. e = adopt(Put(d.auth, a.rows), Held(d))
      BY <2>2 DEF ApplyState
    <3> QED
      BY <1>4, <3>1, <3>2
  <2>3. CASE a.full /\ ~(a.seq < d.cursor)
    <3>1. AnswerAuth(d, a) = Put(NoRows, a.rows)
      BY <1>2, <2>3 DEF AnswerAuth, IsDoc
    <3>2. e = adopt(Put(NoRows, a.rows), Held(d) \ DOMAIN a.rows)
      BY <2>3 DEF ApplyState
    <3> QED
      BY <1>4, <3>1, <3>2
  <2> QED
    BY <2>1, <2>2, <2>3
<1>6. PICK rs \in SUBSET RowIds : e = adopt(AnswerAuth(d, a), rs)
  BY <1>5
<1>7. AllRows(AnswerAuth(d, a))
  BY <1>3 DEF AnswerAuth
<1>8. IsSeq(Seeds(d, rs))
  BY <1>1
<1> DEFINE ops == Seeds(d, rs)
           rows == AnswerAuth(d, a)
<1>9. e = Enqueue([d EXCEPT !.auth = rows, !.cursor = a.seq, !.fresh = FALSE], ops)
  BY <1>6
<1> HIDE DEF e, ops, rows
<1>10. IsDoc(e) /\ e.auth = rows /\ e.cursor = a.seq /\ Extended(d.pending, e.pending)
  <2>1. IsSeq(ops) /\ AllRows(rows)
    BY <1>7, <1>8 DEF ops, rows
  <2>2. a.seq \in Nat
    BY <1>2
  <2> HIDE DEF ops, rows
  <2>3. LET x == Enqueue([d EXCEPT !.auth = rows, !.cursor = a.seq, !.fresh = FALSE], ops)
        IN  IsDoc(x) /\ x.auth = rows /\ x.cursor = a.seq /\ Extended(d.pending, x.pending)
    BY <2>1, <2>2, AdoptKeeps
  <2> QED
    BY <1>9, <2>3
<1> QED
  BY <1>10 DEF e, rows

------------------------------------------------------------------------------
(* What keeps the cursors true. *)
IsMessage(m) == IsHello(m) \/ IsPush(m) \/ IsState(m) \/ IsRows(m) \/ m.k = "ack"

(* What held of a room, up to a number it had, holds of the room grown. *)
LEMMA GrewHolds ==
  ASSUME NEW rm, NEW rn, IsRoom(rm), RoomTrue(rm), Grew(rm, rn)
  PROVE  /\ \A auth, n : n \in Nat /\ n <= rm.seq /\ HeldTo(rm, auth, n) => HeldTo(rn, auth, n)
         /\ \A a, n : IsState(a) /\ AnswerTrue(rm, a, n) => AnswerTrue(rn, a, n)
         /\ \A f : IsRows(f) /\ RowsTrue(rm, f) => RowsTrue(rn, f)
<1>0. /\ rm.seq \in Nat /\ rn.seq \in Nat /\ rm.seq <= rn.seq
      /\ \A r \in RowIds : rm.rows[r].seq \in Nat /\ rn.rows[r].seq \in Nat
  BY DEF IsRoom, AllRows, IsRow, Grew
<1>1. ASSUME NEW r \in RowIds, There(rn, r), rn.rows[r].seq <= rm.seq
      PROVE  rn.rows[r] = rm.rows[r] /\ There(rm, r)
  BY <1>0, <1>1 DEF Grew, There
<1>2. ASSUME NEW auth, NEW n \in Nat, n <= rm.seq, HeldTo(rm, auth, n)
      PROVE  HeldTo(rn, auth, n)
  BY <1>0, <1>1, <1>2 DEF HeldTo
<1>3. ASSUME NEW a, NEW n, IsState(a), AnswerTrue(rm, a, n)
      PROVE  AnswerTrue(rn, a, n)
  <2>1. a.seq \in Nat /\ a.seq <= rm.seq /\ \A r \in DOMAIN a.rows : a.rows[r].seq <= a.seq
    BY <1>3 DEF IsState, AnswerTrue
  <2>2. ASSUME NEW r \in RowIds, There(rn, r), rn.rows[r].seq <= a.seq
        PROVE  IF r \in DOMAIN a.rows THEN a.rows[r] = rn.rows[r]
               ELSE ~a.full /\ rn.rows[r].seq <= n
    <3>1. rn.rows[r] = rm.rows[r] /\ There(rm, r)
      BY <1>0, <1>1, <2>1, <2>2
    <3> QED
      BY <1>3, <2>2, <3>1 DEF AnswerTrue
  <2> QED
    BY <1>0, <2>1, <2>2 DEF AnswerTrue
<1>4. ASSUME NEW f, IsRows(f), RowsTrue(rm, f)
      PROVE  RowsTrue(rn, f)
  <2>1. f.seq \in Nat /\ f.seq <= rm.seq /\ \A r \in DOMAIN f.rows : f.rows[r].seq = f.seq
    BY <1>4 DEF IsRows, RowsTrue
  <2>2. ASSUME NEW r \in RowIds, There(rn, r), rn.rows[r].seq <= f.seq
        PROVE  IF r \in DOMAIN f.rows THEN f.rows[r] = rn.rows[r] ELSE rn.rows[r].seq < f.seq
    <3>1. rn.rows[r] = rm.rows[r] /\ There(rm, r)
      BY <1>0, <1>1, <2>1, <2>2
    <3> QED
      BY <1>4, <2>2, <3>1 DEF RowsTrue
  <2> QED
    BY <1>0, <2>1, <2>2 DEF RowsTrue
<1> QED
  BY <1>2, <1>3, <1>4

(* The room grows, and the messages on their way are old ones or true of it. *)
LEMMA CursorsGrow ==
  ASSUME NEW rm, NEW rn, NEW d, NEW saved, NEW h, NEW ms, NEW ns,
         IsRoom(rm), Grew(rm, rn), IsDoc(d), IsDoc(saved), IsHttp(h),
         \A m \in ms : IsMessage(m), CursorsAre(rm, d, saved, h, ms),
         \A m \in ns : m \in ms \/ m.k \in {"ack", "push"} \/ (m.k = "rows" /\ RowsTrue(rn, m))
  PROVE  CursorsAre(rn, d, saved, h, ns)
<1>0. /\ RoomTrue(rm) /\ rm.seq \in Nat /\ rn.seq \in Nat /\ rm.seq <= rn.seq /\ RoomTrue(rn)
      /\ d.cursor \in Nat /\ saved.cursor \in Nat /\ h.since \in Nat
  BY DEF CursorsAre, IsRoom, Grew, IsDoc, IsHttp
<1>1. /\ \A auth, n : n \in Nat /\ n <= rm.seq /\ HeldTo(rm, auth, n) => HeldTo(rn, auth, n)
      /\ \A a, n : IsState(a) /\ AnswerTrue(rm, a, n) => AnswerTrue(rn, a, n)
      /\ \A f : IsRows(f) /\ RowsTrue(rm, f) => RowsTrue(rn, f)
  BY <1>0, GrewHolds
<1>2. DocTrue(rn, d) /\ DocTrue(rn, saved)
  BY <1>0, <1>1 DEF CursorsAre, DocTrue
<1>3. PullTrue(rn, d, h)
  <2>1. PullTrue(rm, d, h)
    BY DEF CursorsAre
  <2>2. ASSUME Pulling(h) PROVE h.since <= rn.seq /\ HeldTo(rn, d.auth, h.since)
    BY <1>0, <1>1, <2>1, <2>2 DEF PullTrue
  <2>3. ASSUME h.phase = "answer", Pulling(h) PROVE AnswerTrue(rn, h.answer, h.since)
    BY <1>1, <2>1, <2>3 DEF PullTrue, IsHttp
  <2> QED
    BY <2>2, <2>3 DEF PullTrue
<1>4. ASSUME NEW m \in ms PROVE FlightTrue(rn, d, h, m)
  <2>0. FlightTrue(rm, d, h, m) /\ IsMessage(m)
    BY <1>4 DEF CursorsAre
  <2>1. ASSUME m.k = "hello" PROVE HelloTrue(rn, d, h, m)
    <3>1. HelloTrue(rm, d, h, m) /\ m.cursor \in Nat
      BY <2>0, <2>1 DEF FlightTrue, IsMessage, IsHello, IsPush, IsState, IsRows
    <3> QED
      BY <1>0, <1>1, <3>1 DEF HelloTrue
  <2>2. ASSUME m.k = "state" PROVE StateTrue(rn, d, h, m)
    <3>1. StateTrue(rm, d, h, m) /\ IsState(m)
      BY <2>0, <2>2 DEF FlightTrue, IsMessage, IsHello, IsPush, IsState, IsRows
    <3>2. PICK n \in Nat : /\ n <= rm.seq /\ HeldTo(rm, d.auth, n) /\ AnswerTrue(rm, m, n)
                           /\ Busy(h) => n <= d.cursor
      BY <3>1 DEF StateTrue
    <3>3. n <= rn.seq /\ HeldTo(rn, d.auth, n) /\ AnswerTrue(rn, m, n)
      BY <1>0, <1>1, <3>1, <3>2
    <3> QED
      BY <3>1, <3>2, <3>3 DEF StateTrue
  <2>3. ASSUME m.k = "rows" PROVE RowsTrue(rn, m)
    <3>1. RowsTrue(rm, m) /\ IsRows(m)
      BY <2>0, <2>3 DEF FlightTrue, IsMessage, IsHello, IsPush, IsState, IsRows
    <3> QED
      BY <1>1, <3>1
  <2> QED
    BY <2>1, <2>2, <2>3 DEF FlightTrue
<1>5. \A m \in ns : FlightTrue(rn, d, h, m)
  BY <1>4 DEF FlightTrue
<1> QED
  BY <1>0, <1>2, <1>3, <1>5 DEF CursorsAre

(* A step that leaves the rows and the cursors alone. *)
LEMMA CursorsStay ==
  ASSUME NEW rm, NEW d, NEW saved, NEW h, NEW ms, NEW e, NEW g, NEW ns,
         CursorsAre(rm, d, saved, h, ms), e.auth = d.auth, e.cursor = d.cursor,
         Pulling(g) => Pulling(h) /\ g.since = h.since /\ g.phase = h.phase /\ g.answer = h.answer,
         Busy(g) => Busy(h) \/ ns = {},
         \A m \in ns : m \in ms \/ m.k \in {"ack", "push"}
  PROVE  CursorsAre(rm, e, saved, g, ns)
<1>1. RoomTrue(rm) /\ DocTrue(rm, e) /\ DocTrue(rm, saved)
  BY DEF CursorsAre, DocTrue
<1>2. PullTrue(rm, e, g)
  BY DEF CursorsAre, PullTrue
<1>3. ASSUME NEW m \in ns, m \in ms PROVE FlightTrue(rm, e, g, m)
  <2>0. FlightTrue(rm, d, h, m) /\ (Busy(g) => Busy(h)) /\ (Pulling(g) => Pulling(h) /\ g.since = h.since)
    BY <1>3 DEF CursorsAre
  <2>1. m.k = "hello" => HelloTrue(rm, e, g, m)
    BY <2>0 DEF FlightTrue, HelloTrue
  <2>2. m.k = "state" => StateTrue(rm, e, g, m)
    BY <2>0 DEF FlightTrue, StateTrue
  <2> QED
    BY <2>0, <2>1, <2>2 DEF FlightTrue
<1>4. \A m \in ns : FlightTrue(rm, e, g, m)
  BY <1>3 DEF FlightTrue
<1> QED
  BY <1>1, <1>2, <1>4 DEF CursorsAre

(* Rows no older than those held, true up to q. *)
LEMMA PutHolds ==
  ASSUME NEW rm, NEW auth, NEW rows, NEW q \in Nat, NEW n \in Nat, IsRoom(rm), AllRows(auth),
         SomeRows(rows), HeldTo(rm, auth, n),
         \A r \in DOMAIN rows : rows[r].seq <= q /\ ~(rows[r].seq < auth[r].seq),
         \A r \in DOMAIN rows : There(rm, r) /\ rm.rows[r].seq <= q => rows[r] = rm.rows[r]
  PROVE  HeldTo(rm, Put(auth, rows), n)
<1> SUFFICES ASSUME NEW r \in RowIds, There(rm, r), rm.rows[r].seq <= n
             PROVE  Put(auth, rows)[r] = rm.rows[r]
  BY DEF HeldTo
<1>1. auth[r] = rm.rows[r] /\ auth[r].seq \in Nat /\ rm.rows[r].seq \in Nat
  BY DEF HeldTo, AllRows, IsRow, IsRoom
<1>2. CASE r \notin DOMAIN rows
  BY <1>1, <1>2 DEF Put
<1>3. CASE r \in DOMAIN rows
  <2>1. rows[r].seq \in Nat /\ rows[r].seq <= q /\ ~(rows[r].seq < auth[r].seq)
    BY <1>3 DEF SomeRows, IsRow
  <2>2. rows[r] = rm.rows[r]
    BY <1>1, <1>3, <2>1
  <2> QED
    BY <1>3, <2>2 DEF Put
<1> QED
  BY <1>2, <1>3

(* What the replica holds up to n it holds up to less. *)
LEMMA HeldLess ==
  ASSUME NEW rm, NEW auth, NEW n \in Nat, NEW k \in Nat, k <= n, IsRoom(rm), HeldTo(rm, auth, n)
  PROVE  HeldTo(rm, auth, k)
BY DEF HeldTo, IsRoom, AllRows, IsRow

(* Applying a true answer computed from a cursor the replica had makes it hold
   the room up to the number of the answer; a cursor it had before stays true
   unless a row of the answer is older than the one it replaces. *)
LEMMA AnswerHolds ==
  ASSUME NEW rm, NEW d, NEW a, NEW n \in Nat, IsRoom(rm), IsDoc(d), IsState(a),
         AnswerTrue(rm, a, n), HeldTo(rm, d.auth, n)
  PROVE  /\ HeldTo(rm, AnswerAuth(d, a), a.seq)
         /\ (\A r \in DOMAIN a.rows : ~(a.rows[r].seq < d.auth[r].seq)) =>
              \A k \in Nat : k <= d.cursor /\ HeldTo(rm, d.auth, k)
                               => HeldTo(rm, AnswerAuth(d, a), k)
<1>0. a.seq \in Nat /\ d.cursor \in Nat /\ AllRows(d.auth) /\ SomeRows(a.rows)
  BY DEF IsState, IsDoc
<1>1. HeldTo(rm, AnswerAuth(d, a), a.seq)
  BY DEF HeldTo, AnswerTrue, AnswerAuth, Put
<1>2. ASSUME NEW k \in Nat, k <= d.cursor, HeldTo(rm, d.auth, k),
             \A r \in DOMAIN a.rows : ~(a.rows[r].seq < d.auth[r].seq)
      PROVE  HeldTo(rm, AnswerAuth(d, a), k)
  <2>1. CASE a.full /\ a.seq >= d.cursor
    BY <1>0, <1>1, <1>2, <2>1, HeldLess
  <2>2. CASE ~(a.full /\ a.seq >= d.cursor)
    <3>1. AnswerAuth(d, a) = Put(d.auth, a.rows)
      BY <2>2 DEF AnswerAuth
    <3>2. \A r \in DOMAIN a.rows : /\ a.rows[r].seq <= a.seq
                                   /\ There(rm, r) /\ rm.rows[r].seq <= a.seq => a.rows[r] = rm.rows[r]
      BY <1>0 DEF AnswerTrue, SomeRows
    <3> QED
      BY <1>0, <1>2, <3>1, <3>2, PutHolds
  <2> QED
    BY <2>1, <2>2
<1> QED
  BY <1>1, <1>2

(* An answer is true of the room that gives it. *)
LEMMA AnswerIs ==
  ASSUME NEW n \in Nat, NEW anew \in BOOLEAN, IsRoom(room)
  PROVE  /\ IsState(Answer(n, anew)) /\ Answer(n, anew).seq = room.seq
         /\ RoomTrue(room) => AnswerTrue(room, Answer(n, anew), n)
<1> DEFINE full == anew \/ n < room.floor \/ n > room.seq
           sent == {r \in RowIds : /\ room.rows[r].state # "absent"
                                   /\ full \/ room.rows[r].seq > n}
           a == Answer(n, anew)
<1>1. /\ a.k = "state" /\ a.seq = room.seq /\ a.full = full /\ DOMAIN a.rows = sent
      /\ \A r \in sent : a.rows[r] = room.rows[r]
  BY DEF Answer
<1>2. full \in BOOLEAN /\ sent \subseteq RowIds
  OBVIOUS
<1>3. IsState(a)
  BY <1>1, <1>2 DEF IsState, SomeRows, IsRoom, AllRows
<1>4. \A r \in RowIds : There(room, r) => (r \in sent \/ (~full /\ room.rows[r].seq <= n))
  BY DEF There, IsRoom, AllRows, IsRow
<1> HIDE DEF a, full, sent
<1>5. RoomTrue(room) => AnswerTrue(room, a, n)
  BY <1>1, <1>2, <1>4 DEF AnswerTrue, RoomTrue, IsRoom
<1> QED
  BY <1>1, <1>3, <1>5 DEF a

------------------------------------------------------------------------------
(* The user's writes. *)
LEMMA SpendKeeps ==
  ASSUME NEW what \in {"own", "peer", "drops", "kills", "wipes", "gcs", "lost", "fails", "saves"},
         IsLimit(lim), Spend(what)
  PROVE  IsLimit(lim')
BY DEF Spend, IsLimit

(* A queue that extends another has its batches. *)
LEMMA ExtendedIds ==
  ASSUME NEW p, NEW q, Extended(p, q)
  PROVE  {b.id : b \in Range(p)} \subseteq {b.id : b \in Range(q)}
BY DEF Extended, Range

(* What the history keeps of a step that issues batches. *)
Issues(p, q, d) ==
  /\ IsPast(q) /\ q.issued \subseteq p.issued \cup {b.id : b \in Range(d.pending)}
  /\ q.order = p.order /\ q.lostWrite = p.lostWrite /\ q.wiped = p.wiped

(* The ledger of issued batches gets those of the queue. *)
LEMMA IssueIs ==
  ASSUME NEW d, IsDoc(d), IsPast(past), Extended(doc.pending, d.pending)
  PROVE  Issues(past, Issue(d), d) /\ Issue(d).regress = past.regress
<1> DEFINE m == Len(doc.pending) + 1
           new == SubSeq(d.pending, m, Len(d.pending))
<1>1. PICK T : d.pending \in Seq(T)
  BY DEF IsDoc, Batches, IsSeq
<1>2. m \in Nat /\ m >= 1 /\ Len(d.pending) \in Nat /\ DOMAIN d.pending = 1..Len(d.pending)
  BY DEF Extended
<1>3. /\ DOMAIN new = 1..(Len(d.pending) - m + 1)
      /\ \A i \in 1..(Len(d.pending) - m + 1) : new[i] = d.pending[m + i - 1]
  <2>1. m \in 1..(Len(d.pending) + 1) /\ Len(d.pending) \in (m - 1)..Len(d.pending)
    BY <1>2 DEF Extended
  <2> HIDE DEF m
  <2>2. /\ new \in Seq(T) /\ Len(new) = Len(d.pending) - m + 1
        /\ \A i \in 1..(Len(d.pending) - m + 1) : new[i] = d.pending[m + i - 1]
    BY <1>1, <2>1, SubSeqProperties
  <2> QED
    BY <2>2
<1> HIDE DEF new, m
<1>4. \A i \in DOMAIN new : new[i] \in Range(d.pending)
  <2> SUFFICES ASSUME NEW i \in DOMAIN new PROVE new[i] \in Range(d.pending)
    OBVIOUS
  <2>1. i \in 1..(Len(d.pending) - m + 1)
    BY <1>3
  <2>2. m + i - 1 \in 1..Len(d.pending) /\ new[i] = d.pending[m + i - 1]
    BY <1>2, <1>3, <2>1
  <2> QED
    BY <1>2, <2>2 DEF Range
<1>5. {b.id : b \in Range(new)} \subseteq {b.id : b \in Range(d.pending)}
  BY <1>4 DEF Range
<1>6. CASE new = <<>>
  <2>1. Issue(d) = past
    BY <1>6 DEF Issue, new, m
  <2> QED
    BY <2>1 DEF Issues
<1>7. CASE new # <<>>
  <2>1. \E l, k : Issue(d) = [past EXCEPT !.issued = @ \cup {b.id : b \in Range(new)},
                                        !.last = l, !.back = k]
    BY <1>7 DEF Issue, new, m
  <2>2. PICK l, k : Issue(d) = [past EXCEPT !.issued = @ \cup {b.id : b \in Range(new)},
                                          !.last = l, !.back = k]
    BY <2>1
  <2> QED
    BY <1>5, <2>2 DEF Issues, IsPast
<1> QED
  BY <1>6, <1>7

(* A local write: the queue grows, the rows and the cursor stay. *)
LEMMA WriteKeeps ==
  ASSUME RegistryInv, QueuedOn(doc, doc'), IsLimit(lim'), Issues(past, past', doc'),
         past.regress => past'.regress, disk'.saved = disk.saved, DOMAIN disk' = DOMAIN disk,
         UNCHANGED <<room, net, c2s, s2c, http>>
  PROVE  RegistryInv'
<1>1. RegistryType'
  BY DEF RegistryInv, RegistryType, QueuedOn, Issues
<1>2. SessionTrue'
  BY DEF RegistryInv, SessionTrue, ToRoom, ToClient
<1>3. AcksTrue'
  BY DEF RegistryInv, AcksTrue, Issues
<1>4. NothingLost'
  <2>1. {b.id : b \in Range(doc.pending)} \subseteq {b.id : b \in Range(doc'.pending)}
    BY ExtendedIds DEF QueuedOn
  <2> QED
    BY <2>1 DEF RegistryInv, NothingLost, Issues
<1>5. Honest'
  <2>1. SUFFICES ASSUME ~past'.wiped, ~past'.regress PROVE CursorsTrue'
    BY DEF Honest
  <2>2. CursorsTrue
    BY <2>1 DEF RegistryInv, Honest, Issues
  <2>3. Flying' = Flying
    BY DEF Flying
  <2>4. CursorsAre(room, doc', disk.saved, http, Flying)
    BY <2>2, CursorsStay DEF CursorsTrue, QueuedOn
  <2> QED
    BY <2>3, <2>4 DEF CursorsTrue
<1> QED
  BY <1>1, <1>2, <1>3, <1>4, <1>5 DEF RegistryInv

(* A write of one op queues it. *)
LEMMA OneOpQueues ==
  ASSUME NEW d, NEW kind, NEW r, NEW null, IsDoc(d), lim.cap \in Nat \ {0}
  PROVE  QueuedOn(d, Write(d, kind, r, null))
<1> DEFINE s == Stamped(d)
           op == WriteOp(kind, r, Fields, null, StampOf(s.clock, Me))
<1>1. IsDoc(s) /\ s.auth = d.auth /\ s.cursor = d.cursor /\ s.pending = d.pending
  BY DEF Stamped, IsDoc
<1>2. IsSeq(<<op>>)
  BY OneIsSeq
<1> HIDE DEF s, op
<1>3. QueuedOn(s, Enqueue(s, <<op>>))
  BY <1>1, <1>2, EnqueueQueues
<1>4. Write(d, kind, r, null) = Enqueue(s, <<op>>)
  BY DEF Write, s, op
<1> QED
  BY <1>1, <1>3, <1>4 DEF QueuedOn

(* A local write, by what it does to the replica. *)
LEMMA WrittenKeeps ==
  ASSUME RegistryInv, NEW d, Written(d), QueuedOn(doc, d), IsLimit(lim')
  PROVE  RegistryInv'
<1>1. doc' = d /\ past' = Issue(d) /\ UNCHANGED <<room, net, c2s, s2c, http>>
      /\ disk' = [disk EXCEPT !.dirty = TRUE]
  BY DEF Written
<1>2. DOMAIN disk' = DOMAIN disk /\ disk'.saved = disk.saved
  BY <1>1 DEF RegistryInv, RegistryType
<1>3. Issues(past, past', doc') /\ past'.regress = past.regress
  BY <1>1, IssueIs DEF QueuedOn, RegistryInv, RegistryType
<1> QED
  BY <1>1, <1>2, <1>3, WriteKeeps

(* upsert_row, update_row and clear_field. *)
LEMMA WritersKeep ==
  ASSUME RegistryInv, UpsertRow \/ UpdateRow \/ ClearField
  PROVE  RegistryInv'
<1>1. IsLimit(lim') /\ \E kind, r, null : Written(Write(doc, kind, r, null))
  BY SpendKeeps DEF UpsertRow, UpdateRow, ClearField, RegistryInv, RegistryType
<1>2. PICK kind, r, null : Written(Write(doc, kind, r, null))
  BY <1>1
<1>3. QueuedOn(doc, Write(doc, kind, r, null))
  BY OneOpQueues DEF RegistryInv, RegistryType, IsLimit
<1> QED
  BY <1>1, <1>2, <1>3, WrittenKeeps

(* delete_rows: one op for each row. *)
LEMMA DeleteRowsKeeps ==
  ASSUME RegistryInv, DeleteRows
  PROVE  RegistryInv'
<1> DEFINE s == Stamped(doc)
           ops(rs) == {DeleteOp(r, StampOf(s.clock, Me)) : r \in rs}
<1>1. IsLimit(lim')
  BY SpendKeeps DEF DeleteRows, RegistryInv, RegistryType
<1>2. PICK rs \in SUBSET lim.rows \ {{}} : Written(Enqueue(s, SetToSeq(ops(rs))))
  BY DEF DeleteRows
<1>3. IsDoc(s) /\ s.auth = doc.auth /\ s.cursor = doc.cursor /\ s.pending = doc.pending
  BY DEF Stamped, IsDoc, RegistryInv, RegistryType
<1>4. IsSeq(SetToSeq(ops(rs)))
  <2> DEFINE f == [r \in rs |-> DeleteOp(r, StampOf(s.clock, Me))]
  <2>1. IsFiniteSet(rs)
    BY LimitsAssumption, FS_Subset DEF RegistryInv, RegistryType, IsLimit
  <2>2. IsFiniteSet({f[r] : r \in rs})
    BY <2>1, ImageFinite
  <2>3. {f[r] : r \in rs} = ops(rs)
    OBVIOUS
  <2> QED
    BY <2>2, <2>3, SetToSeqIsSeq
<1> DEFINE q == SetToSeq(ops(rs))
<1> HIDE DEF s, q
<1>5. QueuedOn(s, Enqueue(s, q))
  BY <1>3, <1>4, EnqueueQueues DEF q, RegistryInv, RegistryType, IsLimit
<1>6. QueuedOn(doc, Enqueue(s, q))
  BY <1>3, <1>5 DEF QueuedOn
<1>7. Written(Enqueue(s, q))
  BY <1>2 DEF q
<1> QED
  BY <1>1, <1>6, <1>7, WrittenKeeps

(* The two writes of the sidebar, the second on the replica the first left. *)
LEMMA SidebarWriteKeeps ==
  ASSUME RegistryInv, SidebarWrite
  PROVE  RegistryInv'
<1>1. IsLimit(lim') /\ UNCHANGED <<room, net, c2s, s2c, http>>
  BY SpendKeeps DEF SidebarWrite, RegistryInv, RegistryType
<1>2. PICK seen, r, k : LET d == Write([doc EXCEPT !.clock = seen], "upsert", r, {})
                        IN  /\ doc' = d /\ disk' = [disk EXCEPT !.dirty = TRUE]
                            /\ past' = [Issue(d) EXCEPT !.observed = k]
  <2>1. PICK r \in lim.rows :
          LET seen == IF Live(doc, r) THEN Observe(doc.clock, MaxClock(Overlay(doc, r)))
                      ELSE doc.clock
              d == Write([doc EXCEPT !.clock = seen], "upsert", r, {})
          IN  /\ doc' = d /\ disk' = [disk EXCEPT !.dirty = TRUE]
              /\ past' = [Issue(d) EXCEPT !.observed = @ \/ seen # doc.clock]
    BY DEF SidebarWrite
  <2> DEFINE seen == IF Live(doc, r) THEN Observe(doc.clock, MaxClock(Overlay(doc, r)))
                     ELSE doc.clock
             d == Write([doc EXCEPT !.clock = seen], "upsert", r, {})
             k == Issue(d).observed \/ seen # doc.clock
  <2>2. doc' = d /\ disk' = [disk EXCEPT !.dirty = TRUE]
        /\ past' = [Issue(d) EXCEPT !.observed = k]
    BY <2>1
  <2> HIDE DEF seen, k
  <2> QED
    BY <2>2
<1> DEFINE c == [doc EXCEPT !.clock = seen]
           d == Write(c, "upsert", r, {})
<1>3. IsDoc(c) /\ c.auth = doc.auth /\ c.cursor = doc.cursor /\ c.pending = doc.pending
  BY DEF IsDoc, RegistryInv, RegistryType
<1> HIDE DEF c
<1>4. QueuedOn(c, d)
  BY <1>3, OneOpQueues DEF RegistryInv, RegistryType, IsLimit
<1>5. doc' = d /\ disk' = [disk EXCEPT !.dirty = TRUE] /\ past' = [Issue(d) EXCEPT !.observed = k]
  BY <1>2 DEF c
<1> HIDE DEF d
<1>6. QueuedOn(doc, d)
  BY <1>3, <1>4 DEF QueuedOn
<1>7. Issues(past, Issue(d), d) /\ Issue(d).regress = past.regress
  BY <1>6, IssueIs DEF QueuedOn, RegistryInv, RegistryType
<1>8. Issues(past, past', doc') /\ past'.regress = past.regress
  BY <1>5, <1>7 DEF Issues, IsPast
<1>9. DOMAIN disk' = DOMAIN disk /\ disk'.saved = disk.saved
  BY <1>5 DEF RegistryInv, RegistryType
<1> QED
  BY <1>1, <1>5, <1>6, <1>8, <1>9, WriteKeeps

------------------------------------------------------------------------------
(* The room. *)
LEMMA FlyingMessages ==
  ASSUME SessionTrue
  PROVE  \A m \in Flying : IsMessage(m)
BY DEF SessionTrue, ToRoom, ToClient, Flying, IsMessage

(* A batch that reached the room is in the order of those that did. *)
LEMMA LandedIs ==
  ASSUME NEW p, NEW id, IsPast(p)
  PROVE  LET q == Landed(p, id)
         IN  /\ IsPast(q) /\ Range(p.order) \cup {id} = Range(q.order)
             /\ q.issued = p.issued /\ q.lostWrite = p.lostWrite
             /\ q.wiped = p.wiped /\ q.regress = p.regress
<1>1. IsSeq(Append(p.order, id)) /\ Range(Append(p.order, id)) = Range(p.order) \cup {id}
  BY AppendIsSeq DEF IsPast
<1> DEFINE o == Append(p.order, id)
<1> HIDE DEF o
<1>2. Landed(p, id) = IF id \in Range(p.order) THEN p ELSE [p EXCEPT !.order = o]
  BY DEF Landed, o
<1> QED
  BY <1>1, <1>2 DEF IsPast, o

(* A step of the room, seen by nobody or by this session. *)
LEMMA RoomKeeps ==
  ASSUME RegistryInv, SessionTrue', AcksTrue', IsPast(past'), IsLimit(lim'), IsHttp(http'),
         Grew(room, room'), UNCHANGED <<doc, disk, net>>,
         past'.issued = past.issued, past'.lostWrite = past.lostWrite,
         Range(past.order) \subseteq Range(past'.order),
         past'.wiped = past.wiped, past'.regress = past.regress,
         http'.since = http.since, http'.answer = http.answer,
         http'.phase = http.phase \/ (http.phase = "post" /\ http'.phase = "ack"),
         \A m \in Flying' : m \in Flying \/ m.k \in {"ack", "push"} \/ (m.k = "rows" /\ IsRows(m)
                               /\ (RoomTrue(room) => RowsTrue(room', m)))
  PROVE  RegistryInv'
<1>1. RegistryType'
  BY DEF RegistryInv, RegistryType, Grew
<1>2. NothingLost'
  BY DEF RegistryInv, NothingLost
<1>3. Honest'
  <2>1. SUFFICES ASSUME ~past'.wiped, ~past'.regress PROVE CursorsTrue'
    BY DEF Honest
  <2>2. CursorsTrue
    BY <2>1 DEF RegistryInv, Honest
  <2>3. RoomTrue(room)
    BY <2>2 DEF CursorsTrue, CursorsAre
  <2>4. \A m \in Flying' : m \in Flying \/ m.k \in {"ack", "push"} \/ (m.k = "rows" /\ RowsTrue(room', m))
    BY <2>3
  <2>5. IsRoom(room) /\ IsDoc(doc) /\ IsDoc(disk.saved) /\ IsHttp(http) /\ \A m \in Flying : IsMessage(m)
    BY FlyingMessages DEF RegistryInv, RegistryType
  <2>6. CursorsAre(room', doc, disk.saved, http, Flying')
    BY <2>2, <2>4, <2>5, CursorsGrow DEF CursorsTrue
  <2>7. CursorsAre(room', doc, disk.saved, http', Flying')
    BY <2>6, CursorsStay DEF Busy, Pulling
  <2> QED
    BY <2>7 DEF CursorsTrue
<1> QED
  BY <1>1, <1>2, <1>3 DEF RegistryInv

(* Broadcasts and acknowledgements behind what is on its way. *)
LEMMA FramesKeepSession ==
  ASSUME SessionTrue, NEW fr, IsSeq(fr), \A m \in Range(fr) : IsRows(m) \/ m.k = "ack", net.ready,
         s2c' = s2c \o fr, UNCHANGED <<c2s, net>>
  PROVE  SessionTrue' /\ Range(s2c') = Range(s2c) \cup Range(fr)
<1>1. /\ IsSeq(s2c') /\ Range(s2c') = Range(s2c) \cup Range(fr)
      /\ s2c # <<>> => s2c' # <<>> /\ Head(s2c') = Head(s2c) /\ Tail(s2c') = Tail(s2c) \o fr
  BY ConcatIsSeq DEF SessionTrue, ToClient
<1>2. ToRoom' /\ ToClient'
  BY <1>1 DEF SessionTrue, ToRoom, ToClient
<1>3. \A m \in Range(fr) : m.k # "state"
  BY DEF IsRows
<1>4. ASSUME net.phase = "hello"
      PROVE  s2c' # <<>> /\ Head(s2c').k = "state" /\ \A m \in Range(Tail(s2c')) : m.k # "state"
  <2>1. s2c # <<>> /\ Head(s2c).k = "state" /\ \A m \in Range(Tail(s2c)) : m.k # "state"
    BY <1>4 DEF SessionTrue
  <2>2. IsSeq(Tail(s2c))
    BY <2>1, TailIsSeq DEF SessionTrue, ToClient
  <2>3. Range(Tail(s2c) \o fr) = Range(Tail(s2c)) \cup Range(fr)
    BY <2>2, ConcatIsSeq
  <2> QED
    BY <1>1, <1>3, <2>1, <2>3
<1> QED
  BY <1>1, <1>2, <1>3, <1>4 DEF SessionTrue

(* Another device writes. *)
LEMMA PeerWriteKeeps ==
  ASSUME RegistryInv, PeerWrite
  PROVE  RegistryInv'
<1>1. IsLimit(lim') /\ UNCHANGED <<doc, wall, disk, net, c2s, nudge, http, past>>
  BY SpendKeeps DEF PeerWrite, RegistryInv, RegistryType
<1>2. \E op : /\ room' = Take(<<op>>).room
              /\ s2c' = IF net.ready THEN s2c \o Take(<<op>>).frames ELSE s2c
  BY DEF PeerWrite
<1>3. PICK op : /\ room' = Take(<<op>>).room
                /\ s2c' = IF net.ready THEN s2c \o Take(<<op>>).frames ELSE s2c
  BY <1>2
<1> DEFINE fr == Take(<<op>>).frames
<1>4. Len(<<op>>) \in Nat
  OBVIOUS
<1>5. /\ Grew(room, room') /\ IsSeq(fr)
      /\ \A f \in Range(fr) : IsRows(f) /\ (RoomTrue(room) => RowsTrue(room', f))
  BY <1>3, <1>4, TakeGrows DEF RegistryInv, RegistryType
<1> HIDE DEF fr
<1>6. SessionTrue' /\ Range(s2c') \subseteq Range(s2c) \cup Range(fr)
  <2>1. CASE net.ready
    BY <1>1, <1>3, <1>5, <2>1, FramesKeepSession DEF RegistryInv, fr
  <2>2. CASE ~net.ready
    BY <1>1, <1>3, <2>2 DEF RegistryInv, SessionTrue, ToRoom, ToClient
  <2> QED
    BY <2>1, <2>2
<1>7. AcksTrue'
  BY <1>1, <1>5, <1>6 DEF RegistryInv, AcksTrue, IsRows
<1>8. \A m \in Flying' : m \in Flying \/ (m.k = "rows" /\ IsRows(m)
                                         /\ (RoomTrue(room) => RowsTrue(room', m)))
  BY <1>1, <1>5, <1>6 DEF Flying, IsRows
<1> QED
  BY <1>1, <1>5, <1>6, <1>7, <1>8, RoomKeeps DEF RegistryInv, RegistryType

(* The room takes a push of this device and acknowledges it. *)
LEMMA ServePushKeeps ==
  ASSUME RegistryInv, ServePush
  PROVE  RegistryInv'
<1> DEFINE b == Head(c2s)
           fr == Take(b.ops).frames
           ack == [k |-> "ack", id |-> b.id]
<1>1. /\ c2s # <<>> /\ b.k = "push" /\ room' = Take(b.ops).room /\ c2s' = Tail(c2s)
      /\ s2c' = s2c \o fr \o <<ack>> /\ past' = Landed(past, b.id)
      /\ UNCHANGED <<lim, doc, disk, net, http>>
  BY DEF ServePush
<1>2. /\ IsSeq(Tail(c2s)) /\ Range(c2s) = Range(Tail(c2s)) \cup {b}
  BY <1>1, TailIsSeq DEF RegistryInv, SessionTrue, ToRoom
<1>3. IsPush(b)
  BY <1>1, <1>2 DEF RegistryInv, SessionTrue, ToRoom, IsHello
<1>4. net.phase \in {"joined", "live"} /\ net.ready
  BY <1>1 DEF RegistryInv, SessionTrue, RegistryType
<1>5. /\ Grew(room, room') /\ IsSeq(fr)
      /\ \A f \in Range(fr) : IsRows(f) /\ (RoomTrue(room) => RowsTrue(room', f))
  BY <1>1, <1>3, TakeGrows DEF RegistryInv, RegistryType, IsPush
<1> HIDE DEF fr
<1>6. IsSeq(<<ack>>) /\ Range(<<ack>>) = {ack} /\ ack.k = "ack" /\ ack.id = b.id
  BY OneIsSeq
<1> HIDE DEF ack, b
<1>7. IsSeq(s2c \o fr) /\ Range(s2c \o fr) = Range(s2c) \cup Range(fr)
  BY <1>5, ConcatIsSeq DEF RegistryInv, SessionTrue, ToClient
<1>8. IsSeq(s2c') /\ Range(s2c') = Range(s2c) \cup Range(fr) \cup {ack}
  BY <1>1, <1>6, <1>7, ConcatIsSeq
<1>9. SessionTrue'
  <2>1. ToRoom' /\ ToClient'
    BY <1>1, <1>2, <1>5, <1>6, <1>8 DEF RegistryInv, SessionTrue, ToRoom, ToClient
  <2>2. (\A m \in Range(s2c') : m.k # "state") /\ \A m \in Range(c2s') : m.k # "hello"
    BY <1>1, <1>2, <1>4, <1>5, <1>6, <1>8 DEF RegistryInv, SessionTrue, IsRows
  <2> QED
    BY <1>1, <1>4, <2>1, <2>2 DEF SessionTrue
<1>10. /\ IsPast(past') /\ Range(past.order) \cup {b.id} = Range(past'.order)
       /\ past'.issued = past.issued /\ past'.lostWrite = past.lostWrite
       /\ past'.wiped = past.wiped /\ past'.regress = past.regress
  BY <1>1, LandedIs DEF RegistryInv, RegistryType
<1>11. AcksTrue'
  BY <1>1, <1>5, <1>6, <1>8, <1>10 DEF RegistryInv, AcksTrue, IsRows
<1>12. \A m \in Flying' : \/ m \in Flying \/ m.k \in {"ack", "push"}
                          \/ (m.k = "rows" /\ IsRows(m)
                                /\ (RoomTrue(room) => RowsTrue(room', m)))
  BY <1>1, <1>2, <1>5, <1>6, <1>8 DEF Flying, IsRows
<1> QED
  BY <1>1, <1>5, <1>9, <1>10, <1>11, <1>12, RoomKeeps DEF RegistryInv, RegistryType

(* The room takes a batch posted over HTTPS. *)
LEMMA HttpPostKeeps ==
  ASSUME RegistryInv, HttpPost
  PROVE  RegistryInv'
<1> DEFINE b == Head(http.batches)
           fr == Take(b.ops).frames
<1>1. /\ http.phase = "post" /\ http.batches # <<>> /\ room' = Take(b.ops).room
      /\ s2c' = (IF net.ready THEN s2c \o fr ELSE s2c) /\ past' = Landed(past, b.id)
      /\ http' = [http EXCEPT !.phase = "ack"]
      /\ UNCHANGED <<lim, doc, disk, net, c2s>>
  BY DEF HttpPost
<1>2. IsSeq(http.batches) /\ \A x \in Range(http.batches) : IsBatch(x)
  BY DEF RegistryInv, RegistryType, IsHttp, Batches
<1>3. IsBatch(b)
  BY <1>1, <1>2, TailIsSeq
<1>4. /\ Grew(room, room') /\ IsSeq(fr)
      /\ \A f \in Range(fr) : IsRows(f) /\ (RoomTrue(room) => RowsTrue(room', f))
  BY <1>1, <1>3, TakeGrows DEF RegistryInv, RegistryType, IsBatch
<1> HIDE DEF fr
<1>5. SessionTrue' /\ Range(s2c') \subseteq Range(s2c) \cup Range(fr)
  <2>1. CASE net.ready
    BY <1>1, <1>4, <2>1, FramesKeepSession DEF RegistryInv
  <2>2. CASE ~net.ready
    BY <1>1, <2>2 DEF RegistryInv, SessionTrue, ToRoom, ToClient
  <2> QED
    BY <2>1, <2>2
<1>6. /\ IsPast(past') /\ Range(past.order) \cup {b.id} = Range(past'.order)
      /\ past'.issued = past.issued /\ past'.lostWrite = past.lostWrite
      /\ past'.wiped = past.wiped /\ past'.regress = past.regress
  <2>1. IsPast(past) /\ past' = Landed(past, b.id)
    BY <1>1 DEF RegistryInv, RegistryType
  <2> HIDE DEF b
  <2> QED
    BY <2>1, LandedIs
<1>7. /\ DOMAIN http' = DOMAIN http /\ http'.phase = "ack" /\ http'.batches = http.batches
      /\ http'.since = http.since /\ http'.answer = http.answer
  BY <1>1 DEF RegistryInv, RegistryType, IsHttp
<1>8. IsHttp(http')
  BY <1>1, <1>7 DEF RegistryInv, RegistryType, IsHttp
<1>9. AcksTrue'
  BY <1>1, <1>4, <1>5, <1>6, <1>7 DEF RegistryInv, AcksTrue, IsRows
<1>10. \A m \in Flying' : m \in Flying \/ (m.k = "rows" /\ IsRows(m)
                                         /\ (RoomTrue(room) => RowsTrue(room', m)))
  BY <1>1, <1>4, <1>5 DEF Flying, IsRows
<1> HIDE DEF b
<1> QED
  BY <1>1, <1>4, <1>5, <1>6, <1>7, <1>8, <1>9, <1>10, RoomKeeps DEF RegistryInv, RegistryType

(* The room drops old tombstones. *)
LEMMA CollectKeeps ==
  ASSUME RegistryInv, Collect
  PROVE  RegistryInv'
<1> DEFINE rows == [r \in RowIds |-> IF room.rows[r].state = "dead" THEN AbsentRow ELSE room.rows[r]]
<1>1. /\ IsLimit(lim') /\ UNCHANGED <<doc, disk, net, c2s, s2c, http, past>>
      /\ room' = [room EXCEPT !.floor = room.seq, !.rows = rows]
  BY SpendKeeps DEF Collect, RegistryInv, RegistryType
<1>2. \A r \in RowIds : IsRow(rows[r]) /\ (rows[r] = room.rows[r] \/ rows[r] = AbsentRow)
  BY DEF RegistryInv, RegistryType, IsRoom, AllRows, AbsentRow, IsRow
<1>3. DOMAIN rows = RowIds
  OBVIOUS
<1> HIDE DEF rows
<1>4. DOMAIN room' = DOMAIN room /\ room'.rows = rows /\ room'.seq = room.seq
  BY <1>1 DEF RegistryInv, RegistryType, IsRoom
<1>5. IsRoom(room') /\ room.seq \in Nat
  BY <1>2, <1>3, <1>4 DEF RegistryInv, RegistryType, IsRoom, AllRows
<1>6. Grew(room, room')
  BY <1>2, <1>4, <1>5 DEF Grew, There, AbsentRow, RoomTrue
<1>7. SessionTrue' /\ AcksTrue' /\ Flying' = Flying
  BY <1>1 DEF RegistryInv, SessionTrue, ToRoom, ToClient, AcksTrue, Flying
<1> QED
  BY <1>1, <1>6, <1>7, RoomKeeps DEF RegistryInv, RegistryType

(* The room loses its rows: the history is marked. *)
LEMMA WipeKeeps ==
  ASSUME RegistryInv, Wipe
  PROVE  RegistryInv'
<1>1. /\ IsLimit(lim') /\ UNCHANGED <<doc, disk, net, c2s, s2c, http>>
      /\ room' = [rows |-> NoRows, seq |-> 0, floor |-> 0]
      /\ past' = [past EXCEPT !.wiped = TRUE]
  BY SpendKeeps DEF Wipe, RegistryInv, RegistryType
<1>2. IsRoom(room')
  BY <1>1 DEF IsRoom, NoRows, AllRows, IsRow, AbsentRow
<1>3. /\ IsPast(past') /\ past'.wiped /\ past'.order = past.order
      /\ past'.issued = past.issued /\ past'.lostWrite = past.lostWrite
  BY <1>1 DEF RegistryInv, RegistryType, IsPast
<1>4. RegistryType' /\ SessionTrue' /\ AcksTrue' /\ NothingLost' /\ Honest'
  BY <1>1, <1>2, <1>3 DEF RegistryInv, RegistryType, SessionTrue, ToRoom, ToClient, AcksTrue,
     NothingLost, Honest
<1> QED
  BY <1>4 DEF RegistryInv

(* A broadcast is lost on the way. *)
LEMMA LoseBroadcastKeeps ==
  ASSUME RegistryInv, LoseBroadcast
  PROVE  RegistryInv'
<1>1. /\ IsLimit(lim') /\ UNCHANGED <<room, doc, disk, net, c2s, http>>
      /\ s2c # <<>> /\ Last(s2c).k = "rows" /\ s2c' = Front(s2c)
      /\ past' = [past EXCEPT !.missed = TRUE]
  BY SpendKeeps DEF LoseBroadcast, RegistryInv, RegistryType
<1>2. IsSeq(s2c) /\ IsSeq(s2c') /\ Range(s2c') \subseteq Range(s2c)
  BY <1>1, FrontIsSeq DEF RegistryInv, SessionTrue, ToClient
<1>3. /\ IsPast(past') /\ past'.wiped = past.wiped /\ past'.regress = past.regress
      /\ past'.order = past.order /\ past'.issued = past.issued /\ past'.lostWrite = past.lostWrite
  BY <1>1 DEF RegistryInv, RegistryType, IsPast
<1>4. ASSUME net.phase = "hello"
      PROVE  s2c' # <<>> /\ Head(s2c').k = "state" /\ \A m \in Range(Tail(s2c')) : m.k # "state"
  <2>1. Head(s2c).k = "state" /\ \A m \in Range(Tail(s2c)) : m.k # "state"
    BY <1>1, <1>4 DEF RegistryInv, SessionTrue
  <2>2. Len(s2c) > 1
    <3>1. PICK T : s2c \in Seq(T)
      BY <1>2 DEF IsSeq
    <3>2. Len(s2c) \in Nat \ {0} /\ Head(s2c) = s2c[1] /\ Last(s2c) = s2c[Len(s2c)]
      BY <1>1, <3>1 DEF Last
    <3>3. Len(s2c) # 1
      BY <1>1, <2>1, <3>2
    <3> QED
      BY <3>2, <3>3
  <2> QED
    BY <1>1, <1>2, <2>1, <2>2, FrontIsSeq
<1>5. SessionTrue'
  <2>1. ToRoom' /\ ToClient'
    BY <1>1, <1>2 DEF RegistryInv, SessionTrue, ToRoom, ToClient
  <2>2. net.phase = "hello" => net.ready
    BY <1>1 DEF RegistryInv, SessionTrue
  <2> QED
    BY <1>1, <1>2, <1>4, <2>1, <2>2 DEF RegistryInv, SessionTrue
<1>6. AcksTrue'
  BY <1>1, <1>2, <1>3 DEF RegistryInv, AcksTrue
<1>7. Flying' \subseteq Flying
  BY <1>1, <1>2 DEF Flying
<1>8. Grew(room, room')
  BY <1>1 DEF Grew, RegistryInv, RegistryType, IsRoom
<1> QED
  BY <1>1, <1>3, <1>5, <1>6, <1>7, <1>8, RoomKeeps DEF RegistryInv, RegistryType

(* The room answers a hello from the cursor it names. *)
LEMMA ServeHelloKeeps ==
  ASSUME RegistryInv, ServeHello
  PROVE  RegistryInv'
<1> DEFINE h == Head(c2s)
           a == Answer(h.cursor, h.anew)
<1>1. /\ c2s # <<>> /\ h.k = "hello" /\ c2s' = Tail(c2s) /\ s2c' = Append(s2c, a)
      /\ net' = [net EXCEPT !.ready = TRUE] /\ past' = [past EXCEPT !.missed = FALSE]
      /\ UNCHANGED <<lim, room, doc, disk, http>>
  BY DEF ServeHello
<1>2. /\ IsSeq(Tail(c2s)) /\ Range(c2s) = Range(Tail(c2s)) \cup {h}
  BY <1>1, TailIsSeq DEF RegistryInv, SessionTrue, ToRoom
<1>3. IsHello(h)
  BY <1>1, <1>2 DEF RegistryInv, SessionTrue, ToRoom, IsPush
<1>4. net.phase = "hello" /\ ~net.ready /\ Tail(c2s) = <<>> /\ s2c = <<>>
  <2>1. net.phase \notin {"down", "joined", "live"}
    BY <1>1, <1>2 DEF RegistryInv, SessionTrue
  <2> QED
    BY <1>1, <2>1 DEF RegistryInv, SessionTrue, RegistryType
<1>5. /\ IsState(a) /\ a.seq = room.seq /\ (RoomTrue(room) => AnswerTrue(room, a, h.cursor))
  BY <1>3, AnswerIs DEF RegistryInv, RegistryType, IsHello
<1> HIDE DEF a
<1>6. s2c' = <<a>> /\ Range(s2c') = {a} /\ IsSeq(s2c') /\ Head(s2c') = a /\ Tail(s2c') = <<>>
      /\ s2c' # <<>>
  <2>1. s2c' = <<a>>
    BY <1>1, <1>4
  <2> QED
    BY <2>1, OneIsSeq
<1>7. DOMAIN net' = DOMAIN net /\ net'.phase = "hello" /\ net'.ready = TRUE
  BY <1>1, <1>4 DEF RegistryInv, RegistryType
<1>8. /\ IsPast(past') /\ past'.wiped = past.wiped /\ past'.regress = past.regress
      /\ past'.order = past.order /\ past'.issued = past.issued /\ past'.lostWrite = past.lostWrite
  BY <1>1 DEF RegistryInv, RegistryType, IsPast
<1>9. RegistryType'
  BY <1>1, <1>7, <1>8 DEF RegistryInv, RegistryType
<1>10. SessionTrue'
  <2>1. ToRoom' /\ ToClient'
    BY <1>1, <1>4, <1>5, <1>6, NoneIsSeq DEF ToRoom, ToClient
  <2> QED
    BY <1>1, <1>4, <1>5, <1>6, <1>7, <2>1, NoneIsSeq DEF SessionTrue, IsState
<1>11. AcksTrue' /\ NothingLost'
  BY <1>1, <1>5, <1>6, <1>8 DEF RegistryInv, AcksTrue, NothingLost, IsState
<1>12. Honest'
  <2>1. SUFFICES ASSUME ~past'.wiped, ~past'.regress PROVE CursorsTrue'
    BY DEF Honest
  <2>2. CursorsTrue
    BY <1>8, <2>1 DEF RegistryInv, Honest
  <2>3. HelloTrue(room, doc, http, h) /\ RoomTrue(room) /\ doc.cursor <= room.seq
        /\ (Pulling(http) => http.since <= room.seq)
    BY <1>1, <1>2, <2>2 DEF CursorsTrue, CursorsAre, FlightTrue, Flying, DocTrue, PullTrue
  <2>4. StateTrue(room, doc, http, a)
    BY <1>3, <1>5, <2>3 DEF StateTrue, HelloTrue, IsHello
  <2>5. Flying' = {a}
    BY <1>1, <1>4, <1>6, NoneIsSeq DEF Flying
  <2>6. FlightTrue(room, doc, http, a)
    BY <1>5, <2>4 DEF FlightTrue, IsState
  <2> QED
    BY <1>1, <2>2, <2>5, <2>6 DEF CursorsTrue, CursorsAre
<1> QED
  BY <1>9, <1>10, <1>11, <1>12 DEF RegistryInv

------------------------------------------------------------------------------
(* The session. *)
LEMMA DialKeeps ==
  ASSUME RegistryInv, Dial
  PROVE  RegistryInv'
<1> DEFINE h == [k |-> "hello", cursor |-> doc.cursor,
                 anew |-> doc.cursor = 0 /\ doc.pending = <<>> /\ doc.fresh]
<1>1. /\ net.phase = "down" /\ net' = [phase |-> "hello", ready |-> FALSE] /\ c2s' = <<h>>
      /\ UNCHANGED <<lim, room, doc, disk, s2c, http, past>>
  BY DEF Dial
<1>2. IsHello(h) /\ h.cursor = doc.cursor
  BY DEF IsHello, RegistryInv, RegistryType, IsDoc
<1> HIDE DEF h
<1>3. c2s' # <<>> /\ IsSeq(c2s') /\ Range(c2s') = {h} /\ Head(c2s') = h /\ Tail(c2s') = <<>>
  <2>1. IsSeq(<<h>>) /\ Range(<<h>>) = {h}
    BY OneIsSeq
  <2> QED
    BY <1>1, <2>1
<1>4. s2c = <<>> /\ Range(s2c) = {}
  BY <1>1, NoneIsSeq DEF RegistryInv, SessionTrue
<1>5. RegistryType'
  BY <1>1 DEF RegistryInv, RegistryType
<1>6. SessionTrue'
  BY <1>1, <1>2, <1>3, <1>4 DEF RegistryInv, SessionTrue, ToRoom, ToClient, IsHello
<1>7. AcksTrue' /\ NothingLost'
  BY <1>1 DEF RegistryInv, AcksTrue, NothingLost
<1>8. Honest'
  <2>1. SUFFICES ASSUME ~past'.wiped, ~past'.regress PROVE CursorsTrue'
    BY DEF Honest
  <2>2. CursorsTrue
    BY <1>1, <2>1 DEF RegistryInv, Honest
  <2>3. HelloTrue(room, doc, http, h)
    BY <1>2, <2>2 DEF CursorsTrue, CursorsAre, DocTrue, HelloTrue, RegistryInv, RegistryType, IsDoc
  <2>4. Flying' = {h}
    BY <1>1, <1>3, <1>4 DEF Flying
  <2>5. FlightTrue(room, doc, http, h)
    BY <1>2, <2>3 DEF FlightTrue, IsHello
  <2> QED
    BY <1>1, <2>2, <2>4, <2>5 DEF CursorsTrue, CursorsAre
<1> QED
  BY <1>5, <1>6, <1>7, <1>8 DEF RegistryInv

(* Starting the HTTPS task starts nothing that runs. *)
LEMMA SpawnIs ==
  ASSUME NEW h, IsHttp(h)
  PROVE  /\ IsHttp(Spawn(h)) /\ (Pulling(Spawn(h)) => Spawn(h) = h)
         /\ Spawn(h).phase = "ack" => Spawn(h) = h
<1> DEFINE g == [IdleHttp EXCEPT !.phase = "start"]
<1>1. g.phase = "start" /\ IsHttp(g)
  BY NoneIsSeq DEF IdleHttp, IsHttp, Batches
<1> HIDE DEF g
<1>2. Spawn(h) = g \/ Spawn(h) = h
  BY DEF Spawn, g
<1> QED
  BY <1>1, <1>2 DEF Pulling

(* A session that is over, with what is left of the replica. *)
LEMMA OverKeeps ==
  ASSUME RegistryInv, IsLimit(lim'), IsDoc(doc'), IsHttp(http'), Disconnected,
         DOMAIN disk' = DOMAIN disk, disk'.saved = disk.saved, IsPast(past'),
         {b.id : b \in Range(doc'.pending)} = {b.id : b \in Range(doc.pending)},
         past'.issued = past.issued, past'.order = past.order, past'.lostWrite = past.lostWrite,
         room' = room, Honest'
  PROVE  RegistryInv'
<1>1. /\ net' = [phase |-> "down", ready |-> FALSE] /\ c2s' = <<>> /\ s2c' = <<>>
      /\ http' = Spawn(http)
  BY DEF Disconnected
<1>2. RegistryType'
  BY <1>1 DEF RegistryInv, RegistryType
<1>3. SessionTrue'
  BY <1>1, NoneIsSeq DEF SessionTrue, ToRoom, ToClient
<1>4. http'.phase = "ack" => http' = http
  BY <1>1, SpawnIs DEF RegistryInv, RegistryType
<1>5. AcksTrue'
  BY <1>1, <1>4, NoneIsSeq DEF RegistryInv, AcksTrue
<1>6. NothingLost'
  BY DEF RegistryInv, NothingLost
<1> QED
  BY <1>2, <1>3, <1>5, <1>6 DEF RegistryInv

(* The socket drops. *)
LEMMA DropKeeps ==
  ASSUME RegistryInv, Drop
  PROVE  RegistryInv'
<1>1. /\ IsLimit(lim') /\ doc' = Marked(doc, FALSE) /\ Disconnected
      /\ UNCHANGED <<room, disk, past>>
  BY SpendKeeps DEF Drop, RegistryInv, RegistryType
<1>2. /\ IsDoc(doc') /\ doc'.auth = doc.auth /\ doc'.cursor = doc.cursor
      /\ {b.id : b \in Range(doc'.pending)} = {b.id : b \in Range(doc.pending)}
  BY <1>1, MarkedKeeps DEF RegistryInv, RegistryType
<1>3. IsHttp(http') /\ (Pulling(http') => http' = http) /\ c2s' = <<>> /\ s2c' = <<>>
  BY <1>1, SpawnIs DEF Disconnected, RegistryInv, RegistryType
<1>4. Flying' = {}
  BY <1>3, NoneIsSeq DEF Flying
<1>5. Honest'
  <2>1. SUFFICES ASSUME ~past'.wiped, ~past'.regress PROVE CursorsTrue'
    BY DEF Honest
  <2>2. CursorsTrue
    BY <1>1, <2>1 DEF RegistryInv, Honest
  <2>3. CursorsAre(room, doc', disk.saved, http', {})
    BY <1>2, <1>3, <2>2, CursorsStay DEF CursorsTrue
  <2> QED
    BY <1>1, <1>4, <2>3 DEF CursorsTrue
<1> QED
  BY <1>1, <1>2, <1>3, <1>5, OverKeeps DEF RegistryInv, RegistryType

(* A dial fails. *)
LEMMA DialFailKeeps ==
  ASSUME RegistryInv, DialFail
  PROVE  RegistryInv'
<1>1. /\ IsLimit(lim') /\ net.phase = "down" /\ http' = Spawn(http)
      /\ UNCHANGED <<room, doc, disk, net, c2s, s2c, past>>
  BY SpendKeeps DEF DialFail, RegistryInv, RegistryType
<1>2. c2s = <<>> /\ s2c = <<>> /\ Flying = {} /\ Flying' = {}
  BY <1>1, NoneIsSeq DEF RegistryInv, SessionTrue, Flying
<1>3. IsHttp(http') /\ (Pulling(http') => http' = http) /\ (http'.phase = "ack" => http' = http)
  BY <1>1, SpawnIs DEF RegistryInv, RegistryType
<1>4. RegistryType' /\ SessionTrue' /\ AcksTrue' /\ NothingLost'
  BY <1>1, <1>3 DEF RegistryInv, RegistryType, SessionTrue, ToRoom, ToClient, AcksTrue,
     NothingLost
<1>5. Honest'
  <2>1. SUFFICES ASSUME ~past'.wiped, ~past'.regress PROVE CursorsTrue'
    BY DEF Honest
  <2>2. CursorsTrue
    BY <1>1, <2>1 DEF RegistryInv, Honest
  <2>3. CursorsAre(room, doc, disk.saved, http', {})
    BY <1>2, <1>3, <2>2, CursorsStay DEF CursorsTrue
  <2> QED
    BY <1>1, <1>2, <2>3 DEF CursorsTrue
<1> QED
  BY <1>4, <1>5 DEF RegistryInv

(* Noting a mixed answer changes nothing else of the history. *)
LEMMA MixingIs ==
  ASSUME NEW p, NEW d, IsPast(p)
  PROVE  LET q == Mixing(p, d)
         IN  /\ IsPast(q) /\ q.issued = p.issued /\ q.order = p.order
             /\ q.lostWrite = p.lostWrite /\ q.wiped = p.wiped /\ q.regress = p.regress
<1>1. \E k : Mixing(p, d) = [p EXCEPT !.mixed = k]
  BY DEF Mixing
<1>2. PICK k : Mixing(p, d) = [p EXCEPT !.mixed = k]
  BY <1>1
<1> QED
  BY <1>2 DEF IsPast

(* A session that has joined pushes what has been queued. *)
LEMMA PushKeeps ==
  ASSUME RegistryInv, net.phase \in {"joined", "live"}, PushPending(doc), past' = Mixing(past, doc),
         net' \in {net, [net EXCEPT !.phase = "live"]}, UNCHANGED <<lim, room, disk, s2c, http>>
  PROVE  RegistryInv'
<1>1. /\ doc' = Marked(doc, TRUE) /\ c2s' = c2s \o Pushes(doc)
      /\ past' = Mixing(past, doc) /\ UNCHANGED <<lim, room, disk, s2c, http>>
      /\ DOMAIN net' = DOMAIN net /\ net'.phase \in {"joined", "live"} /\ net'.ready = net.ready
  BY DEF PushPending, RegistryInv, RegistryType
<1>2. /\ IsDoc(doc') /\ doc'.auth = doc.auth /\ doc'.cursor = doc.cursor
      /\ {b.id : b \in Range(doc'.pending)} = {b.id : b \in Range(doc.pending)}
  BY <1>1, MarkedKeeps DEF RegistryInv, RegistryType
<1>3. /\ IsPast(past') /\ past'.issued = past.issued /\ past'.order = past.order
      /\ past'.lostWrite = past.lostWrite /\ past'.wiped = past.wiped
      /\ past'.regress = past.regress
  BY <1>1, MixingIs DEF RegistryInv, RegistryType
<1>4. IsSeq(Pushes(doc)) /\ \A m \in Range(Pushes(doc)) : IsPush(m)
  BY PushesAre DEF RegistryInv, RegistryType
<1>5. IsSeq(c2s') /\ Range(c2s') = Range(c2s) \cup Range(Pushes(doc))
  BY <1>1, <1>4, ConcatIsSeq DEF RegistryInv, SessionTrue, ToRoom
<1>6. RegistryType'
  BY <1>1, <1>2, <1>3 DEF RegistryInv, RegistryType
<1>7. SessionTrue'
  <2>1. ToRoom' /\ ToClient'
    BY <1>1, <1>4, <1>5 DEF RegistryInv, SessionTrue, ToRoom, ToClient
  <2>2. \A m \in Range(c2s') : m.k # "hello"
    BY <1>1, <1>4, <1>5 DEF RegistryInv, SessionTrue, IsPush
  <2> QED
    BY <1>1, <2>1, <2>2 DEF RegistryInv, SessionTrue
<1>8. AcksTrue' /\ NothingLost'
  BY <1>1, <1>2, <1>3 DEF RegistryInv, AcksTrue, NothingLost
<1>9. Honest'
  <2>1. SUFFICES ASSUME ~past'.wiped, ~past'.regress PROVE CursorsTrue'
    BY DEF Honest
  <2>2. CursorsTrue
    BY <1>3, <2>1 DEF RegistryInv, Honest
  <2>3. \A m \in Flying' : m \in Flying \/ m.k \in {"ack", "push"}
    BY <1>1, <1>4, <1>5 DEF Flying, IsPush
  <2>4. CursorsAre(room, doc', disk.saved, http, Flying')
    BY <1>2, <2>2, <2>3, CursorsStay DEF CursorsTrue
  <2> QED
    BY <1>1, <2>4 DEF CursorsTrue
<1> QED
  BY <1>6, <1>7, <1>8, <1>9 DEF RegistryInv

LEMMA SessNudgeKeeps == ASSUME RegistryInv, SessNudge PROVE RegistryInv'
BY PushKeeps DEF SessNudge

LEMMA SessJoinedKeeps == ASSUME RegistryInv, SessJoined PROVE RegistryInv'
BY PushKeeps DEF SessJoined

(* The session takes the answer to its hello. *)
LEMMA SessStateKeeps ==
  ASSUME RegistryInv, SessState
  PROVE  RegistryInv'
<1> DEFINE a == Head(s2c)
           d == ApplyState(doc, a)
<1>1. /\ net.phase = "hello" /\ s2c # <<>> /\ a.k = "state"
      /\ doc' = d /\ past' = Issue(d)
      /\ net' = [net EXCEPT !.phase = "joined"] /\ s2c' = Tail(s2c)
      /\ disk' = [disk EXCEPT !.dirty = TRUE] /\ UNCHANGED <<lim, room, c2s, http>>
  BY DEF SessState
<1>2. IsSeq(Tail(s2c)) /\ Range(s2c) = Range(Tail(s2c)) \cup {a}
  BY <1>1, TailIsSeq DEF RegistryInv, SessionTrue, ToClient
<1>3. IsState(a)
  BY <1>1, <1>2 DEF RegistryInv, SessionTrue, ToClient, IsRows
<1>4. /\ net.ready /\ c2s = <<>> /\ \A m \in Range(Tail(s2c)) : m.k # "state"
  BY <1>1 DEF RegistryInv, SessionTrue
<1>5. /\ IsDoc(d) /\ d.auth = AnswerAuth(doc, a) /\ d.cursor = a.seq
      /\ Extended(doc.pending, d.pending)
  BY <1>3, ApplyStateKeeps DEF RegistryInv, RegistryType, IsLimit
<1> HIDE DEF d, a
<1>6. Issues(past, Issue(d), d) /\ Issue(d).regress = past.regress
  BY <1>5, IssueIs DEF RegistryInv, RegistryType
<1>7. /\ IsPast(past') /\ past'.issued = Issue(d).issued /\ past'.order = past.order
      /\ past'.lostWrite = past.lostWrite /\ past'.wiped = past.wiped
      /\ past'.regress = past.regress
  BY <1>1, <1>6 DEF Issues
<1>8. c2s' = <<>> /\ Range(c2s') = {}
  BY <1>1, <1>4, NoneIsSeq
<1>11. /\ DOMAIN net' = DOMAIN net /\ net'.phase = "joined" /\ net'.ready = net.ready
       /\ DOMAIN disk' = DOMAIN disk /\ disk'.saved = disk.saved
  BY <1>1 DEF RegistryInv, RegistryType
<1>12. RegistryType'
  BY <1>1, <1>5, <1>7, <1>11 DEF RegistryInv, RegistryType
<1>13. SessionTrue'
  <2>1. ToRoom' /\ ToClient'
    BY <1>1, <1>2 DEF RegistryInv, SessionTrue, ToRoom, ToClient
  <2> QED
    BY <1>1, <1>4, <1>8, <1>11, <2>1 DEF SessionTrue
<1>14. AcksTrue'
  BY <1>1, <1>2, <1>7 DEF RegistryInv, AcksTrue
<1>15. NothingLost'
  <2>1. {b.id : b \in Range(doc.pending)} \subseteq {b.id : b \in Range(d.pending)}
    BY <1>5, ExtendedIds
  <2> QED
    BY <1>1, <1>6, <1>7, <2>1 DEF RegistryInv, NothingLost, Issues
<1>16. Honest'
  <2>1. SUFFICES ASSUME ~past'.wiped, ~past'.regress PROVE CursorsTrue'
    BY DEF Honest
  <2>2. CursorsTrue
    BY <1>7, <2>1 DEF RegistryInv, Honest
  <2>3. StateTrue(room, doc, http, a)
    BY <1>1, <1>2, <2>2 DEF CursorsTrue, CursorsAre, FlightTrue, Flying
  <2>4. PICK n \in Nat : HeldTo(room, doc.auth, n) /\ AnswerTrue(room, a, n)
    BY <2>3 DEF StateTrue
  <2>5. HeldTo(room, doc'.auth, a.seq) /\ a.seq <= room.seq
    <3>1. doc'.auth = AnswerAuth(doc, a)
      BY <1>1, <1>5
    <3> QED
      BY <1>3, <2>4, <3>1, AnswerHolds DEF AnswerTrue, RegistryInv, RegistryType
  <2>6. DocTrue(room, doc')
    BY <1>1, <1>5, <2>5 DEF DocTrue
  <2>7. PullTrue(room, doc', http)
    <3>1. PullTrue(room, doc, http)
      BY <2>2 DEF CursorsTrue, CursorsAre
    <3>2. ASSUME Pulling(http) PROVE HeldTo(room, doc'.auth, http.since)
      <4>1. http.since <= a.seq
        BY <2>3, <3>2 DEF StateTrue
      <4>2. http.since \in Nat /\ a.seq \in Nat /\ IsRoom(room)
        BY <1>3 DEF IsState, IsHttp, RegistryInv, RegistryType
      <4> QED
        BY <2>5, <4>1, <4>2, HeldLess
    <3> QED
      BY <3>1, <3>2 DEF PullTrue
  <2>8. \A m \in Flying' : m \in Flying /\ m.k \in {"rows", "ack"}
    BY <1>1, <1>2, <1>4, <1>8 DEF Flying, RegistryInv, SessionTrue, ToClient, IsState, IsRows
  <2>9. \A m \in Flying' : FlightTrue(room, doc', http, m)
    BY <2>2, <2>8 DEF CursorsTrue, CursorsAre, FlightTrue
  <2> QED
    BY <1>1, <1>11, <2>2, <2>6, <2>7, <2>9 DEF CursorsTrue, CursorsAre
<1> QED
  BY <1>12, <1>13, <1>14, <1>15, <1>16 DEF RegistryInv

(* A broadcast that puts no row back: what was held is held, and the cursor
   moves only to a number all of whose rows it brings.                      *)
LEMMA RowsHold ==
  ASSUME NEW rm, NEW d, NEW f, IsRoom(rm), IsDoc(d), IsRows(f), RowsTrue(rm, f), DocTrue(rm, d),
         \A r \in DOMAIN f.rows : ~(f.rows[r].seq < d.auth[r].seq)
  PROVE  /\ DocTrue(rm, ApplyRows(d, f))
         /\ \A k \in Nat : HeldTo(rm, d.auth, k) => HeldTo(rm, ApplyRows(d, f).auth, k)
<1> DEFINE e == ApplyRows(d, f)
<1>1. /\ e.auth = Put(d.auth, f.rows)
      /\ e.cursor = IF f.seq = d.cursor + 1 THEN f.seq ELSE d.cursor
  BY ApplyRowsKeeps
<1> HIDE DEF e
<1>2. f.seq \in Nat /\ f.seq <= rm.seq /\ d.cursor \in Nat /\ AllRows(d.auth) /\ SomeRows(f.rows)
  BY DEF IsRows, IsDoc, RowsTrue
<1>3. \A r \in DOMAIN f.rows : f.rows[r].seq <= f.seq /\ ~(f.rows[r].seq < d.auth[r].seq)
  <2>1. \A r \in DOMAIN f.rows : f.rows[r].seq = f.seq
    BY DEF RowsTrue
  <2> QED
    BY <1>2, <2>1
<1>4. \A r \in DOMAIN f.rows : There(rm, r) /\ rm.rows[r].seq <= f.seq => f.rows[r] = rm.rows[r]
  BY <1>2 DEF RowsTrue, SomeRows
<1>5. \A k \in Nat : HeldTo(rm, d.auth, k) => HeldTo(rm, e.auth, k)
  BY <1>1, <1>2, <1>3, <1>4, PutHolds
<1>6. CASE f.seq # d.cursor + 1
  BY <1>1, <1>2, <1>5, <1>6 DEF DocTrue, e
<1>7. CASE f.seq = d.cursor + 1
  <2>1. ASSUME NEW r \in RowIds, There(rm, r), rm.rows[r].seq <= f.seq
        PROVE  e.auth[r] = rm.rows[r]
    <3>1. CASE r \in DOMAIN f.rows
      BY <1>1, <2>1, <3>1 DEF RowsTrue, Put
    <3>2. CASE r \notin DOMAIN f.rows
      <4>1. rm.rows[r].seq < f.seq /\ rm.rows[r].seq \in Nat
        BY <2>1, <3>2 DEF RowsTrue, IsRoom, AllRows, IsRow
      <4>2. rm.rows[r].seq <= d.cursor
        BY <1>2, <1>7, <4>1
      <4>3. e.auth[r] = d.auth[r]
        BY <1>1, <3>2 DEF Put
      <4> QED
        BY <2>1, <4>2, <4>3 DEF DocTrue, HeldTo
    <3> QED
      BY <3>1, <3>2
  <2>2. HeldTo(rm, e.auth, f.seq)
    BY <2>1 DEF HeldTo
  <2> QED
    BY <1>1, <1>2, <1>5, <1>7, <2>2 DEF DocTrue, e
<1> QED
  BY <1>6, <1>7

(* The session takes a broadcast, or gives up on a gap. *)
LEMMA SessRowsKeeps ==
  ASSUME RegistryInv, SessRows
  PROVE  RegistryInv'
<1> DEFINE f == Head(s2c)
           d == ApplyRows(doc, f)
<1>1. /\ net.phase = "live" /\ s2c # <<>> /\ f.k = "rows"
      /\ past' = [past EXCEPT !.regress = @ \/ PutsBack(f.rows)]
      /\ IF IsGap(doc, f) THEN doc' = Marked(d, FALSE) /\ Disconnected
         ELSE doc' = d /\ s2c' = Tail(s2c) /\ UNCHANGED <<net, c2s, http>>
      /\ disk' = [disk EXCEPT !.dirty = TRUE] /\ UNCHANGED <<lim, room>>
  BY DEF SessRows
<1>2. IsSeq(Tail(s2c)) /\ Range(s2c) = Range(Tail(s2c)) \cup {f}
  BY <1>1, TailIsSeq DEF RegistryInv, SessionTrue, ToClient
<1>3. IsRows(f)
  BY <1>1, <1>2 DEF RegistryInv, SessionTrue, ToClient, IsState
<1>4. /\ IsDoc(d) /\ d.auth = Put(doc.auth, f.rows) /\ d.pending = doc.pending
      /\ d.cursor = IF f.seq = doc.cursor + 1 THEN f.seq ELSE doc.cursor
  BY <1>3, ApplyRowsKeeps DEF RegistryInv, RegistryType
<1>5. /\ IsPast(past') /\ past'.issued = past.issued /\ past'.order = past.order
      /\ past'.lostWrite = past.lostWrite /\ past'.wiped = past.wiped
      /\ past'.regress = (past.regress \/ PutsBack(f.rows))
  BY <1>1 DEF RegistryInv, RegistryType, IsPast, PutsBack
<1>6. DOMAIN disk' = DOMAIN disk /\ disk'.saved = disk.saved
  BY <1>1 DEF RegistryInv, RegistryType
<1>7. ASSUME ~past'.wiped, ~past'.regress
      PROVE  /\ CursorsTrue /\ DocTrue(room, d)
             /\ \A k \in Nat : HeldTo(room, doc.auth, k) => HeldTo(room, d.auth, k)
  <2>1. CursorsTrue
    BY <1>5, <1>7 DEF RegistryInv, Honest
  <2>2. RowsTrue(room, f) /\ DocTrue(room, doc)
    BY <1>1, <1>2, <2>1 DEF CursorsTrue, CursorsAre, FlightTrue, Flying
  <2>3. \A r \in DOMAIN f.rows : ~(f.rows[r].seq < doc.auth[r].seq)
    BY <1>5, <1>7 DEF PutsBack
  <2> HIDE DEF f
  <2> QED
    BY <1>3, <2>1, <2>2, <2>3, RowsHold DEF RegistryInv, RegistryType
<1> HIDE DEF d, f
<1>8. ASSUME NEW e, NEW h, NEW ms, ~past'.wiped, ~past'.regress, e.auth = d.auth,
             e.cursor = d.cursor, Pulling(h) => h = http, \A m \in ms : m \in Flying
      PROVE  CursorsAre(room, e, disk.saved, h, ms)
  <2>1. /\ RoomTrue(room) /\ DocTrue(room, disk.saved) /\ PullTrue(room, doc, http)
        /\ \A m \in ms : FlightTrue(room, doc, http, m)
    BY <1>7, <1>8 DEF CursorsTrue, CursorsAre
  <2>2. DocTrue(room, e)
    BY <1>7, <1>8 DEF DocTrue
  <2>3. PullTrue(room, e, h)
    BY <1>7, <1>8, <2>1 DEF PullTrue, RegistryInv, RegistryType, IsHttp
  <2>4. \A m \in ms : m.k # "hello" /\ m.k # "state"
    BY <1>1, <1>8 DEF Flying, RegistryInv, SessionTrue, ToRoom, ToClient, IsPush, IsRows, IsHello,
       IsState
  <2>5. \A m \in ms : FlightTrue(room, e, h, m)
    BY <2>1, <2>4 DEF FlightTrue
  <2> QED
    BY <2>1, <2>2, <2>3, <2>5 DEF CursorsAre
<1>9. CASE IsGap(doc, f)
  <2>1. doc' = Marked(d, FALSE) /\ Disconnected
    BY <1>1, <1>9
  <2>2. /\ IsDoc(doc') /\ doc'.auth = d.auth /\ doc'.cursor = d.cursor
        /\ {b.id : b \in Range(doc'.pending)} = {b.id : b \in Range(doc.pending)}
    <3>1. IsDoc(d) /\ doc' = Marked(d, FALSE) /\ d.pending = doc.pending
      BY <1>4, <2>1
    <3>2. /\ IsDoc(doc') /\ doc'.auth = d.auth /\ doc'.cursor = d.cursor
          /\ {b.id : b \in Range(doc'.pending)} = {b.id : b \in Range(d.pending)}
      BY <3>1, MarkedKeeps
    <3> QED
      BY <3>1, <3>2
  <2>3. IsHttp(http') /\ (Pulling(http') => http' = http) /\ c2s' = <<>> /\ s2c' = <<>>
    BY <2>1, SpawnIs DEF Disconnected, RegistryInv, RegistryType
  <2>4. Flying' = {}
    BY <2>3, NoneIsSeq DEF Flying
  <2>5. Honest'
    <3>1. SUFFICES ASSUME ~past'.wiped, ~past'.regress PROVE CursorsTrue'
      BY DEF Honest
    <3>2. CursorsAre(room, doc', disk.saved, http', {})
      BY <1>8, <2>2, <2>3, <3>1
    <3> QED
      BY <1>1, <1>6, <2>4, <3>2 DEF CursorsTrue
  <2>6. IsLimit(lim')
    BY <1>1 DEF RegistryInv, RegistryType
  <2> QED
    BY <1>1, <1>5, <1>6, <2>1, <2>2, <2>3, <2>5, <2>6, OverKeeps
<1>10. CASE ~IsGap(doc, f)
  <2>1. doc' = d /\ s2c' = Tail(s2c) /\ UNCHANGED <<net, c2s, http>>
    BY <1>1, <1>10
  <2>2. RegistryType'
    BY <1>1, <1>4, <1>5, <1>6, <2>1 DEF RegistryInv, RegistryType
  <2>3. SessionTrue'
    <3>1. ToRoom' /\ ToClient'
      BY <1>2, <2>1 DEF RegistryInv, SessionTrue, ToRoom, ToClient
    <3> QED
      BY <1>1, <1>2, <2>1, <3>1 DEF RegistryInv, SessionTrue
  <2>4. AcksTrue' /\ NothingLost'
    BY <1>2, <1>4, <1>5, <2>1 DEF RegistryInv, AcksTrue, NothingLost
  <2>5. Honest'
    <3>1. SUFFICES ASSUME ~past'.wiped, ~past'.regress PROVE CursorsTrue'
      BY DEF Honest
    <3>2. \A m \in Flying' : m \in Flying
      BY <1>2, <2>1 DEF Flying
    <3>3. CursorsAre(room, doc', disk.saved, http', Flying')
      BY <1>8, <2>1, <3>1, <3>2
    <3> QED
      BY <1>1, <1>6, <3>3 DEF CursorsTrue
  <2> QED
    BY <2>2, <2>3, <2>4, <2>5 DEF RegistryInv
<1> QED
  BY <1>9, <1>10

(* The session takes an acknowledgement. *)
LEMMA SessAckKeeps ==
  ASSUME RegistryInv, SessAck
  PROVE  RegistryInv'
<1> DEFINE a == Head(s2c)
<1>1. /\ net.phase = "live" /\ s2c # <<>> /\ a.k = "ack" /\ doc' = AckBatch(doc, a.id)
      /\ s2c' = Tail(s2c) /\ disk' = [disk EXCEPT !.dirty = TRUE]
      /\ UNCHANGED <<lim, room, net, c2s, http, past>>
  BY DEF SessAck
<1>2. IsSeq(Tail(s2c)) /\ Range(s2c) = Range(Tail(s2c)) \cup {a}
  BY <1>1, TailIsSeq DEF RegistryInv, SessionTrue, ToClient
<1>3. a.id \in Range(past.order)
  BY <1>1, <1>2 DEF RegistryInv, AcksTrue
<1> HIDE DEF a
<1>4. /\ IsDoc(doc') /\ doc'.auth = doc.auth /\ doc'.cursor = doc.cursor
      /\ {b.id : b \in Range(doc.pending)} \subseteq {b.id : b \in Range(doc'.pending)} \cup {a.id}
  BY <1>1, AckBatchKeeps DEF RegistryInv, RegistryType
<1>5. DOMAIN disk' = DOMAIN disk /\ disk'.saved = disk.saved
  BY <1>1 DEF RegistryInv, RegistryType
<1>6. RegistryType'
  BY <1>1, <1>4, <1>5 DEF RegistryInv, RegistryType
<1>7. SessionTrue'
  <2>1. ToRoom' /\ ToClient'
    BY <1>1, <1>2 DEF RegistryInv, SessionTrue, ToRoom, ToClient
  <2> QED
    BY <1>1, <1>2, <2>1 DEF RegistryInv, SessionTrue
<1>8. AcksTrue' /\ NothingLost'
  BY <1>1, <1>2, <1>3, <1>4 DEF RegistryInv, AcksTrue, NothingLost
<1>9. Honest'
  <2>1. SUFFICES ASSUME ~past'.wiped, ~past'.regress PROVE CursorsTrue'
    BY DEF Honest
  <2>2. CursorsTrue
    BY <1>1, <2>1 DEF RegistryInv, Honest
  <2>3. \A m \in Flying' : m \in Flying
    BY <1>1, <1>2 DEF Flying
  <2>4. CursorsAre(room, doc', disk.saved, http, Flying')
    BY <1>4, <2>2, <2>3, CursorsStay DEF CursorsTrue
  <2> QED
    BY <1>1, <1>5, <2>4 DEF CursorsTrue
<1> QED
  BY <1>6, <1>7, <1>8, <1>9 DEF RegistryInv

------------------------------------------------------------------------------
(* The HTTPS task. *)
LEMMA TaskKeeps ==
  ASSUME RegistryInv, IsLimit(lim'), IsDoc(doc'), IsHttp(http'), IsPast(past'),
         UNCHANGED <<room, net, c2s, s2c>>, DOMAIN disk' = DOMAIN disk, IsDoc(disk'.saved),
         past'.order = past.order, http'.phase # "ack", NothingLost',
         past'.wiped = past.wiped, past.regress => past'.regress,
         CursorsTrue /\ ~past'.wiped /\ ~past'.regress =>
           CursorsAre(room, doc', disk'.saved, http', Flying)
  PROVE  RegistryInv'
<1>1. RegistryType' /\ SessionTrue' /\ AcksTrue'
  BY DEF RegistryInv, RegistryType, SessionTrue, ToRoom, ToClient, AcksTrue
<1>2. Honest'
  <2>1. SUFFICES ASSUME ~past'.wiped, ~past'.regress PROVE CursorsTrue'
    BY DEF Honest
  <2>2. CursorsTrue
    BY <2>1 DEF RegistryInv, Honest
  <2>3. CursorsAre(room, doc', disk'.saved, http', Flying)
    BY <2>1, <2>2
  <2>4. Flying' = Flying
    BY DEF Flying
  <2> QED
    BY <2>3, <2>4 DEF CursorsTrue
<1> QED
  BY <1>1, <1>2 DEF RegistryInv

(* The HTTPS task takes the queue. *)
LEMMA HttpTakeKeeps ==
  ASSUME RegistryInv, HttpTake
  PROVE  RegistryInv'
<1> DEFINE p == Pushable(doc)
<1>1. /\ http.phase = "start" /\ http' = [http EXCEPT !.phase = "post", !.batches = p]
      /\ doc' = Marked(doc, TRUE) /\ UNCHANGED <<lim, room, disk, net, c2s, s2c>>
  BY DEF HttpTake
<1>2. \E k : past' = [past EXCEPT !.mixed = k]
  BY DEF HttpTake
<1>3. /\ IsPast(past') /\ past'.issued = past.issued /\ past'.order = past.order
      /\ past'.lostWrite = past.lostWrite /\ past'.wiped = past.wiped
      /\ past'.regress = past.regress
  BY <1>2 DEF RegistryInv, RegistryType, IsPast
<1>4. Batches(p)
  BY PushableIs DEF RegistryInv, RegistryType
<1> HIDE DEF p
<1>5. IsHttp(http') /\ http'.phase = "post"
  BY <1>1, <1>4 DEF RegistryInv, RegistryType, IsHttp
<1>6. /\ IsDoc(doc') /\ doc'.auth = doc.auth /\ doc'.cursor = doc.cursor
      /\ {b.id : b \in Range(doc'.pending)} = {b.id : b \in Range(doc.pending)}
  BY <1>1, MarkedKeeps DEF RegistryInv, RegistryType
<1>7. NothingLost'
  BY <1>3, <1>6 DEF RegistryInv, NothingLost
<1>8. CursorsTrue => CursorsAre(room, doc', disk.saved, http', Flying)
  <2> SUFFICES ASSUME CursorsTrue PROVE CursorsAre(room, doc', disk.saved, http', Flying)
    OBVIOUS
  <2>1. Busy(http) /\ ~Pulling(http')
    BY <1>1, <1>5 DEF Busy, Pulling
  <2>2. CursorsAre(room, doc, disk.saved, http, Flying)
    BY DEF CursorsTrue
  <2> QED
    BY <1>6, <2>1, <2>2, CursorsStay
<1> QED
  BY <1>1, <1>3, <1>5, <1>6, <1>7, <1>8, TaskKeeps DEF RegistryInv, RegistryType

(* The HTTPS task takes the answer to a post. *)
LEMMA HttpAckKeeps ==
  ASSUME RegistryInv, HttpAck
  PROVE  RegistryInv'
<1> DEFINE id == Head(http.batches).id
           q == Tail(http.batches)
<1>1. /\ http.phase = "ack" /\ http' = [http EXCEPT !.phase = "post", !.batches = q]
      /\ doc' = AckBatch(doc, id) /\ disk' = [disk EXCEPT !.dirty = TRUE]
      /\ UNCHANGED <<lim, room, net, c2s, s2c, past>>
  BY DEF HttpAck
<1>2. id \in Range(past.order)
  BY <1>1 DEF RegistryInv, AcksTrue
<1>3. Batches(q)
  <2>1. Batches(http.batches) /\ http.batches # <<>>
    BY <1>1 DEF RegistryInv, RegistryType, IsHttp
  <2>2. IsSeq(q) /\ Range(q) \subseteq Range(http.batches)
    BY <2>1, TailIsSeq DEF Batches
  <2> QED
    BY <2>1, <2>2 DEF Batches
<1> HIDE DEF id, q
<1>4. IsHttp(http') /\ http'.phase = "post"
  BY <1>1, <1>3 DEF RegistryInv, RegistryType, IsHttp
<1>5. /\ IsDoc(doc') /\ doc'.auth = doc.auth /\ doc'.cursor = doc.cursor
      /\ {b.id : b \in Range(doc.pending)} \subseteq {b.id : b \in Range(doc'.pending)} \cup {id}
  BY <1>1, AckBatchKeeps DEF RegistryInv, RegistryType
<1>6. DOMAIN disk' = DOMAIN disk /\ disk'.saved = disk.saved
  BY <1>1 DEF RegistryInv, RegistryType
<1>7. NothingLost'
  BY <1>1, <1>2, <1>5 DEF RegistryInv, NothingLost
<1>8. CursorsTrue => CursorsAre(room, doc', disk.saved, http', Flying)
  <2> SUFFICES ASSUME CursorsTrue PROVE CursorsAre(room, doc', disk.saved, http', Flying)
    OBVIOUS
  <2>1. Busy(http) /\ ~Pulling(http')
    BY <1>1, <1>4 DEF Busy, Pulling
  <2>2. CursorsAre(room, doc, disk.saved, http, Flying)
    BY DEF CursorsTrue
  <2> QED
    BY <1>5, <2>1, <2>2, CursorsStay
<1> QED
  BY <1>1, <1>4, <1>5, <1>6, <1>7, <1>8, TaskKeeps DEF RegistryInv, RegistryType

(* A post fails. *)
LEMMA HttpPostFailKeeps ==
  ASSUME RegistryInv, HttpPostFail
  PROVE  RegistryInv'
<1>1. /\ IsLimit(lim') /\ http.phase \in {"post", "ack"}
      /\ http' = [http EXCEPT !.phase = "post", !.batches = <<>>]
      /\ doc' = Marked(doc, FALSE) /\ UNCHANGED <<room, disk, net, c2s, s2c>>
  BY SpendKeeps DEF HttpPostFail, RegistryInv, RegistryType
<1>2. \E k : past' = [past EXCEPT !.unmarked = k]
  BY DEF HttpPostFail
<1>3. /\ IsPast(past') /\ past'.issued = past.issued /\ past'.order = past.order
      /\ past'.lostWrite = past.lostWrite /\ past'.wiped = past.wiped
      /\ past'.regress = past.regress
  BY <1>2 DEF RegistryInv, RegistryType, IsPast
<1>4. IsHttp(http') /\ http'.phase = "post"
  BY <1>1, NoneIsSeq DEF RegistryInv, RegistryType, IsHttp, Batches
<1>5. /\ IsDoc(doc') /\ doc'.auth = doc.auth /\ doc'.cursor = doc.cursor
      /\ {b.id : b \in Range(doc'.pending)} = {b.id : b \in Range(doc.pending)}
  BY <1>1, MarkedKeeps DEF RegistryInv, RegistryType
<1>6. NothingLost'
  BY <1>3, <1>5 DEF RegistryInv, NothingLost
<1>7. CursorsTrue => CursorsAre(room, doc', disk.saved, http', Flying)
  <2> SUFFICES ASSUME CursorsTrue PROVE CursorsAre(room, doc', disk.saved, http', Flying)
    OBVIOUS
  <2>1. Busy(http) /\ ~Pulling(http')
    BY <1>1, <1>4 DEF Busy, Pulling
  <2>2. CursorsAre(room, doc, disk.saved, http, Flying)
    BY DEF CursorsTrue
  <2> QED
    BY <1>5, <2>1, <2>2, CursorsStay
<1> QED
  BY <1>1, <1>3, <1>4, <1>5, <1>6, <1>7, TaskKeeps DEF RegistryInv, RegistryType

(* The pull starts from the cursor, which no answer on its way is behind. *)
LEMMA HttpPullKeeps ==
  ASSUME RegistryInv, HttpPull
  PROVE  RegistryInv'
<1>1. /\ http.phase = "post" /\ http' = [http EXCEPT !.phase = "pull", !.since = doc.cursor]
      /\ UNCHANGED <<lim, room, doc, disk, net, c2s, s2c, past>>
  BY DEF HttpPull
<1>2. IsHttp(http') /\ http'.phase = "pull" /\ http'.since = doc.cursor
  BY <1>1 DEF RegistryInv, RegistryType, IsHttp, IsDoc
<1>3. NothingLost'
  BY <1>1 DEF RegistryInv, NothingLost
<1>4. ASSUME CursorsTrue PROVE CursorsAre(room, doc, disk.saved, http', Flying)
  <2>1. /\ RoomTrue(room) /\ DocTrue(room, doc) /\ DocTrue(room, disk.saved)
        /\ \A m \in Flying : FlightTrue(room, doc, http, m)
    BY <1>4 DEF CursorsTrue, CursorsAre
  <2>2. PullTrue(room, doc, http')
    BY <1>2, <2>1 DEF PullTrue, DocTrue
  <2>3. \A m \in Flying : FlightTrue(room, doc, http', m)
    <3> SUFFICES ASSUME NEW m \in Flying PROVE FlightTrue(room, doc, http', m)
      OBVIOUS
    <3>1. FlightTrue(room, doc, http, m) /\ Busy(http)
      BY <1>1, <2>1 DEF Busy
    <3>2. m.k = "hello" => HelloTrue(room, doc, http', m)
      BY <3>1 DEF FlightTrue, HelloTrue
    <3>3. m.k = "state" => StateTrue(room, doc, http', m)
      BY <1>2, <3>1 DEF FlightTrue, StateTrue
    <3> QED
      BY <3>1, <3>2, <3>3 DEF FlightTrue
  <2> QED
    BY <2>1, <2>2, <2>3 DEF CursorsAre
<1> QED
  BY <1>1, <1>2, <1>3, <1>4, TaskKeeps DEF RegistryInv, RegistryType

(* The room answers a pull from the cursor it names. *)
LEMMA HttpServeKeeps ==
  ASSUME RegistryInv, HttpServe
  PROVE  RegistryInv'
<1> DEFINE a == Answer(http.since, FALSE)
<1>1. /\ http.phase = "pull" /\ http' = [http EXCEPT !.phase = "answer", !.answer = a]
      /\ UNCHANGED <<lim, room, doc, disk, net, c2s, s2c, past>>
  BY DEF HttpServe
<1>2. IsState(a) /\ (RoomTrue(room) => AnswerTrue(room, a, http.since))
  BY AnswerIs DEF RegistryInv, RegistryType, IsHttp
<1> HIDE DEF a
<1>3. /\ IsHttp(http') /\ http'.phase = "answer" /\ http'.answer = a
      /\ http'.since = http.since
  BY <1>1, <1>2 DEF RegistryInv, RegistryType, IsHttp
<1>4. NothingLost'
  BY <1>1 DEF RegistryInv, NothingLost
<1>5. ASSUME CursorsTrue PROVE CursorsAre(room, doc, disk.saved, http', Flying)
  <2>1. /\ RoomTrue(room) /\ DocTrue(room, doc) /\ DocTrue(room, disk.saved)
        /\ PullTrue(room, doc, http) /\ \A m \in Flying : FlightTrue(room, doc, http, m)
    BY <1>5 DEF CursorsTrue, CursorsAre
  <2>2. PullTrue(room, doc, http')
    BY <1>1, <1>2, <1>3, <2>1 DEF PullTrue, Pulling
  <2>3. \A m \in Flying : FlightTrue(room, doc, http', m)
    <3> SUFFICES ASSUME NEW m \in Flying PROVE FlightTrue(room, doc, http', m)
      OBVIOUS
    <3>1. FlightTrue(room, doc, http, m) /\ Busy(http) /\ Pulling(http)
      BY <1>1, <2>1 DEF Busy, Pulling
    <3>2. m.k = "hello" => HelloTrue(room, doc, http', m)
      BY <3>1 DEF FlightTrue, HelloTrue
    <3>3. m.k = "state" => StateTrue(room, doc, http', m)
      BY <1>3, <3>1 DEF FlightTrue, StateTrue
    <3> QED
      BY <3>1, <3>2, <3>3 DEF FlightTrue
  <2> QED
    BY <2>1, <2>2, <2>3 DEF CursorsAre
<1> QED
  BY <1>1, <1>3, <1>4, <1>5, TaskKeeps DEF RegistryInv, RegistryType

(* The HTTPS task at rest. *)
LEMMA IdleIs == IsHttp(IdleHttp) /\ ~Busy(IdleHttp) /\ ~Pulling(IdleHttp) /\ IdleHttp.phase = "idle"
BY NoneIsSeq DEF IdleHttp, IsHttp, Batches, Busy, Pulling

(* A pull fails. *)
LEMMA HttpFailKeeps ==
  ASSUME RegistryInv, HttpFail
  PROVE  RegistryInv'
<1>1. /\ IsLimit(lim') /\ http' = IdleHttp
      /\ UNCHANGED <<room, doc, disk, net, c2s, s2c, past>>
  BY SpendKeeps DEF HttpFail, RegistryInv, RegistryType
<1>2. NothingLost'
  BY <1>1 DEF RegistryInv, NothingLost
<1>3. CursorsTrue => CursorsAre(room, doc', disk.saved, http', Flying)
  BY <1>1, IdleIs, CursorsStay DEF CursorsTrue
<1> QED
  BY <1>1, <1>2, <1>3, IdleIs, TaskKeeps DEF RegistryInv, RegistryType

(* An answer applied: the number it brings, and no cursor the replica stood
   at before is made false by it.                                           *)
LEMMA HttpApplyKeeps ==
  ASSUME RegistryInv, HttpApply
  PROVE  RegistryInv'
<1> DEFINE a == http.answer
           d == ApplyState(doc, a)
<1>1. /\ http.phase = "answer" /\ doc' = d /\ http' = IdleHttp
      /\ past' = [Issue(d) EXCEPT !.regress = @ \/ PutsBack(a.rows)]
      /\ disk' = [disk EXCEPT !.dirty = TRUE] /\ UNCHANGED <<lim, room, net, c2s, s2c>>
  BY DEF HttpApply
<1>2. IsState(a)
  BY <1>1 DEF RegistryInv, RegistryType, IsHttp
<1>3. /\ IsDoc(d) /\ d.auth = AnswerAuth(doc, a) /\ d.cursor = a.seq
      /\ Extended(doc.pending, d.pending)
  BY <1>2, ApplyStateKeeps DEF RegistryInv, RegistryType, IsLimit
<1> HIDE DEF d
<1>4. Issues(past, Issue(d), d) /\ Issue(d).regress = past.regress
  BY <1>3, IssueIs DEF RegistryInv, RegistryType
<1>5. /\ IsPast(past') /\ past'.issued = Issue(d).issued /\ past'.order = past.order
      /\ past'.lostWrite = past.lostWrite /\ past'.wiped = past.wiped
      /\ past'.regress = (past.regress \/ PutsBack(a.rows))
  BY <1>1, <1>4 DEF Issues, IsPast, PutsBack
<1>6. DOMAIN disk' = DOMAIN disk /\ disk'.saved = disk.saved
  BY <1>1 DEF RegistryInv, RegistryType
<1>7. NothingLost'
  <2>1. {b.id : b \in Range(doc.pending)} \subseteq {b.id : b \in Range(d.pending)}
    BY <1>3, ExtendedIds
  <2> QED
    BY <1>1, <1>4, <1>5, <2>1 DEF RegistryInv, NothingLost, Issues
<1>8. ASSUME CursorsTrue, ~past'.regress
      PROVE  CursorsAre(room, doc', disk.saved, http', Flying)
  <2>1. /\ RoomTrue(room) /\ DocTrue(room, doc) /\ DocTrue(room, disk.saved)
        /\ PullTrue(room, doc, http) /\ \A m \in Flying : FlightTrue(room, doc, http, m)
    BY <1>8 DEF CursorsTrue, CursorsAre
  <2>2. /\ HeldTo(room, doc.auth, http.since) /\ AnswerTrue(room, a, http.since)
        /\ http.since \in Nat
    BY <1>1, <2>1 DEF PullTrue, Pulling, RegistryInv, RegistryType, IsHttp
  <2>3. \A r \in DOMAIN a.rows : ~(a.rows[r].seq < doc.auth[r].seq)
    BY <1>5, <1>8 DEF PutsBack
  <2> HIDE DEF a
  <2>4. /\ HeldTo(room, d.auth, a.seq)
        /\ \A k \in Nat : k <= doc.cursor /\ HeldTo(room, doc.auth, k) => HeldTo(room, d.auth, k)
    BY <1>2, <1>3, <2>2, <2>3, AnswerHolds DEF RegistryInv, RegistryType
  <2>5. DocTrue(room, d)
    BY <1>3, <2>2, <2>4 DEF DocTrue, AnswerTrue
  <2>6. PullTrue(room, d, http')
    BY <1>1, IdleIs DEF PullTrue
  <2>7. \A m \in Flying : FlightTrue(room, d, http', m)
    <3> SUFFICES ASSUME NEW m \in Flying PROVE FlightTrue(room, d, http', m)
      OBVIOUS
    <3>1. FlightTrue(room, doc, http, m) /\ Busy(http) /\ ~Busy(http') /\ ~Pulling(http')
      BY <1>1, <2>1, IdleIs DEF Busy
    <3>2. ASSUME m.k = "hello" PROVE HelloTrue(room, d, http', m)
      <4>1. HelloTrue(room, doc, http, m) /\ m.cursor \in Nat
        BY <3>1, <3>2, FlyingMessages DEF FlightTrue, RegistryInv, IsMessage, IsHello, IsPush,
           IsState, IsRows
      <4> QED
        BY <2>4, <3>1, <4>1 DEF HelloTrue
    <3>3. ASSUME m.k = "state" PROVE StateTrue(room, d, http', m)
      <4>1. PICK n \in Nat : /\ n <= room.seq /\ HeldTo(room, doc.auth, n)
                             /\ AnswerTrue(room, m, n) /\ n <= doc.cursor
        BY <3>1, <3>3 DEF FlightTrue, StateTrue
      <4>2. HeldTo(room, d.auth, n)
        BY <2>4, <4>1
      <4> QED
        BY <3>1, <4>1, <4>2 DEF StateTrue
    <3> QED
      BY <3>1, <3>2, <3>3 DEF FlightTrue
  <2> QED
    BY <1>1, <2>1, <2>5, <2>6, <2>7 DEF CursorsAre
<1> QED
  BY <1>1, <1>3, <1>5, <1>6, <1>7, <1>8, IdleIs, TaskKeeps DEF RegistryInv, RegistryType

------------------------------------------------------------------------------
(* The saver, and a kill. *)
LEMMA SaveKeeps ==
  ASSUME RegistryInv, Save \/ SaveFail
  PROVE  RegistryInv'
<1>1. /\ IsLimit(lim') /\ UNCHANGED <<room, doc, net, c2s, s2c, http, past>>
      /\ DOMAIN disk' = DOMAIN disk /\ (disk'.saved = doc \/ disk'.saved = disk.saved)
  BY SpendKeeps DEF Save, SaveFail, RegistryInv, RegistryType
<1>2. RegistryType' /\ SessionTrue' /\ AcksTrue' /\ NothingLost'
  BY <1>1 DEF RegistryInv, RegistryType, SessionTrue, ToRoom, ToClient, AcksTrue, NothingLost
<1>3. Honest'
  <2>1. CursorsTrue => CursorsTrue'
    BY <1>1 DEF CursorsTrue, CursorsAre, Flying
  <2> QED
    BY <1>1, <2>1 DEF RegistryInv, Honest
<1> QED
  BY <1>2, <1>3 DEF RegistryInv

(* A restart finds the saved replica, and its cursor true. *)
LEMMA KillKeeps ==
  ASSUME RegistryInv, Kill
  PROVE  RegistryInv'
<1> DEFINE m == Marked(disk.saved, FALSE)
<1>1. /\ IsLimit(lim') /\ doc' = [m EXCEPT !.fresh = TRUE] /\ disk' = [disk EXCEPT !.dirty = FALSE]
      /\ net' = [phase |-> "down", ready |-> FALSE] /\ c2s' = <<>> /\ s2c' = <<>>
      /\ http' = Spawn(IdleHttp) /\ room' = room
      /\ past' = [past EXCEPT !.lostWrite = @ \cup ({b.id : b \in Range(doc.pending)}
                                                   \ {b.id : b \in Range(disk.saved.pending)})]
  BY SpendKeeps DEF Kill, RegistryInv, RegistryType
<1>2. /\ IsDoc(m) /\ m.auth = disk.saved.auth /\ m.cursor = disk.saved.cursor
      /\ {b.id : b \in Range(m.pending)} = {b.id : b \in Range(disk.saved.pending)}
  BY MarkedKeeps DEF RegistryInv, RegistryType
<1> HIDE DEF m
<1>3. IsDoc(doc') /\ doc'.auth = m.auth /\ doc'.cursor = m.cursor /\ doc'.pending = m.pending
  BY <1>1, <1>2 DEF IsDoc
<1>4. IsHttp(http') /\ ~Pulling(http') /\ http'.phase # "ack"
  BY <1>1, IdleIs, SpawnIs DEF IdleHttp, Pulling
<1>5. DOMAIN disk' = DOMAIN disk /\ disk'.saved = disk.saved
  BY <1>1 DEF RegistryInv, RegistryType
<1>6. /\ IsPast(past') /\ past'.issued = past.issued /\ past'.order = past.order
      /\ past'.lostWrite = past.lostWrite \cup ({b.id : b \in Range(doc.pending)}
                                                \ {b.id : b \in Range(disk.saved.pending)})
      /\ past'.wiped = past.wiped /\ past'.regress = past.regress
  BY <1>1 DEF RegistryInv, RegistryType, IsPast
<1>7. RegistryType'
  BY <1>1, <1>3, <1>4, <1>5, <1>6 DEF RegistryInv, RegistryType
<1>8. SessionTrue' /\ AcksTrue'
  BY <1>1, <1>4, NoneIsSeq DEF SessionTrue, ToRoom, ToClient, AcksTrue
<1>9. NothingLost'
  <2>1. {b.id : b \in Range(doc'.pending)} = {b.id : b \in Range(disk.saved.pending)}
    BY <1>2, <1>3
  <2> QED
    BY <1>6, <2>1 DEF RegistryInv, NothingLost
<1>10. Honest'
  <2>1. SUFFICES ASSUME ~past'.wiped, ~past'.regress PROVE CursorsTrue'
    BY DEF Honest
  <2>2. RoomTrue(room) /\ DocTrue(room, disk.saved)
    BY <1>6, <2>1 DEF RegistryInv, Honest, CursorsTrue, CursorsAre
  <2>3. DocTrue(room, doc')
    BY <1>2, <1>3, <2>2 DEF DocTrue
  <2>4. Flying' = {}
    BY <1>1, NoneIsSeq DEF Flying
  <2>5. PullTrue(room, doc', http')
    BY <1>4 DEF PullTrue
  <2> QED
    BY <1>1, <1>5, <2>2, <2>3, <2>4, <2>5 DEF CursorsTrue, CursorsAre
<1> QED
  BY <1>7, <1>8, <1>9, <1>10 DEF RegistryInv

------------------------------------------------------------------------------
(* The initial state. *)
LEMMA RegistryInit == Init => RegistryInv
<1> SUFFICES ASSUME Init PROVE RegistryInv
  OBVIOUS
<1>1. /\ lim \in Limits /\ room = [rows |-> NoRows, seq |-> 0, floor |-> 0] /\ doc = NewDoc
      /\ disk = [saved |-> NewDoc, dirty |-> FALSE] /\ net = [phase |-> "down", ready |-> FALSE]
      /\ c2s = <<>> /\ s2c = <<>> /\ http = Spawn(IdleHttp) /\ past = NoPast
  BY DEF Init
<1>2. IsLimit(lim)
  BY <1>1, LimitsAssumption DEF IsLimit
<1>3. AllRows(NoRows) /\ \A r \in RowIds : NoRows[r] = AbsentRow
  BY DEF NoRows, AllRows, AbsentRow, IsRow
<1>4. IsRoom(room)
  BY <1>1, <1>3 DEF IsRoom
<1>5. IsDoc(NewDoc) /\ NewDoc.cursor = 0 /\ NewDoc.pending = <<>>
  BY <1>3, NoneIsSeq DEF NewDoc, IsDoc, Batches
<1>6. IsHttp(http) /\ ~Pulling(http) /\ http.phase # "ack"
  BY <1>1, IdleIs, SpawnIs DEF IdleHttp, Pulling
<1>7. IsPast(past) /\ past.issued = {}
  BY <1>1, NoneIsSeq DEF NoPast, IsPast
<1>8. RegistryType
  BY <1>1, <1>2, <1>4, <1>5, <1>6, <1>7 DEF RegistryType
<1>9. SessionTrue /\ AcksTrue /\ NothingLost
  BY <1>1, <1>6, <1>7, NoneIsSeq DEF SessionTrue, ToRoom, ToClient, AcksTrue, NothingLost
<1>10. CursorsTrue
  <2>1. RoomTrue(room)
    <3>1. room.rows = NoRows /\ room.seq = 0 /\ AbsentRow.seq = 0
      BY <1>1 DEF AbsentRow
    <3>2. \A r \in RowIds : room.rows[r] = AbsentRow
      BY <1>3, <3>1
    <3>3. \A r \in RowIds : room.rows[r].seq <= room.seq
      <4> SUFFICES ASSUME NEW r \in RowIds PROVE room.rows[r].seq <= room.seq
        OBVIOUS
      <4>1. room.rows[r].seq = 0
        BY <3>1, <3>2
      <4> QED
        BY <3>1, <4>1
    <3> QED
      BY <3>3 DEF RoomTrue
  <2>2. DocTrue(room, NewDoc)
    BY <1>1, <1>3, <1>5 DEF DocTrue, HeldTo, There, AbsentRow
  <2>3. Flying = {}
    BY <1>1, NoneIsSeq DEF Flying
  <2> QED
    BY <1>1, <1>6, <2>1, <2>2, <2>3 DEF CursorsTrue, CursorsAre, PullTrue
<1> QED
  BY <1>8, <1>9, <1>10 DEF RegistryInv, Honest

(* Every step keeps the invariant. *)
LEMMA RegistryStep == RegistryInv /\ [Next]_vars => RegistryInv'
<1> SUFFICES ASSUME RegistryInv, [Next]_vars PROVE RegistryInv'
  OBVIOUS
<1>1. CASE UNCHANGED vars
  <2>1. Flying' = Flying
    BY <1>1 DEF vars, Flying
  <2>2. CursorsTrue => CursorsTrue'
    BY <1>1, <2>1 DEF vars, CursorsTrue
  <2>3. RegistryType' /\ SessionTrue' /\ AcksTrue' /\ NothingLost'
    BY <1>1 DEF vars, RegistryInv, RegistryType, SessionTrue, ToRoom, ToClient, AcksTrue,
       NothingLost
  <2> QED
    BY <1>1, <2>2, <2>3 DEF vars, RegistryInv, Honest
<1>2. CASE ServeHello \/ ServePush \/ PeerWrite \/ LoseBroadcast \/ Wipe \/ Collect
  BY <1>2, ServeHelloKeeps, ServePushKeeps, PeerWriteKeeps, LoseBroadcastKeeps, WipeKeeps,
     CollectKeeps
<1>3. CASE UpsertRow \/ UpdateRow \/ ClearField \/ DeleteRows \/ SidebarWrite
  BY <1>3, WritersKeep, DeleteRowsKeeps, SidebarWriteKeeps
<1>4. CASE Dial \/ DialFail \/ SessState \/ SessJoined \/ SessNudge \/ SessRows \/ SessAck \/ Drop
  BY <1>4, DialKeeps, DialFailKeeps, SessStateKeeps, SessJoinedKeeps, SessNudgeKeeps,
     SessRowsKeeps, SessAckKeeps, DropKeeps
<1>5. CASE HttpTake \/ HttpPost \/ HttpAck \/ HttpPostFail \/ HttpPull \/ HttpServe
  BY <1>5, HttpTakeKeeps, HttpPostKeeps, HttpAckKeeps, HttpPostFailKeeps, HttpPullKeeps,
     HttpServeKeeps
<1>6. CASE HttpApply \/ HttpFail \/ Save \/ SaveFail \/ Kill
  BY <1>6, HttpApplyKeeps, HttpFailKeeps, SaveKeeps, KillKeeps
<1> QED
  BY <1>1, <1>2, <1>3, <1>4, <1>5, <1>6 DEF Next

(* The invariant gives the two properties. *)
LEMMA InvHonest == RegistryInv => CursorHonest /\ NothingLost
<1> SUFFICES ASSUME RegistryInv PROVE CursorHonest /\ NothingLost
  OBVIOUS
<1>1. \A d : DocTrue(room, d) => Applied(d)
  BY DEF DocTrue, HeldTo, There, Applied
<1>2. CursorsTrue => Applied(doc) /\ Applied(disk.saved)
  BY <1>1 DEF CursorsTrue, CursorsAre
<1> QED
  BY <1>2 DEF RegistryInv, Honest, CursorHonest

(* The cursor is never ahead of the replica, in memory or on disk: whatever
   the room holds at or below it is held, over both transports, gaps, late
   and lost frames, drops and kills.  The two exceptions are the code's: a
   room that was wiped, and an older row put over a newer one.  (cursor and
   apply_* of doc/src/registry.rs, the actor of sync/src/registry.rs.)      *)
THEOREM CursorHonestAlways == Spec => []CursorHonest
<1>1. RegistryInv => CursorHonest
  BY InvHonest
<1> QED
  BY <1>1, RegistryInit, RegistryStep, PTL DEF Spec

(* Every batch ever queued has reached the room, is still queued, or died
   unsaved with its process.  (enqueue_ops, ack_batch, take_pushable and
   mark_disconnected of doc/src/registry.rs.)                               *)
THEOREM NothingLostAlways == Spec => []NothingLost
<1>1. RegistryInv => NothingLost
  BY InvHonest
<1> QED
  BY <1>1, RegistryInit, RegistryStep, PTL DEF Spec
=============================================================================

-------------------------- MODULE HostTurns_proofs --------------------------
(***************************************************************************)
(* Proofs about HostTurns, for any set of messages, any number of tasks    *)
(* and every story of losses, timers and commands.  A message that was     *)
(* sent is in one place at a time: a row nobody took, a command, a task's  *)
(* hand, an upload, a turn, or the transcript.  A row is read, its gate is *)
(* checked and the turn is spawned in different steps, by tasks that work  *)
(* on one queue; so the invariant says of every place on the way that the  *)
(* message is there and nowhere behind it.                                 *)
(***************************************************************************)
EXTENDS HostTurns, Filters_proofs

-----------------------------------------------------------------------------
(* Sequences without repetitions.                                          *)
InSeq(s, x) == \E i \in DOMAIN s : s[i] = x
Distinct(s) == \A i, j \in DOMAIN s : s[i] = s[j] => i = j

(* Two queues, one after the other. *)
LEMMA CatIs ==
  ASSUME NEW T, NEW a \in Seq(T), NEW b \in Seq(T), NEW r, r = a \o b
  PROVE  /\ r \in Seq(T) /\ Len(r) = Len(a) + Len(b)
         /\ \A j \in 1..Len(a) : r[j] = a[j]
         /\ \A j \in 1..Len(b) : r[Len(a) + j] = b[j]
<1>1. r \in Seq(T) /\ Len(r) = Len(a) + Len(b) /\ Len(a) \in Nat /\ Len(b) \in Nat
  OBVIOUS
<1>2. \A j \in 1..(Len(a) + Len(b)) : r[j] = IF j <= Len(a) THEN a[j] ELSE b[j - Len(a)]
  OBVIOUS
<1>3. ASSUME NEW j \in 1..Len(a) PROVE r[j] = a[j]
  <2>1. j \in 1..(Len(a) + Len(b)) /\ j <= Len(a)
    BY <1>1
  <2> QED
    BY <1>2, <2>1
<1>4. ASSUME NEW j \in 1..Len(b) PROVE r[Len(a) + j] = b[j]
  <2> DEFINE k == Len(a) + j
  <2>1. k \in 1..(Len(a) + Len(b)) /\ ~(k <= Len(a)) /\ k - Len(a) = j
    BY <1>1
  <2> HIDE DEF k
  <2>2. r[k] = b[k - Len(a)]
    BY <1>2, <2>1
  <2>3. r[k] = b[j]
    BY <2>1, <2>2
  <2> QED
    BY <2>3 DEF k
<1> QED
  BY <1>1, <1>3, <1>4

(* A row is taken out of a queue: those after it move up. *)
LEMMA RemoveAtIs ==
  ASSUME NEW T, NEW s \in Seq(T), NEW i \in 1..Len(s), NEW r, r = RemoveAt(s, i)
  PROVE  /\ r \in Seq(T) /\ Len(r) = Len(s) - 1
         /\ \A j \in 1..(i - 1) : r[j] = s[j]
         /\ \A j \in i..(Len(s) - 1) : r[j] = s[j + 1]
<1> DEFINE a == SubSeq(s, 1, i - 1)
           b == SubSeq(s, i + 1, Len(s))
<1>1. a \in Seq(T) /\ Len(a) = i - 1 /\ \A j \in 1..(i - 1) : a[j] = s[j]
  OBVIOUS
<1>2. b \in Seq(T) /\ Len(b) = Len(s) - i /\ \A j \in 1..(Len(s) - i) : b[j] = s[i + j]
  OBVIOUS
<1>3. r = a \o b
  BY DEF RemoveAt
<1> HIDE DEF a, b
<1>4. /\ r \in Seq(T) /\ Len(r) = Len(a) + Len(b)
      /\ \A j \in 1..Len(a) : r[j] = a[j]
      /\ \A j \in 1..Len(b) : r[Len(a) + j] = b[j]
  <2>1. a \in Seq(T) /\ b \in Seq(T)
    BY <1>1, <1>2
  <2> QED
    BY <1>3, <2>1, CatIs
<1>5. ASSUME NEW j \in i..(Len(s) - 1) PROVE r[j] = s[j + 1]
  <2> DEFINE k == j - i + 1
  <2>1. k \in 1..(Len(s) - i) /\ (i - 1) + k = j /\ i + k = j + 1 /\ Len(s) \in Nat
    OBVIOUS
  <2> HIDE DEF k
  <2>2. r[(i - 1) + k] = b[k] /\ b[k] = s[i + k]
    BY <1>1, <1>2, <1>4, <2>1
  <2> QED
    BY <2>1, <2>2
<1>6. Len(r) = Len(s) - 1 /\ \A j \in 1..(i - 1) : r[j] = s[j]
  BY <1>1, <1>2, <1>4
<1> QED
  BY <1>4, <1>5, <1>6

(* A row is put into a queue: those from its place on move down. *)
LEMMA InsertAtIs ==
  ASSUME NEW T, NEW s \in Seq(T), NEW i \in 1..(Len(s) + 1), NEW e \in T, NEW r, r = InsertAt(s, i, e)
  PROVE  /\ r \in Seq(T) /\ Len(r) = Len(s) + 1 /\ r[i] = e
         /\ \A j \in 1..(i - 1) : r[j] = s[j]
         /\ \A j \in i..Len(s) : r[j + 1] = s[j]
<1> DEFINE a == SubSeq(s, 1, i - 1)
           b == SubSeq(s, i, Len(s))
           c == a \o <<e>>
<1>1. a \in Seq(T) /\ Len(a) = i - 1 /\ \A j \in 1..(i - 1) : a[j] = s[j]
  OBVIOUS
<1>2. b \in Seq(T) /\ Len(b) = Len(s) - i + 1 /\ \A j \in 1..(Len(s) - i + 1) : b[j] = s[i + j - 1]
  OBVIOUS
<1>3. r = c \o b /\ <<e>> \in Seq(T) /\ Len(<<e>>) = 1 /\ <<e>>[1] = e
  BY DEF InsertAt
<1> HIDE DEF a, b
<1>4. c \in Seq(T) /\ Len(c) = Len(a) + 1 /\ (\A j \in 1..Len(a) : c[j] = a[j]) /\ c[Len(a) + 1] = e
  <2> PICK o : o = <<e>>
    OBVIOUS
  <2>1. o \in Seq(T) /\ Len(o) = 1 /\ 1 \in 1..1 /\ o[1] = e /\ c = a \o o
    BY <1>3
  <2>2. a \in Seq(T)
    BY <1>1
  <2> HIDE DEF c
  <2>3. /\ c \in Seq(T) /\ Len(c) = Len(a) + Len(o)
        /\ \A j \in 1..Len(a) : c[j] = a[j]
        /\ \A j \in 1..Len(o) : c[Len(a) + j] = o[j]
    <3>1. o \in Seq(T)
      BY <2>1
    <3>2. c = a \o o
      BY <2>1
    <3> QED
      BY <2>2, <3>1, <3>2, CatIs
  <2> QED
    BY <2>1, <2>3
<1> HIDE DEF c
<1>5. /\ r \in Seq(T) /\ Len(r) = Len(c) + Len(b)
      /\ \A j \in 1..Len(c) : r[j] = c[j]
      /\ \A j \in 1..Len(b) : r[Len(c) + j] = b[j]
  <2>1. c \in Seq(T) /\ b \in Seq(T)
    BY <1>2, <1>4
  <2> QED
    BY <1>3, <2>1, CatIs
<1>6. Len(c) = i /\ c[i] = e /\ (\A j \in 1..(i - 1) : c[j] = s[j]) /\ Len(r) = Len(s) + 1
  BY <1>1, <1>2, <1>4, <1>5
<1>7. ASSUME NEW j \in i..Len(s) PROVE r[j + 1] = s[j]
  <2> DEFINE k == j - i + 1
  <2>1. k \in 1..(Len(s) - i + 1) /\ i + k = j + 1 /\ i + k - 1 = j /\ Len(s) \in Nat
    OBVIOUS
  <2> HIDE DEF k
  <2>2. r[i + k] = b[k] /\ b[k] = s[i + k - 1]
    BY <1>2, <1>5, <1>6, <2>1
  <2> QED
    BY <2>1, <2>2
<1>8. r[i] = e /\ \A j \in 1..(i - 1) : r[j] = s[j]
  BY <1>5, <1>6
<1> QED
  BY <1>5, <1>6, <1>7, <1>8

(* Both keep the rows distinct, and which rows there are. *)
LEMMA RemoveAtRows ==
  ASSUME NEW T, NEW s \in Seq(T), Distinct(s), NEW i \in 1..Len(s), NEW r, r = RemoveAt(s, i)
  PROVE  /\ r \in Seq(T) /\ Len(r) = Len(s) - 1 /\ Distinct(r)
         /\ \A x : InSeq(r, x) <=> InSeq(s, x) /\ x # s[i]
<1>1. /\ r \in Seq(T) /\ Len(r) = Len(s) - 1
      /\ \A j \in 1..(i - 1) : r[j] = s[j]
      /\ \A j \in i..(Len(s) - 1) : r[j] = s[j + 1]
  BY RemoveAtIs, SMTT(30)
<1>2. DOMAIN r = 1..(Len(s) - 1) /\ DOMAIN s = 1..Len(s) /\ Len(s) \in Nat
  BY <1>1
<1>3. \A j \in 1..(Len(s) - 1) : \/ j < i /\ j \in DOMAIN s /\ r[j] = s[j]
                                 \/ j >= i /\ j + 1 \in DOMAIN s /\ r[j] = s[j + 1]
  BY <1>1, <1>2
<1>4. Distinct(r)
  <2> SUFFICES ASSUME NEW j \in 1..(Len(s) - 1), NEW k \in 1..(Len(s) - 1), r[j] = r[k] PROVE j = k
    BY <1>2 DEF Distinct
  <2>1. CASE j < i /\ k < i
    BY <1>3, <2>1 DEF Distinct
  <2>2. CASE j >= i /\ k >= i
    <3>1. j + 1 \in DOMAIN s /\ k + 1 \in DOMAIN s /\ s[j + 1] = s[k + 1]
      BY <1>3, <2>2
    <3>2. j + 1 = k + 1
      BY <3>1 DEF Distinct
    <3> QED
      BY <3>2
  <2>3. CASE j < i /\ k >= i
    <3>1. j \in DOMAIN s /\ k + 1 \in DOMAIN s /\ s[j] = s[k + 1]
      BY <1>3, <2>3
    <3>2. j = k + 1
      BY <3>1 DEF Distinct
    <3> QED
      BY <2>3, <3>2
  <2>4. CASE j >= i /\ k < i
    <3>1. j + 1 \in DOMAIN s /\ k \in DOMAIN s /\ s[j + 1] = s[k]
      BY <1>3, <2>4
    <3>2. j + 1 = k
      BY <3>1 DEF Distinct
    <3> QED
      BY <2>4, <3>2
  <2> QED
    BY <2>1, <2>2, <2>3, <2>4
<1>5. ASSUME NEW x, InSeq(r, x) PROVE InSeq(s, x) /\ x # s[i]
  <2>1. PICK j \in 1..(Len(s) - 1) : r[j] = x
    BY <1>2, <1>5 DEF InSeq
  <2>2. PICK k \in DOMAIN s : k # i /\ s[k] = x
    BY <1>3, <2>1
  <2> QED
    BY <1>2, <2>2 DEF InSeq, Distinct
<1>6. ASSUME NEW x, InSeq(s, x), x # s[i] PROVE InSeq(r, x)
  <2>1. PICK j \in 1..Len(s) : s[j] = x
    BY <1>2, <1>6 DEF InSeq
  <2>2. CASE j < i
    BY <1>1, <1>2, <2>1, <2>2 DEF InSeq
  <2>3. CASE j > i
    <3>1. j - 1 \in i..(Len(s) - 1) /\ (j - 1) + 1 = j
      BY <2>3
    <3>2. r[j - 1] = x /\ j - 1 \in DOMAIN r
      BY <1>1, <1>2, <2>1, <3>1
    <3> QED
      BY <3>2 DEF InSeq
  <2> QED
    BY <1>6, <2>1, <2>2, <2>3
<1> QED
  BY <1>1, <1>4, <1>5, <1>6

(* What inserting a new element keeps of a sequence without repetitions. *)
LEMMA InsertAtRows ==
  ASSUME NEW T, NEW s \in Seq(T), Distinct(s), NEW i \in 1..(Len(s) + 1), NEW e \in T, ~InSeq(s, e),
         NEW r, r = InsertAt(s, i, e)
  PROVE  /\ r \in Seq(T) /\ Distinct(r) /\ \A x : InSeq(r, x) <=> InSeq(s, x) \/ x = e
<1>1. /\ r \in Seq(T) /\ Len(r) = Len(s) + 1 /\ r[i] = e
      /\ \A j \in 1..(i - 1) : r[j] = s[j]
      /\ \A j \in i..Len(s) : r[j + 1] = s[j]
  BY InsertAtIs
<1>2. DOMAIN r = 1..(Len(s) + 1) /\ DOMAIN s = 1..Len(s) /\ Len(s) \in Nat
  BY <1>1
<1>3. ASSUME NEW j \in 1..(Len(s) + 1), j # i
      PROVE  \/ j < i /\ j \in DOMAIN s /\ r[j] = s[j]
             \/ j > i /\ j - 1 \in DOMAIN s /\ r[j] = s[j - 1]
  <2>1. CASE j < i
    BY <1>1, <1>2, <2>1
  <2>2. CASE j > i
    <3>1. j - 1 \in i..Len(s) /\ (j - 1) + 1 = j
      BY <2>2
    <3>2. r[(j - 1) + 1] = s[j - 1]
      BY <1>1, <3>1
    <3> QED
      BY <1>2, <2>2, <3>1, <3>2
  <2> QED
    BY <1>3, <2>1, <2>2
<1>4. ASSUME NEW j \in 1..(Len(s) + 1), j # i PROVE r[j] # e
  BY <1>3, <1>4 DEF InSeq
<1>5. ASSUME NEW j \in 1..(Len(s) + 1), NEW k \in 1..(Len(s) + 1), r[j] = r[k] PROVE j = k
  <2>1. CASE j = i \/ k = i
    BY <1>1, <1>4, <1>5, <2>1
  <2>2. CASE j # i /\ k # i
    <3>1. CASE j < i /\ k < i
      BY <1>3, <1>5, <2>2, <3>1 DEF Distinct
    <3>2. CASE j > i /\ k > i
      <4>1. j - 1 \in DOMAIN s /\ k - 1 \in DOMAIN s /\ s[j - 1] = s[k - 1]
        BY <1>3, <1>5, <3>2
      <4>2. j - 1 = k - 1
        BY <4>1 DEF Distinct
      <4> QED
        BY <4>2
    <3>3. CASE j < i /\ k > i
      <4>1. j \in DOMAIN s /\ k - 1 \in DOMAIN s /\ s[j] = s[k - 1]
        BY <1>3, <1>5, <3>3
      <4>2. j = k - 1
        BY <4>1 DEF Distinct
      <4> QED
        BY <3>3, <4>2
    <3>4. CASE j > i /\ k < i
      <4>1. j - 1 \in DOMAIN s /\ k \in DOMAIN s /\ s[j - 1] = s[k]
        BY <1>3, <1>5, <3>4
      <4>2. j - 1 = k
        BY <4>1 DEF Distinct
      <4> QED
        BY <3>4, <4>2
    <3> QED
      BY <2>2, <3>1, <3>2, <3>3, <3>4
  <2> QED
    BY <2>1, <2>2
<1>6. Distinct(r)
  BY <1>2, <1>5 DEF Distinct
<1>7. ASSUME NEW x, InSeq(r, x) PROVE InSeq(s, x) \/ x = e
  <2>1. PICK j \in 1..(Len(s) + 1) : r[j] = x
    BY <1>2, <1>7 DEF InSeq
  <2> QED
    BY <1>1, <1>3, <2>1 DEF InSeq
<1>8. ASSUME NEW x, InSeq(s, x) PROVE InSeq(r, x)
  <2>1. PICK j \in 1..Len(s) : s[j] = x
    BY <1>2, <1>8 DEF InSeq
  <2>2. CASE j < i
    BY <1>1, <1>2, <2>1, <2>2 DEF InSeq
  <2>3. CASE j >= i
    BY <1>1, <1>2, <2>1, <2>3 DEF InSeq
  <2> QED
    BY <2>1, <2>2, <2>3
<1>9. InSeq(r, e)
  BY <1>1, <1>2 DEF InSeq
<1> QED
  BY <1>1, <1>6, <1>7, <1>8, <1>9

(* The end and the head of a queue. *)
LEMMA AppendRows ==
  ASSUME NEW T, NEW s \in Seq(T), NEW e \in T, NEW r, r = Append(s, e)
  PROVE  /\ r \in Seq(T) /\ DOMAIN r = DOMAIN s \cup {Len(s) + 1} /\ Len(s) + 1 \notin DOMAIN s
         /\ r[Len(s) + 1] = e /\ \A i \in DOMAIN s : r[i] = s[i]
         /\ \A x : InSeq(r, x) <=> InSeq(s, x) \/ x = e
         /\ Distinct(s) /\ ~InSeq(s, e) => Distinct(r)
<1>1. /\ r \in Seq(T) /\ DOMAIN r = DOMAIN s \cup {Len(s) + 1} /\ Len(s) + 1 \notin DOMAIN s
      /\ r[Len(s) + 1] = e /\ \A i \in DOMAIN s : r[i] = s[i]
  OBVIOUS
<1> QED
  BY <1>1 DEF InSeq, Distinct

(* What appending a message adds to a queue. *)
Rows(s)        == s \in Seq(Messages)
Added(s, e, r) == e \in Messages /\ r = Append(s, e)

LEMMA AppendAdds ==
  ASSUME NEW s, NEW e, NEW r, Rows(s), Added(s, e, r)
  PROVE  /\ Rows(r) /\ \A x : InSeq(r, x) <=> InSeq(s, x) \/ x = e
         /\ Distinct(s) /\ ~InSeq(s, e) => Distinct(r)
<1>1. /\ Rows(r) /\ DOMAIN r = DOMAIN s \cup {Len(s) + 1} /\ Len(s) + 1 \notin DOMAIN s
      /\ r[Len(s) + 1] = e /\ \A i \in DOMAIN s : r[i] = s[i]
  BY DEF Rows, Added
<1> QED
  BY <1>1 DEF InSeq, Distinct

(* What taking the head leaves of a sequence without repetitions. *)
LEMMA TailRows ==
  ASSUME NEW T, NEW s \in Seq(T), s # <<>>, Distinct(s), NEW r, r = Tail(s)
  PROVE  /\ r \in Seq(T) /\ Distinct(r) /\ Head(s) \in T /\ InSeq(s, Head(s))
         /\ \A x : InSeq(r, x) <=> InSeq(s, x) /\ x # Head(s)
<1>1. /\ r \in Seq(T) /\ Len(r) = Len(s) - 1 /\ Len(s) \in Nat \ {0} /\ Head(s) = s[1] /\ s[1] \in T
      /\ \A j \in 1..(Len(s) - 1) : r[j] = s[j + 1]
  OBVIOUS
<1>2. DOMAIN r = 1..(Len(s) - 1) /\ DOMAIN s = 1..Len(s)
  BY <1>1
<1>3. ASSUME NEW j \in 1..(Len(s) - 1), NEW k \in 1..(Len(s) - 1), r[j] = r[k] PROVE j = k
  BY <1>1, <1>2, <1>3 DEF Distinct
<1>4. Distinct(r)
  BY <1>2, <1>3 DEF Distinct
<1>5. ASSUME NEW x, InSeq(r, x) PROVE InSeq(s, x) /\ x # s[1]
  <2>1. PICK j \in 1..(Len(s) - 1) : r[j] = x
    BY <1>2, <1>5 DEF InSeq
  <2>2. j + 1 \in 1..Len(s) /\ j + 1 # 1 /\ 1 \in 1..Len(s) /\ s[j + 1] = x
    BY <1>1, <2>1
  <2> QED
    BY <1>2, <2>2 DEF InSeq, Distinct
<1>6. ASSUME NEW x, InSeq(s, x), x # s[1] PROVE InSeq(r, x)
  <2>1. PICK j \in 1..Len(s) : s[j] = x
    BY <1>2, <1>6 DEF InSeq
  <2>2. j - 1 \in 1..(Len(s) - 1) /\ (j - 1) + 1 = j
    BY <1>6, <2>1
  <2>3. r[j - 1] = x
    BY <1>1, <2>1, <2>2
  <2> QED
    BY <1>2, <2>2, <2>3 DEF InSeq
<1>7. InSeq(s, s[1])
  BY <1>1, <1>2 DEF InSeq
<1> QED
  BY <1>1, <1>4, <1>5, <1>6, <1>7

------------------------------------------------------------------------------
(* The invariant.  A message is in one place: a row of the queue that nothing
   has taken yet, or taken, by a command, a task, a turn, an upload or the
   transcript; removed, it is in neither.                                   *)
UserKinds == {"run", "steer"}
IsCommand(c) ==
  /\ DOMAIN c = {"kind", "msg", "status"}
  /\ \/ c.kind \in UserKinds /\ c.msg \in Messages
     \/ c.kind \in {"interrupt", "respond"} /\ c.msg = NoMsg
EditSteps == {"grant", "lease", "commit", "discard", "committing", "discarding"}
IsTask(k) ==
  /\ DOMAIN k = {"pc", "msg", "lease", "todo"} /\ IsSeq(k.todo)
  /\ k.pc \in {"commands", "dispatch"} => \A x : InSeq(k.todo, x) => x \in DOMAIN commands
  /\ k.pc = "dispatch" => k.todo # <<>>
  /\ k.pc \in {"spawn"} \cup EditSteps => k.msg \in Messages
IsTurn(u) ==
  /\ DOMAIN u = {"msg", "phase", "cancelled"}
  /\ u.msg \in Messages \cup {NoMsg} /\ u.cancelled \in BOOLEAN
  /\ u.phase \in {"adopt", "spawn"} => u.msg \in Messages

TurnsType ==
  /\ story \in TurnStories
  /\ queue \in Seq(Messages) /\ Distinct(queue)
  /\ IsSeq(commands) /\ \A i \in DOMAIN commands : IsCommand(commands[i])
  /\ DOMAIN task = Tasks /\ \A t \in Tasks : IsTask(task[t])
  /\ nextTurn \in Nat /\ \A i \in DOMAIN turns : i \in Nat /\ i < nextTurn /\ IsTurn(turns[i])
  /\ DOMAIN entries = Messages /\ \A m \in Messages : entries[m] \in {0, 1}
  /\ DOMAIN rowGate = Messages
  /\ (\A r \in rpcs : r.msg \in Messages) /\ \A h \in editors : h[1] \in Messages
  /\ sent \subseteq Messages /\ removed \subseteq sent

InSpawn(m)    == \E t \in Tasks : task[t].pc = "spawn" /\ task[t].msg = m
InDispatch(m) == \E t \in Tasks : task[t].pc = "dispatch" /\ commands[Head(task[t].todo)].msg = m
InTurns(m)    == \E i \in DOMAIN turns : /\ turns[i].msg = m
                                         /\ \/ turns[i].phase \in {"adopt", "spawn"}
                                            \/ turns[i].phase = "wait" /\ ~turns[i].cancelled
Commanded(m)  == \E i \in DOMAIN commands : commands[i].msg = m
Turned(m)     == \E i \in DOMAIN turns : turns[i].msg = m

Taken(m) == Commanded(m) \/ InSpawn(m) \/ Turned(m) \/ m \in escorts \/ entries[m] > 0

Alone == \A m \in Messages :
  /\ m \in removed \/ m \notin sent => ~Taken(m) /\ ~InQueue(m)
  /\ InQueue(m) => ~Taken(m)

Held(m) == \/ Landed(m) \/ InQueue(m) \/ Pending(m) \/ InSpawn(m) \/ InDispatch(m) \/ InTurns(m)
           \/ m \in escorts \/ m \in removed \cup overrun

TurnsInv == TurnsType /\ Alone /\ \A m \in sent : Held(m)

(* What a step must show: rows come from what was not sent, what is taken from
   the queue or from what was not sent.                                     *)
LEMMA AloneKeeps ==
  ASSUME TurnsType, Alone, removed' \subseteq sent', sent \subseteq sent',
         NEW n, sent' \subseteq sent \cup {n},
         \A m \in Messages :
           /\ InQueue(m)' => InQueue(m) \/ (m = n /\ n \in sent' \ sent)
           /\ Taken(m)' => \/ Taken(m) \/ (InQueue(m) /\ ~InQueue(m)')
                           \/ (m = n /\ n \in sent' \ sent /\ ~InQueue(m)')
           /\ m \in removed' => m \in removed \/ (InQueue(m) /\ ~InQueue(m)' /\ ~Taken(m)')
  PROVE  Alone'
<1> SUFFICES ASSUME NEW m \in Messages
             PROVE  /\ m \in removed' \/ m \notin sent' => ~Taken(m)' /\ ~InQueue(m)'
                    /\ InQueue(m)' => ~Taken(m)'
  BY DEF Alone
<1>1. /\ m \in removed \/ m \notin sent => ~Taken(m) /\ ~InQueue(m)
      /\ InQueue(m) => ~Taken(m)
  BY DEF Alone
<1>2. removed \subseteq sent
  BY DEF TurnsType
<1> QED
  BY <1>1, <1>2

(* A message has a row iff the queue holds it. *)
LEMMA InQueueIs == \A m : InQueue(m) <=> InSeq(queue, m)
BY DEF InQueue, ToSet, InSeq

(* Steps of the user and of the path that touch no message. *)
LEMMA QuietKeeps ==
  ASSUME TurnsInv,
         UNCHANGED <<story, queue, commands, task, escorts, turns, nextTurn, entries, sent, removed,
                     overrun>>,
         DOMAIN rowGate' = Messages, \A r \in rpcs' : r.msg \in Messages,
         \A h \in editors' : h[1] \in Messages
  PROVE  TurnsInv'
<1>1. TurnsType'
  BY DEF TurnsInv, TurnsType, IsTask, EditSteps
<1>2. \A m \in Messages : (InQueue(m)' <=> InQueue(m)) /\ (Taken(m)' <=> Taken(m))
  BY DEF InQueue, Taken, Commanded, InSpawn, Turned
<1>3. Alone'
  BY <1>2 DEF TurnsInv, Alone
<1>4. \A m \in Messages : Held(m)' <=> Held(m)
  BY <1>2 DEF Held, Landed, Pending, Ours, InSpawn, InDispatch, InTurns
<1>5. \A m \in sent' : Held(m)'
  BY <1>4 DEF TurnsInv, TurnsType
<1> QED
  BY <1>1, <1>3, <1>5 DEF TurnsInv

(* A queue call names a message. *)
LEMMA AskIs ==
  ASSUME TurnsType, NEW op, NEW m \in Messages, NEW l, Ask(op, m, l)
  PROVE  \A r \in rpcs' : r.msg \in Messages
BY DEF Ask, TurnsType

(* Expiry changes a command's status only. *)
LEMMA ExpireKeeps ==
  ASSUME TurnsInv, UNCHANGED story, NEW i, Expire(i) PROVE TurnsInv'
BY QuietKeeps DEF Expire, rows, host, shown, past, TurnsInv, TurnsType

(* Asking for a queue action moves nothing yet. *)
LEMMA QueueActionKeeps ==
  ASSUME TurnsInv, UNCHANGED story, NEW op, NEW m \in Messages, QueueAction(op, m) PROVE TurnsInv'
<1>1. \A r \in rpcs' : r.msg \in Messages
  BY AskIs DEF QueueAction, TurnsInv
<1> QED
  BY <1>1, QuietKeeps DEF QueueAction, chat, host, shown, past, TurnsInv, TurnsType

(* Asking for an edit lease moves nothing yet. *)
LEMMA BeginEditKeeps ==
  ASSUME TurnsInv, UNCHANGED story, NEW m \in Messages, BeginEdit(m) PROVE TurnsInv'
<1>1. \A r \in rpcs' : r.msg \in Messages
  BY AskIs DEF BeginEdit, TurnsInv
<1> QED
  BY <1>1, QuietKeeps DEF BeginEdit, chat, host, shown, past, TurnsInv, TurnsType

(* Asking to end an edit moves nothing yet. *)
LEMMA FinishEditKeeps ==
  ASSUME TurnsInv, UNCHANGED story, NEW h \in editors, NEW op, FinishEdit(h[1], h[2], op)
  PROVE  TurnsInv'
<1> PICK m, l : m = h[1] /\ l = h[2]
  OBVIOUS
<1>1. m \in Messages /\ Ask(op, m, l) /\ editors' \subseteq editors
      /\ UNCHANGED <<chat, queue, rowGate, leases, nextLease, pendingRows, host, shown, past>>
  BY DEF FinishEdit, TurnsInv, TurnsType
<1>2. \A r \in rpcs' : r.msg \in Messages
  BY <1>1, AskIs DEF TurnsInv
<1> QED
  BY <1>1, <1>2, QuietKeeps DEF chat, host, shown, past, TurnsInv, TurnsType

(* Losing and regaining the path moves no message. *)
LEMMA PathKeeps ==
  ASSUME TurnsInv, UNCHANGED story, LosePath \/ ShowDown \/ RegainPath PROVE TurnsInv'
BY QuietKeeps DEF LosePath, ShowDown, RegainPath, rows, host, shown, past, TurnsInv, TurnsType

(* A drain that dispatches has a command to dispatch. *)
LEMMA DispatchHead ==
  ASSUME TurnsType, NEW t \in Tasks, task[t].pc = "dispatch"
  PROVE  Head(task[t].todo) \in DOMAIN commands
<1>1. PICK todo : todo = task[t].todo
  OBVIOUS
<1>2. IsSeq(todo) /\ todo # <<>> /\ \A x : InSeq(todo, x) => x \in DOMAIN commands
  BY <1>1 DEF TurnsType, IsTask, EditSteps
<1>3. PICK T : todo \in Seq(T)
  BY <1>2 DEF IsSeq
<1>4. 1 \in DOMAIN todo /\ Head(todo) = todo[1]
  BY <1>2, <1>3
<1> QED
  BY <1>1, <1>2, <1>4 DEF InSeq

(* A command is added to the ledger. *)
LEMMA IssueKeeps ==
  ASSUME TurnsInv, NEW kind, NEW m, Issue(kind, m),
         \/ kind \in UserKinds /\ m \in Messages /\ (Taken(m) \/ m \notin sent) /\ sent' = sent \cup {m}
         \/ kind \in {"interrupt", "respond"} /\ m = NoMsg /\ sent' = sent,
         UNCHANGED <<story, queue, task, escorts, turns, nextTurn, entries, removed, overrun, rowGate,
                     rpcs, editors>>
  PROVE  TurnsInv'
<1> DEFINE c == [kind |-> kind, msg |-> m, status |-> "pending"]
<1>1. commands' = Append(commands, c)
  BY DEF Issue
<1>2. IsCommand(c) /\ c.msg = m /\ c.status = "pending"
  BY DEF IsCommand
<1> HIDE DEF c
<1>3. PICK n \in Nat : n = Len(commands) + 1
  BY DEF TurnsInv, TurnsType, IsSeq
<1>4. /\ IsSeq(commands') /\ DOMAIN commands' = DOMAIN commands \cup {n} /\ n \notin DOMAIN commands
      /\ commands'[n] = c /\ \A i \in DOMAIN commands : commands'[i] = commands[i]
  <2>1. PICK T : commands \in Seq(T)
    BY DEF TurnsInv, TurnsType, IsSeq
  <2>2. commands \in Seq(T \cup {c}) /\ c \in T \cup {c}
    BY <2>1
  <2>3. /\ commands' \in Seq(T \cup {c}) /\ DOMAIN commands' = DOMAIN commands \cup {Len(commands) + 1}
        /\ Len(commands) + 1 \notin DOMAIN commands
        /\ commands'[Len(commands) + 1] = c /\ \A i \in DOMAIN commands : commands'[i] = commands[i]
    BY <1>1, <2>2, AppendRows
  <2> QED
    BY <1>3, <2>3 DEF IsSeq
<1>5. sent \subseteq sent' /\ sent' \subseteq sent \cup {m} /\ sent' \subseteq Messages
  BY DEF TurnsInv, TurnsType
<1>6. \A t \in Tasks : IsTask(task[t])'
  <2> SUFFICES ASSUME NEW t \in Tasks PROVE IsTask(task[t])'
    OBVIOUS
  <2>1. IsTask(task[t]) /\ task'[t] = task[t]
    BY DEF TurnsInv, TurnsType
  <2> QED
    BY <1>4, <2>1 DEF IsTask, EditSteps
<1>7. TurnsType'
  BY <1>2, <1>4, <1>5, <1>6 DEF TurnsInv, TurnsType
<1>8. \A x : Commanded(x)' <=> Commanded(x) \/ x = m
  BY <1>2, <1>4 DEF Commanded
<1>9. \A x \in Messages : /\ InQueue(x)' <=> InQueue(x)
                          /\ Taken(x)' <=> Taken(x) \/ x = m
  BY <1>8 DEF InQueue, Taken, InSpawn, Turned
<1>10. m \in Messages => m \in sent' /\ (Taken(m) \/ m \notin sent)
  BY TurnsAssumption
<1>11. \A x \in Messages : Taken(x) => ~InQueue(x) /\ x \in sent /\ x \notin removed
  BY DEF TurnsInv, Alone
<1>12. \A x \in Messages : InQueue(x) => x \in sent
  BY DEF TurnsInv, Alone
<1>13. Alone'
  <2>1. \A x \in Messages :
           /\ InQueue(x)' => InQueue(x)
           /\ Taken(x)' => Taken(x) \/ (x = m /\ m \in sent' \ sent /\ ~InQueue(x)')
           /\ x \in removed' => x \in removed
    BY <1>9, <1>10, <1>12
  <2> QED
    BY <1>5, <2>1, AloneKeeps DEF TurnsInv, TurnsType
<1>14. \A x \in Messages : Held(x) => Held(x)'
  <2> SUFFICES ASSUME NEW x \in Messages, Held(x) PROVE Held(x)'
    OBVIOUS
  <2>1. InDispatch(x) => InDispatch(x)'
    <3> SUFFICES ASSUME NEW t \in Tasks, task[t].pc = "dispatch", commands[Head(task[t].todo)].msg = x
                 PROVE  InDispatch(x)'
      BY DEF InDispatch
    <3>1. Head(task[t].todo) \in DOMAIN commands
      BY DispatchHead DEF TurnsInv
    <3> QED
      BY <1>4, <3>1 DEF InDispatch
  <2>2. Pending(x) => Pending(x)'
    BY <1>4 DEF Pending, Ours
  <2> QED
    BY <1>9, <2>1, <2>2 DEF Held, Landed, InSpawn, InTurns
<1>15. m \in Messages => Held(m)'
  BY <1>2, <1>4 DEF Held, Pending, Ours
<1>16. \A x \in sent' : Held(x)'
  BY <1>5, <1>14, <1>15 DEF TurnsInv, TurnsType
<1> QED
  BY <1>7, <1>13, <1>16 DEF TurnsInv

(* A row is added to the queue: one that was not sent before. *)
LEMMA RowAddedKeeps ==
  ASSUME TurnsInv, NEW m \in Messages \ sent, sent' = sent \cup {m}, queue' = Append(queue, m),
         UNCHANGED <<story, commands, task, escorts, turns, nextTurn, entries, removed, overrun, rowGate,
                     rpcs, editors>>
  PROVE  TurnsInv'
<1>1. ~InQueue(m) /\ ~Taken(m)
  BY DEF TurnsInv, Alone
<1>2. queue' \in Seq(Messages) /\ Distinct(queue') /\ \A x : InQueue(x)' <=> InQueue(x) \/ x = m
  <2>1. queue \in Seq(Messages) /\ Distinct(queue) /\ m \in Messages /\ ~InSeq(queue, m)
    BY <1>1, InQueueIs DEF TurnsInv, TurnsType
  <2> PICK q, r : q = queue /\ r = queue'
    OBVIOUS
  <2>3. Rows(q) /\ Added(q, m, r)
    BY <2>1 DEF Rows, Added
  <2>4. Rows(r) /\ (\A x : InSeq(r, x) <=> InSeq(q, x) \/ x = m)
        /\ (Distinct(q) /\ ~InSeq(q, m) => Distinct(r))
    BY <2>3, AppendAdds
  <2>2. queue' \in Seq(Messages) /\ Distinct(queue') /\ \A x : InSeq(queue', x) <=> InSeq(queue, x) \/ x = m
    BY <2>1, <2>4 DEF Rows
  <2> QED
    BY <2>2, InQueueIs DEF InQueue, ToSet, InSeq
<1>3. TurnsType'
  BY <1>2 DEF TurnsInv, TurnsType, IsTask, EditSteps
<1>4. \A x \in Messages : Taken(x)' <=> Taken(x)
  BY DEF Taken, Commanded, InSpawn, Turned
<1>5. Alone'
  <2>1. removed' \subseteq sent' /\ sent \subseteq sent' /\ m \in sent' \ sent /\ TurnsType /\ Alone
    BY DEF TurnsInv, TurnsType
  <2>2. \A x \in Messages :
           /\ InQueue(x)' => InQueue(x) \/ (x = m /\ m \in sent' \ sent)
           /\ Taken(x)' => Taken(x)
           /\ x \in removed' => x \in removed
    BY <1>2, <1>4, <2>1
  <2> QED
    BY <2>1, <2>2, AloneKeeps
<1>6. \A x \in Messages : Held(x) => Held(x)'
  BY <1>2 DEF Held, Landed, Pending, Ours, InSpawn, InDispatch, InTurns
<1>7. Held(m)'
  BY <1>2 DEF Held
<1>8. \A x \in sent' : Held(x)'
  BY <1>6, <1>7 DEF TurnsInv, TurnsType
<1> QED
  BY <1>3, <1>5, <1>8 DEF TurnsInv

(* Send: a new message becomes a command or a row. *)
LEMMA SendKeeps ==
  ASSUME TurnsInv, UNCHANGED story, NEW m \in Messages, Send(m) PROVE TurnsInv'
<1>1. /\ m \notin sent /\ sent' = sent \cup {m}
      /\ UNCHANGED <<task, escorts, turns, nextTurn, entries, removed, overrun, rowGate, rpcs, editors>>
  BY DEF Send, shown
<1>2. CASE Issue("run", m) /\ UNCHANGED queue
  BY <1>1, <1>2, IssueKeeps DEF UserKinds
<1>3. CASE Issue("steer", m) /\ UNCHANGED queue
  BY <1>1, <1>3, IssueKeeps DEF UserKinds
<1>4. CASE queue' = Append(queue, m) /\ UNCHANGED commands
  BY <1>1, <1>4, RowAddedKeeps
<1> QED
  BY <1>2, <1>3, <1>4 DEF Send

(* Enqueue: a new message becomes a row. *)
LEMMA EnqueueKeeps ==
  ASSUME TurnsInv, UNCHANGED story, NEW m \in Messages, Enqueue(m) PROVE TurnsInv'
BY RowAddedKeeps DEF Enqueue, chat, shown

(* Commands without a message move none. *)
LEMMA CommandKeeps ==
  ASSUME TurnsInv, UNCHANGED story, Interrupt \/ Respond PROVE TurnsInv'
<1>1. /\ Issue("interrupt", NoMsg) \/ Issue("respond", NoMsg)
      /\ UNCHANGED <<queue, task, escorts, turns, nextTurn, entries, sent, removed, overrun, rowGate,
                     rpcs, editors>>
  BY DEF Interrupt, Respond, rows, shown, past
<1> QED
  BY <1>1, IssueKeeps

(* Retry: a failed command's message is asked for again. *)
LEMMA RetryKeeps ==
  ASSUME TurnsInv, UNCHANGED story, NEW m \in Messages, Retry(m) PROVE TurnsInv'
<1>1. PICK i \in DOMAIN commands : commands[i].msg = m /\ Issue(commands[i].kind, m)
  BY DEF Retry, Ours
<1>2. UNCHANGED <<queue, task, escorts, turns, nextTurn, entries, sent, removed, overrun, rowGate,
                  rpcs, editors>>
  BY DEF Retry, rows, shown, past
<1>3. Taken(m) /\ m \in sent
  BY <1>1 DEF Taken, Commanded, TurnsInv, Alone
<1>4. commands[i].kind \in UserKinds
  BY <1>1, TurnsAssumption DEF TurnsInv, TurnsType, IsCommand
<1>5. sent' = sent \cup {m}
  BY <1>2, <1>3
<1> QED
  BY <1>1, <1>2, <1>3, <1>4, <1>5, IssueKeeps

(* A row is taken out of the queue, wherever it stands. *)
LEMMA WithoutIs ==
  ASSUME TurnsType, NEW m, NEW r, r = Without(m)
  PROVE  /\ r \in Seq(Messages) /\ Distinct(r)
         /\ \A x : InSeq(r, x) <=> InQueue(x) /\ x # m
         /\ InQueue(m) => Len(r) = Len(queue) - 1
<1>1. queue \in Seq(Messages) /\ Distinct(queue)
  BY DEF TurnsType
<1>2. CASE InQueue(m)
  <2> PICK i : i = PlaceOf(m)
    OBVIOUS
  <2>1. i \in DOMAIN queue /\ queue[i] = m
    BY <1>2, InQueueIs DEF PlaceOf, InSeq
  <2>2. i \in 1..Len(queue) /\ r = RemoveAt(queue, i)
    BY <1>1, <1>2, <2>1 DEF Without
  <2>3. /\ r \in Seq(Messages) /\ Len(r) = Len(queue) - 1 /\ Distinct(r)
        /\ \A x : InSeq(r, x) <=> InSeq(queue, x) /\ x # queue[i]
    BY <1>1, <2>2, RemoveAtRows
  <2> QED
    BY <2>1, <2>3, InQueueIs
<1>3. CASE ~InQueue(m)
  BY <1>1, <1>3, InQueueIs DEF Without
<1> QED
  BY <1>2, <1>3

(* InQueueIs for the next state. *)
LEMMA QueueIs == \A m : InQueue(m)' <=> InSeq(queue', m)
BY DEF InQueue, ToSet, InSeq

(* Moving a row keeps the rows there are. *)
LEMMA MoveKeeps ==
  ASSUME TurnsInv, UNCHANGED story, NEW m \in Messages, Move(m) PROVE TurnsInv'
<1>1. /\ InQueue(m)
      /\ UNCHANGED <<commands, task, escorts, turns, nextTurn, entries, sent, removed, overrun, rowGate,
                     rpcs, editors>>
  BY DEF Move, chat, shown, past
<1> PICK r : r = Without(m)
  OBVIOUS
<1>2. PICK k \in 1..Len(queue) : queue' = InsertAt(r, k, m)
  BY DEF Move
<1>3. /\ r \in Seq(Messages) /\ Distinct(r) /\ \A x : InSeq(r, x) <=> InQueue(x) /\ x # m
      /\ Len(r) = Len(queue) - 1
  BY <1>1, <1>2, WithoutIs DEF TurnsInv
<1>4. k \in 1..(Len(r) + 1) /\ ~InSeq(r, m)
  BY <1>3 DEF TurnsInv, TurnsType
<1>5. queue' \in Seq(Messages) /\ Distinct(queue') /\ \A x : InSeq(queue', x) <=> InSeq(r, x) \/ x = m
  BY <1>2, <1>3, <1>4, InsertAtRows
<1>6. \A x : InQueue(x)' <=> InQueue(x)
  BY <1>1, <1>3, <1>5, QueueIs
<1>7. TurnsType'
  BY <1>1, <1>5 DEF TurnsInv, TurnsType, IsTask, EditSteps
<1>8. \A x \in Messages : (InQueue(x)' <=> InQueue(x)) /\ (Taken(x)' <=> Taken(x))
  BY <1>1, <1>6 DEF Taken, Commanded, InSpawn, Turned
<1>9. Alone'
  BY <1>1, <1>8 DEF TurnsInv, Alone
<1>10. \A x \in Messages : Held(x)' <=> Held(x)
  BY <1>1, <1>8 DEF Held, Landed, Pending, Ours, InSpawn, InDispatch, InTurns
<1>11. \A x \in sent' : Held(x)'
  BY <1>1, <1>10 DEF TurnsInv, TurnsType
<1> QED
  BY <1>7, <1>9, <1>11 DEF TurnsInv

------------------------------------------------------------------------------
(* The host's steps: nothing is sent. *)
LEMMA StepKeeps ==
  ASSUME TurnsInv, TurnsType', sent' = sent,
         \A m \in Messages :
           /\ InQueue(m)' => InQueue(m)
           /\ Taken(m)' => Taken(m) \/ (InQueue(m) /\ ~InQueue(m)')
           /\ m \in removed' => m \in removed \/ (InQueue(m) /\ ~InQueue(m)' /\ ~Taken(m)')
           /\ Held(m) => Held(m)'
  PROVE  TurnsInv'
<1>1. removed' \subseteq sent' /\ sent \subseteq sent' /\ TurnsType /\ Alone
  BY DEF TurnsInv, TurnsType
<1>2. Alone'
  BY <1>1, AloneKeeps
<1>3. \A m \in sent' : Held(m)'
  BY DEF TurnsInv, TurnsType
<1> QED
  BY <1>2, <1>3 DEF TurnsInv

(* Steps of a turn: what it carried is carried on, written or overrun. *)
TurnsPart ==
  nextTurn \in Nat /\ \A i \in DOMAIN turns : i \in Nat /\ i < nextTurn /\ IsTurn(turns[i])

(* A step of the turns alone keeps the invariant if what they carried lands. *)
LEMMA TurnOnly ==
  ASSUME TurnsInv, TurnsPart',
         UNCHANGED <<story, queue, commands, task, escorts, sent, removed, rowGate, rpcs, editors>>,
         DOMAIN entries' = Messages, overrun \subseteq overrun',
         \A m \in Messages :
           /\ entries'[m] \in {0, 1} /\ (entries'[m] > 0 => Taken(m)) /\ (Landed(m) => Landed(m)')
           /\ Turned(m)' => Taken(m)
           /\ InTurns(m) => InTurns(m)' \/ Landed(m)' \/ m \in overrun'
  PROVE  TurnsInv'
<1>1. TurnsType'
  BY DEF TurnsInv, TurnsType, TurnsPart, IsTask, EditSteps
<1>2. ASSUME NEW m \in Messages
      PROVE  /\ InQueue(m)' <=> InQueue(m)
             /\ Taken(m)' => Taken(m)
             /\ m \in removed' => m \in removed
  BY DEF InQueue, Taken, Commanded, InSpawn
<1>3. ASSUME NEW m \in Messages, Held(m) PROVE Held(m)'
  BY <1>2, <1>3 DEF Held, Pending, Ours, InSpawn, InDispatch
<1> QED
  BY <1>1, <1>2, <1>3, StepKeeps

(* What Goto changes of a turn. *)
LEMMA GotoIs ==
  ASSUME TurnsType, NEW i \in DOMAIN turns, NEW phase, Goto(i, phase)
  PROVE  /\ DOMAIN turns' = DOMAIN turns /\ \A j \in DOMAIN turns \ {i} : turns'[j] = turns[j]
         /\ DOMAIN turns'[i] = DOMAIN turns[i] /\ turns'[i].phase = phase
         /\ turns'[i].msg = turns[i].msg /\ turns'[i].cancelled = turns[i].cancelled
<1> DEFINE u == [turns[i] EXCEPT !.phase = phase]
<1>1. turns' = [turns EXCEPT ![i] = u]
  BY DEF Goto
<1>2. /\ DOMAIN u = DOMAIN turns[i] /\ u.phase = phase
      /\ u.msg = turns[i].msg /\ u.cancelled = turns[i].cancelled
  BY DEF TurnsType, IsTurn
<1> HIDE DEF u
<1> QED
  BY <1>1, <1>2

(* A turn goes on to a phase in which it carries no less. *)
LEMMA GotoKeeps ==
  ASSUME TurnsInv, UNCHANGED story, NEW i \in DOMAIN turns, NEW phase, Goto(i, phase),
         UNCHANGED <<queue, commands, task, escorts, sent, removed, overrun, rowGate, rpcs, editors,
                     nextTurn>>,
         phase \in {"adopt", "spawn"} => turns[i].msg \in Messages,
         DOMAIN entries' = Messages,
         \A m \in Messages : IF m = turns[i].msg THEN entries'[m] \in {entries[m], 1}
                                                 ELSE entries'[m] = entries[m],
         \A m \in Messages : m = turns[i].msg =>
           \/ phase \in {"adopt", "spawn"} \/ entries'[m] = 1
           \/ /\ turns[i].phase \notin {"adopt", "spawn"}
              /\ ~(turns[i].phase = "wait" /\ ~turns[i].cancelled)
  PROVE  TurnsInv'
<1>1. /\ DOMAIN turns' = DOMAIN turns /\ \A j \in DOMAIN turns \ {i} : turns'[j] = turns[j]
      /\ DOMAIN turns'[i] = DOMAIN turns[i] /\ turns'[i].phase = phase
      /\ turns'[i].msg = turns[i].msg /\ turns'[i].cancelled = turns[i].cancelled
  BY GotoIs DEF TurnsInv
<1>2. TurnsPart'
  BY <1>1 DEF TurnsInv, TurnsType, TurnsPart, IsTurn
<1>3. ASSUME NEW m \in Messages
      PROVE  /\ entries'[m] \in {0, 1} /\ (entries'[m] > 0 => Taken(m)) /\ (Landed(m) => Landed(m)')
             /\ Turned(m)' => Taken(m)
  <2>1. entries[m] \in {0, 1}
    BY DEF TurnsInv, TurnsType
  <2>2. m = turns[i].msg => Taken(m)
    BY DEF Taken, Turned
  <2>3. Turned(m)' => Turned(m)
    BY <1>1 DEF Turned
  <2> QED
    BY <2>1, <2>2, <2>3 DEF Taken, Landed
<1>4. ASSUME NEW m \in Messages, InTurns(m) PROVE InTurns(m)' \/ Landed(m)'
  <2>1. PICK j \in DOMAIN turns : /\ turns[j].msg = m
                                  /\ \/ turns[j].phase \in {"adopt", "spawn"}
                                     \/ turns[j].phase = "wait" /\ ~turns[j].cancelled
    BY <1>4 DEF InTurns
  <2>2. CASE j # i
    BY <1>1, <2>1, <2>2 DEF InTurns
  <2>3. CASE j = i
    <3>1. phase \in {"adopt", "spawn"} \/ entries'[m] = 1
      BY <2>1, <2>3
    <3> QED
      BY <1>1, <2>1, <2>3, <3>1 DEF InTurns, Landed
  <2> QED
    BY <2>2, <2>3
<1> QED
  BY <1>2, <1>3, <1>4, TurnOnly

(* A turn that has the gate still carries its message. *)
LEMMA BeginTurnKeeps ==
  ASSUME TurnsInv, UNCHANGED story, NEW i \in DOMAIN turns, BeginTurn(i) PROVE TurnsInv'
<1> DEFINE ph == IF turns[i].cancelled THEN "tail" ELSE IF turns[i].msg = NoMsg THEN "work" ELSE "adopt"
<1>1. /\ turns[i].phase = "wait" /\ Goto(i, ph) /\ UNCHANGED <<queue, commands, task, escorts, sent,
            removed, overrun, rowGate, rpcs, editors, nextTurn, entries>>
  BY DEF BeginTurn, chat, rows, shown, past
<1>2. IsTurn(turns[i]) /\ DOMAIN entries = Messages
  BY DEF TurnsInv, TurnsType
<1>3. /\ ph \in {"adopt", "spawn"} => turns[i].msg \in Messages
      /\ \A m \in Messages : m = turns[i].msg => ph = "adopt" \/ turns[i].cancelled
  BY <1>2, TurnsAssumption DEF IsTurn
<1> HIDE DEF ph
<1> QED
  BY <1>1, <1>2, <1>3, GotoKeeps

(* A turn writes its prompt, once. *)
LEMMA AdoptKeeps ==
  ASSUME TurnsInv, UNCHANGED story, NEW i \in DOMAIN turns, AdoptPrompt(i) PROVE TurnsInv'
<1>1. PICK m : m = turns[i].msg
  OBVIOUS
<1>2. /\ turns[i].phase = "adopt" /\ Goto(i, "work") /\ entries' = [entries EXCEPT ![m] = Adopted(m)]
      /\ UNCHANGED <<queue, commands, task, escorts, sent, removed, overrun, rowGate, rpcs, editors,
                     nextTurn>>
  BY <1>1 DEF AdoptPrompt, chat, rows, past
<1>3. m \in Messages /\ DOMAIN entries = Messages /\ \A x \in Messages : entries[x] \in {0, 1}
  BY <1>1, <1>2 DEF TurnsInv, TurnsType, IsTurn
<1>4. Adopted(m) = 1
  BY <1>3 DEF Adopted, Landed
<1>5. DOMAIN entries' = Messages /\ entries'[m] = 1 /\ \A x \in Messages \ {m} : entries'[x] = entries[x]
  BY <1>2, <1>3, <1>4
<1> QED
  BY <1>1, <1>2, <1>3, <1>5, GotoKeeps

(* The steps in which a turn carries nothing. *)
LEMMA WorkingKeeps ==
  ASSUME TurnsInv, UNCHANGED story, NEW i \in DOMAIN turns,
         WorkTurn(i) \/ EndReply(i) \/ CheckCurrent(i) \/ SettleStatus(i)
  PROVE  TurnsInv'
<1>1. PICK phase \in {"stream", "settle", "set", "tail"} : Goto(i, phase)
  BY DEF WorkTurn, EndReply, CheckCurrent, SettleStatus
<1>2. /\ turns[i].phase \in {"work", "stream", "settle", "set"}
      /\ UNCHANGED <<queue, commands, task, escorts, sent, removed, overrun, rowGate, rpcs, editors,
                     nextTurn, entries>>
  BY DEF WorkTurn, EndReply, CheckCurrent, SettleStatus, chat, rows, shown, past
<1>3. DOMAIN entries = Messages
  BY DEF TurnsInv, TurnsType
<1> QED
  BY <1>1, <1>2, <1>3, GotoKeeps

(* A turn that carries nothing ends. *)
LEMMA DropKeeps ==
  ASSUME TurnsInv, UNCHANGED story, NEW i \in DOMAIN turns, Drop(i), turns[i].phase \in {"tail", "take"},
         UNCHANGED <<queue, commands, task, escorts, sent, removed, overrun, rowGate, rpcs, editors,
                     nextTurn, entries>>
  PROVE  TurnsInv'
<1>1. DOMAIN turns' = DOMAIN turns \ {i} /\ \A j \in DOMAIN turns \ {i} : turns'[j] = turns[j]
  BY DEF Drop
<1>2. TurnsPart'
  BY <1>1 DEF TurnsInv, TurnsType, TurnsPart
<1>3. DOMAIN entries' = Messages /\ \A m \in Messages : entries'[m] \in {0, 1}
  BY DEF TurnsInv, TurnsType
<1>4. \A m \in Messages : Turned(m)' => Turned(m)
  BY <1>1 DEF Turned
<1>5. \A m \in Messages : InTurns(m) => InTurns(m)'
  BY <1>1 DEF InTurns
<1> QED
  BY <1>2, <1>3, <1>4, <1>5, TurnOnly DEF Taken, Landed

(* A turn that ends has written what it carried. *)
LEMMA TailKeeps ==
  ASSUME TurnsInv, UNCHANGED story, NEW i \in DOMAIN turns, TailTurn(i) PROVE TurnsInv'
<1>1. /\ turns[i].phase = "tail" /\ (Goto(i, "take") \/ Drop(i))
      /\ UNCHANGED <<queue, commands, task, escorts, sent, removed, overrun, rowGate, rpcs, editors,
                     nextTurn, entries>>
  BY DEF TailTurn, chat, rows, shown, past
<1>2. DOMAIN entries = Messages
  BY DEF TurnsInv, TurnsType
<1> QED
  BY <1>1, <1>2, GotoKeeps, DropKeeps

(* A turn replaced: it goes on, and is overrun if it has not begun. *)
LEMMA CancelIs ==
  ASSUME TurnsType, NEW i, NEW j \in DOMAIN turns
  PROVE  /\ DOMAIN Cancel(i) = DOMAIN turns
         /\ DOMAIN Cancel(i)[j] = DOMAIN turns[j] /\ Cancel(i)[j].msg = turns[j].msg
         /\ Cancel(i)[j].phase = turns[j].phase /\ Cancel(i)[j].cancelled \in BOOLEAN
         /\ IsTurn(Cancel(i)[j])
         /\ j # i => Cancel(i)[j] = turns[j]
         /\ j = i /\ turns[j].phase = "wait" => {turns[j].msg} \ {NoMsg} \subseteq Overrun(i)
<1> DEFINE u == [turns[j] EXCEPT !.cancelled = TRUE]
<1>1. /\ DOMAIN u = DOMAIN turns[j] /\ u.msg = turns[j].msg /\ u.phase = turns[j].phase
      /\ u.cancelled = TRUE /\ IsTurn(turns[j])
  BY DEF TurnsType, IsTurn
<1>2. Cancel(i)[j] = IF j = i THEN u ELSE turns[j]
  BY DEF Cancel
<1>3. DOMAIN Cancel(i) = DOMAIN turns
  BY DEF Cancel
<1> HIDE DEF u
<1>4. IsTurn(u)
  BY <1>1 DEF IsTurn
<1>5. j = i /\ turns[j].phase = "wait" => Overrun(i) = {turns[j].msg} \ {NoMsg}
  BY DEF Overrun, Waiting
<1> QED
  BY <1>1, <1>2, <1>3, <1>4, <1>5 DEF IsTurn

(* What Spawn adds to the turns and ends of them. *)
LEMMA SpawnIs ==
  ASSUME TurnsType, NEW m \in Messages \cup {NoMsg}, NEW ended, Spawn(m, ended),
         \A i \in ended : i \in DOMAIN turns /\ turns[i].msg = m
  PROVE  /\ TurnsPart' /\ InTurns(m)' /\ overrun \subseteq overrun'
         /\ \A x : Turned(x)' => Turned(x) \/ x = m
         /\ \A x \in Messages : InTurns(x) => InTurns(x)' \/ x \in overrun'
<1> DEFINE new == [msg |-> m, phase |-> "wait", cancelled |-> FALSE]
           rest == DOMAIN turns \ ended
<1> PICK cut : cut = Cancel(turnMap)
  OBVIOUS
<1>1. /\ DOMAIN turns' = rest \cup {nextTurn} /\ nextTurn' = nextTurn + 1
      /\ overrun' = overrun \cup Overrun(turnMap) /\ turns'[nextTurn] = new
      /\ \A i \in rest \ {nextTurn} : turns'[i] = cut[i]
  BY DEF Spawn
<1>2. nextTurn \in Nat /\ \A i \in DOMAIN turns : i \in Nat /\ i < nextTurn
  BY DEF TurnsType
<1>3. nextTurn \notin DOMAIN turns
  BY <1>2
<1>4. IsTurn(new) /\ new.msg = m /\ new.phase = "wait" /\ ~new.cancelled
  BY DEF IsTurn
<1> HIDE DEF new
<1>5. \A i \in rest : turns'[i] = cut[i]
  BY <1>1, <1>3
<1>6. \A i \in rest : /\ IsTurn(cut[i]) /\ cut[i].msg = turns[i].msg /\ cut[i].phase = turns[i].phase
                      /\ i # turnMap => cut[i] = turns[i]
                      /\ i = turnMap /\ turns[i].phase = "wait"
                           => {turns[i].msg} \ {NoMsg} \subseteq Overrun(turnMap)
  BY CancelIs
<1>7. TurnsPart'
  BY <1>1, <1>2, <1>4, <1>5, <1>6 DEF TurnsPart
<1>8. InTurns(m)'
  BY <1>1, <1>4 DEF InTurns
<1>9. ASSUME NEW x, Turned(x)' PROVE Turned(x) \/ x = m
  BY <1>1, <1>4, <1>5, <1>6, <1>9 DEF Turned
<1>10. ASSUME NEW x \in Messages, InTurns(x) PROVE InTurns(x)' \/ x \in overrun'
  <2>1. PICK j \in DOMAIN turns : /\ turns[j].msg = x
                                  /\ \/ turns[j].phase \in {"adopt", "spawn"}
                                     \/ turns[j].phase = "wait" /\ ~turns[j].cancelled
    BY <1>10 DEF InTurns
  <2>2. CASE j \in ended
    BY <1>8, <2>1, <2>2
  <2>3. CASE j \in rest /\ (j # turnMap \/ turns[j].phase # "wait")
    <3>1. turns'[j].msg = x /\ turns'[j].phase = turns[j].phase
          /\ (turns[j].phase = "wait" => turns'[j] = turns[j])
      BY <1>5, <1>6, <2>1, <2>3
    <3> QED
      BY <1>1, <2>1, <2>3, <3>1 DEF InTurns
  <2>4. CASE j \in rest /\ j = turnMap /\ turns[j].phase = "wait"
    <3>1. x \in Overrun(turnMap)
      BY <1>6, <2>1, <2>4, TurnsAssumption
    <3> QED
      BY <1>1, <3>1
  <2> QED
    BY <2>1, <2>2, <2>3, <2>4
<1> QED
  BY <1>1, <1>7, <1>8, <1>9, <1>10

(* A turn spawns the one that follows it. *)
LEMMA TailSpawnsKeeps ==
  ASSUME TurnsInv, UNCHANGED story, NEW i \in DOMAIN turns, TailSpawns(i) PROVE TurnsInv'
<1>1. PICK m : m = turns[i].msg
  OBVIOUS
<1>2. /\ turns[i].phase = "spawn" /\ Spawn(m, {i})
      /\ UNCHANGED <<queue, commands, task, escorts, sent, removed, rowGate, rpcs, editors, entries>>
  BY <1>1 DEF TailSpawns, chat, rows, shown
<1>3. m \in Messages /\ Turned(m) /\ DOMAIN entries = Messages /\ \A x \in Messages : entries[x] \in {0, 1}
  BY <1>1, <1>2 DEF TurnsInv, TurnsType, IsTurn, Turned
<1>4. /\ TurnsPart' /\ InTurns(m)' /\ overrun \subseteq overrun'
      /\ \A x : Turned(x)' => Turned(x) \/ x = m
      /\ \A x \in Messages : InTurns(x) => InTurns(x)' \/ x \in overrun'
  <2>1. \A j \in {i} : j \in DOMAIN turns /\ turns[j].msg = m
    BY <1>1
  <2>2. m \in Messages \cup {NoMsg} /\ TurnsType /\ Spawn(m, {i})
    BY <1>2, <1>3 DEF TurnsInv
  <2> QED
    BY <2>1, <2>2, SpawnIs
<1> QED
  BY <1>2, <1>3, <1>4, TurnOnly DEF Taken, Landed

------------------------------------------------------------------------------
(* The steps of a task. *)
LEMMA DoIs ==
  ASSUME TurnsType, NEW t \in Tasks, NEW r, Do(t, r)
  PROVE  DOMAIN task' = Tasks /\ task'[t] = r /\ \A u \in Tasks \ {t} : task'[u] = task[u]
BY DEF Do, TurnsType

(* The shape of a task record. *)
LEMMA AtIs ==
  ASSUME NEW pc, NEW m
  PROVE  /\ DOMAIN At(pc, m) = {"pc", "msg", "lease", "todo"} /\ IsSeq(At(pc, m).todo)
         /\ At(pc, m).pc = pc /\ At(pc, m).msg = m
         /\ DOMAIN Free = {"pc", "msg", "lease", "todo"} /\ Free.pc = "free" /\ IsSeq(Free.todo)
<1>1. IsSeq(<<>>)
  BY DEF IsSeq
<1>2. /\ DOMAIN Free = {"pc", "msg", "lease", "todo"} /\ Free.pc = "free" /\ Free.todo = <<>>
  BY DEF Free
<1> PICK f : f = Free
  OBVIOUS
<1>3. At(pc, m) = [f EXCEPT !.pc = pc, !.msg = m]
  BY DEF At
<1>4. DOMAIN f = {"pc", "msg", "lease", "todo"} /\ f.todo = <<>>
  BY <1>2
<1>5. /\ DOMAIN At(pc, m) = {"pc", "msg", "lease", "todo"} /\ At(pc, m).todo = <<>>
      /\ At(pc, m).pc = pc /\ At(pc, m).msg = m
  BY <1>3, <1>4
<1> QED
  BY <1>1, <1>2, <1>5

(* What the step of one task does to what tasks hold. *)
LEMMA DoHolds ==
  ASSUME TurnsType, NEW t \in Tasks, NEW r, Do(t, r), IsTask(r),
         DOMAIN commands \subseteq DOMAIN commands',
         \A i \in DOMAIN commands : commands'[i].msg = commands[i].msg
  PROVE  /\ DOMAIN task' = Tasks /\ \A u \in Tasks : IsTask(task[u])'
         /\ \A x : InSpawn(x)' => InSpawn(x) \/ (r.pc = "spawn" /\ r.msg = x)
         /\ \A x : InSpawn(x) => InSpawn(x)' \/ (task[t].pc = "spawn" /\ task[t].msg = x)
         /\ \A x : InDispatch(x) => InDispatch(x)' \/ (task[t].pc = "dispatch"
                                                       /\ commands[Head(task[t].todo)].msg = x)
         /\ \A x : r.pc = "spawn" /\ r.msg = x => InSpawn(x)'
<1>1. DOMAIN task' = Tasks /\ task'[t] = r /\ \A u \in Tasks \ {t} : task'[u] = task[u]
  BY DoIs
<1>2. ASSUME NEW u \in Tasks PROVE IsTask(task[u])'
  <2>1. IsTask(task'[u])
    BY <1>1 DEF TurnsType
  <2> QED
    BY <2>1 DEF IsTask, EditSteps
<1>3. ASSUME NEW x, InDispatch(x)
      PROVE  InDispatch(x)' \/ (task[t].pc = "dispatch" /\ commands[Head(task[t].todo)].msg = x)
  <2>1. PICK u \in Tasks : task[u].pc = "dispatch" /\ commands[Head(task[u].todo)].msg = x
    BY <1>3 DEF InDispatch
  <2>2. Head(task[u].todo) \in DOMAIN commands
    BY <2>1, DispatchHead
  <2> QED
    BY <1>1, <2>1, <2>2 DEF InDispatch
<1> QED
  BY <1>1, <1>2, <1>3 DEF InSpawn

(* A step of a task that holds nothing, before and after. *)
LEMMA TaskOnly ==
  ASSUME TurnsInv, NEW t \in Tasks, NEW r, Do(t, r), IsTask(r),
         task[t].pc \notin {"spawn", "dispatch"}, r.pc \notin {"spawn", "dispatch"},
         UNCHANGED <<story, queue, commands, turns, nextTurn, escorts, entries, sent, removed, overrun>>,
         DOMAIN rowGate' = Messages, \A q \in rpcs' : q.msg \in Messages,
         \A h \in editors' : h[1] \in Messages
  PROVE  TurnsInv'
<1>1. /\ DOMAIN task' = Tasks /\ \A u \in Tasks : IsTask(task[u])'
      /\ \A x : InSpawn(x)' => InSpawn(x)
      /\ \A x : InSpawn(x) => InSpawn(x)'
      /\ \A x : InDispatch(x) => InDispatch(x)'
  <2>1. /\ DOMAIN task' = Tasks /\ \A u \in Tasks : IsTask(task[u])'
        /\ \A x : InSpawn(x)' => InSpawn(x) \/ (r.pc = "spawn" /\ r.msg = x)
        /\ \A x : InSpawn(x) => InSpawn(x)' \/ (task[t].pc = "spawn" /\ task[t].msg = x)
        /\ \A x : InDispatch(x) => InDispatch(x)' \/ (task[t].pc = "dispatch"
                                                      /\ commands[Head(task[t].todo)].msg = x)
    BY DoHolds DEF TurnsInv
  <2> QED
    BY <2>1
<1>2. TurnsType'
  BY <1>1 DEF TurnsInv, TurnsType
<1>3. ASSUME NEW m \in Messages
      PROVE  (InQueue(m)' <=> InQueue(m)) /\ (Taken(m)' => Taken(m)) /\ (Held(m) => Held(m)')
  <2>1. (InQueue(m)' <=> InQueue(m)) /\ (Taken(m)' => Taken(m))
    BY <1>1 DEF InQueue, Taken, Commanded, Turned
  <2> QED
    BY <1>1, <2>1 DEF Held, Landed, Pending, Ours, InTurns
<1> QED
  BY <1>2, <1>3, StepKeeps

(* Filtering keeps the sequence's elements that are in the set. *)
LEMMA OnlyRows ==
  ASSUME NEW T, NEW s \in Seq(T), NEW S, NEW r, r = Only(s, S)
  PROVE  r \in Seq(T) /\ \A x : InSeq(r, x) => x \in S
<1>1. /\ Only(s, S) \in Seq(T)
      /\ \A x : (\E i \in DOMAIN Only(s, S) : Only(s, S)[i] = x)
                  <=> x \in S /\ \E i \in DOMAIN s : s[i] = x
  BY OnlyKeeps
<1> QED
  BY <1>1 DEF InSeq

(* Of a finite list of numbers, those kept. *)
LEMMA TodoIs ==
  ASSUME TurnsType, NEW r, NEW S, S \subseteq DOMAIN commands,
         r = Only([i \in DOMAIN commands |-> i], S)
  PROVE  IsSeq(r) /\ \A x : InSeq(r, x) => x \in DOMAIN commands
<1>1. PICK n \in Nat : DOMAIN commands = 1..n
  BY DEF TurnsType, IsSeq
<1> DEFINE s == [i \in DOMAIN commands |-> i]
<1>2. s \in Seq(1..n) /\ \A i \in DOMAIN s : s[i] = i
  BY <1>1
<1> HIDE DEF s
<1>3. r = Only(s, S)
  BY DEF s
<1>4. r \in Seq(1..n) /\ \A x : InSeq(r, x) => x \in S
  BY <1>2, <1>3, OnlyRows
<1> QED
  BY <1>4 DEF IsSeq

(* The tail of a list of commands holds only commands of the list. *)
LEMMA TailTodo ==
  ASSUME NEW s, IsSeq(s), s # <<>>
  PROVE  IsSeq(Tail(s)) /\ (\A x : InSeq(Tail(s), x) => InSeq(s, x)) /\ InSeq(s, Head(s))
<1>1. PICK T : s \in Seq(T)
  BY DEF IsSeq
<1>2. /\ Tail(s) \in Seq(T) /\ Len(Tail(s)) = Len(s) - 1 /\ Len(s) \in Nat \ {0} /\ Head(s) = s[1]
      /\ \A j \in 1..(Len(s) - 1) : Tail(s)[j] = s[j + 1]
  BY <1>1
<1>3. DOMAIN Tail(s) = 1..(Len(s) - 1) /\ DOMAIN s = 1..Len(s)
  BY <1>1, <1>2
<1>4. ASSUME NEW x, InSeq(Tail(s), x) PROVE InSeq(s, x)
  <2>1. PICK j \in 1..(Len(s) - 1) : Tail(s)[j] = x
    BY <1>3, <1>4 DEF InSeq
  <2>2. j + 1 \in 1..Len(s) /\ s[j + 1] = x
    BY <1>2, <2>1
  <2> QED
    BY <1>3, <2>2 DEF InSeq
<1> QED
  BY <1>2, <1>3, <1>4 DEF InSeq, IsSeq

(* A drain that starts lists pending commands and takes nothing. *)
LEMMA DrainStartKeeps ==
  ASSUME TurnsInv, UNCHANGED story, NEW t \in Tasks, DrainStart(t) PROVE TurnsInv'
<1>1. PICK todo : todo = Only([i \in DOMAIN commands |-> i],
                              {i \in DOMAIN commands : commands[i].status = "pending"})
  OBVIOUS
<1>2. IsSeq(todo) /\ \A x : InSeq(todo, x) => x \in DOMAIN commands
  BY <1>1, TodoIs DEF TurnsInv
<1>3. PICK r : r = IF online THEN [Free EXCEPT !.pc = "commands", !.todo = todo] ELSE Free
  OBVIOUS
<1>4. IsTask(r) /\ r.pc \in {"commands", "free"}
  <2> PICK f : f = Free
    OBVIOUS
  <2>1. DOMAIN f = {"pc", "msg", "lease", "todo"} /\ f.pc = "free" /\ IsSeq(f.todo)
    BY AtIs
  <2>2. r = IF online THEN [f EXCEPT !.pc = "commands", !.todo = todo] ELSE f
    BY <1>3
  <2>3. CASE online
    <3>1. r = [f EXCEPT !.pc = "commands", !.todo = todo]
      BY <2>2, <2>3
    <3>2. DOMAIN r = {"pc", "msg", "lease", "todo"} /\ r.pc = "commands" /\ r.todo = todo
      BY <2>1, <3>1
    <3> QED
      BY <1>2, <3>2 DEF IsTask, EditSteps
  <2>4. CASE ~online
    BY <2>1, <2>2, <2>4 DEF IsTask, EditSteps
  <2> QED
    BY <2>3, <2>4
<1>5. /\ Do(t, r) /\ task[t].pc = "free"
      /\ UNCHANGED <<queue, commands, turns, nextTurn, escorts, entries, sent, removed, overrun, rowGate,
                     rpcs, editors>>
  BY <1>1, <1>3, AtIs DEF DrainStart, chat, rows, shown, past
<1>6. DOMAIN rowGate' = Messages /\ (\A q \in rpcs' : q.msg \in Messages)
      /\ \A h \in editors' : h[1] \in Messages
  BY <1>5 DEF TurnsInv, TurnsType
<1> QED
  BY <1>4, <1>5, <1>6, TaskOnly

(* A command is claimed: the drain holds what was pending. *)
LEMMA ClaimKeeps ==
  ASSUME TurnsInv, UNCHANGED story, NEW t \in Tasks, Claim(t) PROVE TurnsInv'
<1> PICK todo : todo = task[t].todo
  OBVIOUS
<1> PICK k : k = task[t]
  OBVIOUS
<1>1. /\ k.pc = "commands" /\ todo = k.todo
      /\ UNCHANGED <<queue, turns, nextTurn, escorts, entries, sent, removed, overrun, rowGate, rpcs,
                     editors>>
  BY DEF Claim, rows, shown, past
<1>2. /\ DOMAIN k = {"pc", "msg", "lease", "todo"} /\ IsSeq(todo)
      /\ \A x : InSeq(todo, x) => x \in DOMAIN commands
  BY <1>1 DEF TurnsInv, TurnsType, IsTask, EditSteps
<1>3. DOMAIN rowGate' = Messages /\ (\A q \in rpcs' : q.msg \in Messages)
      /\ \A h \in editors' : h[1] \in Messages
  BY <1>1 DEF TurnsInv, TurnsType
<1>4. CASE todo = <<>> /\ Do(t, At("check", NoMsg)) /\ UNCHANGED commands
  <2> PICK r : r = At("check", NoMsg)
    OBVIOUS
  <2>1. IsTask(r) /\ r.pc = "check" /\ Do(t, r)
    BY <1>4, AtIs DEF IsTask, EditSteps
  <2> QED
    BY <1>1, <1>3, <1>4, <2>1, TaskOnly
<1>5. CASE todo # <<>> /\ Do(t, [k EXCEPT !.todo = Tail(todo)]) /\ UNCHANGED commands
  <2> PICK r : r = [k EXCEPT !.todo = Tail(todo)]
    OBVIOUS
  <2>1. DOMAIN r = DOMAIN k /\ r.pc = "commands" /\ r.todo = Tail(todo)
    BY <1>1, <1>2
  <2>2. IsTask(r) /\ Do(t, r)
    BY <1>2, <1>5, <2>1, TailTodo DEF IsTask, EditSteps
  <2> QED
    BY <1>1, <1>3, <1>5, <2>1, <2>2, TaskOnly
<1>6. ASSUME todo # <<>>, Do(t, [k EXCEPT !.pc = "dispatch"]), NEW i, i = Head(todo),
             commands' = [commands EXCEPT ![i].status = "applied"]
      PROVE  TurnsInv'
  <2> DEFINE c == [commands[i] EXCEPT !.status = "applied"]
  <2>1. i \in DOMAIN commands
    BY <1>2, <1>6, TailTodo
  <2>2. IsCommand(c) /\ c.msg = commands[i].msg
    <3>1. IsCommand(commands[i])
      BY <2>1 DEF TurnsInv, TurnsType
    <3> QED
      BY <3>1 DEF IsCommand
  <2>3. commands' = [commands EXCEPT ![i] = c]
    BY <1>6
  <2> HIDE DEF c
  <2>4. /\ DOMAIN commands' = DOMAIN commands /\ commands'[i] = c
        /\ \A j \in DOMAIN commands \ {i} : commands'[j] = commands[j]
    BY <2>1, <2>3
  <2>5. IsSeq(commands')
    <3>1. PICK T : commands \in Seq(T)
      BY DEF TurnsInv, TurnsType, IsSeq
    <3>2. commands \in Seq(T \cup {c}) /\ c \in T \cup {c}
      BY <3>1
    <3>3. commands' \in Seq(T \cup {c})
      BY <2>1, <2>3, <3>2
    <3> QED
      BY <3>3 DEF IsSeq
  <2> PICK r : r = [k EXCEPT !.pc = "dispatch"]
    OBVIOUS
  <2>6. DOMAIN r = DOMAIN k /\ r.pc = "dispatch" /\ r.todo = todo
    BY <1>1, <1>2
  <2>7. IsTask(r) /\ Do(t, r)
    BY <1>2, <1>6, <2>6 DEF IsTask, EditSteps
  <2>8. \A j \in DOMAIN commands : commands'[j].msg = commands[j].msg
    BY <2>2, <2>4
  <2>9. /\ DOMAIN task' = Tasks /\ \A u \in Tasks : IsTask(task[u])'
        /\ \A x : InSpawn(x)' => InSpawn(x)
        /\ \A x : InSpawn(x) => InSpawn(x)'
        /\ \A x : InDispatch(x) => InDispatch(x)'
    <3>1. /\ DOMAIN task' = Tasks /\ \A u \in Tasks : IsTask(task[u])'
          /\ \A x : InSpawn(x)' => InSpawn(x) \/ (r.pc = "spawn" /\ r.msg = x)
          /\ \A x : InSpawn(x) => InSpawn(x)' \/ (task[t].pc = "spawn" /\ task[t].msg = x)
          /\ \A x : InDispatch(x) => InDispatch(x)' \/ (task[t].pc = "dispatch"
                                                        /\ commands[Head(task[t].todo)].msg = x)
      <4>1. TurnsType /\ IsTask(r) /\ Do(t, r) /\ DOMAIN commands \subseteq DOMAIN commands'
        BY <2>4, <2>7 DEF TurnsInv
      <4> QED
        BY <2>8, <4>1, DoHolds
    <3> QED
      BY <1>1, <2>6, <3>1
  <2>10. TurnsType'
    BY <1>1, <1>3, <2>2, <2>4, <2>5, <2>9 DEF TurnsInv, TurnsType
  <2>11. PICK mi : mi = commands[i].msg /\ InDispatch(mi)'
    <3>1. task'[t] = r
      BY <2>7, DoIs DEF TurnsInv
    <3>2. PICK mi : mi = commands[i].msg
      OBVIOUS
    <3>3. Head(task'[t].todo) = i /\ task'[t].pc = "dispatch" /\ commands'[i].msg = mi
      BY <1>6, <2>2, <2>4, <2>6, <3>1, <3>2
    <3> QED
      BY <3>2, <3>3 DEF InDispatch
  <2>12. ASSUME NEW m \in Messages
         PROVE  (InQueue(m)' <=> InQueue(m)) /\ (Taken(m)' => Taken(m)) /\ (Held(m) => Held(m)')
    <3>1. InQueue(m)' <=> InQueue(m)
      BY <1>1 DEF InQueue
    <3>2. Commanded(m)' => Commanded(m)
      BY <2>4, <2>8 DEF Commanded
    <3>3. Taken(m)' => Taken(m)
      BY <1>1, <2>9, <3>2 DEF Taken, Turned
    <3>4. ASSUME Pending(m) PROVE Pending(m)' \/ InDispatch(m)'
      <4>1. PICK j \in DOMAIN commands : commands[j].msg = m /\ commands[j].status = "pending"
        BY <3>4 DEF Pending, Ours
      <4>2. CASE j = i
        BY <2>11, <4>1, <4>2
      <4>3. CASE j # i
        BY <2>4, <4>1, <4>3 DEF Pending, Ours
      <4> QED
        BY <4>2, <4>3
    <3> QED
      BY <1>1, <2>9, <3>1, <3>3, <3>4 DEF Held, Landed, InTurns
  <2> QED
    BY <1>1, <2>10, <2>12, StepKeeps
<1> QED
  BY <1>4, <1>5, <1>6 DEF Claim

(* A message goes from a command, a task or an upload to an upload or a turn. *)
Taking(m) == InTurns(m) \/ InSpawn(m) \/ InDispatch(m) \/ m \in escorts \/ m \in overrun

(* A step that hands messages on, and loses none, keeps the invariant. *)
LEMMA HandedOn ==
  ASSUME TurnsInv,
         UNCHANGED <<story, queue, commands, entries, sent, removed, rowGate, rpcs, editors>>,
         TurnsPart', DOMAIN task' = Tasks, \A u \in Tasks : IsTask(task[u])',
         \A m \in Messages : (Taken(m)' => Taken(m)) /\ (Taking(m) => Taking(m)')
  PROVE  TurnsInv'
<1>1. TurnsType'
  BY DEF TurnsInv, TurnsType, TurnsPart
<1>2. ASSUME NEW m \in Messages
      PROVE  (InQueue(m)' <=> InQueue(m)) /\ (Held(m) => Held(m)')
  <2>1. InQueue(m)' <=> InQueue(m)
    BY DEF InQueue
  <2>2. Pending(m)' <=> Pending(m)
    BY DEF Pending, Ours
  <2>3. Landed(m)' <=> Landed(m)
    BY DEF Landed
  <2>4. Taking(m) => Taking(m)'
    OBVIOUS
  <2> QED
    BY <2>1, <2>2, <2>3, <2>4 DEF Held, Taking
<1> QED
  BY <1>1, <1>2, StepKeeps

(* An interrupted turn. *)
LEMMA CancelTurns ==
  ASSUME TurnsType, NEW i, turns' = Cancel(i), overrun' = overrun \cup Overrun(i), UNCHANGED nextTurn
  PROVE  /\ TurnsPart' /\ \A x : Turned(x)' => Turned(x)
         /\ \A x \in Messages : InTurns(x) => InTurns(x)' \/ x \in overrun'
<1> PICK cut : cut = Cancel(i)
  OBVIOUS
<1>1. \A j \in DOMAIN turns :
         /\ IsTurn(cut[j]) /\ cut[j].msg = turns[j].msg /\ cut[j].phase = turns[j].phase
         /\ j # i => cut[j] = turns[j]
         /\ j = i /\ turns[j].phase = "wait" => {turns[j].msg} \ {NoMsg} \subseteq Overrun(i)
  BY CancelIs
<1>2. turns' = cut /\ DOMAIN cut = DOMAIN turns
  BY DEF Cancel
<1>3. TurnsPart'
  BY <1>1, <1>2 DEF TurnsPart, TurnsType
<1>4. \A x : Turned(x)' => Turned(x)
  BY <1>1, <1>2 DEF Turned
<1>5. ASSUME NEW x \in Messages, InTurns(x) PROVE InTurns(x)' \/ x \in overrun'
  <2>1. PICK j \in DOMAIN turns : /\ turns[j].msg = x
                                  /\ \/ turns[j].phase \in {"adopt", "spawn"}
                                     \/ turns[j].phase = "wait" /\ ~turns[j].cancelled
    BY <1>5 DEF InTurns
  <2>2. CASE j # i \/ turns[j].phase # "wait"
    <3>1. turns'[j].msg = x /\ turns'[j].phase = turns[j].phase
          /\ (turns[j].phase = "wait" => turns'[j] = turns[j])
      BY <1>1, <1>2, <2>1, <2>2
    <3> QED
      BY <1>2, <2>1, <3>1 DEF InTurns
  <2>3. CASE j = i /\ turns[j].phase = "wait"
    <3>1. x \in Overrun(i)
      BY <1>1, <2>1, <2>3, TurnsAssumption
    <3> QED
      BY <3>1
  <2> QED
    BY <2>2, <2>3
<1> QED
  BY <1>3, <1>4, <1>5

(* What Spawn hands on, whoever held it. *)
LEMMA SpawnTaking ==
  ASSUME TurnsType, NEW m \in Messages \cup {NoMsg}, Spawn(m, {}), UNCHANGED <<entries, commands>>,
         m \in Messages => Taken(m),
         \A x : InSpawn(x)' => InSpawn(x), escorts' \subseteq escorts,
         \A x \in Messages : InSpawn(x) \/ InDispatch(x) \/ x \in escorts
                               => InSpawn(x)' \/ InDispatch(x)' \/ x \in escorts' \/ x = m
  PROVE  TurnsPart' /\ \A x \in Messages : (Taken(x)' => Taken(x)) /\ (Taking(x) => Taking(x)')
<1>1. /\ TurnsPart' /\ InTurns(m)' /\ overrun \subseteq overrun'
      /\ \A x : Turned(x)' => Turned(x) \/ x = m
      /\ \A x \in Messages : InTurns(x) => InTurns(x)' \/ x \in overrun'
  <2>1. \A j \in {} : j \in DOMAIN turns /\ turns[j].msg = m
    OBVIOUS
  <2> QED
    BY <2>1, SpawnIs
<1>2. ASSUME NEW x \in Messages, Taken(x)' PROVE Taken(x)
  BY <1>1, <1>2 DEF Taken, Commanded
<1>3. ASSUME NEW x \in Messages, Taking(x) PROVE Taking(x)'
  <2>1. CASE InTurns(x) \/ x \in overrun
    BY <1>1, <2>1 DEF Taking
  <2>2. CASE InSpawn(x) \/ InDispatch(x) \/ x \in escorts
    BY <1>1, <2>2 DEF Taking
  <2> QED
    BY <1>3, <2>1, <2>2 DEF Taking
<1> QED
  BY <1>1, <1>2, <1>3

(* Dispatch: a claimed command's message goes to an upload or a turn. *)
LEMMA DispatchKeeps ==
  ASSUME TurnsInv, UNCHANGED story, NEW t \in Tasks, Dispatch(t) PROVE TurnsInv'
<1> PICK k : k = task[t]
  OBVIOUS
<1> PICK todo : todo = k.todo
  OBVIOUS
<1> PICK c : c = commands[Head(todo)]
  OBVIOUS
<1> PICK r : r = [k EXCEPT !.pc = "commands", !.todo = Tail(todo)]
  OBVIOUS
<1>1. /\ k.pc = "dispatch" /\ Do(t, r)
      /\ UNCHANGED <<queue, commands, entries, sent, removed, rowGate, rpcs, editors>>
  BY DEF Dispatch, chat, rows
<1>2. /\ DOMAIN k = {"pc", "msg", "lease", "todo"} /\ IsSeq(todo) /\ todo # <<>>
      /\ \A x : InSeq(todo, x) => x \in DOMAIN commands
  BY <1>1 DEF TurnsInv, TurnsType, IsTask, EditSteps
<1>3. Head(todo) \in DOMAIN commands /\ IsCommand(c)
  BY <1>2, TailTodo DEF TurnsInv, TurnsType
<1>4. DOMAIN r = DOMAIN k /\ r.pc = "commands" /\ r.todo = Tail(todo)
  BY <1>1, <1>2
<1>5. IsTask(r)
  BY <1>2, <1>4, TailTodo DEF IsTask, EditSteps
<1>6. /\ DOMAIN task' = Tasks /\ \A u \in Tasks : IsTask(task[u])'
      /\ \A x : InSpawn(x)' => InSpawn(x)
      /\ \A x : InSpawn(x) => InSpawn(x)'
      /\ \A x : InDispatch(x) => InDispatch(x)' \/ x = c.msg
  <2>1. /\ DOMAIN task' = Tasks /\ \A u \in Tasks : IsTask(task[u])'
        /\ \A x : InSpawn(x)' => InSpawn(x) \/ (r.pc = "spawn" /\ r.msg = x)
        /\ \A x : InSpawn(x) => InSpawn(x)' \/ (task[t].pc = "spawn" /\ task[t].msg = x)
        /\ \A x : InDispatch(x) => InDispatch(x)' \/ (task[t].pc = "dispatch"
                                                      /\ commands[Head(task[t].todo)].msg = x)
    BY <1>1, <1>5, DoHolds DEF TurnsInv
  <2> QED
    BY <1>1, <1>4, <2>1
<1>7. c.msg \in Messages \cup {NoMsg} /\ (c.msg \in Messages => Taken(c.msg))
  BY <1>3 DEF IsCommand, Taken, Commanded
<1>8. CASE Spawn(c.msg, {}) /\ UNCHANGED escorts
  <2>1. TurnsType /\ Spawn(c.msg, {}) /\ UNCHANGED <<entries, commands>> /\ escorts' \subseteq escorts
    BY <1>1, <1>8 DEF TurnsInv
  <2>2. \A x \in Messages : InSpawn(x) \/ InDispatch(x) \/ x \in escorts
                               => InSpawn(x)' \/ InDispatch(x)' \/ x \in escorts' \/ x = c.msg
    BY <1>6, <1>8
  <2>3. TurnsPart' /\ \A x \in Messages : (Taken(x)' => Taken(x)) /\ (Taking(x) => Taking(x)')
    BY <1>6, <1>7, <2>1, <2>2, SpawnTaking
  <2> QED
    BY <1>1, <1>6, <2>3, HandedOn
<1>9. CASE escorts' = escorts \cup {c.msg} /\ UNCHANGED <<turns, nextTurn, overrun>>
  <2>1. TurnsPart'
    BY <1>9 DEF TurnsInv, TurnsType, TurnsPart
  <2>2. ASSUME NEW x \in Messages PROVE (Taken(x)' => Taken(x)) /\ (Taking(x) => Taking(x)')
    <3>1. Taken(x)' => Taken(x)
      BY <1>1, <1>6, <1>7, <1>9 DEF Taken, Commanded, Turned
    <3>2. InTurns(x) => InTurns(x)'
      BY <1>9 DEF InTurns
    <3> QED
      BY <1>6, <1>9, <3>1, <3>2 DEF Taking
  <2> QED
    BY <1>1, <1>6, <2>1, <2>2, HandedOn
<1>10. CASE c.kind = "interrupt" /\ turns' = Cancel(turnMap) /\ overrun' = overrun \cup Overrun(turnMap)
            /\ UNCHANGED <<escorts, nextTurn>>
  <2>1. /\ TurnsPart' /\ \A x : Turned(x)' => Turned(x)
        /\ \A x \in Messages : InTurns(x) => InTurns(x)' \/ x \in overrun'
    BY <1>10, CancelTurns DEF TurnsInv
  <2>2. c.msg \notin Messages
    BY <1>3, <1>10, TurnsAssumption DEF IsCommand, UserKinds
  <2>3. ASSUME NEW x \in Messages PROVE (Taken(x)' => Taken(x)) /\ (Taking(x) => Taking(x)')
    <3>1. Taken(x)' => Taken(x)
      BY <1>1, <1>6, <1>10, <2>1 DEF Taken, Commanded
    <3> QED
      BY <1>6, <1>10, <2>1, <2>2, <3>1 DEF Taking
  <2> QED
    BY <1>1, <1>6, <2>1, <2>3, HandedOn
<1>11. CASE c.kind = "interrupt" /\ UNCHANGED <<escorts, turns, nextTurn, overrun>>
  <2>1. TurnsPart'
    BY <1>11 DEF TurnsInv, TurnsType, TurnsPart
  <2>2. c.msg \notin Messages
    BY <1>3, <1>11, TurnsAssumption DEF IsCommand, UserKinds
  <2>3. ASSUME NEW x \in Messages PROVE (Taken(x)' => Taken(x)) /\ (Taking(x) => Taking(x)')
    <3>1. Taken(x)' => Taken(x)
      BY <1>1, <1>6, <1>11 DEF Taken, Commanded, Turned
    <3>2. InTurns(x) => InTurns(x)'
      BY <1>11 DEF InTurns
    <3> QED
      BY <1>6, <1>11, <2>2, <3>1, <3>2 DEF Taking
  <2> QED
    BY <1>1, <1>6, <2>1, <2>3, HandedOn
<1>12. c.kind = "respond" => c.msg = NoMsg
  BY <1>3 DEF IsCommand, UserKinds
<1>13. \/ Spawn(c.msg, {}) /\ UNCHANGED escorts
       \/ escorts' = escorts \cup {c.msg} /\ UNCHANGED <<turns, nextTurn, overrun>>
       \/ c.kind = "interrupt" /\ turns' = Cancel(turnMap) /\ overrun' = overrun \cup Overrun(turnMap)
            /\ UNCHANGED <<escorts, nextTurn>>
       \/ c.kind = "interrupt" /\ UNCHANGED <<escorts, turns, nextTurn, overrun>>
  BY <1>12 DEF Dispatch
<1> QED
  BY <1>8, <1>9, <1>10, <1>11, <1>13

(* An upload that is done hands its message to a turn. *)
LEMMA EscortDoneKeeps ==
  ASSUME TurnsInv, UNCHANGED story, NEW m \in Messages, EscortDone(m) PROVE TurnsInv'
<1>1. /\ m \in escorts /\ escorts' = escorts \ {m} /\ Spawn(m, {})
      /\ UNCHANGED <<queue, commands, task, entries, sent, removed, rowGate, rpcs, editors>>
  BY DEF EscortDone, chat, rows, shown
<1>2. Taken(m) /\ TurnsType
  BY <1>1 DEF Taken, TurnsInv
<1>3. /\ \A x : InSpawn(x)' <=> InSpawn(x)
      /\ \A x : InDispatch(x)' <=> InDispatch(x)
  BY <1>1 DEF InSpawn, InDispatch
<1>4. \A x \in Messages : InSpawn(x) \/ InDispatch(x) \/ x \in escorts
                            => InSpawn(x)' \/ InDispatch(x)' \/ x \in escorts' \/ x = m
  BY <1>1, <1>3
<1>5. TurnsPart' /\ \A x \in Messages : (Taken(x)' => Taken(x)) /\ (Taking(x) => Taking(x)')
  BY <1>1, <1>2, <1>3, <1>4, SpawnTaking
<1>6. DOMAIN task' = Tasks /\ \A u \in Tasks : IsTask(task[u])'
  BY <1>1 DEF TurnsInv, TurnsType, IsTask, EditSteps
<1> QED
  BY <1>1, <1>5, <1>6, HandedOn

(* The row taken starts its turn. *)
LEMMA SpawnTakenKeeps ==
  ASSUME TurnsInv, UNCHANGED story, NEW t \in Tasks, SpawnTaken(t) PROVE TurnsInv'
<1> PICK m : m = task[t].msg
  OBVIOUS
<1>1. /\ task[t].pc = "spawn" /\ Spawn(m, {}) /\ Do(t, Free)
      /\ UNCHANGED <<queue, commands, entries, escorts, sent, removed, rowGate, rpcs, editors>>
  BY DEF SpawnTaken, chat, shown
<1>2. m \in Messages /\ Taken(m) /\ TurnsType
  BY <1>1 DEF TurnsInv, TurnsType, IsTask, EditSteps, Taken, InSpawn
<1> PICK f : f = Free
  OBVIOUS
<1>3. IsTask(f) /\ f.pc = "free" /\ Do(t, f)
  <2>1. DOMAIN f = {"pc", "msg", "lease", "todo"} /\ f.pc = "free" /\ IsSeq(f.todo)
    BY AtIs
  <2> QED
    BY <1>1, <2>1 DEF IsTask, EditSteps
<1>4. /\ DOMAIN task' = Tasks /\ \A u \in Tasks : IsTask(task[u])'
      /\ \A x : InSpawn(x)' => InSpawn(x)
      /\ \A x : InSpawn(x) => InSpawn(x)' \/ x = m
      /\ \A x : InDispatch(x) => InDispatch(x)'
  <2>1. /\ DOMAIN task' = Tasks /\ \A u \in Tasks : IsTask(task[u])'
        /\ \A x : InSpawn(x)' => InSpawn(x) \/ (f.pc = "spawn" /\ f.msg = x)
        /\ \A x : InSpawn(x) => InSpawn(x)' \/ (task[t].pc = "spawn" /\ task[t].msg = x)
        /\ \A x : InDispatch(x) => InDispatch(x)' \/ (task[t].pc = "dispatch"
                                                      /\ commands[Head(task[t].todo)].msg = x)
    BY <1>1, <1>2, <1>3, DoHolds
  <2> QED
    BY <1>1, <1>3, <2>1
<1>5. \A x \in Messages : InSpawn(x) \/ InDispatch(x) \/ x \in escorts
                            => InSpawn(x)' \/ InDispatch(x)' \/ x \in escorts' \/ x = m
  BY <1>1, <1>4
<1>6. TurnsPart' /\ \A x \in Messages : (Taken(x)' => Taken(x)) /\ (Taking(x) => Taking(x)')
  BY <1>1, <1>2, <1>4, <1>5, SpawnTaking
<1> QED
  BY <1>1, <1>4, <1>6, HandedOn

------------------------------------------------------------------------------
(* A row leaves the queue: for a task or a turn, or because it is removed. *)
LEMMA RowLeaves ==
  ASSUME TurnsInv, NEW m \in Messages, InQueue(m),
         queue' \in Seq(Messages), Distinct(queue'), \A x : InSeq(queue', x) <=> InQueue(x) /\ x # m,
         UNCHANGED <<story, commands, escorts, entries, sent, overrun>>,
         TurnsPart', DOMAIN task' = Tasks, \A u \in Tasks : IsTask(task[u])',
         DOMAIN rowGate' = Messages, \A q \in rpcs' : q.msg \in Messages,
         \A h \in editors' : h[1] \in Messages,
         \/ removed' = removed /\ (InSpawn(m)' \/ InTurns(m)')
         \/ removed' = removed \cup {m} /\ ~InSpawn(m)' /\ ~Turned(m)',
         \A x \in Messages \ {m} : InSpawn(x)' \/ Turned(x)' => Taken(x),
         \A x \in Messages : /\ InTurns(x) => InTurns(x)'
                             /\ InSpawn(x) => InSpawn(x)'
                             /\ InDispatch(x) => InDispatch(x)'
  PROVE  TurnsInv'
<1>1. m \in sent /\ m \notin removed /\ ~Taken(m)
  BY DEF TurnsInv, Alone
<1>2. TurnsType'
  BY <1>1 DEF TurnsInv, TurnsType, TurnsPart
<1>3. \A x : InQueue(x)' <=> InQueue(x) /\ x # m
  BY QueueIs
<1>4. ASSUME NEW x \in Messages, Taken(x)' PROVE Taken(x) \/ x = m
  BY <1>4 DEF Taken, Commanded
<1>5. m \in removed' => ~Taken(m)'
  BY <1>1 DEF Taken, Commanded
<1>6. ASSUME NEW x \in Messages, Held(x) PROVE Held(x)'
  <2>1. Landed(x) \/ Pending(x) \/ x \in escorts => Held(x)'
    BY DEF Held, Landed, Pending, Ours
  <2>2. InSpawn(x) \/ InDispatch(x) \/ InTurns(x) => Held(x)'
    BY DEF Held
  <2>3. InQueue(x) => Held(x)'
    <3>1. x # m /\ InQueue(x) => Held(x)'
      BY <1>3 DEF Held
    <3>2. x = m => Held(x)'
      BY DEF Held
    <3> QED
      BY <3>1, <3>2
  <2>4. x \in removed \cup overrun => Held(x)'
    BY DEF Held
  <2> QED
    BY <1>6, <2>1, <2>2, <2>3, <2>4 DEF Held
<1>7. \A x \in Messages :
           /\ InQueue(x)' => InQueue(x)
           /\ Taken(x)' => Taken(x) \/ (InQueue(x) /\ ~InQueue(x)')
           /\ x \in removed' => x \in removed \/ (InQueue(x) /\ ~InQueue(x)' /\ ~Taken(x)')
           /\ Held(x) => Held(x)'
  BY <1>3, <1>4, <1>5, <1>6
<1> QED
  BY <1>2, <1>7, StepKeeps

(* The head of the queue, if it is taken. *)
LEMMA HeadIs ==
  ASSUME TurnsType, HeadIsFree, NEW m, m = Head(queue), queue' = AfterTake
  PROVE  /\ m \in Messages /\ InQueue(m) /\ rowGate[m] = 0
         /\ queue' \in Seq(Messages) /\ Distinct(queue') /\ \A x : InSeq(queue', x) <=> InQueue(x) /\ x # m
<1>1. /\ queue \in Seq(Messages) /\ Distinct(queue) /\ queue # <<>> /\ queue' = Tail(queue)
      /\ rowGate[m] = 0
  BY DEF TurnsType, HeadIsFree, AfterTake
<1>2. /\ queue' \in Seq(Messages) /\ Distinct(queue') /\ Head(queue) \in Messages
      /\ InSeq(queue, Head(queue))
      /\ \A x : InSeq(queue', x) <=> InSeq(queue, x) /\ x # Head(queue)
  BY <1>1, TailRows
<1> QED
  BY <1>1, <1>2, InQueueIs

(* A turn that ends takes the head, and carries it from then on. *)
LEMMA TailTakesKeeps ==
  ASSUME TurnsInv, UNCHANGED story, NEW i \in DOMAIN turns, TailTakes(i) PROVE TurnsInv'
<1>1. /\ turns[i].phase = "take" /\ queue' = AfterTake
      /\ UNCHANGED <<commands, task, escorts, entries, sent, removed, overrun, rowGate, rpcs, editors,
                     nextTurn>>
  BY DEF TailTakes, chat, shown, past
<1>2. CASE ~HeadIsFree
  <2>1. Drop(i) /\ UNCHANGED queue
    BY <1>1, <1>2 DEF TailTakes, AfterTake
  <2> QED
    BY <1>1, <2>1, DropKeeps
<1>3. CASE HeadIsFree
  <2> PICK m : m = Head(queue)
    OBVIOUS
  <2>1. /\ m \in Messages /\ InQueue(m) /\ rowGate[m] = 0
        /\ queue' \in Seq(Messages) /\ Distinct(queue') /\ \A x : InSeq(queue', x) <=> InQueue(x) /\ x # m
    BY <1>1, <1>3, HeadIs DEF TurnsInv
  <2> PICK v : v = turns[i]
    OBVIOUS
  <2> DEFINE u == [v EXCEPT !.phase = "spawn", !.msg = m]
  <2>2. turns' = [turns EXCEPT ![i] = u]
    BY <1>3 DEF TailTakes
  <2>3. DOMAIN v = {"msg", "phase", "cancelled"} /\ v.cancelled \in BOOLEAN
    BY DEF TurnsInv, TurnsType, IsTurn
  <2>4. DOMAIN u = DOMAIN v /\ u.phase = "spawn" /\ u.msg = m /\ u.cancelled = v.cancelled
    BY <2>3
  <2> HIDE DEF u
  <2>5. /\ DOMAIN turns' = DOMAIN turns /\ turns'[i] = u
        /\ \A j \in DOMAIN turns \ {i} : turns'[j] = turns[j]
    BY <2>2
  <2>6. IsTurn(u)
    BY <2>1, <2>3, <2>4 DEF IsTurn
  <2>7. TurnsPart'
    BY <1>1, <2>5, <2>6 DEF TurnsInv, TurnsType, TurnsPart
  <2>8. InTurns(m)'
    BY <2>4, <2>5 DEF InTurns
  <2>9. \A x \in Messages : InTurns(x) => InTurns(x)'
    BY <1>1, <2>5 DEF InTurns
  <2>10. ASSUME NEW x \in Messages \ {m}, InSpawn(x)' \/ Turned(x)' PROVE Taken(x)
    <3>1. Turned(x)' => Turned(x)
      BY <2>4, <2>5 DEF Turned
    <3>2. InSpawn(x)' <=> InSpawn(x)
      BY <1>1 DEF InSpawn
    <3> QED
      BY <2>10, <3>1, <3>2 DEF Taken
  <2>11. \A x \in Messages : (InSpawn(x) => InSpawn(x)') /\ (InDispatch(x) => InDispatch(x)')
    BY <1>1 DEF InSpawn, InDispatch
  <2>12. /\ DOMAIN task' = Tasks /\ \A y \in Tasks : IsTask(task[y])'
         /\ DOMAIN rowGate' = Messages /\ (\A q \in rpcs' : q.msg \in Messages)
         /\ \A h \in editors' : h[1] \in Messages
    BY <1>1 DEF TurnsInv, TurnsType, IsTask, EditSteps
  <2> QED
    BY <1>1, <2>1, <2>7, <2>8, <2>9, <2>10, <2>11, <2>12, RowLeaves
<1> QED
  BY <1>2, <1>3

(* A row taken by a task, which starts its turn next. *)
LEMMA TaskTakes ==
  ASSUME TurnsInv, NEW m \in Messages, InQueue(m),
         queue' \in Seq(Messages), Distinct(queue'), \A x : InSeq(queue', x) <=> InQueue(x) /\ x # m,
         NEW t \in Tasks, Do(t, At("spawn", m)), task[t].pc \notin {"spawn", "dispatch"},
         UNCHANGED <<story, commands, escorts, entries, sent, removed, overrun, turns, nextTurn, rowGate,
                     editors>>,
         \A q \in rpcs' : q.msg \in Messages
  PROVE  TurnsInv'
<1> PICK r : r = At("spawn", m)
  OBVIOUS
<1>1. IsTask(r) /\ r.pc = "spawn" /\ r.msg = m /\ Do(t, r)
  <2>1. DOMAIN r = {"pc", "msg", "lease", "todo"} /\ r.pc = "spawn" /\ IsSeq(r.todo) /\ r.msg = m
    BY AtIs
  <2> QED
    BY <2>1 DEF IsTask, EditSteps
<1>2. /\ DOMAIN task' = Tasks /\ \A u \in Tasks : IsTask(task[u])'
      /\ \A x : InSpawn(x)' => InSpawn(x) \/ x = m
      /\ \A x : InSpawn(x) => InSpawn(x)'
      /\ \A x : InDispatch(x) => InDispatch(x)'
      /\ InSpawn(m)'
  <2>1. /\ DOMAIN task' = Tasks /\ \A u \in Tasks : IsTask(task[u])'
        /\ \A x : InSpawn(x)' => InSpawn(x) \/ (r.pc = "spawn" /\ r.msg = x)
        /\ \A x : InSpawn(x) => InSpawn(x)' \/ (task[t].pc = "spawn" /\ task[t].msg = x)
        /\ \A x : InDispatch(x) => InDispatch(x)' \/ (task[t].pc = "dispatch"
                                                      /\ commands[Head(task[t].todo)].msg = x)
        /\ \A x : r.pc = "spawn" /\ r.msg = x => InSpawn(x)'
    BY <1>1, DoHolds DEF TurnsInv
  <2> QED
    BY <1>1, <2>1
<1>3. TurnsPart' /\ \A x : (Turned(x)' <=> Turned(x)) /\ (InTurns(x)' <=> InTurns(x))
  BY DEF TurnsInv, TurnsType, TurnsPart, Turned, InTurns
<1>4. \A x \in Messages \ {m} : InSpawn(x)' \/ Turned(x)' => Taken(x)
  BY <1>2, <1>3 DEF Taken
<1>5. DOMAIN rowGate' = Messages /\ \A h \in editors' : h[1] \in Messages
  BY DEF TurnsInv, TurnsType
<1> QED
  BY <1>2, <1>3, <1>4, <1>5, RowLeaves

(* A row removed, by a task that holds nothing. *)
LEMMA TaskRemoves ==
  ASSUME TurnsInv, NEW m \in Messages, InQueue(m),
         queue' \in Seq(Messages), Distinct(queue'), \A x : InSeq(queue', x) <=> InQueue(x) /\ x # m,
         NEW t \in Tasks, NEW r, IsTask(r), Do(t, r), task[t].pc \notin {"spawn", "dispatch"},
         r.pc \notin {"spawn", "dispatch"}, removed' = removed \cup {m},
         UNCHANGED <<story, commands, escorts, entries, sent, overrun, turns, nextTurn, editors>>,
         DOMAIN rowGate' = Messages, \A q \in rpcs' : q.msg \in Messages
  PROVE  TurnsInv'
<1>1. /\ DOMAIN task' = Tasks /\ \A u \in Tasks : IsTask(task[u])'
      /\ \A x : InSpawn(x)' => InSpawn(x)
      /\ \A x : InSpawn(x) => InSpawn(x)'
      /\ \A x : InDispatch(x) => InDispatch(x)'
  <2>1. /\ DOMAIN task' = Tasks /\ \A u \in Tasks : IsTask(task[u])'
        /\ \A x : InSpawn(x)' => InSpawn(x) \/ (r.pc = "spawn" /\ r.msg = x)
        /\ \A x : InSpawn(x) => InSpawn(x)' \/ (task[t].pc = "spawn" /\ task[t].msg = x)
        /\ \A x : InDispatch(x) => InDispatch(x)' \/ (task[t].pc = "dispatch"
                                                      /\ commands[Head(task[t].todo)].msg = x)
    BY DoHolds DEF TurnsInv
  <2> QED
    BY <2>1
<1>2. TurnsPart' /\ \A x : (Turned(x)' <=> Turned(x)) /\ (InTurns(x)' <=> InTurns(x))
  BY DEF TurnsInv, TurnsType, TurnsPart, Turned, InTurns
<1>3. ~InSpawn(m)' /\ ~Turned(m)'
  BY <1>1, <1>2 DEF TurnsInv, Alone, Taken
<1>4. \A x \in Messages \ {m} : InSpawn(x)' \/ Turned(x)' => Taken(x)
  BY <1>1, <1>2 DEF Taken
<1>5. \A h \in editors' : h[1] \in Messages
  BY DEF TurnsInv, TurnsType
<1> QED
  BY <1>1, <1>2, <1>3, <1>4, <1>5, RowLeaves

(* Looking at the turn map takes nothing. *)
LEMMA CheckQueueKeeps ==
  ASSUME TurnsInv, UNCHANGED story, NEW t \in Tasks, CheckQueue(t) PROVE TurnsInv'
<1> PICK r : r = IF turnMap = 0 THEN At("take", NoMsg) ELSE Free
  OBVIOUS
<1>1. IsTask(r) /\ r.pc \in {"take", "free"}
  BY AtIs DEF IsTask, EditSteps
<1>2. /\ Do(t, r) /\ task[t].pc = "check"
      /\ UNCHANGED <<queue, commands, turns, nextTurn, escorts, entries, sent, removed, overrun, rowGate,
                     rpcs, editors>>
  BY DEF CheckQueue, chat, rows, shown, past
<1>3. DOMAIN rowGate' = Messages /\ (\A q \in rpcs' : q.msg \in Messages)
      /\ \A h \in editors' : h[1] \in Messages
  BY <1>2 DEF TurnsInv, TurnsType
<1> QED
  BY <1>1, <1>2, <1>3, TaskOnly

(* Taking the head hands its message to the task that takes it. *)
LEMMA TakeHeadKeeps ==
  ASSUME TurnsInv, UNCHANGED story, NEW t \in Tasks, TakeHead(t) PROVE TurnsInv'
<1>1. /\ task[t].pc = "take" /\ queue' = AfterTake
      /\ UNCHANGED <<commands, turns, nextTurn, escorts, entries, sent, removed, overrun, rowGate, rpcs,
                     editors>>
  BY DEF TakeHead, chat, shown, past
<1>2. DOMAIN rowGate' = Messages /\ (\A q \in rpcs' : q.msg \in Messages)
      /\ \A h \in editors' : h[1] \in Messages
  BY <1>1 DEF TurnsInv, TurnsType
<1>3. CASE ~HeadIsFree
  <2> PICK r : r = Free
    OBVIOUS
  <2>1. IsTask(r) /\ r.pc = "free"
    BY AtIs DEF IsTask, EditSteps
  <2>2. Do(t, r) /\ UNCHANGED queue
    BY <1>1, <1>3 DEF TakeHead, AfterTake
  <2> QED
    BY <1>1, <1>2, <2>1, <2>2, TaskOnly
<1>4. CASE HeadIsFree
  <2> PICK m : m = Head(queue)
    OBVIOUS
  <2>1. /\ m \in Messages /\ InQueue(m)
        /\ queue' \in Seq(Messages) /\ Distinct(queue') /\ \A x : InSeq(queue', x) <=> InQueue(x) /\ x # m
    BY <1>1, <1>4, HeadIs DEF TurnsInv
  <2>2. Do(t, At("spawn", m))
    BY <1>4 DEF TakeHead
  <2> QED
    BY <1>1, <1>2, <2>1, <2>2, TaskTakes
<1> QED
  BY <1>3, <1>4

(* The requests on a row. *)
LEMMA RpcKeeps ==
  ASSUME TurnsInv, UNCHANGED story, NEW t \in Tasks, RpcStart(t) PROVE TurnsInv'
<1>1. PICK q \in rpcs : /\ rpcs' = rpcs \ {q}
                        /\ RpcSend(t, q) \/ RpcRemove(t, q) \/ RpcBegin(t, q) \/ RpcFinish(t, q)
  BY DEF RpcStart
<1> PICK m : m = q.msg
  OBVIOUS
<1> PICK f : f = Free
  OBVIOUS
<1>2. IsTask(f) /\ f.pc = "free"
  BY AtIs DEF IsTask, EditSteps
<1>3. /\ task[t].pc = "free"
      /\ UNCHANGED <<commands, turns, nextTurn, escorts, entries, sent, overrun>>
  BY AtIs DEF RpcStart, chat, shown
<1>4. m \in Messages /\ \A x \in rpcs' : x.msg \in Messages
  BY <1>1 DEF TurnsInv, TurnsType
<1>5. DOMAIN rowGate = Messages /\ \A h \in editors : h[1] \in Messages
  BY DEF TurnsInv, TurnsType
<1>6. CASE RpcSend(t, q)
  <2>1. UNCHANGED <<rowGate, editors, removed>>
    BY <1>6 DEF RpcSend
  <2>2. CASE Takable(m) /\ queue' = Without(m) /\ Do(t, At("spawn", m))
    <3>1. /\ queue' \in Seq(Messages) /\ Distinct(queue')
          /\ \A x : InSeq(queue', x) <=> InQueue(x) /\ x # m
      BY <2>2, WithoutIs DEF TurnsInv
    <3>2. InQueue(m)
      BY <2>2 DEF Takable
    <3> QED
      BY <1>3, <1>4, <2>1, <2>2, <3>1, <3>2, TaskTakes
  <2>3. CASE Do(t, f) /\ UNCHANGED queue
    BY <1>2, <1>3, <1>4, <1>5, <2>1, <2>3, TaskOnly
  <2> QED
    BY <1>6, <2>2, <2>3 DEF RpcSend
<1>7. CASE RpcRemove(t, q)
  <2>1. /\ queue' = Without(m) /\ removed' = IF InQueue(m) THEN removed \cup {m} ELSE removed
        /\ Do(t, f) /\ UNCHANGED editors
    BY <1>7 DEF RpcRemove
  <2>2. DOMAIN rowGate' = Messages
    BY <1>5, <1>7 DEF RpcRemove
  <2>3. CASE InQueue(m)
    <3>1. /\ queue' \in Seq(Messages) /\ Distinct(queue')
          /\ \A x : InSeq(queue', x) <=> InQueue(x) /\ x # m
      BY <2>1, WithoutIs DEF TurnsInv
    <3>2. removed' = removed \cup {m} /\ UNCHANGED editors /\ Do(t, f)
      BY <2>1, <2>3
    <3> QED
      BY <1>2, <1>3, <1>4, <2>2, <2>3, <3>1, <3>2, TaskRemoves
  <2>4. CASE ~InQueue(m)
    <3>1. UNCHANGED <<queue, removed>>
      BY <2>1, <2>4 DEF Without
    <3>2. \A h \in editors' : h[1] \in Messages
      BY <1>5, <2>1
    <3> QED
      BY <1>2, <1>3, <1>4, <2>1, <2>2, <3>1, <3>2, TaskOnly
  <2> QED
    BY <2>3, <2>4
<1>8. ASSUME NEW r, IsTask(r), r.pc \in {"free", "grant", "commit", "discard"}, Do(t, r),
             UNCHANGED <<queue, rowGate, editors, removed>>
      PROVE  TurnsInv'
  <2>1. r.pc \notin {"spawn", "dispatch"} /\ task[t].pc \notin {"spawn", "dispatch"}
    BY <1>3, <1>8
  <2>2. DOMAIN rowGate' = Messages /\ \A h \in editors' : h[1] \in Messages
    BY <1>5, <1>8
  <2> QED
    BY <1>3, <1>4, <1>8, <2>1, <2>2, TaskOnly
<1>9. CASE RpcBegin(t, q)
  <2> PICK r : r = IF Takable(m) THEN At("grant", m) ELSE f
    OBVIOUS
  <2>1. IsTask(r) /\ r.pc \in {"free", "grant", "commit", "discard"}
    BY <1>2, <1>4, AtIs DEF IsTask, EditSteps
  <2>2. Do(t, r) /\ UNCHANGED <<queue, rowGate, editors, removed>>
    BY <1>9 DEF RpcBegin
  <2> QED
    BY <1>8, <2>1, <2>2
<1>10. CASE RpcFinish(t, q)
  <2> PICK a : a = At(q.op, m)
    OBVIOUS
  <2> PICK l : l = q.lease
    OBVIOUS
  <2> PICK r : r = [a EXCEPT !.lease = l]
    OBVIOUS
  <2>1. q.op \in {"commit", "discard"} /\ UNCHANGED <<queue, rowGate, editors, removed>>
    BY <1>10 DEF RpcFinish, Ending
  <2>2. DOMAIN a = {"pc", "msg", "lease", "todo"} /\ a.pc = q.op /\ a.msg = m /\ IsSeq(a.todo)
    BY AtIs
  <2>3. CASE Do(t, r)
    <3>1. DOMAIN r = {"pc", "msg", "lease", "todo"} /\ r.pc = q.op /\ r.msg = m /\ r.todo = a.todo
      BY <2>2
    <3>2. IsTask(r)
      BY <1>4, <2>1, <2>2, <3>1 DEF IsTask, EditSteps
    <3> QED
      BY <1>8, <2>1, <2>3, <3>1, <3>2
  <2>4. CASE Do(t, f)
    BY <1>2, <1>8, <2>1, <2>4
  <2> QED
    BY <1>10, <2>3, <2>4 DEF RpcFinish
<1> QED
  BY <1>1, <1>6, <1>7, <1>9, <1>10

(* A step of an edit's task that leaves the row to the task. *)
LEMMA EditOnly ==
  ASSUME TurnsInv, UNCHANGED story, NEW t \in Tasks, task[t].pc \in EditSteps,
         NEW r, IsTask(r), r.pc \in {"free"} \cup EditSteps, Do(t, r),
         DOMAIN rowGate' = Messages, \A h \in editors' : h[1] \in Messages,
         UNCHANGED <<queue, commands, turns, nextTurn, escorts, entries, sent, removed, overrun, rpcs>>
  PROVE  TurnsInv'
<1>1. r.pc \notin {"spawn", "dispatch"} /\ task[t].pc \notin {"spawn", "dispatch"}
  BY DEF EditSteps
<1>2. \A q \in rpcs' : q.msg \in Messages
  BY DEF TurnsInv, TurnsType
<1> QED
  BY <1>1, <1>2, TaskOnly

(* The gate of a row is written while its task holds the edit. *)
LEMMA GateRowKeeps ==
  ASSUME TurnsInv, UNCHANGED story, NEW t \in Tasks, GateRow(t) PROVE TurnsInv'
<1> PICK m : m = task[t].msg
  OBVIOUS
<1> PICK a : a = At("lease", m)
  OBVIOUS
<1> PICK r : r = [a EXCEPT !.lease = nextLease]
  OBVIOUS
<1>1. /\ task[t].pc = "grant" /\ Do(t, r) /\ UNCHANGED editors
      /\ rowGate' = IF InQueue(m) THEN [rowGate EXCEPT ![m] = nextLease] ELSE rowGate
      /\ UNCHANGED <<queue, commands, turns, nextTurn, escorts, entries, sent, removed, overrun, rpcs>>
  BY DEF GateRow, chat, shown, past
<1>2. m \in Messages
  BY <1>1 DEF TurnsInv, TurnsType, IsTask, EditSteps
<1>3. DOMAIN a = {"pc", "msg", "lease", "todo"} /\ a.pc = "lease" /\ a.msg = m /\ IsSeq(a.todo)
  BY AtIs
<1>4. DOMAIN r = {"pc", "msg", "lease", "todo"} /\ r.pc = "lease" /\ r.msg = m /\ r.todo = a.todo
  BY <1>3
<1>5. IsTask(r)
  BY <1>2, <1>3, <1>4 DEF IsTask, EditSteps
<1>6. DOMAIN rowGate' = Messages /\ \A h \in editors' : h[1] \in Messages
  BY <1>1 DEF TurnsInv, TurnsType
<1> QED
  BY <1>1, <1>4, <1>5, <1>6, EditOnly DEF EditSteps

(* The lease is recorded and the client told. *)
LEMMA GrantLeaseKeeps ==
  ASSUME TurnsInv, UNCHANGED story, NEW t \in Tasks, GrantLease(t) PROVE TurnsInv'
<1> PICK m : m = task[t].msg
  OBVIOUS
<1> PICK l : l = task[t].lease
  OBVIOUS
<1> PICK f : f = Free
  OBVIOUS
<1>1. /\ task[t].pc = "lease" /\ Do(t, f) /\ editors' = editors \cup {<<m, l>>}
      /\ UNCHANGED rowGate
      /\ UNCHANGED <<queue, commands, turns, nextTurn, escorts, entries, sent, removed, overrun, rpcs>>
  BY DEF GrantLease, chat, shown, past
<1>2. IsTask(f) /\ f.pc = "free"
  BY AtIs DEF IsTask, EditSteps
<1>3. m \in Messages
  BY <1>1 DEF TurnsInv, TurnsType, IsTask, EditSteps
<1>4. DOMAIN rowGate' = Messages
  BY <1>1 DEF TurnsInv, TurnsType
<1>5. ASSUME NEW h \in editors' PROVE h[1] \in Messages
  <2>1. h \in editors => h[1] \in Messages
    BY DEF TurnsInv, TurnsType
  <2>2. h = <<m, l>> => h[1] = m
    OBVIOUS
  <2> QED
    BY <1>1, <1>3, <2>1, <2>2
<1> QED
  BY <1>1, <1>2, <1>4, <1>5, EditOnly DEF EditSteps

(* The host forgets a lease and still holds the row. *)
LEMMA DropLeaseKeeps ==
  ASSUME TurnsInv, UNCHANGED story, NEW t \in Tasks, DropLease(t) PROVE TurnsInv'
<1> PICK m : m = task[t].msg
  OBVIOUS
<1> PICK r : r = At(Ending[task[t].pc], m)
  OBVIOUS
<1>1. /\ task[t].pc \in {"commit", "discard"} /\ Do(t, r) /\ UNCHANGED <<editors, rowGate>>
      /\ UNCHANGED <<queue, commands, turns, nextTurn, escorts, entries, sent, removed, overrun, rpcs>>
  BY DEF DropLease, Ending, chat, shown, past
<1>2. m \in Messages
  BY <1>1 DEF TurnsInv, TurnsType, IsTask, EditSteps
<1>3. DOMAIN r = {"pc", "msg", "lease", "todo"} /\ r.pc = Ending[task[t].pc] /\ r.msg = m /\ IsSeq(r.todo)
  BY AtIs
<1>4. r.pc \in {"committing", "discarding"}
  BY <1>1, <1>3 DEF Ending
<1>5. IsTask(r)
  BY <1>2, <1>3, <1>4 DEF IsTask, EditSteps
<1>6. DOMAIN rowGate' = Messages /\ \A h \in editors' : h[1] \in Messages
  BY <1>1 DEF TurnsInv, TurnsType
<1> QED
  BY <1>1, <1>4, <1>5, <1>6, EditOnly DEF EditSteps

(* Ending an edit keeps the row, frees it or hands it on. *)
LEMMA EndEditKeeps ==
  ASSUME TurnsInv, UNCHANGED story, NEW t \in Tasks, EndEdit(t) PROVE TurnsInv'
<1> PICK m : m = task[t].msg
  OBVIOUS
<1> PICK r : r = AfterEdit
  OBVIOUS
<1>1. /\ task[t].pc \in {"committing", "discarding"} /\ Do(t, r) /\ rowGate' = [rowGate EXCEPT ![m] = 0]
      /\ \/ InQueue(m) /\ queue' = Without(m) /\ removed' = removed \cup {m}
         \/ UNCHANGED <<queue, removed>>
      /\ UNCHANGED <<commands, turns, nextTurn, escorts, entries, sent, overrun, rpcs, editors>>
  BY DEF EndEdit, chat, shown
<1>2. IsTask(r) /\ r.pc = "check"
  BY AtIs DEF IsTask, EditSteps, AfterEdit
<1>3. m \in Messages
  BY <1>1 DEF TurnsInv, TurnsType, IsTask, EditSteps
<1>4. DOMAIN rowGate' = Messages /\ (\A q \in rpcs' : q.msg \in Messages)
      /\ \A h \in editors' : h[1] \in Messages
  BY <1>1 DEF TurnsInv, TurnsType
<1>5. CASE InQueue(m) /\ queue' = Without(m) /\ removed' = removed \cup {m}
  <2>1. /\ queue' \in Seq(Messages) /\ Distinct(queue')
        /\ \A x : InSeq(queue', x) <=> InQueue(x) /\ x # m
    BY <1>5, WithoutIs DEF TurnsInv
  <2> QED
    BY <1>1, <1>2, <1>3, <1>4, <1>5, <2>1, TaskRemoves
<1>6. CASE UNCHANGED <<queue, removed>>
  BY <1>1, <1>2, <1>4, <1>6, TaskOnly
<1> QED
  BY <1>1, <1>5, <1>6

------------------------------------------------------------------------------
(* The invariant holds at the start and is kept by every step. *)
LEMMA TurnsInvInit == TurnsInit => TurnsInv
<1> SUFFICES ASSUME TurnsInit PROVE TurnsInv
  OBVIOUS
<1>1. /\ queue = <<>> /\ commands = <<>> /\ turns = <<>> /\ escorts = {} /\ sent = {} /\ removed = {}
      /\ \A t \in Tasks : task[t] = Free
      /\ \A m \in Messages : entries[m] = 0
      /\ DOMAIN task = Tasks /\ DOMAIN entries = Messages /\ DOMAIN rowGate = Messages
      /\ nextTurn = 1 /\ rpcs = {} /\ editors = {} /\ story \in TurnStories
  BY DEF TurnsInit
<1>2. DOMAIN queue = {} /\ DOMAIN commands = {} /\ DOMAIN turns = {} /\ queue \in Seq(Messages)
      /\ IsSeq(commands)
  BY <1>1 DEF IsSeq
<1>3. \A t \in Tasks : IsTask(task[t]) /\ task[t].pc = "free"
  BY <1>1, AtIs DEF IsTask, EditSteps
<1>4. TurnsType
  BY <1>1, <1>2, <1>3 DEF TurnsType, Distinct
<1>5. \A m \in Messages : ~InQueue(m) /\ ~Taken(m)
  BY <1>1, <1>2, <1>3, InQueueIs DEF InSeq, Taken, Commanded, InSpawn, Turned
<1> QED
  BY <1>1, <1>4, <1>5 DEF TurnsInv, Alone

(* Every step of a turn keeps the invariant. *)
LEMMA TurnStepKeeps ==
  ASSUME TurnsInv, UNCHANGED story, NEW i \in DOMAIN turns, TurnStep(i) PROVE TurnsInv'
BY BeginTurnKeeps, AdoptKeeps, WorkingKeeps, TailKeeps, TailTakesKeeps, TailSpawnsKeeps DEF TurnStep

(* Every step of a task keeps the invariant. *)
LEMMA TaskStepKeeps ==
  ASSUME TurnsInv, UNCHANGED story, NEW t \in Tasks, TaskStep(t) PROVE TurnsInv'
BY DrainStartKeeps, ClaimKeeps, DispatchKeeps, CheckQueueKeeps, TakeHeadKeeps, SpawnTakenKeeps, RpcKeeps,
   GateRowKeeps, GrantLeaseKeeps, DropLeaseKeeps, EndEditKeeps DEF TaskStep

(* Every step of a user keeps the invariant. *)
LEMMA UserStepKeeps ==
  ASSUME TurnsInv, UNCHANGED story, UserStep PROVE TurnsInv'
<1>1. ASSUME NEW m \in Messages,
             Send(m) \/ Enqueue(m) \/ Retry(m) \/ Move(m) \/ BeginEdit(m)
               \/ \E op \in {"send", "remove"} : QueueAction(op, m)
      PROVE  TurnsInv'
  BY <1>1, SendKeeps, EnqueueKeeps, RetryKeeps, MoveKeeps, BeginEditKeeps, QueueActionKeeps
<1>2. ASSUME NEW h \in editors, NEW op \in {"commit", "discard"}, FinishEdit(h[1], h[2], op)
      PROVE  TurnsInv'
  BY <1>2, FinishEditKeeps
<1>3. ASSUME NEW i \in DOMAIN commands, Expire(i) PROVE TurnsInv'
  BY <1>3, ExpireKeeps
<1>4. Interrupt \/ Respond => TurnsInv'
  BY CommandKeeps
<1> QED
  BY <1>1, <1>2, <1>3, <1>4 DEF UserStep

(* The slots a story uses are slots. *)
LEMMA StoryTasks == ASSUME TurnsInv PROVE story.tasks \subseteq Tasks
BY TurnsAssumption DEF TurnsInv, TurnsType

(* Every step keeps the invariant. *)
LEMMA TurnsInvStep == TurnsInv /\ [TurnsNext]_turnsVars => TurnsInv'
<1> SUFFICES ASSUME TurnsInv, [TurnsNext]_turnsVars PROVE TurnsInv'
  OBVIOUS
<1>1. CASE UNCHANGED turnsVars
  <2>1. UNCHANGED <<story, queue, commands, task, escorts, turns, nextTurn, entries, sent, removed,
                    overrun, rowGate, rpcs, editors>>
    BY <1>1 DEF turnsVars, chat, rows, host, shown, past
  <2>2. DOMAIN rowGate' = Messages /\ (\A r \in rpcs' : r.msg \in Messages)
        /\ \A h \in editors' : h[1] \in Messages
    BY <2>1 DEF TurnsInv, TurnsType
  <2> QED
    BY <2>1, <2>2, QuietKeeps
<1>2. ASSUME UNCHANGED story, HostStep PROVE TurnsInv'
  <2>1. ASSUME NEW t \in story.tasks, TaskStep(t) PROVE TurnsInv'
    <3>1. t \in Tasks
      BY StoryTasks
    <3> QED
      BY <1>2, <2>1, <3>1, TaskStepKeeps
  <2> QED
    BY <1>2, <2>1, TurnStepKeeps, EscortDoneKeeps DEF HostStep
<1>3. CASE TurnsNext
  BY <1>2, <1>3, UserStepKeeps, PathKeeps DEF TurnsNext
<1> QED
  BY <1>1, <1>3

(* The invariant holds of every reachable state. *)
LEMMA TurnsAlways == TurnsSpec => []TurnsInv
BY TurnsInvInit, TurnsInvStep, PTL DEF TurnsSpec

(* What the invariant is for. *)
LEMMA CarriedIs ==
  ASSUME NEW m
  PROVE  Carried(m) <=> InSpawn(m) \/ InDispatch(m) \/ InTurns(m) \/ m \in escorts
BY DEF Carried, InSpawn, InDispatch, InTurns

(* The invariant says that each message is delivered once or removed. *)
LEMMA TurnsInvDelivers == TurnsInv => DeliveredOnce
<1> SUFFICES ASSUME TurnsInv PROVE DeliveredOnce
  OBVIOUS
<1>1. NothingDropped
  BY CarriedIs DEF TurnsInv, NothingDropped, Held
<1>2. ASSUME NEW m \in Messages PROVE entries[m] <= 1 /\ (m \in removed => entries[m] = 0 /\ ~Carried(m))
  <2>1. entries[m] \in {0, 1}
    BY DEF TurnsInv, TurnsType
  <2>2. m \in removed => ~Taken(m)
    BY DEF TurnsInv, Alone
  <2>3. ASSUME InDispatch(m) PROVE Commanded(m)
    <3>1. PICK t \in Tasks : task[t].pc = "dispatch" /\ commands[Head(task[t].todo)].msg = m
      BY <2>3 DEF InDispatch
    <3>2. Head(task[t].todo) \in DOMAIN commands
      BY <3>1, DispatchHead DEF TurnsInv
    <3> QED
      BY <3>1, <3>2 DEF Commanded
  <2>4. InTurns(m) => Turned(m)
    BY DEF InTurns, Turned
  <2>5. Carried(m) => Taken(m)
    BY <2>3, <2>4, CarriedIs DEF Taken
  <2>6. m \in removed => ~(entries[m] > 0)
    BY <2>2 DEF Taken
  <2> QED
    BY <2>1, <2>2, <2>5, <2>6
<1> QED
  BY <1>1, <1>2 DEF DeliveredOnce, LandsOnce

(* However many messages, tasks and turns there are, and however they interleave,
   a message the user sent is held by the ledger, the queue, a task, a turn or an
   upload until it is in the transcript, removed or overrun; it is written once
   and never after its removal. *)
THEOREM DeliveredOnceAlways == TurnsSpec => []DeliveredOnce
BY TurnsAlways, TurnsInvDelivers, PTL

(* A row leaves the queue ungated, or removed. *)
LEMMA GateStep ==
  ASSUME TurnsInv, TurnsNext, NEW m \in Messages, InQueue(m), rowGate[m] # 0, ~InSeq(queue', m)
  PROVE  m \in removed'
<1>1. queue \in Seq(Messages) /\ TurnsType
  BY DEF TurnsInv, TurnsType
<1>2. InSeq(queue, m)
  BY InQueueIs
<1>3. queue' # queue
  BY <1>2
<1>4. ASSUME NEW x \in Messages, queue' = Append(queue, x) PROVE FALSE
  <2> PICK q, r : q = queue /\ r = queue'
    OBVIOUS
  <2>1. Rows(q) /\ Added(q, x, r)
    BY <1>1, <1>4 DEF Rows, Added
  <2>2. \A y : InSeq(r, y) <=> InSeq(q, y) \/ y = x
    BY <2>1, AppendAdds
  <2> QED
    BY <1>2, <2>2
<1>5. ASSUME NEW x \in Messages, Move(x) PROVE FALSE
  <2> PICK r : r = Without(x)
    OBVIOUS
  <2>1. InQueue(x) /\ rowGate[x] = 0 /\ \E k \in 1..Len(queue) : queue' = InsertAt(r, k, x)
    BY <1>5 DEF Move
  <2>2. PICK k \in 1..Len(queue) : queue' = InsertAt(r, k, x)
    BY <2>1
  <2>3. /\ r \in Seq(Messages) /\ Distinct(r) /\ \A y : InSeq(r, y) <=> InQueue(y) /\ y # x
        /\ Len(r) = Len(queue) - 1
    BY <1>1, <2>1, WithoutIs
  <2>4. k \in 1..(Len(r) + 1) /\ ~InSeq(r, x)
    BY <1>1, <2>3
  <2>5. \A y : InSeq(queue', y) <=> InSeq(r, y) \/ y = x
    BY <2>2, <2>3, <2>4, InsertAtRows
  <2> QED
    BY <2>1, <2>3, <2>5
<1>6. ASSUME HeadIsFree, queue' = AfterTake PROVE FALSE
  <2> PICK x : x = Head(queue)
    OBVIOUS
  <2>1. rowGate[x] = 0 /\ \A y : InSeq(queue', y) <=> InQueue(y) /\ y # x
    BY <1>1, <1>6, HeadIs
  <2> QED
    BY <2>1
<1>7. ASSUME queue' = AfterTake PROVE FALSE
  BY <1>3, <1>6, <1>7 DEF AfterTake
<1>8. ASSUME NEW x, queue' = Without(x) PROVE m = x
  <2>1. \A y : InSeq(queue', y) <=> InQueue(y) /\ y # x
    BY <1>1, <1>8, WithoutIs
  <2> QED
    BY <2>1
<1>9. ASSUME NEW x \in Messages, Send(x) \/ Enqueue(x) PROVE FALSE
  BY <1>3, <1>4, <1>9 DEF Send, Enqueue
<1>10. ASSUME NEW t, RpcStart(t) PROVE m \in removed'
  <2>1. PICK q \in rpcs : RpcSend(t, q) \/ RpcRemove(t, q) \/ RpcBegin(t, q) \/ RpcFinish(t, q)
    BY <1>10 DEF RpcStart
  <2>2. ~RpcSend(t, q)
    <3> SUFFICES ASSUME RpcSend(t, q) PROVE FALSE
      OBVIOUS
    <3>1. rowGate[q.msg] = 0 /\ queue' = Without(q.msg)
      BY <1>3 DEF RpcSend, Takable
    <3> QED
      BY <1>8, <3>1
  <2>3. ~RpcBegin(t, q) /\ ~RpcFinish(t, q)
    BY <1>3 DEF RpcBegin, RpcFinish
  <2>4. /\ queue' = Without(q.msg)
        /\ removed' = IF InQueue(q.msg) THEN removed \cup {q.msg} ELSE removed
    BY <2>1, <2>2, <2>3 DEF RpcRemove
  <2>5. m = q.msg
    BY <1>8, <2>4
  <2> QED
    BY <2>4, <2>5
<1>11. ASSUME NEW t, EndEdit(t) PROVE m \in removed'
  <2> PICK x : x = task[t].msg
    OBVIOUS
  <2>1. queue' = Without(x) /\ removed' = removed \cup {x}
    BY <1>3, <1>11 DEF EndEdit
  <2> QED
    BY <1>8, <2>1
<1>12. ASSUME NEW i, TurnStep(i) PROVE FALSE
  <2>1. ~TailTakes(i)
    BY <1>7 DEF TailTakes
  <2> QED
    BY <1>3, <1>12, <2>1 DEF TurnStep, BeginTurn, AdoptPrompt, WorkTurn, EndReply, CheckCurrent,
       SettleStatus, TailTurn, TailSpawns, rows
<1>13. ASSUME NEW t, TaskStep(t) PROVE m \in removed'
  <2>1. ~TakeHead(t)
    BY <1>7 DEF TakeHead
  <2> QED
    BY <1>3, <1>10, <1>11, <1>13, <2>1 DEF TaskStep, DrainStart, Claim, Dispatch, CheckQueue, SpawnTaken,
       GateRow, GrantLease, DropLease, rows
<1>14. ASSUME HostStep PROVE m \in removed'
  BY <1>3, <1>12, <1>13, <1>14 DEF HostStep, EscortDone, rows
<1>15. ASSUME UserStep PROVE FALSE
  <2>1. ASSUME NEW x \in Messages, Retry(x) \/ BeginEdit(x) \/ \E op \in {"send", "remove"} : QueueAction(op, x)
        PROVE  FALSE
    BY <1>3, <2>1 DEF Retry, BeginEdit, QueueAction, rows
  <2>2. ~Interrupt /\ ~Respond
    BY <1>3 DEF Interrupt, Respond, rows
  <2>3. ASSUME NEW h \in editors, NEW op, FinishEdit(h[1], h[2], op) PROVE FALSE
    BY <1>3, <2>3 DEF FinishEdit
  <2>4. ASSUME NEW i, Expire(i) PROVE FALSE
    BY <1>3, <2>4 DEF Expire, rows
  <2> QED
    BY <1>5, <1>9, <1>15, <2>1, <2>2, <2>3, <2>4 DEF UserStep
<1>16. ~LosePath /\ ~ShowDown /\ ~RegainPath
  BY <1>3 DEF LosePath, ShowDown, RegainPath, rows
<1> QED
  BY <1>14, <1>15, <1>16 DEF TurnsNext

(* However the drains, the requests and the turns interleave, a row an editor
   holds leaves the queue only when that edit discards it or the user removes
   it. *)
THEOREM GateHoldsAlways == TurnsSpec => GateHolds
<1> DEFINE Step == \A m \in Messages :
             InQueue(m) /\ rowGate[m] # 0 /\ m \notin ToSet(queue') => m \in removed'
<1>1. TurnsInv /\ [TurnsNext]_turnsVars => [Step]_turnsVars
  <2> SUFFICES ASSUME TurnsInv, TurnsNext, NEW m \in Messages, InQueue(m), rowGate[m] # 0,
                      m \notin ToSet(queue')
               PROVE  m \in removed'
    OBVIOUS
  <2>1. ~InSeq(queue', m)
    BY DEF ToSet, InSeq
  <2> QED
    BY <2>1, GateStep
<1>2. TurnsInv /\ [TurnsNext]_turnsVars => TurnsInv'
  BY TurnsInvStep
<1>3. TurnsSpec => [][Step]_turnsVars
  BY TurnsInvInit, <1>1, <1>2, PTL DEF TurnsSpec
<1> QED
  BY <1>3 DEF GateHolds
=============================================================================

--------------------------- MODULE HostLink_proofs --------------------------
(***************************************************************************)
(* HostLink for any callers, any number of links and any bound on the      *)
(* faults: a revoked cache holds no link, a caller takes only its own      *)
(* answer, and an upload is committed only with all its chunks.            *)
(*                                                                         *)
(* A step changes the client's side by way of the operators on a world, so *)
(* the invariant is stated of a world (Good) and each operator is shown to *)
(* keep it; an action is then a composition of those lemmas.               *)
(***************************************************************************)
EXTENDS HostLink, TLAPS, SequenceTheorems

Phases == {"idle", "ask", "queued", "dial", "probe", "probed", "unready", "sent", "live", "lost",
           "backoff", "ok", "failed", "ended"}
Someone == Actors \cup {None}
Place   == Links \cup {None}

TaskType  == [phase : Phases, tries : Nat, rounds : Nat, dials : Nat, link : Place, id : Nat,
              got : Someone]
CacheType == [link : Place, cooling : BOOLEAN, revoked : BOOLEAN, dialer : Someone]
LinkType  == [phase : {"open", "closed"}, next : Nat \ {0},
              pending : SUBSET [id : Nat, who : Actors]]
FrameType == [t : {"probe", "call", "stream", "cancel", "flowing", "ok", "unknown", "err", "bye",
                   "gone"}, id : Nat, who : Someone]
WorldType == [task : [Actors -> TaskType], cache : CacheType, link : [Links -> LinkType],
              up : [Links -> Seq(FrameType)], down : [Links -> Seq(FrameType)]]

(* A frame on a link has a number the link has given out, and if that      *)
(* request is still waited for, it is its sender's.                        *)
Matches(f, l) == f.id < l.next /\ \A p \in l.pending : p.id = f.id => p.who = f.who

(* What may be on its way to the host, or in its hands.  Number 1 is the   *)
(* probe; a commit is there only when every chunk has run.                 *)
Requests(l, rn, lm) ==
  {f \in FrameType : /\ Matches(f, l)
                     /\ f.t = "stream" => f.who = Watch
                     /\ f.t = "call" => f.who \in Calls
                     /\ f.who \in Calls /\ f.id > 1 => f.t = "call"
                     /\ f.who \in lm.commit => lm.chunks \subseteq rn}
(* What may be on its way back: of a call only what the host has run,      *)
(* unless it says that it failed.                                          *)
Answers(l, rn) ==
  {f \in FrameType : /\ Matches(f, l)
                     /\ f.who \in Calls /\ f.id > 1 /\ f.t # "err" => f.who \in rn}

TaskGood(w, a, rn, lm) ==
  LET t == w.task[a]
  IN  /\ t.phase \in {"sent", "live"} =>
           /\ t.link \in Links /\ t.link = w.cache.link /\ w.link[t.link].phase = "open"
           /\ t.id < w.link[t.link].next
      /\ t.phase \in {"probe", "probed", "unready"} => t.link \in Links
      /\ t.phase \notin {"probe", "probed", "unready", "sent", "live"} => t.link = None
      /\ a \in Calls /\ t.phase = "ok" => t.got = a /\ a \in rn
      /\ a \in lm.commit /\ t.phase # "idle" => lm.chunks \subseteq rn

(* A pending entry is what its owner waits for, there and now.             *)
Owned(w, g, p) ==
  LET t == w.task[p.who]
  IN  /\ 0 < p.id /\ p.id < w.link[g].next
      /\ t.link = g /\ t.id = p.id /\ t.phase \in {"probe", "sent", "live"}
      /\ p.id = 1 <=> t.phase = "probe"

LinkGood(w, g, cn, rn, lm) ==
  /\ w.link[g].phase = "closed" => w.link[g].pending = {}
  /\ w.link[g].phase = "open" => w.link[g].next > 1
  /\ \A p \in w.link[g].pending : Owned(w, g, p)
  /\ w.up[g] \in Seq(Requests(w.link[g], rn, lm))
  /\ cn[g] \subseteq Requests(w.link[g], rn, lm)
  /\ w.down[g] \in Seq(Answers(w.link[g], rn))

Committed(rn, lm) == lm.commit \cap rn # {} => lm.chunks \subseteq rn

Good(w, cn, rn, lm) ==
  /\ w \in WorldType
  /\ \A a \in Actors : TaskGood(w, a, rn, lm)
  /\ \A g \in Links : LinkGood(w, g, cn, rn, lm)

HostType == [phase : {"up", "away", "zombie"}, owed : BOOLEAN, old : BOOLEAN, ran : SUBSET Calls]

LinkInv ==
  /\ lim \in Story /\ host \in HostType /\ conn \in [Links -> SUBSET FrameType]
  /\ token \in [in : BOOLEAN, noticed : {"yes", "no", "clearing"}]
  /\ view \in [front : BOOLEAN, dark : BOOLEAN, unsupported : BOOLEAN]
  /\ Good(World, conn, host.ran, lim)
  /\ Committed(host.ran, lim)
  /\ RevokedClean

-----------------------------------------------------------------------------
LEMMA SeqMono ==
  ASSUME NEW S, NEW T, S \subseteq T, NEW s \in Seq(S)
  PROVE  s \in Seq(T)
OBVIOUS

LEMMA SeqGrows ==
  ASSUME NEW S, NEW x \in S
  PROVE  <<x>> \in Seq(S) /\ \A s \in Seq(S) : Append(s, x) \in Seq(S)
OBVIOUS

LEMMA NamesApart ==
  /\ Watch \in Actors /\ Watch \notin Calls /\ None \notin Actors /\ None \notin Links
  /\ Calls \subseteq Actors
BY HostLinkAssumption DEF Actors

LEMMA FramesApart ==
  /\ Bye \in FrameType /\ Bye.id = 0 /\ Bye.who = None /\ Bye.t = "bye"
  /\ Gone \in FrameType /\ Gone.id = 0 /\ Gone.who = None /\ Gone.t = "gone"
BY DEF Bye, Gone, Frame, FrameType, Someone

LEMMA IdleType == IdleTask \in TaskType /\ IdleTask.phase = "idle" /\ IdleTask.link = None
BY DEF IdleTask, TaskType, Phases, Place, Someone

(* Frames keep matching when the link forgets requests or numbers new ones. *)
LEMMA FramesKept ==
  ASSUME NEW l \in LinkType, NEW k \in LinkType, NEW rn, NEW lm,
         l.next =< k.next,
         \A p \in k.pending : p \in l.pending \/ p.id >= l.next
  PROVE  /\ Requests(l, rn, lm) \subseteq Requests(k, rn, lm)
         /\ Answers(l, rn) \subseteq Answers(k, rn)
BY DEF Requests, Answers, Matches, LinkType, FrameType

(* A link ends. *)
LEMMA CloseFacts ==
  ASSUME NEW w \in WorldType, NEW g \in Place, NEW kept \in KeptOf(w, g)
  PROVE  /\ Close(w, g, kept) \in WorldType
         /\ Close(w, g, kept).cache = w.cache
         /\ \A a \in Actors : Close(w, g, kept).task[a] =
              IF IsOpen(w, g) THEN Bereft(w.task[a], g) ELSE w.task[a]
         /\ \A h \in Links : h # g \/ ~IsOpen(w, g) =>
              /\ Close(w, g, kept).link[h] = w.link[h]
              /\ Close(w, g, kept).up[h] = w.up[h]
              /\ Close(w, g, kept).down[h] = w.down[h]
         /\ IsOpen(w, g) =>
              /\ g \in Links
              /\ Close(w, g, kept).link[g].phase = "closed"
              /\ Close(w, g, kept).link[g].next = w.link[g].next
              /\ Close(w, g, kept).link[g].pending = {}
              /\ Close(w, g, kept).up[g] \in {<<Gone>>, Append(w.up[g], Gone)}
              /\ Close(w, g, kept).down[g] = <<>>
         /\ ~IsOpen(w, g) => Close(w, g, kept) = w
<1>1. CASE ~IsOpen(w, g)
  BY <1>1 DEF Close
<1>2. CASE IsOpen(w, g)
  <2>1. g \in Links
    BY <1>2 DEF IsOpen, Place
  <2>2. w.up[g] \in Seq(FrameType) /\ kept \in {0, Len(w.up[g])}
    BY <2>1, NamesApart DEF KeptOf, WorldType
  <2>3. SubSeq(w.up[g], 1, kept) \in {<<>>, w.up[g]}
    BY <2>2
  <2>4. Append(SubSeq(w.up[g], 1, kept), Gone) \in {<<Gone>>, Append(w.up[g], Gone)}
    <3>1. Append(<<>>, Gone) = <<Gone>>
      OBVIOUS
    <3>. QED
      BY <2>3, <3>1
  <2>5. \A a \in Actors : Bereft(w.task[a], g) \in TaskType
    <3>. SUFFICES ASSUME NEW a \in Actors PROVE Bereft(w.task[a], g) \in TaskType
      OBVIOUS
    <3>1. w.task[a] \in TaskType
      BY DEF WorldType
    <3>2. /\ [w.task[a] EXCEPT !.phase = "backoff", !.link = None] \in TaskType
          /\ [w.task[a] EXCEPT !.phase = "lost", !.link = None] \in TaskType
      BY <3>1 DEF TaskType, Phases, Place
    <3>. QED
      BY <3>1, <3>2 DEF Bereft
  <2>6. /\ w.task \in [Actors -> TaskType] /\ w.link \in [Links -> LinkType]
        /\ w.up \in [Links -> Seq(FrameType)] /\ w.down \in [Links -> Seq(FrameType)]
    BY DEF WorldType
  <2>7. Append(SubSeq(w.up[g], 1, kept), Gone) \in Seq(FrameType)
    BY <2>2, <2>4, FramesApart
  <2>. DEFINE k == [w.link[g] EXCEPT !.phase = "closed", !.pending = {}]
              T == [a \in Actors |-> Bereft(w.task[a], g)]
              L == [w.link EXCEPT ![g] = k]
              U == [w.up EXCEPT ![g] = Append(SubSeq(w.up[g], 1, kept), Gone)]
              D == [w.down EXCEPT ![g] = <<>>]
              v == [task |-> T, cache |-> w.cache, link |-> L, up |-> U, down |-> D]
  <2>0. k \in LinkType /\ k.phase = "closed" /\ k.next = w.link[g].next /\ k.pending = {}
    <3>1. w.link[g] \in LinkType
      BY <2>1, <2>6
    <3>. QED
      BY <3>1 DEF LinkType
  <2>. HIDE DEF k
  <2>8. Close(w, g, kept) = v
    BY <1>2, <2>1, <2>6 DEF Close, WorldType, k
  <2>9. v \in WorldType
    <3>1. L \in [Links -> LinkType]
      BY <2>1, <2>6, <2>0
    <3>2. T \in [Actors -> TaskType] /\ U \in [Links -> Seq(FrameType)] /\ D \in [Links -> Seq(FrameType)]
      BY <2>1, <2>5, <2>6, <2>7
    <3>. HIDE DEF k, T, L, U, D
    <3>. QED
      BY <3>1, <3>2 DEF WorldType
  <2>10. /\ v.cache = w.cache
         /\ \A a \in Actors : v.task[a] = Bereft(w.task[a], g)
         /\ \A h \in Links : h # g => /\ v.link[h] = w.link[h] /\ v.up[h] = w.up[h]
                                      /\ v.down[h] = w.down[h]
         /\ v.link[g] = k /\ v.down[g] = <<>>
         /\ v.up[g] = Append(SubSeq(w.up[g], 1, kept), Gone)
    BY <2>1, <2>6
  <2>. HIDE DEF v
  <2>. QED
    BY <1>2, <2>0, <2>1, <2>4, <2>8, <2>9, <2>10
<1>. QED
  BY <1>1, <1>2

(* Nobody waits on a link for a task that is not waiting. *)
Awaited(w, a) == \E g \in Links : \E p \in w.link[g].pending : p.who = a

LEMMA NotAwaited ==
  ASSUME NEW w, NEW cn, NEW rn, NEW lm, Good(w, cn, rn, lm), NEW a \in Actors,
         \/ w.task[a].phase \notin {"probe", "sent", "live"}
         \/ w.task[a].phase = "probe" /\ ~IsOpen(w, w.task[a].link)
  PROVE  ~Awaited(w, a)
<1>. SUFFICES ASSUME NEW g \in Links, NEW p \in w.link[g].pending, p.who = a
              PROVE  FALSE
  BY DEF Awaited
<1>1. LinkGood(w, g, cn, rn, lm) /\ w.link[g] \in LinkType
  BY DEF Good, WorldType
<1>2. Owned(w, g, p) /\ w.link[g].phase = "open"
  BY <1>1 DEF LinkGood, LinkType
<1>. QED
  BY <1>2, NamesApart DEF Owned, IsOpen

(* Setting a task nobody waits for. *)
LEMMA SetTask ==
  ASSUME NEW w, NEW v \in WorldType, NEW cn, NEW rn, NEW lm, Good(w, cn, rn, lm),
         NEW a \in Actors, ~Awaited(w, a),
         v.link = w.link, v.up = w.up, v.down = w.down, v.cache.link = w.cache.link,
         \A b \in Actors : b # a => v.task[b] = w.task[b],
         TaskGood(v, a, rn, lm)
  PROVE  Good(v, cn, rn, lm)
<1>1. \A b \in Actors : TaskGood(v, b, rn, lm)
  BY DEF Good, TaskGood
<1>2. ASSUME NEW g \in Links
      PROVE  LinkGood(v, g, cn, rn, lm)
  <2>1. LinkGood(w, g, cn, rn, lm) /\ w.link[g] \in LinkType
    BY DEF Good, WorldType
  <2>2. \A p \in w.link[g].pending : p.who \in Actors /\ p.who # a
    BY <2>1 DEF Awaited, LinkType
  <2>. QED
    BY <2>1, <2>2 DEF LinkGood, Owned
<1>. QED
  BY <1>1, <1>2 DEF Good

(* Another link is cached while no request is under way on the old one. *)
LEMMA SetCache ==
  ASSUME NEW w, NEW v \in WorldType, NEW cn, NEW rn, NEW lm, Good(w, cn, rn, lm),
         v.task = w.task, v.link = w.link, v.up = w.up, v.down = w.down,
         v.cache.link = w.cache.link \/ \A a \in Actors : w.task[a].phase \notin {"sent", "live"}
  PROVE  Good(v, cn, rn, lm)
<1>1. \A b \in Actors : TaskGood(v, b, rn, lm)
  BY DEF Good, TaskGood
<1>2. \A g \in Links : LinkGood(v, g, cn, rn, lm)
  BY DEF Good, LinkGood, Owned
<1>. QED
  BY <1>1, <1>2 DEF Good

LEMMA CloseGood ==
  ASSUME NEW w, NEW cn, NEW rn, NEW lm, Good(w, cn, rn, lm),
         NEW g \in Place, NEW kept \in KeptOf(w, g),
         lm.commit \subseteq Calls
  PROVE  Good(Close(w, g, kept), cn, rn, lm)
<1>. DEFINE v == Close(w, g, kept)
<1>0. w \in WorldType
  BY DEF Good
<1>1. CASE ~IsOpen(w, g)
  BY <1>0, <1>1, CloseFacts
<1>2. CASE IsOpen(w, g)
  <2>1. /\ v \in WorldType /\ g \in Links /\ v.cache = w.cache
        /\ \A a \in Actors : v.task[a] = Bereft(w.task[a], g)
        /\ \A h \in Links : h # g => /\ v.link[h] = w.link[h] /\ v.up[h] = w.up[h]
                                     /\ v.down[h] = w.down[h]
        /\ v.link[g].phase = "closed" /\ v.link[g].next = w.link[g].next
        /\ v.link[g].pending = {} /\ v.down[g] = <<>>
        /\ v.up[g] \in {<<Gone>>, Append(w.up[g], Gone)}
    BY <1>0, <1>2, CloseFacts
  <2>. HIDE DEF v
  <2>2. ASSUME NEW a \in Actors
        PROVE  TaskGood(v, a, rn, lm)
    <3>1. TaskGood(w, a, rn, lm) /\ w.task[a] \in TaskType /\ v.task[a] = Bereft(w.task[a], g)
      BY <2>1 DEF Good, WorldType
    <3>2. \/ v.task[a] = w.task[a]
          \/ v.task[a].phase \in {"lost", "backoff"} /\ v.task[a].link = None
      BY <3>1 DEF Bereft, TaskType
    <3>3. CASE v.task[a].phase \in {"lost", "backoff"} /\ v.task[a].link = None
      <4>1. w.task[a].phase # "idle"
        BY <3>1, <3>3 DEF Bereft
      <4>. QED
        BY <3>1, <3>3, <4>1 DEF TaskGood
    <3>4. CASE v.task[a] = w.task[a]
      <4>1. w.task[a].phase \in {"sent", "live"} => w.task[a].link # g
        BY <3>1, <3>4, NamesApart, <2>1 DEF Bereft, TaskType
      <4>2. w.task[a].phase \in {"sent", "live"} => v.link[w.task[a].link] = w.link[w.task[a].link]
        BY <3>1, <4>1, <2>1 DEF TaskGood
      <4>. QED
        BY <2>1, <3>1, <3>4, <4>2 DEF TaskGood
    <3>. QED
      BY <3>2, <3>3, <3>4
  <2>3. ASSUME NEW h \in Links, h # g
        PROVE  LinkGood(v, h, cn, rn, lm)
    <3>1. LinkGood(w, h, cn, rn, lm) /\ w.link[h] \in LinkType /\ v.link[h] = w.link[h]
      BY <2>1, <2>3 DEF Good, WorldType
    <3>2. ASSUME NEW p \in w.link[h].pending
          PROVE  Owned(v, h, p)
      <4>1. Owned(w, h, p) /\ p.who \in Actors
        BY <3>1 DEF LinkGood, LinkType
      <4>2. v.task[p.who] = w.task[p.who]
        BY <4>1, <2>1, <2>3 DEF Owned, Bereft
      <4>. QED
        BY <4>1, <4>2, <3>1 DEF Owned
    <3>. QED
      BY <2>1, <2>3, <3>1, <3>2 DEF LinkGood
  <2>4. LinkGood(v, g, cn, rn, lm)
    <3>1. LinkGood(w, g, cn, rn, lm) /\ w.link[g] \in LinkType /\ v.link[g] \in LinkType
      BY <2>1, <1>0 DEF Good, WorldType
    <3>2. Requests(w.link[g], rn, lm) \subseteq Requests(v.link[g], rn, lm)
      BY <3>1, <2>1, FramesKept DEF LinkType
    <3>3. Gone \in Requests(v.link[g], rn, lm)
      BY <2>1, <3>1, FramesApart, NamesApart DEF Requests, Matches, LinkType
    <3>4. w.up[g] \in Seq(Requests(v.link[g], rn, lm))
      BY <3>1, <3>2, SeqMono DEF LinkGood
    <3>5. v.up[g] \in Seq(Requests(v.link[g], rn, lm))
      BY <2>1, <3>3, <3>4, SeqGrows
    <3>. QED
      BY <2>1, <3>1, <3>2, <3>5 DEF LinkGood
  <2>5. \A h \in Links : LinkGood(v, h, cn, rn, lm)
    BY <2>3, <2>4
  <2>. QED
    BY <2>1, <2>2, <2>5 DEF Good, v
<1>. QED
  BY <1>1, <1>2

(* The cached link is dropped: no request is under way any more. *)
LEMMA DropCachedGood ==
  ASSUME NEW w, NEW cn, NEW rn, NEW lm, Good(w, cn, rn, lm), NEW kept \in Kept(w),
         lm.commit \subseteq Calls, NEW v, v = DropCached(w, kept)
  PROVE  /\ Good(v, cn, rn, lm)
         /\ v.cache.link = None /\ v.cache.cooling = w.cache.cooling
         /\ v.cache.revoked = w.cache.revoked /\ v.cache.dialer = w.cache.dialer
         /\ \A a \in Actors :
              IF w.task[a].phase \in {"sent", "live"}
              THEN v.task[a].phase \in {"lost", "backoff"}
              ELSE v.task[a] = w.task[a]
         /\ \A h \in Links : h # w.cache.link => v.link[h] = w.link[h] /\ v.up[h] = w.up[h]
<1>. DEFINE u == Close(w, w.cache.link, kept)
<1>0. w \in WorldType /\ w.cache \in CacheType /\ w.cache.link \in Place
  BY DEF Good, WorldType, CacheType
<1>1. Good(u, cn, rn, lm)
  BY <1>0, CloseGood DEF Kept
<1>2. /\ u \in WorldType /\ u.cache = w.cache
      /\ \A a \in Actors : u.task[a] = IF IsOpen(w, w.cache.link) THEN Bereft(w.task[a], w.cache.link)
                                                                  ELSE w.task[a]
      /\ \A h \in Links : h # w.cache.link => u.link[h] = w.link[h] /\ u.up[h] = w.up[h]
  BY <1>0, CloseFacts DEF Kept
<1>. HIDE DEF u
<1>3. \A a \in Actors : IF w.task[a].phase \in {"sent", "live"}
                        THEN u.task[a].phase \in {"lost", "backoff"}
                        ELSE u.task[a] = w.task[a]
  <2>. TAKE a \in Actors
  <2>1. TaskGood(w, a, rn, lm) /\ w.task[a] \in TaskType
    BY <1>0 DEF Good, WorldType
  <2>2. w.task[a].phase \in {"sent", "live"} => IsOpen(w, w.cache.link) /\ w.task[a].link = w.cache.link
    BY <2>1, NamesApart DEF TaskGood, IsOpen
  <2>3. u.task[a] = IF IsOpen(w, w.cache.link) THEN Bereft(w.task[a], w.cache.link) ELSE w.task[a]
    BY <1>2
  <2>. QED
    BY <2>1, <2>2, <2>3 DEF Bereft, TaskType
<1>4. v = [u EXCEPT !.cache.link = None]
  BY DEF DropCached, u
<1>5. /\ v \in WorldType /\ v.task = u.task /\ v.link = u.link /\ v.up = u.up /\ v.down = u.down
      /\ v.cache.link = None /\ v.cache.cooling = u.cache.cooling
      /\ v.cache.revoked = u.cache.revoked /\ v.cache.dialer = u.cache.dialer
  BY <1>0, <1>2, <1>4 DEF WorldType, CacheType, Place
<1>6. \A a \in Actors : v.task[a].phase \notin {"sent", "live"}
  BY <1>3, <1>5
<1>7. Good(v, cn, rn, lm)
  BY <1>1, <1>3, <1>5, SetCache
<1>. QED
  BY <1>2, <1>3, <1>5, <1>7

With(w, a, t) == [w EXCEPT !.task[a] = t]

(* A task nobody waits for takes a state in which it has sent nothing. *)
LEMMA PutTask ==
  ASSUME NEW w, NEW cn, NEW rn, NEW lm, Good(w, cn, rn, lm),
         NEW a \in Actors, ~Awaited(w, a),
         NEW t \in TaskType, t.phase \notin {"sent", "live"},
         IF t.phase \in {"probe", "probed", "unready"} THEN t.link \in Links ELSE t.link = None,
         a \in Calls /\ t.phase = "ok" => t.got = a /\ a \in rn,
         a \in lm.commit /\ t.phase # "idle" => lm.chunks \subseteq rn,
         NEW v, v = With(w, a, t)
  PROVE  /\ Good(v, cn, rn, lm) /\ v.task = [w.task EXCEPT ![a] = t]
         /\ v.cache = w.cache /\ v.link = w.link /\ v.up = w.up /\ v.down = w.down
<1>1. w \in WorldType /\ w.task \in [Actors -> TaskType]
  BY DEF Good, WorldType
<1>2. /\ v.task = [w.task EXCEPT ![a] = t]
      /\ v.cache = w.cache /\ v.link = w.link /\ v.up = w.up /\ v.down = w.down
  BY <1>1 DEF WorldType, With
<1>3. v \in WorldType
  BY <1>1 DEF WorldType, With
<1>4. v.task[a] = t /\ \A b \in Actors : b # a => v.task[b] = w.task[b]
  BY <1>1, <1>2
<1>5. TaskGood(v, a, rn, lm)
  BY <1>4 DEF TaskGood
<1>. QED
  BY <1>2, <1>3, <1>4, <1>5, SetTask

LEMMA FailedGood ==
  ASSUME NEW w, NEW cn, NEW rn, NEW lm, Good(w, cn, rn, lm),
         NEW a \in Actors, ~Awaited(w, a), a \in lm.commit => lm.chunks \subseteq rn,
         NEW v, v = Failed(w, a)
  PROVE  /\ Good(v, cn, rn, lm) /\ v.cache = w.cache
         /\ \A b \in Actors : b # a => v.task[b] = w.task[b]
<1>1. w.task[a] \in TaskType
  BY DEF Good, WorldType
<1>2. PICK t \in TaskType : /\ t.phase \in {"lost", "ask", "failed"} /\ t.link = None
                            /\ v = With(w, a, t)
  <2>1. CASE a = Watch
    <3>. DEFINE t == [IdleTask EXCEPT !.phase = "lost"]
    <3>1. t \in TaskType /\ t.phase = "lost" /\ t.link = None
      BY IdleType DEF TaskType, Phases, IdleTask, Place, Someone
    <3>. QED
      BY <2>1, <3>1 DEF Failed, With
  <2>2. CASE a # Watch /\ (a \in lim.chunks /\ w.task[a].rounds + 1 < ChunkRounds)
    <3>. DEFINE t == [IdleTask EXCEPT !.phase = "ask", !.rounds = w.task[a].rounds + 1]
    <3>0. w.task[a].rounds + 1 \in Nat
      BY <1>1 DEF TaskType
    <3>1. t \in TaskType /\ t.phase = "ask" /\ t.link = None
      BY <3>0, IdleType DEF TaskType, Phases, IdleTask, Place, Someone
    <3>. QED
      BY <2>2, <3>1 DEF Failed, With
  <2>3. CASE a # Watch /\ ~(a \in lim.chunks /\ w.task[a].rounds + 1 < ChunkRounds)
    <3>. DEFINE t == [IdleTask EXCEPT !.phase = "failed"]
    <3>1. t \in TaskType /\ t.phase = "failed" /\ t.link = None
      BY IdleType DEF TaskType, Phases, IdleTask, Place, Someone
    <3>. QED
      BY <2>3, <3>1 DEF Failed, With
  <2>. QED
    BY <2>1, <2>2, <2>3
<1>3. Good(v, cn, rn, lm) /\ v.task = [w.task EXCEPT ![a] = t] /\ v.cache = w.cache
  BY <1>2, PutTask
<1>4. w.task \in [Actors -> TaskType]
  BY DEF Good, WorldType
<1>. QED
  BY <1>3, <1>4

LEMMA UnlockGood ==
  ASSUME NEW w, NEW cn, NEW rn, NEW lm, Good(w, cn, rn, lm), NEW a, NEW v, v = Unlock(w, a)
  PROVE  /\ Good(v, cn, rn, lm) /\ v.task = w.task /\ v.link = w.link /\ v.up = w.up /\ v.down = w.down
         /\ v.cache.link = w.cache.link /\ v.cache.revoked = w.cache.revoked
<1>1. w \in WorldType /\ w.cache \in CacheType
  BY DEF Good, WorldType
<1>2. CASE w.cache.dialer # a
  BY <1>2 DEF Unlock
<1>3. CASE w.cache.dialer = a
  <2>1. v = [w EXCEPT !.cache.dialer = None]
    BY <1>3 DEF Unlock
  <2>2. /\ v \in WorldType /\ v.task = w.task /\ v.link = w.link /\ v.up = w.up /\ v.down = w.down
        /\ v.cache.link = w.cache.link /\ v.cache.revoked = w.cache.revoked
    BY <1>1, <2>1 DEF WorldType, CacheType, Someone
  <2>. QED
    BY <2>2, SetCache
<1>. QED
  BY <1>2, <1>3

(* One attempt failed, or the whole sequence. *)
LEMMA DialFailedGood ==
  ASSUME NEW w, NEW cn, NEW rn, NEW lm, Good(w, cn, rn, lm),
         NEW a \in Actors, ~Awaited(w, a), a \in lm.commit => lm.chunks \subseteq rn,
         NEW v, v = DialFailed(w, a)
  PROVE  /\ Good(v, cn, rn, lm)
         /\ v.cache.link = w.cache.link /\ v.cache.revoked = w.cache.revoked
<1>0. w \in WorldType /\ w.cache \in CacheType /\ w.task[a] \in TaskType
  BY DEF Good, WorldType
<1>1. CASE w.task[a].dials + 1 < DialAttempts
  <2>1. PICK t \in TaskType : t.phase = "dial" /\ t.link = None /\ v = With(w, a, t)
    <3>. DEFINE t == [w.task[a] EXCEPT !.phase = "dial", !.dials = w.task[a].dials + 1, !.link = None]
    <3>0. w.task[a].dials + 1 \in Nat
      BY <1>0 DEF TaskType
    <3>1. t \in TaskType /\ t.phase = "dial" /\ t.link = None
      BY <1>0, <3>0 DEF TaskType, Phases, Place
    <3>. QED
      BY <1>1, <3>1 DEF DialFailed, With
  <2>2. Good(v, cn, rn, lm) /\ v.task = [w.task EXCEPT ![a] = t] /\ v.cache = w.cache
    BY <2>1, PutTask
  <2>. QED
    BY <2>2
<1>2. CASE ~(w.task[a].dials + 1 < DialAttempts)
  <2>1. PICK u : u = [w EXCEPT !.cache.cooling = TRUE]
    OBVIOUS
  <2>2. /\ u \in WorldType /\ u.task = w.task /\ u.link = w.link /\ u.up = w.up /\ u.down = w.down
        /\ u.cache.link = w.cache.link /\ u.cache.revoked = w.cache.revoked
    BY <1>0, <2>1 DEF WorldType, CacheType
  <2>3. Good(u, cn, rn, lm)
    BY <2>2, SetCache
  <2>4. PICK x : x = Unlock(u, a)
    OBVIOUS
  <2>5. /\ Good(x, cn, rn, lm) /\ x.task = u.task /\ x.link = u.link
        /\ x.cache.link = u.cache.link /\ x.cache.revoked = u.cache.revoked
    BY <2>3, <2>4, UnlockGood
  <2>6. ~Awaited(x, a)
    BY <2>2, <2>5 DEF Awaited
  <2>7. v = Failed(x, a)
    BY <1>2, <2>1, <2>4 DEF DialFailed
  <2>8. Good(v, cn, rn, lm) /\ v.cache = x.cache
    BY <2>5, <2>6, <2>7, FailedGood
  <2>. QED
    BY <2>2, <2>5, <2>8
<1>. QED
  BY <1>1, <1>2

(* Some requests of a link are forgotten. *)
Forget(w, g, P) == [w EXCEPT !.link[g].pending = P]

LEMMA ForgetGood ==
  ASSUME NEW w, NEW cn, NEW rn, NEW lm, Good(w, cn, rn, lm), NEW g \in Links,
         NEW P, P \subseteq w.link[g].pending, NEW v, v = Forget(w, g, P)
  PROVE  /\ Good(v, cn, rn, lm) /\ v.task = w.task /\ v.cache = w.cache
         /\ v.up = w.up /\ v.down = w.down
         /\ v.link[g].pending = P /\ v.link[g].phase = w.link[g].phase
         /\ v.link[g].next = w.link[g].next
         /\ \A h \in Links : h # g => v.link[h] = w.link[h]
<1>0. w \in WorldType /\ w.link \in [Links -> LinkType] /\ w.link[g] \in LinkType
  BY DEF Good, WorldType
<1>. DEFINE k == [w.link[g] EXCEPT !.pending = P]
            L == [w.link EXCEPT ![g] = k]
<1>1. k \in LinkType /\ k.pending = P /\ k.phase = w.link[g].phase /\ k.next = w.link[g].next
  <2>1. P \in SUBSET [id : Nat, who : Actors]
    BY <1>0 DEF LinkType
  <2>. QED
    BY <1>0, <2>1 DEF LinkType
<1>2. v = [w EXCEPT !.link = L]
  BY DEF Forget
<1>. HIDE DEF k
<1>3. L \in [Links -> LinkType] /\ L[g] = k /\ \A h \in Links : h # g => L[h] = w.link[h]
  BY <1>0, <1>1
<1>. HIDE DEF L
<1>4. /\ v \in WorldType /\ v.task = w.task /\ v.cache = w.cache /\ v.link = L
      /\ v.up = w.up /\ v.down = w.down
  BY <1>0, <1>2, <1>3 DEF WorldType
<1>5. \A b \in Actors : TaskGood(v, b, rn, lm)
  <2>1. \A h \in Links : v.link[h].phase = w.link[h].phase /\ v.link[h].next = w.link[h].next
    BY <1>1, <1>3, <1>4
  <2>. QED
    BY <1>4, <2>1 DEF Good, TaskGood
<1>6. ASSUME NEW h \in Links, h # g
      PROVE  LinkGood(v, h, cn, rn, lm)
  BY <1>3, <1>4, <1>6 DEF Good, LinkGood, Owned
<1>7. LinkGood(v, g, cn, rn, lm)
  <2>1. LinkGood(w, g, cn, rn, lm)
    BY DEF Good
  <2>2. /\ Requests(w.link[g], rn, lm) \subseteq Requests(k, rn, lm)
        /\ Answers(w.link[g], rn) \subseteq Answers(k, rn)
    <3>1. w.link[g].next =< k.next /\ \A p \in k.pending : p \in w.link[g].pending
      BY <1>0, <1>1 DEF LinkType
    <3>. QED
      BY <1>0, <1>1, <3>1, FramesKept
  <2>3. w.up[g] \in Seq(Requests(k, rn, lm)) /\ w.down[g] \in Seq(Answers(k, rn))
        /\ cn[g] \subseteq Requests(k, rn, lm)
    BY <2>1, <2>2, SeqMono DEF LinkGood
  <2>4. \A p \in P : Owned(v, g, p)
    BY <1>1, <1>3, <1>4, <2>1 DEF LinkGood, Owned
  <2>. QED
    BY <1>1, <1>3, <1>4, <2>1, <2>3, <2>4 DEF LinkGood
<1>8. \A h \in Links : LinkGood(v, h, cn, rn, lm)
  BY <1>6, <1>7
<1>. QED
  BY <1>1, <1>3, <1>4, <1>5, <1>8 DEF Good

(* A request goes out on the cached link, or finds it closed. *)
LEMMA SendGood ==
  ASSUME NEW w, NEW cn, NEW rn, NEW lm, Good(w, cn, rn, lm),
         NEW a \in Actors, w.task[a].phase \notin {"idle", "probe", "sent", "live"},
         NEW g \in Place, IsOpen(w, g) => g = w.cache.link,
         NEW v, v = Send(w, a, g)
  PROVE  Good(v, cn, rn, lm) /\ v.cache = w.cache
<1>0. w \in WorldType /\ w.task \in [Actors -> TaskType] /\ TaskGood(w, a, rn, lm)
  BY DEF Good, WorldType
<1>9. ~Awaited(w, a)
  BY NotAwaited
<1>1. CASE ~IsOpen(w, g)
  <2>1. PICK t \in TaskType : t.phase = "lost" /\ t.link = None /\ v = With(w, a, t)
    <3>. DEFINE t == [w.task[a] EXCEPT !.phase = "lost", !.link = None]
    <3>1. t \in TaskType /\ t.phase = "lost" /\ t.link = None
      BY <1>0 DEF TaskType, Phases, Place
    <3>. QED
      BY <1>1, <3>1 DEF Send, With
  <2>3. a \in lm.commit => lm.chunks \subseteq rn
    BY <1>0 DEF TaskGood
  <2>4. t.phase \notin {"probe", "probed", "unready", "sent", "live"} /\ t.phase # "ok"
    BY <2>1
  <2>5. a \in Calls /\ t.phase = "ok" => t.got = a /\ a \in rn
    BY <2>4
  <2>6. a \in lm.commit /\ t.phase # "idle" => lm.chunks \subseteq rn
    BY <2>3
  <2>7. Good(v, cn, rn, lm) /\ v.task = [w.task EXCEPT ![a] = t] /\ v.cache = w.cache
    BY <1>9, <2>1, <2>4, <2>5, <2>6, PutTask
  <2>. QED
    BY <2>7
<1>2. CASE IsOpen(w, g)
  <2>1. g \in Links /\ g = w.cache.link /\ w.link[g].phase = "open"
    BY <1>2 DEF IsOpen, Place
  <2>. DEFINE l == w.link[g]
              id == l.next
              f == Frame(Kind(a), id, a)
              k == [l EXCEPT !.next = id + 1, !.pending = l.pending \cup {[id |-> id, who |-> a]}]
              t == [w.task[a] EXCEPT !.phase = "sent", !.link = g, !.id = id]
  <2>2. l \in LinkType /\ LinkGood(w, g, cn, rn, lm) /\ id \in Nat /\ id > 1
    BY <2>1 DEF Good, WorldType, LinkGood, LinkType
  <2>3. k \in LinkType /\ k.phase = "open" /\ k.next = id + 1
        /\ k.pending = l.pending \cup {[id |-> id, who |-> a]}
    <3>1. {[id |-> id, who |-> a]} \subseteq [id : Nat, who : Actors]
      BY <2>2
    <3>2. l.pending \cup {[id |-> id, who |-> a]} \in SUBSET [id : Nat, who : Actors]
      BY <2>2, <3>1 DEF LinkType
    <3>3. id + 1 \in Nat \ {0} /\ l.phase = "open"
      BY <2>1, <2>2
    <3>. QED
      BY <2>2, <3>2, <3>3 DEF LinkType
  <2>4. t \in TaskType /\ t.phase = "sent" /\ t.link = g /\ t.id = id
    BY <1>0, <2>1, <2>2 DEF TaskType, Phases, Place
  <2>5. f \in FrameType /\ f.id = id /\ f.who = a /\ f.t = Kind(a)
    BY <2>2 DEF Frame, FrameType, Someone, Kind
  <2>. DEFINE T == [w.task EXCEPT ![a] = t]
              L == [w.link EXCEPT ![g] = k]
              U == [w.up EXCEPT ![g] = Append(w.up[g], f)]
  <2>6. v = [w EXCEPT !.link = L, !.up = U, !.task = T]
    BY <1>2 DEF Send
  <2>7. l = w.link[g] /\ id = l.next
    OBVIOUS
  <2>. HIDE DEF l, id, f, k, t
  <2>9. /\ w.link \in [Links -> LinkType] /\ w.up \in [Links -> Seq(FrameType)]
        /\ w.task \in [Actors -> TaskType] /\ w.cache \in CacheType
        /\ w.down \in [Links -> Seq(FrameType)]
    BY <1>0 DEF WorldType
  <2>10. Append(w.up[g], f) \in Seq(FrameType)
    BY <2>1, <2>5, <2>9, SeqGrows
  <2>11. T \in [Actors -> TaskType] /\ L \in [Links -> LinkType] /\ U \in [Links -> Seq(FrameType)]
    BY <2>1, <2>3, <2>4, <2>9, <2>10
  <2>8. /\ v \in WorldType /\ v.task = T /\ v.cache = w.cache /\ v.link = L /\ v.up = U
        /\ v.down = w.down
    <3>. HIDE DEF T, L, U
    <3>. QED
      BY <1>0, <2>6, <2>11 DEF WorldType
  <2>12. /\ v.link[g] = k /\ v.task[a] = t /\ v.up[g] = Append(w.up[g], f)
         /\ \A h \in Links : h # g => v.link[h] = w.link[h] /\ v.up[h] = w.up[h]
         /\ \A b \in Actors : b # a => v.task[b] = w.task[b]
    BY <2>1, <2>8, <2>9
  <2>. HIDE DEF T, L, U
  <2>13. ASSUME NEW b \in Actors
         PROVE  TaskGood(v, b, rn, lm)
    <3>1. TaskGood(w, b, rn, lm) /\ w.task[b].id \in Nat
      BY <2>9 DEF Good, TaskType
    <3>2. CASE b = a
      BY <1>0, <2>1, <2>2, <2>3, <2>4, <2>8, <2>12, <3>2 DEF TaskGood
    <3>3. CASE b # a
      <4>1. v.task[b] = w.task[b] /\ v.cache.link = g
        BY <2>1, <2>8, <2>12, <3>3
      <4>2. w.task[b].phase \in {"sent", "live"} => w.task[b].link = g /\ w.task[b].id < id + 1
        BY <2>1, <2>2, <2>7, <3>1 DEF TaskGood
      <4>3. w.task[b].phase \in {"sent", "live"} =>
              w.task[b].id < v.link[w.task[b].link].next /\ v.link[w.task[b].link].phase = "open"
        BY <2>3, <2>12, <4>2
      <4>. QED
        BY <2>1, <3>1, <4>1, <4>2, <4>3 DEF TaskGood
    <3>. QED
      BY <3>2, <3>3
  <2>14. ASSUME NEW h \in Links, h # g
         PROVE  LinkGood(v, h, cn, rn, lm)
    <3>1. LinkGood(w, h, cn, rn, lm) /\ w.link[h] \in LinkType
      BY <2>9 DEF Good
    <3>2. \A p \in w.link[h].pending : p.who \in Actors /\ p.who # a
      BY <1>9, <3>1 DEF Awaited, LinkType
    <3>. QED
      BY <2>8, <2>12, <2>14, <3>1, <3>2 DEF LinkGood, Owned
  <2>15. LinkGood(v, g, cn, rn, lm)
    <3>1. /\ Requests(l, rn, lm) \subseteq Requests(k, rn, lm)
          /\ Answers(l, rn) \subseteq Answers(k, rn)
      BY <2>2, <2>3, FramesKept DEF id
    <3>2. \A p \in l.pending : p.who \in Actors /\ p.who # a /\ Owned(w, g, p) /\ p.id \in 1..(id - 1)
      BY <1>9, <2>1, <2>2 DEF Awaited, LinkType, l, id, LinkGood, Owned
    <3>3. f \in Requests(k, rn, lm)
      <4>1. Matches(f, k)
        BY <2>2, <2>3, <2>5, <3>2 DEF Matches, LinkType
      <4>2. a \in lm.commit => lm.chunks \subseteq rn
        BY <1>0 DEF TaskGood
      <4>. QED
        BY <4>1, <4>2, <2>5, NamesApart DEF Requests, Kind, Actors
    <3>4. \A p \in k.pending : Owned(v, g, p)
      <4>1. \A p \in l.pending : Owned(v, g, p)
        BY <2>2, <2>3, <2>7, <2>12, <3>2 DEF Owned
      <4>2. Owned(v, g, [id |-> id, who |-> a])
        BY <2>2, <2>3, <2>4, <2>12 DEF Owned
      <4>. QED
        BY <2>3, <4>1, <4>2
    <3>5. w.up[g] \in Seq(Requests(k, rn, lm)) /\ w.down[g] \in Seq(Answers(k, rn))
          /\ cn[g] \subseteq Requests(k, rn, lm)
      BY <2>2, <3>1, SeqMono DEF LinkGood, l
    <3>6. v.up[g] \in Seq(Requests(k, rn, lm))
      BY <2>12, <3>3, <3>5, SeqGrows
    <3>. QED
      BY <2>2, <2>3, <2>8, <2>12, <3>4, <3>5, <3>6 DEF LinkGood
  <2>16. \A h \in Links : LinkGood(v, h, cn, rn, lm)
    BY <2>14, <2>15
  <2>. QED
    BY <2>8, <2>13, <2>16 DEF Good
<1>. QED
  BY <1>1, <1>2

(* The answer that arrives is the owner's, and of a call it is the host's. *)
LEMMA Owner ==
  ASSUME NEW w, NEW cn, NEW rn, NEW lm, Good(w, cn, rn, lm), NEW g \in Links,
         NEW f \in Answers(w.link[g], rn), NEW p \in w.link[g].pending, p.id = f.id
  PROVE  /\ p.who \in Actors /\ p.who = f.who /\ Owned(w, g, p)
         /\ w.task[p.who] \in TaskType /\ TaskGood(w, p.who, rn, lm)
         /\ w.task[p.who].phase # "probe" /\ p.who \in Calls /\ f.t # "err" => p.who \in rn
<1>1. LinkGood(w, g, cn, rn, lm) /\ w.link[g] \in LinkType
  BY DEF Good, WorldType
<1>2. p.who \in Actors /\ p.id \in Nat /\ p.who = f.who /\ Owned(w, g, p)
  BY <1>1 DEF LinkGood, LinkType, Answers, Matches
<1>3. w.task[p.who] \in TaskType /\ TaskGood(w, p.who, rn, lm)
  BY <1>2 DEF Good, WorldType
<1>4. w.task[p.who].phase # "probe" => f.id > 1
  BY <1>2 DEF Owned
<1>. QED
  BY <1>2, <1>3, <1>4 DEF Answers

(* The watch's subscription is confirmed. *)
LEMMA LiveGood ==
  ASSUME NEW w, NEW cn, NEW rn, NEW lm, Good(w, cn, rn, lm), NEW a \in Actors,
         w.task[a].phase \in {"sent", "live"},
         NEW v, v = [w EXCEPT !.task[a].phase = "live"]
  PROVE  Good(v, cn, rn, lm) /\ v.cache = w.cache
<1>0. w \in WorldType /\ w.task \in [Actors -> TaskType] /\ w.task[a] \in TaskType
  BY DEF Good, WorldType
<1>. DEFINE t == [w.task[a] EXCEPT !.phase = "live"]
            T == [w.task EXCEPT ![a] = t]
<1>1. /\ t \in TaskType /\ t.phase = "live" /\ t.link = w.task[a].link /\ t.id = w.task[a].id
      /\ t.got = w.task[a].got
  BY <1>0 DEF TaskType, Phases
<1>2. v = [w EXCEPT !.task = T]
  OBVIOUS
<1>. HIDE DEF t
<1>3. T \in [Actors -> TaskType] /\ T[a] = t /\ \A b \in Actors : b # a => T[b] = w.task[b]
  BY <1>0, <1>1
<1>. HIDE DEF T
<1>4. /\ v \in WorldType /\ v.task = T /\ v.cache = w.cache /\ v.link = w.link
      /\ v.up = w.up /\ v.down = w.down
  BY <1>0, <1>2, <1>3 DEF WorldType
<1>5. ASSUME NEW b \in Actors
      PROVE  TaskGood(v, b, rn, lm)
  <2>1. TaskGood(w, b, rn, lm)
    BY DEF Good
  <2>2. CASE b = a
    BY <1>1, <1>3, <1>4, <2>1, <2>2 DEF TaskGood
  <2>3. CASE b # a
    BY <1>3, <1>4, <2>1, <2>3 DEF TaskGood
  <2>. QED
    BY <2>2, <2>3
<1>6. ASSUME NEW h \in Links
      PROVE  LinkGood(v, h, cn, rn, lm)
  <2>1. LinkGood(w, h, cn, rn, lm) /\ w.link[h] \in LinkType
    BY <1>0 DEF Good, WorldType
  <2>2. ASSUME NEW p \in w.link[h].pending
        PROVE  Owned(v, h, p)
    <3>1. Owned(w, h, p) /\ p.who \in Actors
      BY <2>1 DEF LinkGood, LinkType
    <3>2. CASE p.who = a
      BY <1>1, <1>3, <1>4, <3>1, <3>2 DEF Owned
    <3>3. CASE p.who # a
      BY <1>3, <1>4, <3>1, <3>3 DEF Owned
    <3>. QED
      BY <3>2, <3>3
  <2>. QED
    BY <1>4, <2>1, <2>2 DEF LinkGood
<1>. QED
  BY <1>4, <1>5, <1>6 DEF Good

(* An answer reaches the task that waits for it, or nobody. *)
LEMMA RoutedGood ==
  ASSUME NEW w, NEW cn, NEW rn, NEW lm, Good(w, cn, rn, lm), NEW g \in Links,
         NEW f \in Answers(w.link[g], rn),
         NEW v, v = Routed(w, g, f)
  PROVE  Good(v, cn, rn, lm) /\ v.cache = w.cache
<1>. DEFINE mine == {p \in w.link[g].pending : p.id = f.id}
            P == w.link[g].pending \ mine
<1>1. CASE mine = {}
  BY <1>1 DEF Routed
<1>2. CASE mine # {}
  <2>0. PICK p : p = CHOOSE q \in mine : TRUE
    OBVIOUS
  <2>1. p \in w.link[g].pending /\ p.id = f.id
    BY <1>2, <2>0
  <2>2. PICK a : a = p.who
    OBVIOUS
  <2>3. /\ a \in Actors /\ a = f.who /\ Owned(w, g, p)
        /\ w.task[a] \in TaskType /\ TaskGood(w, a, rn, lm)
        /\ w.task[a].phase # "probe" /\ a \in Calls /\ f.t # "err" => a \in rn
    BY <2>1, <2>2, Owner
  <2>4. PICK d : d = Forget(w, g, P)
    OBVIOUS
  <2>5. /\ Good(d, cn, rn, lm) /\ d.task = w.task /\ d.cache = w.cache
        /\ d.link[g].pending = P
        /\ \A h \in Links : h # g => d.link[h] = w.link[h]
    BY <2>4, ForgetGood
  <2>6. ~Awaited(d, a)
    <3>. SUFFICES ASSUME NEW h \in Links, NEW q \in d.link[h].pending, q.who = a
                  PROVE  FALSE
      BY DEF Awaited
    <3>1. Owned(d, h, q)
      BY <2>5 DEF Good, LinkGood
    <3>2. h = g /\ q.id = f.id
      BY <2>1, <2>2, <2>3, <2>5, <3>1 DEF Owned
    <3>. QED
      BY <2>5, <3>2
  <2>7. PICK t : t = Told(w.task[a], a, f)
    OBVIOUS
  <2>8. v = IF t.phase = "live" THEN [w EXCEPT !.task[a] = t] ELSE With(d, a, t)
    BY <1>2, <2>0, <2>2, <2>4, <2>7 DEF Routed, Forget, With
  <2>9. /\ t \in TaskType
        /\ t.phase = "live" => /\ w.task[a].phase \in {"sent", "live"}
                               /\ t = [w.task[a] EXCEPT !.phase = "live"]
        /\ t.phase # "live" => /\ t.phase \notin {"idle", "probe", "sent"}
                               /\ IF t.phase \in {"probe", "probed", "unready"}
                                  THEN t.link \in Links ELSE t.link = None
                               /\ a \in Calls /\ t.phase = "ok" => t.got = a /\ a \in rn
    <3>1. w.task[a].phase \in {"probe", "sent", "live"} /\ w.task[a].link = g
      BY <2>2, <2>3 DEF Owned
    <3>2. CASE w.task[a].phase = "probe"
      BY <2>3, <2>7, <3>1, <3>2 DEF Told, TaskType, Phases
    <3>3. CASE w.task[a].phase # "probe" /\ a = Watch
      <4>1. CASE f.t = "ok"
        BY <2>3, <2>7, <3>1, <3>3, <4>1 DEF Told, TaskType, Phases
      <4>2. CASE f.t # "ok"
        <5>1. t = [IdleTask EXCEPT !.phase = IF f.t = "unknown" THEN "ended" ELSE "backoff"]
          BY <2>7, <3>3, <4>2 DEF Told
        <5>. QED
          BY <5>1 DEF TaskType, Phases, IdleTask, Place, Someone
      <4>. QED
        BY <4>1, <4>2
    <3>4. CASE w.task[a].phase # "probe" /\ a # Watch
      <4>1. a \in Calls /\ (f.t # "err" => a \in rn)
        BY <2>3, <3>4 DEF Actors
      <4>2. t = IF f.t = "err" THEN [IdleTask EXCEPT !.phase = "failed"]
                ELSE [IdleTask EXCEPT !.phase = "ok", !.got = a]
        BY <2>3, <2>7, <3>4 DEF Told
      <4>. QED
        BY <2>3, <4>1, <4>2 DEF TaskType, Phases, IdleTask, Place, Someone
    <3>. QED
      BY <3>2, <3>3, <3>4
  <2>10. a \in lm.commit => lm.chunks \subseteq rn
    BY <2>2, <2>3 DEF TaskGood, Owned
  <2>11. CASE t.phase = "live"
    <3>1. v = [w EXCEPT !.task[a].phase = "live"]
      BY <2>8, <2>9, <2>11
    <3>. QED
      BY <2>3, <2>9, <2>11, <3>1, LiveGood
  <2>12. CASE t.phase # "live"
    <3>1. v = With(d, a, t) /\ t.phase \notin {"sent", "live"}
      BY <2>8, <2>9, <2>12
    <3>2. Good(v, cn, rn, lm) /\ v.cache = d.cache
      <4>1. /\ t \in TaskType
            /\ IF t.phase \in {"probe", "probed", "unready"} THEN t.link \in Links ELSE t.link = None
            /\ a \in Calls /\ t.phase = "ok" => t.got = a /\ a \in rn
        BY <2>9, <2>12
      <4>2. a \in Actors /\ (a \in lm.commit /\ t.phase # "idle" => lm.chunks \subseteq rn)
        BY <2>3, <2>10
      <4>3. Good(d, cn, rn, lm) /\ ~Awaited(d, a) /\ v = With(d, a, t) /\ t.phase \notin {"sent", "live"}
        BY <2>5, <2>6, <3>1
      <4>4. Good(v, cn, rn, lm) /\ v.task = [d.task EXCEPT ![a] = t] /\ v.cache = d.cache
        BY ONLY <4>1, <4>2, <4>3, PutTask
      <4>. QED
        BY <4>4
    <3>. QED
      BY <2>5, <3>2
  <2>. QED
    BY <2>11, <2>12
<1>. QED
  BY <1>1, <1>2

Uncached(w) == [w EXCEPT !.cache.link = None]

(* A cached link that has ended is forgotten: nothing is under way on it. *)
LEMMA ForgetClosed ==
  ASSUME NEW w, NEW cn, NEW rn, NEW lm, Good(w, cn, rn, lm), ~IsOpen(w, w.cache.link),
         NEW v, v = Uncached(w)
  PROVE  /\ Good(v, cn, rn, lm) /\ v.task = w.task /\ v.link = w.link /\ v.up = w.up /\ v.down = w.down
         /\ v.cache.link = None /\ v.cache.revoked = w.cache.revoked
         /\ v.cache.cooling = w.cache.cooling
<1>0. w \in WorldType /\ w.cache \in CacheType
  BY DEF Good, WorldType
<1>1. \A a \in Actors : w.task[a].phase \notin {"sent", "live"}
  BY NamesApart DEF Good, TaskGood, IsOpen
<1>2. /\ v \in WorldType /\ v.task = w.task /\ v.link = w.link /\ v.up = w.up /\ v.down = w.down
      /\ v.cache.link = None /\ v.cache.revoked = w.cache.revoked
      /\ v.cache.cooling = w.cache.cooling
  BY <1>0 DEF WorldType, CacheType, Place, Uncached
<1>. QED
  BY <1>1, <1>2, SetCache

(* The watch drops its subscription. *)
LEMMA UnsubscribeGood ==
  ASSUME NEW w, NEW cn, NEW rn, NEW lm, Good(w, cn, rn, lm), lm.commit \subseteq Calls,
         w.task[Watch].phase \notin {"probe", "probed", "unready"},
         NEW v, v = Unsubscribe(w)
  PROVE  Good(v, cn, rn, lm) /\ v.cache = w.cache /\ ~Awaited(v, Watch)
<1>0. /\ Watch \in Actors /\ TaskGood(w, Watch, rn, lm) /\ w.task[Watch] \in TaskType
      /\ w \in WorldType
  BY NamesApart DEF Good, WorldType
<1>. DEFINE t == w.task[Watch]
            g == t.link
            P == {p \in w.link[g].pending : p.id # t.id}
            f == Frame("cancel", t.id, Watch)
<1>1. CASE t.phase \notin {"sent", "live"}
  BY <1>0, <1>1, NotAwaited DEF Unsubscribe
<1>2. CASE t.phase \in {"sent", "live"}
  <2>1. g \in Links /\ t.id \in Nat /\ t.id < w.link[g].next
    BY <1>0, <1>2 DEF TaskGood, TaskType
  <2>2. PICK d : d = Forget(w, g, P)
    OBVIOUS
  <2>3. P \subseteq w.link[g].pending
    OBVIOUS
  <2>4. /\ Good(d, cn, rn, lm) /\ d.task = w.task /\ d.cache = w.cache
        /\ d.up = w.up /\ d.down = w.down
        /\ d.link[g].pending = P /\ d.link[g].phase = w.link[g].phase
        /\ d.link[g].next = w.link[g].next
        /\ \A h \in Links : h # g => d.link[h] = w.link[h]
    <3>. HIDE DEF g, P
    <3>. QED
      BY <2>1, <2>2, <2>3, ForgetGood
  <2>5. v = [d EXCEPT !.up[g] = Append(@, f)]
    BY <1>2, <2>2 DEF Unsubscribe, Forget
  <2>. DEFINE U == [d.up EXCEPT ![g] = Append(d.up[g], f)]
  <2>6. v = [d EXCEPT !.up = U]
    BY <2>5
  <2>7. d \in WorldType /\ d.up \in [Links -> Seq(FrameType)] /\ LinkGood(d, g, cn, rn, lm)
    BY <2>1, <2>4 DEF Good, WorldType
  <2>8. f \in FrameType /\ f.t = "cancel" /\ f.id = t.id /\ f.who = Watch
    BY <2>1, <1>0 DEF Frame, FrameType, Someone
  <2>9. f \in Requests(d.link[g], rn, lm)
    BY <2>1, <2>4, <2>8, NamesApart DEF Requests, Matches
  <2>. HIDE DEF f, g, P, t
  <2>10. /\ U \in [Links -> Seq(FrameType)] /\ U[g] = Append(d.up[g], f)
         /\ \A h \in Links : h # g => U[h] = d.up[h]
    BY <2>1, <2>7, <2>8, SeqGrows
  <2>. HIDE DEF U
  <2>11. /\ v \in WorldType /\ v.task = d.task /\ v.cache = d.cache /\ v.link = d.link
         /\ v.up = U /\ v.down = d.down
    BY <2>6, <2>7, <2>10 DEF WorldType
  <2>12. \A b \in Actors : TaskGood(v, b, rn, lm)
    BY <2>4, <2>11 DEF Good, TaskGood
  <2>13. ASSUME NEW h \in Links
         PROVE  LinkGood(v, h, cn, rn, lm)
    <3>1. LinkGood(d, h, cn, rn, lm)
      BY <2>4 DEF Good
    <3>2. d.up[h] \in Seq(Requests(d.link[h], rn, lm))
      BY <3>1 DEF LinkGood
    <3>3. U[h] \in Seq(Requests(d.link[h], rn, lm))
      <4>1. CASE h = g
        BY <2>9, <2>10, <3>2, <4>1, SeqGrows
      <4>2. CASE h # g
        BY <2>10, <3>2, <4>2
      <4>. QED
        BY <4>1, <4>2
    <3>. QED
      BY <2>11, <3>1, <3>3 DEF LinkGood, Owned
  <2>14. Good(v, cn, rn, lm)
    BY <2>11, <2>12, <2>13 DEF Good
  <2>15. ~Awaited(v, Watch)
    <3>. SUFFICES ASSUME NEW h \in Links, NEW q \in v.link[h].pending, q.who = Watch
                  PROVE  FALSE
      BY DEF Awaited
    <3>1. Owned(d, h, q)
      BY <2>4, <2>11 DEF Good, LinkGood
    <3>2. h = g /\ q.id = t.id
      BY <2>4, <3>1 DEF Owned, t, g
    <3>. QED
      BY <2>4, <2>11, <3>2 DEF P
  <2>. QED
    BY <2>4, <2>11, <2>14, <2>15
<1>. QED
  BY <1>1, <1>2

(* Frames travel, and requests are taken in: what is there stays in bounds. *)
LEMMA FramesGood ==
  ASSUME NEW w, NEW v \in WorldType, NEW cn, NEW dn, NEW rn, NEW lm, Good(w, cn, rn, lm),
         v.task = w.task, v.cache = w.cache, v.link = w.link,
         \A g \in Links : /\ v.up[g] \in Seq(Requests(w.link[g], rn, lm))
                          /\ dn[g] \subseteq Requests(w.link[g], rn, lm)
                          /\ v.down[g] \in Seq(Answers(w.link[g], rn))
  PROVE  Good(v, dn, rn, lm)
<1>1. \A b \in Actors : TaskGood(v, b, rn, lm)
  BY DEF Good, TaskGood
<1>2. \A g \in Links : LinkGood(v, g, dn, rn, lm)
  BY DEF Good, LinkGood, Owned
<1>. QED
  BY <1>1, <1>2 DEF Good

(* The host has run more; the bounds on the faults have shrunk. *)
LEMMA MoreRun ==
  ASSUME NEW w, NEW cn, NEW rn, NEW lm, Good(w, cn, rn, lm),
         NEW sn, rn \subseteq sn, NEW km, km.commit = lm.commit, km.chunks = lm.chunks
  PROVE  Good(w, cn, sn, km)
<1>1. \A b \in Actors : TaskGood(w, b, sn, km)
  BY DEF Good, TaskGood
<1>2. ASSUME NEW g \in Links
      PROVE  LinkGood(w, g, cn, sn, km)
  <2>1. LinkGood(w, g, cn, rn, lm)
    BY DEF Good
  <2>2. /\ Requests(w.link[g], rn, lm) \subseteq Requests(w.link[g], sn, km)
        /\ Answers(w.link[g], rn) \subseteq Answers(w.link[g], sn)
    BY DEF Requests, Answers
  <2>. QED
    BY <2>1, <2>2, SeqMono DEF LinkGood
<1>. QED
  BY <1>1, <1>2 DEF Good

-----------------------------------------------------------------------------
(* The steps.                                                              *)

LEMMA Callers ==
  ASSUME lim \in Story
  PROVE  lim.commit \subseteq Calls /\ lim.chunks \subseteq Calls
BY DEF Story

LEMMA WorldFields ==
  /\ World.task = task /\ World.cache = cache /\ World.link = link
  /\ World.up = up /\ World.down = down
BY DEF World

(* What a step of the client's side owes. *)
LEMMA ClientStep ==
  ASSUME LinkInv, NEW w, Adopt(w), Good(w, conn, host.ran, lim), UNCHANGED <<host, conn>>,
         lim' \in Story, lim'.commit = lim.commit, lim'.chunks = lim.chunks,
         token' \in [in : BOOLEAN, noticed : {"yes", "no", "clearing"}],
         view' \in [front : BOOLEAN, dark : BOOLEAN, unsupported : BOOLEAN],
         w.cache.revoked = cache.revoked,
         \/ ~cache.revoked
         \/ w.cache.link = None
         \/ w.cache.link = cache.link /\ (token' = token \/ token'.noticed # "yes")
  PROVE  LinkInv'
<1>1. w \in WorldType
  BY DEF Good
<1>2. w = [task |-> w.task, cache |-> w.cache, link |-> w.link, up |-> w.up, down |-> w.down]
  BY <1>1 DEF WorldType
<1>3. World' = w
  BY <1>2 DEF World, Adopt
<1>4. Good(World', conn', host'.ran, lim')
  BY <1>3, MoreRun
<1>5. cache' = w.cache
  BY DEF Adopt
<1>6. RevokedClean'
  BY <1>5 DEF LinkInv, RevokedClean
<1>7. Committed(host'.ran, lim')
  BY DEF LinkInv, Committed
<1>. QED
  BY <1>4, <1>6, <1>7 DEF LinkInv

LEMMA InitInv == Init => LinkInv
<1>. SUFFICES ASSUME Init PROVE LinkInv
  OBVIOUS
<1>1. lim \in Story
  BY HostLinkAssumption DEF Init
<1>2. World \in WorldType
  <2>1. task \in [Actors -> TaskType]
    BY IdleType DEF Init
  <2>2. cache \in CacheType
    BY DEF Init, CacheType, Place, Someone
  <2>3. link \in [Links -> LinkType]
    BY DEF Init, Unused, LinkType
  <2>4. up \in [Links -> Seq(FrameType)] /\ down \in [Links -> Seq(FrameType)]
    BY DEF Init
  <2>. QED
    BY <2>1, <2>2, <2>3, <2>4 DEF World, WorldType
<1>3. \A a \in Actors : TaskGood(World, a, host.ran, lim)
  BY WorldFields, IdleType DEF Init, TaskGood
<1>4. ASSUME NEW g \in Links
      PROVE  LinkGood(World, g, conn, host.ran, lim)
  <2>1. link[g] = Unused /\ up[g] = <<>> /\ down[g] = <<>> /\ conn[g] = {}
    BY DEF Init
  <2>2. /\ World.link[g].phase = "closed" /\ World.link[g].pending = {}
        /\ World.up[g] = <<>> /\ World.down[g] = <<>>
    BY <2>1, WorldFields DEF Unused
  <2>3. \A S : <<>> \in Seq(S)
    OBVIOUS
  <2>. QED
    BY <2>1, <2>2, <2>3 DEF LinkGood
<1>5. Good(World, conn, host.ran, lim)
  BY <1>2, <1>3, <1>4 DEF Good
<1>6. host \in HostType /\ Committed(host.ran, lim)
  BY <1>1 DEF Init, HostType, Committed, Story
<1>. QED
  BY <1>1, <1>5, <1>6 DEF LinkInv, Init, RevokedClean

LEMMA Facts ==
  ASSUME LinkInv
  PROVE  /\ Good(World, conn, host.ran, lim) /\ World \in WorldType
         /\ lim.commit \subseteq Calls /\ lim.chunks \subseteq Calls /\ cache.link \in Place
         /\ \A a \in Actors : /\ task[a] \in TaskType /\ TaskGood(World, a, host.ran, lim)
                              /\ task[a].link \in Place
                              /\ a \in lim.commit /\ task[a].phase # "idle" =>
                                   lim.chunks \subseteq host.ran
         /\ \A g \in Links : link[g] \in LinkType /\ LinkGood(World, g, conn, host.ran, lim)
<1>1. Good(World, conn, host.ran, lim) /\ World \in WorldType
  BY DEF LinkInv, Good
<1>2. \A a \in Actors : task[a] \in TaskType /\ TaskGood(World, a, host.ran, lim)
  BY <1>1, WorldFields DEF Good, WorldType
<1>3. \A a \in Actors : a \in lim.commit /\ task[a].phase # "idle" => lim.chunks \subseteq host.ran
  BY <1>2, WorldFields DEF TaskGood
<1>4. cache.link \in Place /\ \A g \in Links : link[g] \in LinkType
  BY <1>1, WorldFields DEF WorldType, CacheType
<1>5. \A a \in Actors : task[a].link \in Place
  BY <1>2 DEF TaskType
<1>. QED
  BY <1>1, <1>2, <1>3, <1>4, <1>5, Callers DEF LinkInv, Good

(* A bounded event takes nothing from the upload. *)
LEMMA SpendKeeps ==
  ASSUME LinkInv,
         NEW what \in {"drops", "refused", "slow", "ends", "zombies", "wakes", "auth", "dark", "views",
                     "errors"},
         Spend(what) \/ lim' = lim
  PROVE  lim' \in Story /\ lim'.commit = lim.commit /\ lim'.chunks = lim.chunks
<1>1. CASE lim' = lim
  BY <1>1 DEF LinkInv
<1>2. CASE Spend(what)
  <2>1. lim \in Story /\ lim[what] > 0 /\ lim' = [lim EXCEPT ![what] = lim[what] - 1]
    BY <1>2 DEF LinkInv, Spend
  <2>2. lim[what] - 1 \in Nat
    BY <2>1 DEF Story
  <2>. QED
    BY <2>1, <2>2 DEF Story
<1>. QED
  BY <1>1, <1>2

(* A task that sent nothing moves on. *)
LEMMA TaskMoves ==
  ASSUME LinkInv, NEW a \in Actors, task[a].phase \notin {"probe", "probed", "unready", "sent", "live"},
         NEW t \in TaskType, t.phase \notin {"probe", "probed", "unready", "sent", "live", "ok"}, t.link = None,
         a \in lim.commit /\ t.phase # "idle" => lim.chunks \subseteq host.ran,
         task' = [task EXCEPT ![a] = t],
         UNCHANGED <<lim, cache, token, link, up, down, host, conn, view>>
  PROVE  LinkInv'
<1>1. ~Awaited(World, a)
  BY Facts, WorldFields, NotAwaited
<1>2. PICK v : v = With(World, a, t)
  OBVIOUS
<1>3. /\ Good(v, conn, host.ran, lim) /\ v.task = [World.task EXCEPT ![a] = t]
      /\ v.cache = World.cache /\ v.link = World.link /\ v.up = World.up /\ v.down = World.down
  BY <1>1, <1>2, Facts, PutTask
<1>4. Adopt(v)
  BY <1>3, WorldFields DEF Adopt
<1>. QED
  BY <1>3, <1>4, WorldFields, ClientStep DEF LinkInv

LEMMA StartStep == ASSUME LinkInv, NEW a \in Actors, Start(a) PROVE LinkInv'
<1>1. PICK t : t = [task[a] EXCEPT !.phase = "ask"]
  OBVIOUS
<1>2. t \in TaskType /\ t.phase = "ask" /\ t.link = None
  <2>1. task[a] \in TaskType /\ task[a].link = None
    BY Facts, WorldFields DEF TaskGood, Start
  <2>. QED
    BY <1>1, <2>1 DEF TaskType, Phases
<1>3. a \in lim.commit => lim.chunks \subseteq host.ran
  <2>. SUFFICES ASSUME a \in lim.commit, NEW b \in lim.chunks
                PROVE  b \in host.ran
    OBVIOUS
  <2>1. task[b].phase = "ok" /\ b \in Calls /\ b \in Actors
    BY Facts, NamesApart DEF Start, MayStart
  <2>. QED
    BY <2>1, Facts, WorldFields DEF TaskGood
<1>4. task' = [task EXCEPT ![a] = t]
  BY <1>1 DEF Start
<1>. QED
  BY <1>2, <1>3, <1>4, TaskMoves DEF Start

LEMMA WatchRetriesStep == ASSUME LinkInv, WatchRetries PROVE LinkInv'
<1>1. PICK t : t = [task[Watch] EXCEPT !.phase = "ask"]
  OBVIOUS
<1>2. t \in TaskType /\ t.phase = "ask" /\ t.link = None
  <2>1. task[Watch] \in TaskType /\ task[Watch].link = None
    BY Facts, WorldFields, NamesApart DEF TaskGood, WatchRetries
  <2>. QED
    BY <1>1, <2>1 DEF TaskType, Phases
<1>3. task' = [task EXCEPT ![Watch] = t] /\ Watch \notin lim.commit
  BY <1>1, NamesApart, Facts DEF WatchRetries
<1>. QED
  BY <1>2, <1>3, NamesApart, TaskMoves DEF WatchRetries

LEMMA ReconcileStep == ASSUME LinkInv, Reconcile PROVE LinkInv'
<1>1. Watch \in Actors /\ Watch \notin lim.commit
  BY NamesApart, Facts
<1>2. CASE task[Watch].phase = "idle" /\ task' = [task EXCEPT ![Watch].phase = "ask"]
  <2>1. PICK t : t = [task[Watch] EXCEPT !.phase = "ask"]
    OBVIOUS
  <2>2. t \in TaskType /\ t.phase = "ask" /\ t.link = None
    <3>1. task[Watch] \in TaskType /\ task[Watch].link = None
      BY <1>1, <1>2, Facts, WorldFields DEF TaskGood
    <3>. QED
      BY <2>1, <3>1 DEF TaskType, Phases
  <2>3. task' = [task EXCEPT ![Watch] = t]
    BY <1>2, <2>1
  <2>. QED
    BY <1>1, <1>2, <2>2, <2>3, TaskMoves DEF Reconcile
<1>3. CASE task[Watch].phase = "ended" /\ task' = [task EXCEPT ![Watch] = IdleTask]
  BY <1>1, <1>3, IdleType, TaskMoves DEF Reconcile
<1>. QED
  BY <1>2, <1>3 DEF Reconcile

LEMMA AskStep ==
  ASSUME LinkInv, NEW a \in Actors, Ask(a)
  PROVE  LinkInv'
<1>0. task[a].phase = "ask" /\ World.task[a].phase = "ask"
  BY WorldFields DEF Ask
<1>1. ~Awaited(World, a) /\ (a \in lim.commit => lim.chunks \subseteq host.ran)
  BY <1>0, Facts, NotAwaited
<1>2. PICK w : w = Uncached(World)
  OBVIOUS
<1>3. PICK v : Adopt(v) /\ v = IF cache.revoked THEN Failed(World, a)
                               ELSE IF IsOpen(World, cache.link) THEN Send(World, a, cache.link)
                               ELSE IF view.dark THEN Failed(w, a)
                                                 ELSE [w EXCEPT !.task[a].phase = "queued"]
  BY <1>2 DEF Ask, Uncached
<1>4. CASE cache.revoked
  <2>1. Good(v, conn, host.ran, lim) /\ v.cache = World.cache
    BY <1>1, <1>3, <1>4, Facts, FailedGood
  <2>. QED
    BY <1>3, <2>1, WorldFields, ClientStep DEF Ask, LinkInv
<1>5. CASE ~cache.revoked /\ IsOpen(World, cache.link)
  <2>1. v = Send(World, a, World.cache.link) /\ World.cache.link \in Place
    BY <1>3, <1>5, WorldFields, Facts
  <2>2. Good(v, conn, host.ran, lim) /\ v.cache = World.cache
    BY <1>0, <2>1, Facts, SendGood
  <2>. QED
    BY <1>3, <2>2, WorldFields, ClientStep DEF Ask, LinkInv
<1>6. CASE ~cache.revoked /\ ~IsOpen(World, cache.link)
  <2>1. /\ Good(w, conn, host.ran, lim) /\ w.task = World.task /\ w.link = World.link
        /\ w.cache.link = None /\ w.cache.revoked = cache.revoked
    <3>1. ~IsOpen(World, World.cache.link)
      BY <1>6, WorldFields
    <3>2. /\ Good(w, conn, host.ran, lim) /\ w.task = World.task /\ w.link = World.link
          /\ w.cache.link = None /\ w.cache.revoked = World.cache.revoked
      BY <1>2, <3>1, Facts, ForgetClosed
    <3>. QED
      BY <3>2, WorldFields
  <2>2. ~Awaited(w, a)
    BY <1>1, <2>1 DEF Awaited
  <2>3. Good(v, conn, host.ran, lim) /\ v.cache = w.cache
    <3>1. CASE view.dark
      BY <1>1, <1>3, <1>6, <2>1, <2>2, <3>1, FailedGood
    <3>2. CASE ~view.dark
      <4>1. PICK t \in TaskType : t.phase = "queued" /\ t.link = None /\ v = With(w, a, t)
        <5>. DEFINE t == [w.task[a] EXCEPT !.phase = "queued"]
        <5>1. task[a] \in TaskType /\ task[a].link = None /\ w.task[a] = task[a]
          BY <1>0, <2>1, Facts, WorldFields DEF TaskGood
        <5>2. t \in TaskType /\ t.phase = "queued" /\ t.link = None
          BY <5>1 DEF TaskType, Phases
        <5>. QED
          BY <1>3, <1>6, <3>2, <5>2 DEF With
      <4>2. Good(v, conn, host.ran, lim) /\ v.task = [w.task EXCEPT ![a] = t] /\ v.cache = w.cache
        BY <1>1, <2>1, <2>2, <4>1, PutTask
      <4>. QED
        BY <4>2
    <3>. QED
      BY <3>1, <3>2
  <2>. QED
    BY <1>3, <2>1, <2>3, ClientStep DEF Ask, LinkInv
<1>. QED
  BY <1>4, <1>5, <1>6

LEMMA LockedStep ==
  ASSUME LinkInv, NEW a \in Actors, Locked(a)
  PROVE  LinkInv'
<1>0. task[a].phase = "queued" /\ World.task[a].phase = "queued"
  BY WorldFields DEF Locked
<1>1. ~Awaited(World, a) /\ (a \in lim.commit => lim.chunks \subseteq host.ran)
  BY <1>0, Facts, NotAwaited
<1>2. PICK w : w = Uncached(World)
  OBVIOUS
<1>3. PICK v : Adopt(v) /\ v = IF IsOpen(World, cache.link) THEN Send(World, a, cache.link)
                               ELSE IF w.cache.cooling THEN Failed(w, a)
                               ELSE [w EXCEPT !.task[a] = [@ EXCEPT !.phase = "dial", !.dials = 0],
                                              !.cache.dialer = a]
  BY <1>2 DEF Locked, Uncached
<1>5. CASE IsOpen(World, cache.link)
  <2>1. v = Send(World, a, World.cache.link) /\ World.cache.link \in Place
    BY <1>3, <1>5, WorldFields, Facts
  <2>2. Good(v, conn, host.ran, lim) /\ v.cache = World.cache
    BY <1>0, <2>1, Facts, SendGood
  <2>. QED
    BY <1>3, <2>2, WorldFields, ClientStep DEF Locked, LinkInv
<1>6. CASE ~IsOpen(World, cache.link)
  <2>1. /\ Good(w, conn, host.ran, lim) /\ w.task = World.task /\ w.link = World.link
        /\ w.cache.link = None /\ w.cache.revoked = cache.revoked
    <3>1. ~IsOpen(World, World.cache.link)
      BY <1>6, WorldFields
    <3>2. /\ Good(w, conn, host.ran, lim) /\ w.task = World.task /\ w.link = World.link
          /\ w.cache.link = None /\ w.cache.revoked = World.cache.revoked
      BY <1>2, <3>1, Facts, ForgetClosed
    <3>. QED
      BY <3>2, WorldFields
  <2>2. ~Awaited(w, a)
    BY <1>1, <2>1 DEF Awaited
  <2>3. /\ Good(v, conn, host.ran, lim)
        /\ v.cache.link = None /\ v.cache.revoked = cache.revoked
    <3>1. CASE w.cache.cooling
      <4>1. Good(v, conn, host.ran, lim) /\ v.cache = w.cache
        BY <1>1, <1>3, <1>6, <2>1, <2>2, <3>1, FailedGood
      <4>. QED
        BY <2>1, <4>1
    <3>2. CASE ~w.cache.cooling
      <4>. DEFINE t == [w.task[a] EXCEPT !.phase = "dial", !.dials = 0]
      <4>1. task[a] \in TaskType /\ task[a].link = None /\ w.task[a] = task[a]
        BY <1>0, <2>1, Facts, WorldFields DEF TaskGood
      <4>2. t \in TaskType /\ t.phase = "dial" /\ t.link = None
        BY <4>1 DEF TaskType, Phases
      <4>3. v = [w EXCEPT !.task[a] = t, !.cache.dialer = a]
        BY <1>3, <1>6, <3>2
      <4>. HIDE DEF t
      <4>4. PICK u : u = With(w, a, t)
        OBVIOUS
      <4>5. /\ Good(u, conn, host.ran, lim) /\ u.task = [w.task EXCEPT ![a] = t]
            /\ u.cache = w.cache
        BY <1>1, <2>1, <2>2, <4>2, <4>4, PutTask
      <4>6. v = [u EXCEPT !.cache.dialer = a]
        BY <4>3, <4>4 DEF With
      <4>7. u \in WorldType /\ u.cache \in CacheType
        BY <4>5 DEF Good, WorldType
      <4>8. /\ v \in WorldType /\ v.task = u.task /\ v.link = u.link /\ v.up = u.up
            /\ v.down = u.down /\ v.cache.link = u.cache.link /\ v.cache.revoked = u.cache.revoked
        BY <4>6, <4>7 DEF WorldType, CacheType, Someone
      <4>. QED
        BY <2>1, <4>5, <4>8, SetCache
    <3>. QED
      BY <3>1, <3>2
  <2>. QED
    BY <1>3, <2>3, ClientStep DEF Locked, LinkInv
<1>. QED
  BY <1>5, <1>6

LEMMA DialRefusedStep ==
  ASSUME LinkInv, NEW a \in Actors, DialRefused(a)
  PROVE  LinkInv'
<1>1. ~Awaited(World, a) /\ (a \in lim.commit => lim.chunks \subseteq host.ran)
  BY Facts, WorldFields, NotAwaited DEF DialRefused
<1>2. PICK v : Adopt(v) /\ v = DialFailed(World, a)
  BY DEF DialRefused
<1>3. /\ Good(v, conn, host.ran, lim)
      /\ v.cache.link = World.cache.link /\ v.cache.revoked = World.cache.revoked
  BY <1>1, <1>2, Facts, DialFailedGood
<1>4. lim' \in Story /\ lim'.commit = lim.commit /\ lim'.chunks = lim.chunks
  BY SpendKeeps DEF DialRefused
<1>. QED
  BY <1>2, <1>3, <1>4, WorldFields, ClientStep DEF DialRefused, LinkInv

LEMMA CloseKeeps ==
  ASSUME LinkInv, NEW g \in Place, NEW kept \in KeptOf(World, g), NEW v, v = Close(World, g, kept)
  PROVE  /\ Good(v, conn, host.ran, lim) /\ v.cache = cache
         /\ \A a \in Actors : task[a].phase \notin {"sent", "live"} => v.task[a] = task[a]
         /\ ~IsOpen(v, g)
<1>1. Good(v, conn, host.ran, lim)
  BY Facts, CloseGood
<1>2. v.cache = World.cache /\ ~IsOpen(v, g)
  BY Facts, CloseFacts DEF IsOpen
<1>3. ASSUME NEW a \in Actors, task[a].phase \notin {"sent", "live"}
      PROVE  v.task[a] = task[a]
  <2>1. v.task[a] = IF IsOpen(World, g) THEN Bereft(World.task[a], g) ELSE World.task[a]
    BY Facts, CloseFacts
  <2>. QED
    BY <1>3, <2>1, WorldFields DEF Bereft
<1>. QED
  BY <1>1, <1>2, <1>3, WorldFields

LEMMA ProbeFailsStep ==
  ASSUME LinkInv, NEW a \in Actors, ProbeFails(a)
  PROVE  LinkInv'
<1>1. PICK kept \in KeptOf(World, task[a].link) : Adopt(DialFailed(Close(World, task[a].link, kept), a))
  BY DEF ProbeFails
<1>2. PICK w : w = Close(World, task[a].link, kept)
  OBVIOUS
<1>3. /\ Good(w, conn, host.ran, lim) /\ w.cache = cache /\ w.task[a] = task[a]
      /\ ~IsOpen(w, task[a].link)
  BY <1>2, Facts, CloseKeeps DEF ProbeFails
<1>4. ~Awaited(w, a) /\ (a \in lim.commit => lim.chunks \subseteq host.ran)
  BY <1>3, Facts, NotAwaited DEF ProbeFails
<1>5. PICK v : v = DialFailed(w, a)
  OBVIOUS
<1>6. /\ Good(v, conn, host.ran, lim)
      /\ v.cache.link = w.cache.link /\ v.cache.revoked = w.cache.revoked
  BY <1>3, <1>4, <1>5, DialFailedGood
<1>7. lim' \in Story /\ lim'.commit = lim.commit /\ lim'.chunks = lim.chunks
  BY SpendKeeps DEF ProbeFails, TimesOut
<1>8. Adopt(v)
  BY <1>1, <1>2, <1>5
<1>. QED
  BY <1>3, <1>6, <1>7, <1>8, ClientStep DEF ProbeFails, LinkInv

LEMMA CacheStep ==
  ASSUME LinkInv, NEW a \in Actors, Cache(a)
  PROVE  LinkInv'
<1>0. task[a].phase = "probed" /\ task[a].link \in Links
  BY Facts, WorldFields DEF Cache, TaskGood
<1>1. CASE cache.revoked
  <2>1. PICK kept \in KeptOf(World, task[a].link) :
          Adopt(Failed(Unlock([Close(World, task[a].link, kept) EXCEPT !.cache.cooling = FALSE], a), a))
    BY <1>1 DEF Cache
  <2>2. PICK w : w = Close(World, task[a].link, kept)
    OBVIOUS
  <2>3. /\ Good(w, conn, host.ran, lim) /\ w.cache = cache /\ w.task[a] = task[a]
        /\ ~IsOpen(w, task[a].link)
    BY <1>0, <2>2, Facts, CloseKeeps
  <2>4. PICK u : u = [w EXCEPT !.cache.cooling = FALSE]
    OBVIOUS
  <2>5. w \in WorldType /\ w.cache \in CacheType
    BY <2>3 DEF Good, WorldType
  <2>6. /\ u \in WorldType /\ u.task = w.task /\ u.link = w.link /\ u.up = w.up /\ u.down = w.down
        /\ u.cache.link = w.cache.link /\ u.cache.revoked = w.cache.revoked
    BY <2>4, <2>5 DEF WorldType, CacheType
  <2>7. Good(u, conn, host.ran, lim)
    BY <2>3, <2>6, SetCache
  <2>8. PICK x : x = Unlock(u, a)
    OBVIOUS
  <2>9. /\ Good(x, conn, host.ran, lim) /\ x.task = u.task /\ x.link = u.link
        /\ x.cache.link = u.cache.link /\ x.cache.revoked = u.cache.revoked
    BY <2>7, <2>8, UnlockGood
  <2>10. ~Awaited(x, a) /\ (a \in lim.commit => lim.chunks \subseteq host.ran)
    <3>1. x.task[a].phase = "probed"
      BY <1>0, <2>3, <2>6, <2>9
    <3>. QED
      BY <1>0, <2>9, <3>1, Facts, NotAwaited
  <2>11. PICK v : v = Failed(x, a)
    OBVIOUS
  <2>12. Good(v, conn, host.ran, lim) /\ v.cache = x.cache
    BY <2>9, <2>10, <2>11, FailedGood
  <2>13. Adopt(v)
    BY <2>1, <2>2, <2>4, <2>8, <2>11
  <2>. QED
    BY <2>3, <2>6, <2>9, <2>12, <2>13, ClientStep DEF Cache, LinkInv
<1>2. CASE ~cache.revoked
  <2>1. PICK kept \in Kept(World) :
          LET w == [DropCached(World, kept) EXCEPT !.cache.cooling = FALSE,
                                                   !.cache.link = task[a].link]
          IN  Adopt(Send(Unlock(w, a), a, task[a].link))
    BY <1>2 DEF Cache
  <2>2. PICK d : d = DropCached(World, kept)
    OBVIOUS
  <2>3. /\ Good(d, conn, host.ran, lim)
        /\ d.cache.revoked = World.cache.revoked
        /\ \A b \in Actors : d.task[b].phase \notin {"sent", "live"}
        /\ d.task[a].phase = "probed"
    <3>1. /\ Good(d, conn, host.ran, lim) /\ d.cache.revoked = World.cache.revoked
          /\ \A b \in Actors : IF World.task[b].phase \in {"sent", "live"}
                               THEN d.task[b].phase \in {"lost", "backoff"}
                               ELSE d.task[b] = World.task[b]
      BY <2>2, Facts, DropCachedGood
    <3>. QED
      BY <1>0, <3>1, WorldFields
  <2>4. PICK w : w = [d EXCEPT !.cache.cooling = FALSE, !.cache.link = task[a].link]
    OBVIOUS
  <2>5. d \in WorldType /\ d.cache \in CacheType
    BY <2>3 DEF Good, WorldType
  <2>6. /\ w \in WorldType /\ w.task = d.task /\ w.link = d.link /\ w.up = d.up /\ w.down = d.down
        /\ w.cache.link = task[a].link /\ w.cache.revoked = d.cache.revoked
    BY <1>0, <2>4, <2>5 DEF WorldType, CacheType, Place
  <2>7. Good(w, conn, host.ran, lim)
    BY <2>3, <2>6, SetCache
  <2>8. PICK x : x = Unlock(w, a)
    OBVIOUS
  <2>9. /\ Good(x, conn, host.ran, lim) /\ x.task = w.task
        /\ x.cache.link = w.cache.link /\ x.cache.revoked = w.cache.revoked
    BY <2>7, <2>8, UnlockGood
  <2>10. PICK v : v = Send(x, a, task[a].link)
    OBVIOUS
  <2>11. Good(v, conn, host.ran, lim) /\ v.cache = x.cache
    <3>1. x.task[a].phase = "probed" /\ x.cache.link = task[a].link
      BY <2>3, <2>6, <2>9
    <3>. QED
      BY <2>9, <2>10, <3>1, Facts, SendGood
  <2>12. Adopt(v)
    BY <2>1, <2>2, <2>4, <2>8, <2>10
  <2>. QED
    BY <1>2, <2>3, <2>6, <2>9, <2>11, <2>12, WorldFields, ClientStep DEF Cache, LinkInv
<1>. QED
  BY <1>1, <1>2

LEMMA EvictStep == ASSUME LinkInv, Evict PROVE LinkInv'
<1>1. PICK v : v = Uncached(World)
  OBVIOUS
<1>2. ~IsOpen(World, World.cache.link)
  BY WorldFields DEF Evict
<1>3. /\ Good(v, conn, host.ran, lim) /\ v.task = World.task /\ v.link = World.link
      /\ v.up = World.up /\ v.down = World.down /\ v.cache.link = None
      /\ v.cache.revoked = World.cache.revoked
  BY <1>1, <1>2, Facts, ForgetClosed
<1>4. v.cache = [cache EXCEPT !.link = None]
  BY <1>1, Facts, WorldFields DEF Uncached, WorldType
<1>5. Adopt(v)
  BY <1>3, <1>4, WorldFields DEF Adopt, Evict
<1>. QED
  BY <1>3, <1>5, WorldFields, ClientStep DEF Evict, LinkInv

(* Only the flags of the cache change. *)
LEMMA FlagsStep ==
  ASSUME LinkInv, NEW c \in CacheType, c.link = cache.link, c.revoked = cache.revoked,
         UNCHANGED <<task, link, up, down, host, conn>>, cache' = c,
         lim' \in Story, lim'.commit = lim.commit, lim'.chunks = lim.chunks,
         token' \in [in : BOOLEAN, noticed : {"yes", "no", "clearing"}],
         token' = token \/ token'.noticed # "yes",
         view' \in [front : BOOLEAN, dark : BOOLEAN, unsupported : BOOLEAN]
  PROVE  LinkInv'
<1>1. PICK v : v = [World EXCEPT !.cache = c]
  OBVIOUS
<1>2. /\ v \in WorldType /\ v.task = World.task /\ v.link = World.link /\ v.up = World.up
      /\ v.down = World.down /\ v.cache = c
  BY <1>1, Facts DEF WorldType
<1>3. Good(v, conn, host.ran, lim)
  BY <1>2, WorldFields, Facts, SetCache
<1>4. Adopt(v)
  BY <1>2, WorldFields DEF Adopt
<1>. QED
  BY <1>2, <1>3, <1>4, ClientStep DEF LinkInv

LEMMA CooldownEndsStep == ASSUME LinkInv, CooldownEnds PROVE LinkInv'
<1>1. cache \in CacheType
  BY Facts, WorldFields DEF WorldType
<1>2. PICK c : c = [cache EXCEPT !.cooling = FALSE]
  OBVIOUS
<1>3. c \in CacheType /\ c.link = cache.link /\ c.revoked = cache.revoked
  BY <1>1, <1>2 DEF CacheType
<1>. QED
  BY <1>2, <1>3, FlagsStep DEF CooldownEnds, LinkInv

LEMMA ForegroundStep == ASSUME LinkInv, Foreground PROVE LinkInv'
<1>1. cache \in CacheType
  BY Facts, WorldFields DEF WorldType
<1>. QED
  BY <1>1, FlagsStep DEF Foreground, LinkInv

(* Dropping the cached link, whatever else. *)
LEMMA DropKeeps ==
  ASSUME LinkInv, NEW kept \in Kept(World), NEW v, v = DropCached(World, kept)
  PROVE  /\ Good(v, conn, host.ran, lim) /\ v.cache.link = None /\ v.cache.revoked = cache.revoked
         /\ v \in WorldType /\ v.cache \in CacheType
         /\ \A a \in Actors : IF task[a].phase \in {"sent", "live"}
                              THEN v.task[a].phase \in {"lost", "backoff"}
                              ELSE v.task[a] = task[a]
<1>1. /\ Good(v, conn, host.ran, lim) /\ v.cache.link = None
      /\ v.cache.revoked = World.cache.revoked
      /\ \A a \in Actors : IF World.task[a].phase \in {"sent", "live"}
                           THEN v.task[a].phase \in {"lost", "backoff"}
                           ELSE v.task[a] = World.task[a]
  BY Facts, DropCachedGood
<1>. QED
  BY <1>1, WorldFields DEF Good, WorldType

LEMMA LostStep ==
  ASSUME LinkInv, NEW a \in Actors, Lost(a)
  PROVE  LinkInv'
<1>0. /\ task[a].phase = "lost" /\ task[a] \in TaskType
      /\ a \in lim.commit => lim.chunks \subseteq host.ran
  BY Facts DEF Lost
<1>1. PICK kept \in Kept(World) :
        LET w == DropCached(World, kept)
        IN  Adopt(IF a = Watch THEN [w EXCEPT !.task[a] = [IdleTask EXCEPT !.phase = "backoff"]]
                  ELSE IF task[a].tries + 1 < CallAttempts
                       THEN [w EXCEPT !.task[a] = [@ EXCEPT !.phase = "ask", !.link = None,
                                                            !.tries = task[a].tries + 1]]
                       ELSE Failed(w, a))
  BY DEF Lost
<1>2. PICK w : w = DropCached(World, kept)
  OBVIOUS
<1>3. /\ Good(w, conn, host.ran, lim) /\ w.cache.link = None /\ w.cache.revoked = cache.revoked
      /\ w.task[a] = task[a]
  BY <1>0, <1>2, DropKeeps
<1>4. ~Awaited(w, a)
  BY <1>0, <1>3, NotAwaited
<1>5. PICK v : v = IF a = Watch THEN [w EXCEPT !.task[a] = [IdleTask EXCEPT !.phase = "backoff"]]
                   ELSE IF task[a].tries + 1 < CallAttempts
                        THEN [w EXCEPT !.task[a] = [@ EXCEPT !.phase = "ask", !.link = None,
                                                             !.tries = task[a].tries + 1]]
                        ELSE Failed(w, a)
  OBVIOUS
<1>6. Good(v, conn, host.ran, lim) /\ v.cache = w.cache
  <2>1. CASE a # Watch /\ ~(task[a].tries + 1 < CallAttempts)
    BY <1>0, <1>3, <1>4, <1>5, <2>1, FailedGood
  <2>2. CASE a = Watch \/ task[a].tries + 1 < CallAttempts
    <3>1. PICK t \in TaskType : t.phase \in {"backoff", "ask"} /\ t.link = None /\ v = With(w, a, t)
      <4>1. CASE a = Watch
        <5>. DEFINE t == [IdleTask EXCEPT !.phase = "backoff"]
        <5>1. t \in TaskType /\ t.phase = "backoff" /\ t.link = None
          BY DEF TaskType, Phases, IdleTask, Place, Someone
        <5>. QED
          BY <1>5, <4>1, <5>1 DEF With
      <4>2. CASE a # Watch
        <5>. DEFINE t == [task[a] EXCEPT !.phase = "ask", !.link = None, !.tries = task[a].tries + 1]
        <5>1. task[a].tries + 1 \in Nat
          BY <1>0 DEF TaskType
        <5>2. t \in TaskType /\ t.phase = "ask" /\ t.link = None
          BY <1>0, <5>1 DEF TaskType, Phases, Place
        <5>3. v = With(w, a, t)
          BY <1>3, <1>5, <2>2, <4>2 DEF With
        <5>. QED
          BY <5>2, <5>3
      <4>. QED
        BY <4>1, <4>2
    <3>2. Good(v, conn, host.ran, lim) /\ v.task = [w.task EXCEPT ![a] = t] /\ v.cache = w.cache
      BY <1>0, <1>3, <1>4, <3>1, PutTask
    <3>. QED
      BY <3>2
  <2>. QED
    BY <2>1, <2>2
<1>7. Adopt(v)
  BY <1>1, <1>2, <1>5
<1>. QED
  BY <1>3, <1>6, <1>7, ClientStep DEF Lost, LinkInv

LEMMA DeadlineStep ==
  ASSUME LinkInv, NEW a \in Actors, Deadline(a)
  PROVE  LinkInv'
<1>1. PICK kept \in Kept(World) : Adopt(Failed(DropCached(World, kept), a))
  BY DEF Deadline
<1>2. PICK w : w = DropCached(World, kept)
  OBVIOUS
<1>3. /\ Good(w, conn, host.ran, lim) /\ w.cache.link = None /\ w.cache.revoked = cache.revoked
      /\ w.task[a].phase \in {"lost", "backoff"}
  BY <1>2, DropKeeps DEF Deadline
<1>4. ~Awaited(w, a) /\ (a \in lim.commit => lim.chunks \subseteq host.ran)
  BY <1>3, Facts, NotAwaited DEF Deadline
<1>5. PICK v : v = Failed(w, a)
  OBVIOUS
<1>6. Good(v, conn, host.ran, lim) /\ v.cache = w.cache
  BY <1>3, <1>4, <1>5, FailedGood
<1>7. lim' \in Story /\ lim'.commit = lim.commit /\ lim'.chunks = lim.chunks
  BY SpendKeeps DEF Deadline, TimesOut
<1>8. Adopt(v)
  BY <1>1, <1>2, <1>5
<1>. QED
  BY <1>3, <1>6, <1>7, <1>8, ClientStep DEF Deadline, LinkInv

(* The links are cleared: after sleep, and by the watcher of the credentials. *)
LEMMA ClearedStep ==
  ASSUME LinkInv, NEW kept \in Kept(World),
         Adopt([DropCached(World, kept) EXCEPT !.cache.cooling = FALSE]),
         UNCHANGED <<host, conn, view>>,
         lim' \in Story, lim'.commit = lim.commit, lim'.chunks = lim.chunks,
         token' \in [in : BOOLEAN, noticed : {"yes", "no", "clearing"}]
  PROVE  LinkInv'
<1>1. PICK w : w = DropCached(World, kept)
  OBVIOUS
<1>2. /\ Good(w, conn, host.ran, lim) /\ w.cache.link = None /\ w.cache.revoked = cache.revoked
      /\ w \in WorldType /\ w.cache \in CacheType
  BY <1>1, DropKeeps
<1>3. PICK v : v = [w EXCEPT !.cache.cooling = FALSE]
  OBVIOUS
<1>4. /\ v \in WorldType /\ v.task = w.task /\ v.link = w.link /\ v.up = w.up /\ v.down = w.down
      /\ v.cache.link = w.cache.link /\ v.cache.revoked = w.cache.revoked
  BY <1>2, <1>3 DEF WorldType, CacheType
<1>5. Good(v, conn, host.ran, lim)
  BY <1>2, <1>4, SetCache
<1>6. Adopt(v)
  BY <1>1, <1>3
<1>. QED
  BY <1>2, <1>4, <1>5, <1>6, ClientStep DEF LinkInv

LEMMA WakeStep == ASSUME LinkInv, Wake PROVE LinkInv'
<1>1. lim' \in Story /\ lim'.commit = lim.commit /\ lim'.chunks = lim.chunks
  BY SpendKeeps DEF Wake
<1>. QED
  BY <1>1, ClearedStep DEF Wake, LinkInv

LEMMA LinksClearedStep == ASSUME LinkInv, LinksCleared PROVE LinkInv'
<1>1. token' \in [in : BOOLEAN, noticed : {"yes", "no", "clearing"}]
  BY DEF LinksCleared, LinkInv
<1>. QED
  BY <1>1, ClearedStep DEF LinksCleared, LinkInv

LEMMA SignInOrOutStep == ASSUME LinkInv, SignInOrOut PROVE LinkInv'
<1>1. cache \in CacheType
  BY Facts, WorldFields DEF WorldType
<1>2. lim' \in Story /\ lim'.commit = lim.commit /\ lim'.chunks = lim.chunks
  BY SpendKeeps DEF SignInOrOut
<1>3. /\ token' \in [in : BOOLEAN, noticed : {"yes", "no", "clearing"}]
      /\ token'.noticed = "no"
  BY DEF SignInOrOut, LinkInv
<1>. QED
  BY <1>1, <1>2, <1>3, FlagsStep DEF SignInOrOut, LinkInv

LEMMA PresenceChangesStep == ASSUME LinkInv, PresenceChanges PROVE LinkInv'
<1>1. cache \in CacheType
  BY Facts, WorldFields DEF WorldType
<1>2. lim' \in Story /\ lim'.commit = lim.commit /\ lim'.chunks = lim.chunks
  BY SpendKeeps DEF PresenceChanges
<1>3. view' \in [front : BOOLEAN, dark : BOOLEAN, unsupported : BOOLEAN]
  BY DEF PresenceChanges, LinkInv
<1>. QED
  BY <1>1, <1>2, <1>3, FlagsStep DEF PresenceChanges, LinkInv

(* Acting on a sign-out refuses new links before it drops the one there is. *)
LEMMA TokenNoticedStep == ASSUME LinkInv, TokenNoticed PROVE LinkInv'
<1>1. token' \in [in : BOOLEAN, noticed : {"yes", "no", "clearing"}]
  BY DEF TokenNoticed, LinkInv
<1>2. cache' \in CacheType /\ cache'.link = cache.link /\ cache'.revoked = ~token.in
  <2>1. cache \in CacheType /\ token.in \in BOOLEAN
    BY Facts, WorldFields DEF WorldType, LinkInv
  <2>. QED
    BY <2>1 DEF TokenNoticed, CacheType
<1>3. PICK v : v = [World EXCEPT !.cache = cache']
  OBVIOUS
<1>4. /\ v \in WorldType /\ v.task = World.task /\ v.link = World.link /\ v.up = World.up
      /\ v.down = World.down /\ v.cache = cache'
  BY <1>2, <1>3, Facts DEF WorldType
<1>5. Good(v, conn, host.ran, lim)
  BY <1>2, <1>4, WorldFields, Facts, SetCache
<1>6. v = World'
  <2>1. v = [task |-> v.task, cache |-> v.cache, link |-> v.link, up |-> v.up, down |-> v.down]
    BY <1>4 DEF WorldType
  <2>. QED
    BY <1>4, <2>1, WorldFields DEF World, TokenNoticed
<1>7. RevokedClean'
  BY <1>2 DEF RevokedClean, TokenNoticed, LinkInv
<1>. QED
  BY <1>1, <1>5, <1>6, <1>7 DEF LinkInv, TokenNoticed

LEMMA BackgroundStep == ASSUME LinkInv, Background PROVE LinkInv'
<1>0. Watch \in Actors /\ Watch \notin lim.commit /\ lim.commit \subseteq Calls /\ task[Watch].link \in Place
  BY NamesApart, Facts
<1>1. PICK kept \in KeptOf(World, task[Watch].link) :
        LET w == IF task[Watch].phase \in {"probe", "probed", "unready"}
                 THEN Close(World, task[Watch].link, kept) ELSE Unsubscribe(World)
        IN  Adopt([Unlock(w, Watch) EXCEPT !.task[Watch] = IdleTask])
  BY DEF Background
<1>2. PICK w : w = IF task[Watch].phase \in {"probe", "probed", "unready"}
                   THEN Close(World, task[Watch].link, kept) ELSE Unsubscribe(World)
  OBVIOUS
<1>3. Good(w, conn, host.ran, lim) /\ w.cache = cache /\ ~Awaited(w, Watch)
  <2>1. CASE task[Watch].phase \in {"probe", "probed", "unready"}
    <3>1. /\ Good(w, conn, host.ran, lim) /\ w.cache = cache /\ w.task[Watch] = task[Watch]
          /\ ~IsOpen(w, task[Watch].link)
      BY <1>0, <1>2, <2>1, CloseKeeps
    <3>. QED
      BY <1>0, <2>1, <3>1, NotAwaited
  <2>2. CASE task[Watch].phase \notin {"probe", "probed", "unready"}
    <3>1. w = Unsubscribe(World) /\ World.task[Watch].phase \notin {"probe", "probed", "unready"}
      BY <1>2, <2>2, WorldFields
    <3>2. Good(w, conn, host.ran, lim) /\ w.cache = World.cache /\ ~Awaited(w, Watch)
      BY <1>0, <3>1, Facts, UnsubscribeGood
    <3>. QED
      BY <3>2, WorldFields
  <2>. QED
    BY <2>1, <2>2
<1>4. PICK x : x = Unlock(w, Watch)
  OBVIOUS
<1>5. /\ Good(x, conn, host.ran, lim) /\ x.link = w.link
      /\ x.cache.link = w.cache.link /\ x.cache.revoked = w.cache.revoked
  BY <1>3, <1>4, UnlockGood
<1>6. PICK v : v = With(x, Watch, IdleTask)
  OBVIOUS
<1>7. Good(v, conn, host.ran, lim) /\ v.task = [x.task EXCEPT ![Watch] = IdleTask] /\ v.cache = x.cache
  <2>1. ~Awaited(x, Watch)
    BY <1>3, <1>5 DEF Awaited
  <2>2. IdleTask.phase \notin {"probe", "probed", "unready", "sent", "live", "ok"}
    BY IdleType
  <2>. QED
    BY <1>0, <1>5, <1>6, <2>1, <2>2, IdleType, PutTask
<1>8. Adopt(v)
  BY <1>1, <1>2, <1>4, <1>6 DEF With
<1>9. lim' \in Story /\ lim'.commit = lim.commit /\ lim'.chunks = lim.chunks
  BY SpendKeeps DEF Background
<1>10. view' \in [front : BOOLEAN, dark : BOOLEAN, unsupported : BOOLEAN]
  BY DEF Background, LinkInv
<1>. QED
  BY <1>3, <1>5, <1>7, <1>8, <1>9, <1>10, ClientStep DEF Background, LinkInv

LEMMA CutStep ==
  ASSUME LinkInv, NEW g \in Links, PathSilent(g) \/ Drop(g)
  PROVE  LinkInv'
<1>1. PICK kept \in KeptOf(World, g) : Adopt(Close(World, g, kept))
  BY DEF PathSilent, Drop
<1>2. PICK v : v = Close(World, g, kept)
  OBVIOUS
<1>3. Good(v, conn, host.ran, lim) /\ v.cache = cache
  BY <1>2, CloseKeeps DEF Place
<1>4. lim' \in Story /\ lim'.commit = lim.commit /\ lim'.chunks = lim.chunks
  BY SpendKeeps DEF PathSilent, Drop
<1>. QED
  BY <1>1, <1>2, <1>3, <1>4, ClientStep DEF PathSilent, Drop, LinkInv

(* A spare socket is opened: nothing of its past is left. *)
LEMMA DialStep == ASSUME LinkInv, NEW a \in Actors, Dial(a) PROVE LinkInv'
<1>1. PICK g : g = CHOOSE h \in Spare : TRUE
  OBVIOUS
<1>2. /\ g \in Links /\ link[g].phase = "closed" /\ cache.link # g /\ conn[g] = {}
      /\ \A b \in Actors : task[b].link # g
  BY <1>1 DEF Dial, Spare
<1>. DEFINE l == [phase |-> "open", next |-> 2, pending |-> {[id |-> 1, who |-> a]}]
            f == Frame("probe", 1, a)
            t == [task[a] EXCEPT !.phase = "probe", !.link = g, !.id = 1]
            T == [task EXCEPT ![a] = t]
            L == [link EXCEPT ![g] = l]
            U == [up EXCEPT ![g] = <<f>>]
            D == [down EXCEPT ![g] = <<>>]
<1>3. task' = T /\ link' = L /\ up' = U /\ down' = D /\ cache' = cache
  <2>1. PICK v : Adopt(v) /\ v = [World EXCEPT !.link[g] = l, !.up[g] = <<f>>, !.down[g] = <<>>,
                                              !.task[a] = [@ EXCEPT !.phase = "probe", !.link = g, !.id = 1]]
    BY <1>1 DEF Dial
  <2>2. v = [World EXCEPT !.link = L, !.up = U, !.down = D, !.task = T]
    BY <2>1, WorldFields
  <2>. HIDE DEF L, U, D, T
  <2>3. v.link = L /\ v.up = U /\ v.down = D /\ v.task = T /\ v.cache = cache
    BY <2>2, Facts, WorldFields DEF WorldType
  <2>. QED
    BY <2>1, <2>3 DEF Adopt
<1>4. /\ task \in [Actors -> TaskType] /\ link \in [Links -> LinkType] /\ cache \in CacheType
      /\ up \in [Links -> Seq(FrameType)] /\ down \in [Links -> Seq(FrameType)]
      /\ task[a] \in TaskType /\ task[a].phase = "dial"
  BY Facts, WorldFields DEF WorldType, Dial
<1>5. l \in LinkType /\ l.phase = "open" /\ l.next = 2 /\ l.pending = {[id |-> 1, who |-> a]}
  BY DEF LinkType
<1>6. t \in TaskType /\ t.phase = "probe" /\ t.link = g /\ t.id = 1
  BY <1>2, <1>4 DEF TaskType, Phases, Place
<1>7. f \in FrameType /\ f.t = "probe" /\ f.id = 1 /\ f.who = a
  BY DEF Frame, FrameType, Someone
<1>. HIDE DEF l, f, t
<1>8. /\ T \in [Actors -> TaskType] /\ T[a] = t /\ \A b \in Actors : b # a => T[b] = task[b]
      /\ L \in [Links -> LinkType] /\ L[g] = l /\ \A h \in Links : h # g => L[h] = link[h]
  BY <1>2, <1>4, <1>5, <1>6
<1>9. /\ U \in [Links -> Seq(FrameType)] /\ U[g] = <<f>> /\ \A h \in Links : h # g => U[h] = up[h]
      /\ D \in [Links -> Seq(FrameType)] /\ D[g] = <<>> /\ \A h \in Links : h # g => D[h] = down[h]
  <2>1. <<f>> \in Seq(FrameType) /\ <<>> \in Seq(FrameType)
    BY <1>7, SeqGrows
  <2>. QED
    BY <1>2, <1>4, <2>1
<1>. HIDE DEF T, L, U, D
<1>10. PICK v : v = [task |-> T, cache |-> cache, link |-> L, up |-> U, down |-> D]
  OBVIOUS
<1>11. /\ v \in WorldType /\ v.task = T /\ v.cache = cache /\ v.link = L /\ v.up = U /\ v.down = D
  BY <1>4, <1>8, <1>9, <1>10 DEF WorldType
<1>12. ASSUME NEW b \in Actors
       PROVE  TaskGood(v, b, host.ran, lim)
  <2>1. TaskGood(World, b, host.ran, lim)
    BY Facts
  <2>2. CASE b = a
    BY <1>2, <1>4, <1>6, <1>8, <1>11, <2>2, Facts DEF TaskGood
  <2>3. CASE b # a
    <3>1. v.task[b] = task[b]
      BY <1>8, <1>11, <2>3
    <3>2. task[b].phase \in {"sent", "live"} => v.link[task[b].link] = link[task[b].link]
      BY <1>2, <1>8, <1>11, <2>1, WorldFields DEF TaskGood
    <3>. QED
      BY <1>11, <2>1, <3>1, <3>2, WorldFields DEF TaskGood
  <2>. QED
    BY <2>2, <2>3
<1>13. ASSUME NEW h \in Links, h # g
       PROVE  LinkGood(v, h, conn, host.ran, lim)
  <2>1. LinkGood(World, h, conn, host.ran, lim) /\ link[h] \in LinkType
    BY Facts
  <2>2. ~Awaited(World, a)
    BY <1>4, Facts, WorldFields, NotAwaited
  <2>3. \A p \in link[h].pending : p.who \in Actors /\ p.who # a
    BY <2>1, <2>2, WorldFields DEF Awaited, LinkType
  <2>. QED
    <3>1. v.link[h] = link[h] /\ v.up[h] = up[h] /\ v.down[h] = down[h]
      BY <1>8, <1>9, <1>11, <1>13
    <3>2. ASSUME NEW p \in link[h].pending
          PROVE  Owned(v, h, p)
      <4>1. Owned(World, h, p) /\ v.task[p.who] = task[p.who]
        BY <1>8, <1>11, <2>1, <2>3, WorldFields DEF LinkGood
      <4>. QED
        BY <3>1, <4>1, WorldFields DEF Owned
    <3>. QED
      BY <2>1, <3>1, <3>2, WorldFields DEF LinkGood
<1>14. LinkGood(v, g, conn, host.ran, lim)
  <2>1. Owned(v, g, [id |-> 1, who |-> a])
    BY <1>5, <1>6, <1>8, <1>11 DEF Owned
  <2>2. f \in Requests(v.link[g], host.ran, lim)
    <3>1. Matches(f, v.link[g])
      BY <1>5, <1>7, <1>8, <1>11 DEF Matches
    <3>. QED
      BY <1>4, <1>7, <3>1, Facts DEF Requests
  <2>3. <<f>> \in Seq(Requests(v.link[g], host.ran, lim)) /\ <<>> \in Seq(Answers(v.link[g], host.ran))
    BY <2>2, SeqGrows
  <2>. QED
    <3>1. /\ v.link[g].phase = "open" /\ v.link[g].next = 2
          /\ v.link[g].pending = {[id |-> 1, who |-> a]} /\ v.up[g] = <<f>> /\ v.down[g] = <<>>
      BY <1>5, <1>8, <1>9, <1>11
    <3>. QED
      BY <1>2, <2>1, <2>3, <3>1 DEF LinkGood
<1>15. \A h \in Links : LinkGood(v, h, conn, host.ran, lim)
  BY <1>13, <1>14
<1>16. Good(v, conn, host.ran, lim)
  BY <1>11, <1>12, <1>15 DEF Good
<1>17. Adopt(v)
  BY <1>3, <1>11 DEF Adopt
<1>. QED
  BY <1>11, <1>16, <1>17, ClientStep DEF Dial, LinkInv

(* Frames reach the client. *)
LEMMA ClientTakesStep == ASSUME LinkInv, NEW g \in Links, ClientTakes(g) PROVE LinkInv'
<1>1. /\ down \in [Links -> Seq(FrameType)] /\ down[g] # <<>>
      /\ \A h \in Links : LinkGood(World, h, conn, host.ran, lim)
  BY Facts, WorldFields DEF WorldType, ClientTakes
<1>2. /\ Head(down[g]) \in Answers(World.link[g], host.ran)
      /\ Tail(down[g]) \in Seq(Answers(World.link[g], host.ran))
  <2>1. down[g] \in Seq(Answers(World.link[g], host.ran))
    BY <1>1, WorldFields DEF LinkGood
  <2>. QED
    BY <1>1, <2>1, HeadTailProperties
<1>3. PICK f : f = Head(down[g])
  OBVIOUS
<1>. DEFINE D == [down EXCEPT ![g] = Tail(down[g])]
<1>4. PICK w : w = [World EXCEPT !.down[g] = Tail(@)]
  OBVIOUS
<1>5. w = [World EXCEPT !.down = D]
  BY <1>4, WorldFields
<1>6. /\ D \in [Links -> Seq(FrameType)] /\ D[g] = Tail(down[g])
      /\ \A h \in Links : h # g => D[h] = down[h]
  <2>1. Tail(down[g]) \in Seq(FrameType)
    BY <1>1, HeadTailProperties
  <2>. QED
    BY <1>1, <2>1
<1>. HIDE DEF D
<1>7. /\ w \in WorldType /\ w.task = World.task /\ w.cache = World.cache /\ w.link = World.link
      /\ w.up = World.up /\ w.down = D
  BY <1>5, <1>6, Facts DEF WorldType
<1>8. Good(w, conn, host.ran, lim)
  <2>1. ASSUME NEW h \in Links
        PROVE  /\ w.up[h] \in Seq(Requests(World.link[h], host.ran, lim))
               /\ conn[h] \subseteq Requests(World.link[h], host.ran, lim)
               /\ w.down[h] \in Seq(Answers(World.link[h], host.ran))
    <3>1. w.down[h] = IF h = g THEN Tail(down[g]) ELSE World.down[h]
      BY <1>6, <1>7, WorldFields
    <3>. QED
      BY <1>1, <1>2, <1>7, <3>1 DEF LinkGood
  <2>. QED
    BY <1>7, <2>1, Facts, FramesGood
<1>9. CASE f.t = "bye"
  <2>1. PICK kept \in KeptOf(World, g) : Adopt(Close(w, g, kept))
    BY <1>3, <1>4, <1>9 DEF ClientTakes
  <2>2. PICK v : v = Close(w, g, kept)
    OBVIOUS
  <2>3. kept \in KeptOf(w, g) /\ g \in Place
    BY <1>7, <2>1 DEF KeptOf, Place
  <2>4. Good(v, conn, host.ran, lim)
    BY <1>8, <2>2, <2>3, Facts, CloseGood
  <2>5. v.cache = w.cache
    BY <1>7, <2>2, <2>3, CloseFacts
  <2>. QED
    BY <1>3, <1>7, <1>9, <2>1, <2>2, <2>4, <2>5, WorldFields, ClientStep DEF ClientTakes, LinkInv
<1>10. CASE f.t # "bye"
  <2>1. PICK v : v = Routed(w, g, f)
    OBVIOUS
  <2>2. Good(v, conn, host.ran, lim) /\ v.cache = w.cache
    BY <1>2, <1>3, <1>7, <1>8, <2>1, RoutedGood
  <2>3. Adopt(v)
    BY <1>3, <1>4, <1>10, <2>1 DEF ClientTakes
  <2>4. view' \in [front : BOOLEAN, dark : BOOLEAN, unsupported : BOOLEAN]
    BY <1>3, <1>10 DEF ClientTakes, LinkInv
  <2>. QED
    BY <1>7, <2>2, <2>3, <2>4, WorldFields, ClientStep DEF ClientTakes, LinkInv
<1>. QED
  BY <1>9, <1>10

-----------------------------------------------------------------------------
(* What a step of the room or the host owes. *)
LEMMA HostStep ==
  ASSUME LinkInv, UNCHANGED <<task, cache, token, link, view>>,
         lim' \in Story, lim'.commit = lim.commit, lim'.chunks = lim.chunks,
         host' \in HostType, host.ran \subseteq host'.ran, Committed(host'.ran, lim),
         conn' \in [Links -> SUBSET FrameType],
         up' \in [Links -> Seq(FrameType)], down' \in [Links -> Seq(FrameType)],
         \A g \in Links : /\ up'[g] \in Seq(Requests(link[g], host'.ran, lim))
                          /\ conn'[g] \subseteq Requests(link[g], host'.ran, lim)
                          /\ down'[g] \in Seq(Answers(link[g], host'.ran))
  PROVE  LinkInv'
<1>1. /\ World' \in WorldType /\ World'.task = World.task /\ World'.cache = World.cache
      /\ World'.link = World.link /\ World'.up = up' /\ World'.down = down'
  BY Facts, WorldFields DEF World, WorldType
<1>2. Good(World, conn, host'.ran, lim)
  BY Facts, MoreRun
<1>3. Good(World', conn', host'.ran, lim)
  BY <1>1, <1>2, WorldFields, FramesGood
<1>4. Good(World', conn', host'.ran, lim')
  BY <1>3, MoreRun
<1>5. Committed(host'.ran, lim') /\ RevokedClean'
  BY DEF LinkInv, Committed, RevokedClean
<1>. QED
  BY <1>4, <1>5 DEF LinkInv

(* The frames there were stay in bounds as the host runs more. *)
LEMMA Kept0 ==
  ASSUME LinkInv, NEW rn, host.ran \subseteq rn, NEW g \in Links
  PROVE  /\ up[g] \in Seq(Requests(link[g], rn, lim)) /\ conn[g] \subseteq Requests(link[g], rn, lim)
         /\ down[g] \in Seq(Answers(link[g], rn)) /\ Bye \in Answers(link[g], rn)
<1>1. Good(World, conn, rn, lim)
  BY Facts, MoreRun
<1>2. LinkGood(World, g, conn, rn, lim) /\ link[g] \in LinkType
  BY <1>1, Facts DEF Good
<1>3. \A p \in link[g].pending : p.id # 0
  BY <1>2, WorldFields DEF LinkGood, Owned
<1>4. Bye \in Answers(link[g], rn)
  BY <1>2, <1>3, FramesApart, NamesApart DEF Answers, Matches, LinkType
<1>. QED
  BY <1>2, <1>4, WorldFields DEF LinkGood

LEMMA HostTypes ==
  ASSUME LinkInv
  PROVE  /\ host \in HostType /\ Committed(host.ran, lim) /\ lim \in Story
         /\ conn \in [Links -> SUBSET FrameType]
         /\ up \in [Links -> Seq(FrameType)] /\ down \in [Links -> Seq(FrameType)]
BY Facts, WorldFields DEF LinkInv, WorldType

LEMMA AllToldGood ==
  ASSUME LinkInv
  PROVE  /\ AllTold \in [Links -> Seq(FrameType)]
         /\ \A g \in Links : AllTold[g] \in Seq(Answers(link[g], host.ran))
<1>1. ASSUME NEW g \in Links
      PROVE  /\ Append(down[g], Bye) \in Seq(FrameType) /\ down[g] \in Seq(FrameType)
             /\ Append(down[g], Bye) \in Seq(Answers(link[g], host.ran))
             /\ down[g] \in Seq(Answers(link[g], host.ran))
  BY HostTypes, FramesApart, Kept0, SeqGrows
<1>. QED
  BY <1>1 DEF AllTold

LEMMA HostTakesStep == ASSUME LinkInv, NEW g \in Links, HostTakes(g) PROVE LinkInv'
<1>1. /\ up[g] \in Seq(Requests(link[g], host.ran, lim)) /\ up[g] \in Seq(FrameType)
      /\ up[g] # <<>> /\ up' = [up EXCEPT ![g] = Tail(up[g])]
  BY Kept0, HostTypes DEF HostTakes
<1>2. /\ Head(up[g]) \in Requests(link[g], host.ran, lim) /\ Head(up[g]) \in FrameType
      /\ Tail(up[g]) \in Seq(Requests(link[g], host.ran, lim)) /\ Tail(up[g]) \in Seq(FrameType)
  BY <1>1, HeadTailProperties
<1>3. up' \in [Links -> Seq(FrameType)] /\ \A h \in Links : up'[h] \in Seq(Requests(link[h], host.ran, lim))
  BY <1>1, <1>2, HostTypes, Kept0
<1>4. /\ conn' \in [Links -> SUBSET FrameType]
      /\ \A h \in Links : conn'[h] \subseteq Requests(link[h], host.ran, lim)
  <2>1. CASE host.phase = "up"
    <3>1. conn' = [conn EXCEPT ![g] = Served(g, Head(up[g]))]
      BY <2>1 DEF HostTakes, ConnId
    <3>2. Served(g, Head(up[g])) \subseteq conn[g] \cup {Head(up[g])}
      BY DEF Served
    <3>. QED
      BY <1>2, <3>1, <3>2, HostTypes, Kept0
  <2>2. CASE host.phase # "up"
    <3>1. conn' = conn
      BY <2>2, HostTypes DEF HostTakes, HostType
    <3>. QED
      BY <3>1, HostTypes, Kept0
  <2>. QED
    BY <2>1, <2>2
<1>5. /\ down' \in [Links -> Seq(FrameType)]
      /\ \A h \in Links : down'[h] \in Seq(Answers(link[h], host.ran))
  <2>1. CASE host.phase = "away" /\ link[g].phase = "open"
    <3>1. down' = [down EXCEPT ![g] = Append(down[g], Bye)]
      BY <2>1 DEF HostTakes, Deliver
    <3>2. Append(down[g], Bye) \in Seq(FrameType) /\ Append(down[g], Bye) \in Seq(Answers(link[g], host.ran))
      BY HostTypes, FramesApart, Kept0, SeqGrows
    <3>. QED
      BY <3>1, <3>2, HostTypes, Kept0
  <2>2. CASE ~(host.phase = "away" /\ link[g].phase = "open")
    <3>1. down' = down
      BY <2>2, HostTypes DEF HostTakes, Deliver, HostType
    <3>. QED
      BY <3>1, HostTypes, Kept0
  <2>. QED
    BY <2>1, <2>2
<1>. QED
  BY <1>3, <1>4, <1>5, HostTypes, HostStep DEF HostTakes

(* The host runs a call and answers on the connection it came on. *)
(* What an answer leaves on the wire and at the host. *)
LEMMA ReplyGood ==
  ASSUME LinkInv, NEW k \in Links, NEW rn, host.ran \subseteq rn,
         NEW reply \in FrameType, reply \in Answers(link[k], rn),
         NEW rest, rest \subseteq FrameType, rest \subseteq Requests(link[k], rn, lim),
         Reply(k, reply, rest)
  PROVE  /\ conn' \in [Links -> SUBSET FrameType] /\ down' \in [Links -> Seq(FrameType)]
         /\ \A h \in Links : /\ up[h] \in Seq(Requests(link[h], rn, lim))
                             /\ conn'[h] \subseteq Requests(link[h], rn, lim)
                             /\ down'[h] \in Seq(Answers(link[h], rn))
<1>1. /\ \A h \in Links : conn[h] \subseteq Requests(link[h], rn, lim)
      /\ \A h \in Links : up[h] \in Seq(Requests(link[h], rn, lim))
      /\ \A h \in Links : down[h] \in Seq(Answers(link[h], rn))
  BY Kept0
<1>. DEFINE there == {g \in Links : ConnId(g) = k /\ link[g].phase = "open"}
<1>2. IF host.phase = "zombie" THEN conn' = [conn EXCEPT ![k] = rest] /\ down' = down
      ELSE IF there = {} THEN conn' = [conn EXCEPT ![k] = {}] /\ down' = down
      ELSE /\ conn' = [conn EXCEPT ![k] = rest]
           /\ \E g \in there : down' = Deliver(down, g, reply)
  BY DEF Reply
<1>3. /\ conn' \in [Links -> SUBSET FrameType]
      /\ \A h \in Links : conn'[h] \subseteq Requests(link[h], rn, lim)
  BY <1>1, <1>2, HostTypes
<1>4. /\ down' \in [Links -> Seq(FrameType)]
      /\ \A h \in Links : down'[h] \in Seq(Answers(link[h], rn))
  <2>1. CASE down' = down
    BY <1>1, <2>1, HostTypes
  <2>2. CASE \E g \in there : down' = Deliver(down, g, reply)
    <3>1. down' = [down EXCEPT ![k] = Append(down[k], reply)]
      BY <2>2 DEF ConnId, Deliver
    <3>2. Append(down[k], reply) \in Seq(FrameType) /\ Append(down[k], reply) \in Seq(Answers(link[k], rn))
      BY <1>1, HostTypes, SeqGrows
    <3>. QED
      BY <1>1, <3>1, <3>2, HostTypes
  <2>. QED
    BY <1>2, <2>1, <2>2
<1>. QED
  BY <1>1, <1>3, <1>4

LEMMA HostAnswersStep ==
  ASSUME LinkInv, NEW k \in Links, NEW r, HostAnswers(k, r)
  PROVE  LinkInv'
<1>1. /\ r \in conn[k] /\ r \in Requests(link[k], host.ran, lim) /\ r \in FrameType
  BY Kept0 DEF HostAnswers, Requests
<1>2. /\ host' \in HostType /\ host.ran \subseteq host'.ran
      /\ r.t = "call" => r.who \in host'.ran
      /\ host'.ran \subseteq host.ran \cup {r.who} /\ (r.t # "call" => host'.ran = host.ran)
  <2>1. r.t = "call" => r.who \in Calls
    BY <1>1 DEF Requests
  <2>2. host' = [host EXCEPT !.ran = @ \cup (IF r.t = "call" THEN {r.who} ELSE {})]
    BY DEF HostAnswers
  <2>. QED
    BY <2>1, <2>2, HostTypes DEF HostType
<1>3. Committed(host'.ran, lim)
  BY <1>1, <1>2, HostTypes DEF Committed, Requests
<1>. DEFINE reply == Frame(IF r.t = "stream" /\ host.old THEN "unknown" ELSE "ok", r.id, r.who)
            flow == Frame("flowing", r.id, r.who)
            rest == (conn[k] \ {r}) \cup (IF r.t = "stream" /\ ~host.old THEN {flow} ELSE {})
<1>4. reply \in FrameType /\ reply \in Answers(link[k], host'.ran)
  <2>1. reply \in FrameType /\ reply.id = r.id /\ reply.who = r.who
    BY <1>1 DEF Frame, FrameType
  <2>2. Matches(reply, link[k]) /\ (r.who \in Calls /\ r.id > 1 => r.who \in host'.ran)
    BY <1>1, <1>2, <2>1 DEF Requests, Matches
  <2>. QED
    BY <2>1, <2>2 DEF Answers
<1>5. flow \in FrameType /\ (r.t = "stream" => flow \in Requests(link[k], host'.ran, lim))
  <2>1. flow \in FrameType /\ flow.id = r.id /\ flow.who = r.who /\ flow.t = "flowing"
    BY <1>1 DEF Frame, FrameType
  <2>2. r.t = "stream" => r.who = Watch /\ Watch \notin Calls /\ Watch \notin lim.commit
    BY <1>1, NamesApart, Facts DEF Requests
  <2>3. Matches(flow, link[k])
    BY <1>1, <2>1 DEF Requests, Matches
  <2>. QED
    BY <2>1, <2>2, <2>3 DEF Requests
<1>6. conn[k] \subseteq Requests(link[k], host'.ran, lim)
  BY <1>2, Kept0
<1>7. Reply(k, reply, rest)
  BY DEF HostAnswers
<1>. HIDE DEF reply, flow
<1>8. rest \subseteq Requests(link[k], host'.ran, lim) /\ rest \subseteq FrameType
  BY <1>5, <1>6, HostTypes
<1>. HIDE DEF rest
<1>9. /\ conn' \in [Links -> SUBSET FrameType] /\ down' \in [Links -> Seq(FrameType)]
      /\ \A h \in Links : /\ up[h] \in Seq(Requests(link[h], host'.ran, lim))
                          /\ conn'[h] \subseteq Requests(link[h], host'.ran, lim)
                          /\ down'[h] \in Seq(Answers(link[h], host'.ran))
  BY <1>2, <1>4, <1>7, <1>8, ReplyGood
<1>. QED
  BY <1>2, <1>3, <1>9, HostTypes, HostStep DEF HostAnswers

LEMMA HostFailsStep ==
  ASSUME LinkInv, NEW k \in Links, NEW r, HostFails(k, r)
  PROVE  LinkInv'
<1>1. /\ r \in conn[k] /\ r \in Requests(link[k], host.ran, lim) /\ r \in FrameType
      /\ conn[k] \subseteq Requests(link[k], host.ran, lim) /\ conn[k] \subseteq FrameType
  BY Kept0, HostTypes DEF HostFails, Requests
<1>2. PICK reply : reply = Frame("err", r.id, r.who)
  OBVIOUS
<1>3. reply \in FrameType /\ reply.id = r.id /\ reply.who = r.who /\ reply.t = "err"
  BY <1>1, <1>2 DEF Frame, FrameType
<1>4. reply \in Answers(link[k], host.ran)
  BY <1>1, <1>3 DEF Answers, Requests, Matches
<1>5. PICK rest : rest = conn[k] \ {r}
  OBVIOUS
<1>6. Reply(k, reply, rest) /\ rest \subseteq FrameType /\ rest \subseteq Requests(link[k], host.ran, lim)
  BY <1>1, <1>2, <1>5 DEF HostFails
<1>7. /\ conn' \in [Links -> SUBSET FrameType] /\ down' \in [Links -> Seq(FrameType)]
      /\ \A h \in Links : /\ up[h] \in Seq(Requests(link[h], host.ran, lim))
                          /\ conn'[h] \subseteq Requests(link[h], host.ran, lim)
                          /\ down'[h] \in Seq(Answers(link[h], host.ran))
  BY <1>3, <1>4, <1>6, ReplyGood
<1>8. lim' \in Story /\ lim'.commit = lim.commit /\ lim'.chunks = lim.chunks
  BY SpendKeeps DEF HostFails
<1>9. host' = host /\ Committed(host.ran, lim) /\ host \in HostType
  BY DEF HostFails, LinkInv
<1>. QED
  BY <1>7, <1>8, <1>9, HostTypes, HostStep DEF HostFails

LEMMA HostEndsStep == ASSUME LinkInv, HostEnds PROVE LinkInv'
<1>1. lim' \in Story /\ lim'.commit = lim.commit /\ lim'.chunks = lim.chunks
  BY SpendKeeps DEF HostEnds
<1>2. host' \in HostType /\ host'.ran = host.ran
  BY HostTypes DEF HostEnds, HostType
<1>3. conn' \in [Links -> SUBSET FrameType] /\ \A g \in Links : conn'[g] = {}
  BY DEF HostEnds
<1>. QED
  BY <1>1, <1>2, <1>3, HostTypes, Kept0, AllToldGood, HostStep DEF HostEnds

LEMMA HostVanishesStep == ASSUME LinkInv, HostVanishes PROVE LinkInv'
<1>1. lim' \in Story /\ lim'.commit = lim.commit /\ lim'.chunks = lim.chunks
  BY SpendKeeps DEF HostVanishes
<1>2. host' \in HostType /\ host'.ran = host.ran
  BY HostTypes DEF HostVanishes, HostType
<1>. QED
  BY <1>1, <1>2, HostTypes, Kept0, HostStep DEF HostVanishes

LEMMA HostRejoinsStep == ASSUME LinkInv, HostRejoins PROVE LinkInv'
<1>1. host' \in HostType /\ host'.ran = host.ran
  BY HostTypes DEF HostRejoins, HostType
<1>2. conn' \in [Links -> SUBSET FrameType] /\ \A g \in Links : conn'[g] = {}
  BY DEF HostRejoins
<1>. QED
  BY <1>1, <1>2, HostTypes, Kept0, HostStep DEF HostRejoins

LEMMA RoomReapsStep == ASSUME LinkInv, RoomReaps PROVE LinkInv'
<1>1. host' \in HostType /\ host'.ran = host.ran
  BY HostTypes DEF RoomReaps, HostType
<1>. QED
  BY <1>1, HostTypes, Kept0, AllToldGood, HostStep DEF RoomReaps

-----------------------------------------------------------------------------
(* The theorems.                                                           *)

LEMMA StutterStep == ASSUME LinkInv, UNCHANGED vars PROVE LinkInv'
<1>1. cache \in CacheType
  BY Facts, WorldFields DEF WorldType
<1>. QED
  BY <1>1, FlagsStep DEF vars, LinkInv

LEMMA NextInv == LinkInv /\ [Next]_vars => LinkInv'
<1>. SUFFICES ASSUME LinkInv, [Next]_vars PROVE LinkInv'
  OBVIOUS
<1>1. ASSUME NEW a \in Actors, TaskStep(a) \/ Locked(a) \/ DialRefused(a)
      PROVE  LinkInv'
  BY <1>1, StartStep, AskStep, DialStep, ProbeFailsStep, CacheStep, LostStep, DeadlineStep,
     DialRefusedStep, WatchRetriesStep, LockedStep DEF TaskStep
<1>2. ASSUME Wire
      PROVE  LinkInv'
  BY <1>2, ClientTakesStep, CutStep, HostTakesStep, HostAnswersStep DEF Wire
<1>3. ASSUME NEW g \in Links, Drop(g) \/ \E r \in conn[g] : HostFails(g, r)
      PROVE  LinkInv'
  BY <1>3, CutStep, HostFailsStep
<1>4. ASSUME Upkeep
      PROVE  LinkInv'
  BY <1>4, EvictStep, CooldownEndsStep, TokenNoticedStep, LinksClearedStep, ReconcileStep DEF Upkeep
<1>. QED
  BY <1>1, <1>2, <1>3, <1>4, StutterStep, RoomReapsStep, BackgroundStep, ForegroundStep,
     HostEndsStep, HostVanishesStep, HostRejoinsStep, WakeStep, SignInOrOutStep,
     PresenceChangesStep DEF Next

LEMMA LinkInvHolds == Spec => []LinkInv
BY InitInv, NextInv, PTL DEF Spec

(* Once a sign-out has been acted on no link is cached: refusing comes     *)
(* before clearing, and a dial that was under way finds the refusal when   *)
(* it would cache its link (device_room.rs, LinkCache and its watcher).    *)
THEOREM HostRevokedClean == Spec => []RevokedClean
<1>1. LinkInv => RevokedClean
  BY DEF LinkInv
<1>. QED
  BY <1>1, LinkInvHolds, PTL

(* A caller takes only its own answer, for any number of calls, links and  *)
(* faults: request ids start over on every link, and a link's frames and   *)
(* pending entries agree on whose an id is (rpc/client.rs, route_frame).   *)
THEOREM HostAnswerIsMine == Spec => []AnswerIsMine
<1>1. LinkInv => AnswerIsMine
  BY Facts, WorldFields, NamesApart DEF AnswerIsMine, TaskGood
<1>. QED
  BY <1>1, LinkInvHolds, PTL

(* An upload is committed only when every chunk has run: the commit starts *)
(* after the chunks' answers, and an answer is the host's (relay.rs).      *)
THEOREM HostCommitComplete == Spec => []CommitComplete
<1>1. LinkInv => CommitComplete
  BY DEF LinkInv, Committed, CommitComplete
<1>. QED
  BY <1>1, LinkInvHolds, PTL
=============================================================================

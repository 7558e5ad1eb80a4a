------------------------------ MODULE HostLink ------------------------------
(***************************************************************************)
(* Calls to a host device over its device room: the relay client           *)
(* (client/live/relay.rs), the link cache and the two ends of a link       *)
(* (rpc/device_room.rs), the multiplexing RPC client (rpc/client.rs) and   *)
(* the host's dispatch loop (rpc/server.rs).  The room between them is the *)
(* one the code's tests describe (rpc/tests/device_room.rs).               *)
(*                                                                         *)
(* One host.  Several tasks of this client call it at the same time: two   *)
(* plain calls, or the chunks and the commit of an upload, and a           *)
(* PR-status watch.  A link is one WebSocket; what travels on it is a FIFO *)
(* channel each way.  A channel's two legs (client to room, room to host)  *)
(* are one queue, and the keepalive frames are left out: what they detect  *)
(* is the action PathSilent.                                               *)
(***************************************************************************)
EXTENDS Integers, Sequences, FiniteSets

CONSTANTS
  Calls,    \* unary calls
  Watch,    \* the PR-status watch of the host's repository
  Links,    \* sockets in use at a time; a finished one is used again
  Stories   \* the instances: who calls, and how often each fault may happen

None == "none"   \* no task, no link

(* calls: the callers, of which chunks and commit make an upload; the rest *)
(* bounds the faults and the changes of mind.                              *)
Story ==
  [calls: SUBSET Calls, chunks: SUBSET Calls, commit: SUBSET Calls, watch: BOOLEAN,
   oldHost: BOOLEAN, drops: Nat, refused: Nat, slow: Nat, ends: Nat, zombies: Nat,
   wakes: Nat, auth: Nat, dark: Nat, views: Nat, errors: Nat]

ASSUME HostLinkAssumption ==
  /\ Watch \notin Calls /\ None \notin Calls \cup {Watch} \cup Links
  /\ Stories \subseteq Story
  /\ \A s \in Stories : s.chunks \cup s.commit \subseteq s.calls /\ s.commit \cap s.chunks = {}

Actors == Calls \cup {Watch}

VARIABLES
  lim,      \* the instance, and what is left of each bounded event
  task,     \* each calling task
  cache,    \* LinkCache
  token,    \* the credentials, and whether the cache has noticed their last change
  link,     \* each socket, as its client end sees it
  up,       \* frames from each link's client towards the host
  down,     \* frames from the host towards each link's client
  host,     \* the host's relay session, as the room and the host see it
  conn,     \* the host's virtual connections
  view      \* the watch table: foreground, presence of the host, unsupported

vars == <<lim, task, cache, token, link, up, down, host, conn, view>>

DialAttempts == 3
ChunkRounds  == 3
CallAttempts == 2

IdleTask == [phase |-> "idle", tries |-> 0, rounds |-> 0, dials |-> 0, link |-> None, id |-> 0,
             got |-> None]
Unused   == [phase |-> "closed", next |-> 1, pending |-> {}]

Frame(t, id, who) == [t |-> t, id |-> id, who |-> who]
Bye  == Frame("bye", 0, None)    \* host_offline or host_closed
Gone == Frame("gone", 0, None)   \* client_closed

Init ==
  /\ lim \in Stories
  /\ task = [a \in Actors |-> IdleTask]
  /\ cache = [link |-> None, cooling |-> FALSE, revoked |-> FALSE, dialer |-> None]
  /\ token = [in |-> TRUE, noticed |-> "yes"]
  /\ link = [g \in Links |-> Unused]
  /\ up = [g \in Links |-> <<>>] /\ down = [g \in Links |-> <<>>]
  /\ host = [phase |-> "up", owed |-> FALSE, old |-> lim.oldHost, ran |-> {}]
  /\ conn = [g \in Links |-> {}]
  /\ view = [front |-> TRUE, dark |-> FALSE, unsupported |-> FALSE]

Spend(what) == lim[what] > 0 /\ lim' = [lim EXCEPT ![what] = @ - 1]

-----------------------------------------------------------------------------
(* The client ends of the links.  `w` is what a step changes there.        *)

World == [task |-> task, cache |-> cache, link |-> link, up |-> up, down |-> down]
Adopt(w) ==
  /\ task' = w.task /\ cache' = w.cache /\ link' = w.link /\ up' = w.up /\ down' = w.down

IsOpen(w, g) == g # None /\ w.link[g].phase = "open"

(* A connection identity is fresh for every dial.  Mutant: one per device. *)
ConnId_Device(g) == CHOOSE h \in Links : TRUE
ConnId(g) == g

(* Where a waiting task stands once its link is gone.                      *)
Bereft(t, g) ==
  IF t.link # g \/ t.phase \notin {"sent", "live"} THEN t
  ELSE [t EXCEPT !.phase = IF t.phase = "live" THEN "backoff" ELSE "lost", !.link = None]

(* A link ends: the reader fails everything pending, and the room tells    *)
(* the host.  What was not yet written goes out or is lost.                *)
Close(w, g, kept) ==
  IF ~IsOpen(w, g) THEN w
  ELSE [w EXCEPT !.link[g] = [@ EXCEPT !.phase = "closed", !.pending = {}],
                 !.down[g] = <<>>, !.up[g] = Append(SubSeq(@, 1, kept), Gone),
                 !.task = [a \in Actors |-> Bereft(@[a], g)]]

(* Dropping the cached link closes it: the cache is its only owner.        *)
DropCached(w, kept) == [Close(w, w.cache.link, kept) EXCEPT !.cache.link = None]
KeptOf(w, g) == IF g = None THEN {0} ELSE {0, Len(w.up[g])}
Kept(w)      == KeptOf(w, w.cache.link)

Kind(a) == IF a = Watch THEN "stream" ELSE "call"

(* RpcClient::call and subscribe_checked: an id, a pending entry, a frame. *)
Send(w, a, g) ==
  IF ~IsOpen(w, g) THEN [w EXCEPT !.task[a] = [@ EXCEPT !.phase = "lost", !.link = None]]
  ELSE LET l  == w.link[g]
           id == l.next
       IN  [w EXCEPT !.link[g] = [l EXCEPT !.next = id + 1,
                                           !.pending = l.pending \cup {[id |-> id, who |-> a]}],
                     !.up[g] = Append(@, Frame(Kind(a), id, a)),
                     !.task[a] = [@ EXCEPT !.phase = "sent", !.link = g, !.id = id]]

(* A call's last word.  A chunk is tried again on a host that is not       *)
(* there; a watch backs off.                                               *)
Failed(w, a) ==
  IF a = Watch THEN [w EXCEPT !.task[a] = [IdleTask EXCEPT !.phase = "lost"]]
  ELSE IF a \in lim.chunks /\ w.task[a].rounds + 1 < ChunkRounds
       THEN [w EXCEPT !.task[a] = [IdleTask EXCEPT !.phase = "ask", !.rounds = w.task[a].rounds + 1]]
       ELSE [w EXCEPT !.task[a] = [IdleTask EXCEPT !.phase = "failed"]]

Unlock(w, a) == IF w.cache.dialer = a THEN [w EXCEPT !.cache.dialer = None] ELSE w

-----------------------------------------------------------------------------
(* LinkCache::client.                                                      *)

(* The chunks of an upload run together; its commit needs all of them.     *)
(* Mutant: the commit goes out once the chunks have ended.                 *)
MayStart_Ended(a) ==
  a \in lim.commit => \A b \in lim.chunks : task[b].phase \in {"ok", "failed"}
MayStart(a) == a \in lim.commit => \A b \in lim.chunks : task[b].phase = "ok"

Start(a) ==
  /\ a \in lim.calls /\ task[a].phase = "idle" /\ MayStart(a)
  /\ task' = [task EXCEPT ![a].phase = "ask"]
  /\ UNCHANGED <<lim, cache, token, link, up, down, host, conn, view>>

(* The fast path, the dark gate, and else the device's dial lock.          *)
Ask(a) ==
  /\ task[a].phase = "ask"
  /\ Adopt(IF cache.revoked THEN Failed(World, a)
           ELSE IF IsOpen(World, cache.link) THEN Send(World, a, cache.link)
           ELSE LET w == [World EXCEPT !.cache.link = None]
                IN  IF view.dark THEN Failed(w, a) ELSE [w EXCEPT !.task[a].phase = "queued"])
  /\ UNCHANGED <<lim, token, host, conn, view>>

(* Under the lock: another dial may have won; a cooling device is refused. *)
Locked(a) ==
  /\ task[a].phase = "queued" /\ cache.dialer = None
  /\ Adopt(IF IsOpen(World, cache.link) THEN Send(World, a, cache.link)
           ELSE LET w == [World EXCEPT !.cache.link = None]
                IN  IF w.cache.cooling THEN Failed(w, a)
                    ELSE [w EXCEPT !.task[a] = [@ EXCEPT !.phase = "dial", !.dials = 0],
                                   !.cache.dialer = a])
  /\ UNCHANGED <<lim, token, host, conn, view>>

(* A socket nobody speaks of any more.                                     *)
Spare ==
  {g \in Links : /\ link[g].phase = "closed" /\ up[g] = <<>> /\ cache.link # g
                 /\ conn[g] = {} /\ \A a \in Actors : task[a].link # g}

(* Mutant: a failed sequence keeps the device's lock.                      *)
DialFailed_KeepsLock(w, a) ==
  LET t == w.task[a]
  IN  IF t.dials + 1 < DialAttempts
      THEN [w EXCEPT !.task[a] = [t EXCEPT !.phase = "dial", !.dials = t.dials + 1, !.link = None]]
      ELSE Failed([w EXCEPT !.cache.cooling = TRUE], a)

(* One attempt failed; the last one puts the device on its cooldown.       *)
DialFailed(w, a) ==
  LET t == w.task[a]
  IN  IF t.dials + 1 < DialAttempts
      THEN [w EXCEPT !.task[a] = [t EXCEPT !.phase = "dial", !.dials = t.dials + 1, !.link = None]]
      ELSE Failed(Unlock([w EXCEPT !.cache.cooling = TRUE], a), a)

DialRefused(a) ==
  /\ task[a].phase = "dial"
  /\ IF token.in THEN Spend("refused") ELSE lim' = lim
  /\ Adopt(DialFailed(World, a))
  /\ UNCHANGED <<token, host, conn, view>>

(* The socket opens and the readiness probe goes out on it.                *)
Dial(a) ==
  /\ task[a].phase = "dial" /\ token.in /\ Spare # {}
  /\ LET g == CHOOSE h \in Spare : TRUE
     IN  Adopt([World EXCEPT
           !.link[g] = [phase |-> "open", next |-> 2, pending |-> {[id |-> 1, who |-> a]}],
           !.up[g] = <<Frame("probe", 1, a)>>, !.down[g] = <<>>,
           !.task[a] = [@ EXCEPT !.phase = "probe", !.link = g, !.id = 1]])
  /\ UNCHANGED <<lim, token, host, conn, view>>

(* A deadline passes: nobody answers, or the host is only slow.            *)
TimesOut == IF host.phase = "up" THEN Spend("slow") ELSE lim' = lim

(* The probe times out or is refused, or its link is gone.                 *)
ProbeFails(a) ==
  /\ task[a].phase \in {"probe", "unready"}
  /\ IF task[a].phase = "probe" /\ IsOpen(World, task[a].link) THEN TimesOut ELSE lim' = lim
  /\ \E kept \in KeptOf(World, task[a].link) :
       Adopt(DialFailed(Close(World, task[a].link, kept), a))
  /\ UNCHANGED <<token, host, conn, view>>

(* Mutant: the sign-out that happened during the dial is not seen.         *)
Cache_Unchecked(a) ==
  /\ task[a].phase = "probed"
  /\ \E kept \in Kept(World) :
       LET w == [DropCached(World, kept) EXCEPT !.cache.cooling = FALSE,
                                                !.cache.link = task[a].link]
       IN  Adopt(Send(Unlock(w, a), a, task[a].link))
  /\ UNCHANGED <<lim, token, host, conn, view>>

(* The probed link goes into the cache, unless the credentials went away   *)
(* meanwhile; the caller's own request is the first to use it.             *)
Cache(a) ==
  /\ task[a].phase = "probed"
  /\ \/ /\ cache.revoked
        /\ \E kept \in KeptOf(World, task[a].link) :
             Adopt(Failed(Unlock([Close(World, task[a].link, kept) EXCEPT !.cache.cooling = FALSE],
                                 a), a))
     \/ /\ ~cache.revoked
        /\ \E kept \in Kept(World) :
             LET w == [DropCached(World, kept) EXCEPT !.cache.cooling = FALSE,
                                                      !.cache.link = task[a].link]
             IN  Adopt(Send(Unlock(w, a), a, task[a].link))
  /\ UNCHANGED <<lim, token, host, conn, view>>

(* spawn_evictor.                                                          *)
Evict ==
  /\ cache.link # None /\ ~IsOpen(World, cache.link)
  /\ cache' = [cache EXCEPT !.link = None]
  /\ UNCHANGED <<lim, task, token, link, up, down, host, conn, view>>

(* The cooldown runs out; presence, or a network that is back, ends it.    *)
CooldownEnds ==
  /\ cache.cooling
  /\ cache' = [cache EXCEPT !.cooling = FALSE]
  /\ UNCHANGED <<lim, task, token, link, up, down, host, conn, view>>

-----------------------------------------------------------------------------
(* Relay::call and the watch: what a task does with its answer.            *)

(* The link failed under the request: whatever link is cached now is       *)
(* dropped, and a call tries once more.                                    *)
Lost(a) ==
  /\ task[a].phase = "lost"
  /\ \E kept \in Kept(World) :
       LET w == DropCached(World, kept)
       IN  Adopt(IF a = Watch THEN [w EXCEPT !.task[a] = [IdleTask EXCEPT !.phase = "backoff"]]
                 ELSE IF task[a].tries + 1 < CallAttempts
                      THEN [w EXCEPT !.task[a] = [@ EXCEPT !.phase = "ask", !.link = None,
                                                            !.tries = task[a].tries + 1]]
                      ELSE Failed(w, a))
  /\ UNCHANGED <<lim, token, host, conn, view>>

(* A call's deadline: the link is dropped, the request is not repeated.    *)
Deadline(a) ==
  /\ a \in Calls /\ task[a].phase = "sent" /\ TimesOut
  /\ \E kept \in Kept(World) : Adopt(Failed(DropCached(World, kept), a))
  /\ UNCHANGED <<token, host, conn, view>>

(* spawn_watch sleeps and starts over.                                     *)
WatchRetries ==
  /\ task[Watch].phase = "backoff"
  /\ task' = [task EXCEPT ![Watch].phase = "ask"]
  /\ UNCHANGED <<lim, cache, token, link, up, down, host, conn, view>>

(* Mutant: dropping a subscription does not tell the host.                 *)
Unsubscribe_Silent(w) ==
  LET t == w.task[Watch]
  IN  IF t.phase \notin {"sent", "live"} THEN w
      ELSE [w EXCEPT !.link[t.link].pending = {p \in @ : p.id # t.id}]

(* RpcSubscription's drop: forget the entry and cancel the host's task.    *)
Unsubscribe(w) ==
  LET t == w.task[Watch]
  IN  IF t.phase \notin {"sent", "live"} THEN w
      ELSE [w EXCEPT !.link[t.link].pending = {p \in @ : p.id # t.id},
                     !.up[t.link] = Append(@, Frame("cancel", t.id, Watch))]

(* stop_watches: the watch ends wherever it stands; a dial it was making   *)
(* is abandoned and its lock released.                                     *)
Background ==
  /\ view.front /\ Spend("views")
  /\ view' = [view EXCEPT !.front = FALSE]
  /\ LET dialled == task[Watch].phase \in {"probe", "probed", "unready"}
     IN  \E kept \in KeptOf(World, task[Watch].link) :
           LET w == IF dialled THEN Close(World, task[Watch].link, kept) ELSE Unsubscribe(World)
           IN  Adopt([Unlock(w, Watch) EXCEPT !.task[Watch] = IdleTask])
  /\ UNCHANGED <<token, host, conn>>

(* on_foreground, and the reconcile every workspace change makes: a host   *)
(* that lacked the method is asked again only after a return to the front. *)
Foreground ==
  /\ ~view.front
  /\ view' = [view EXCEPT !.front = TRUE, !.unsupported = FALSE]
  /\ UNCHANGED <<lim, task, cache, token, link, up, down, host, conn>>

Reconcile ==
  /\ lim.watch /\ view.front
  /\ \/ /\ task[Watch].phase = "idle" /\ ~view.unsupported
        /\ task' = [task EXCEPT ![Watch].phase = "ask"]
     \/ /\ task[Watch].phase = "ended" /\ view.unsupported
        /\ task' = [task EXCEPT ![Watch] = IdleTask]
  /\ UNCHANGED <<lim, cache, token, link, up, down, host, conn, view>>

-----------------------------------------------------------------------------
(* Frames reach the client: RpcClient's reader and route_frame.            *)

(* What a frame makes of the task that waits for it.  An error reply ends  *)
(* a call, a chunk's too, and so does not fail the link; "err" is also the *)
(* end of a stream, and the watch starts over after either.                *)
Told(t, a, f) ==
  IF t.phase = "probe" THEN [t EXCEPT !.phase = IF f.t = "err" THEN "unready" ELSE "probed"]
  ELSE IF a = Watch
       THEN IF f.t = "ok" THEN [t EXCEPT !.phase = "live"]
            ELSE [IdleTask EXCEPT !.phase = IF f.t = "unknown" THEN "ended" ELSE "backoff"]
       ELSE IF f.t = "err" THEN [IdleTask EXCEPT !.phase = "failed"]
            ELSE [IdleTask EXCEPT !.phase = "ok", !.got = f.who]

Routed(w, g, f) ==
  LET mine == {p \in w.link[g].pending : p.id = f.id}
  IN  IF mine = {} THEN w
      ELSE LET owner == (CHOOSE p \in mine : TRUE).who
               t == Told(w.task[owner], owner, f)
           IN  IF t.phase = "live" THEN [w EXCEPT !.task[owner] = t]
               ELSE [w EXCEPT !.link[g].pending = @ \ mine, !.task[owner] = t]

ClientTakes(g) ==
  /\ IsOpen(World, g) /\ down[g] # <<>>
  /\ LET f == Head(down[g])
         w == [World EXCEPT !.down[g] = Tail(@)]
     IN  IF f.t = "bye"
         THEN /\ \E kept \in KeptOf(World, g) : Adopt(Close(w, g, kept))
              /\ UNCHANGED view
         ELSE /\ Adopt(Routed(w, g, f))
              /\ view' = IF task'[Watch].phase = "ended" /\ task[Watch].phase # "ended"
                         THEN [view EXCEPT !.unsupported = TRUE] ELSE view
  /\ UNCHANGED <<lim, token, host, conn>>

(* The transport lease or the echo deadline: the path to the host is dead. *)
(* Mutant: only the leg to the room is watched.                            *)
PathSilent_LegOnly(g) ==
  /\ IsOpen(World, g) /\ FALSE
  /\ Adopt(World)
  /\ UNCHANGED <<lim, token, host, conn, view>>
PathSilent(g) ==
  /\ IsOpen(World, g) /\ host.phase # "up"
  /\ \E kept \in KeptOf(World, g) : Adopt(Close(World, g, kept))
  /\ UNCHANGED <<lim, token, host, conn, view>>

Drop(g) ==
  /\ IsOpen(World, g) /\ Spend("drops")
  /\ \E kept \in KeptOf(World, g) : Adopt(Close(World, g, kept))
  /\ UNCHANGED <<token, host, conn, view>>

-----------------------------------------------------------------------------
(* The room and the host.                                                  *)

Deliver(ds, g, f) == IF link[g].phase = "open" THEN [ds EXCEPT ![g] = Append(@, f)] ELSE ds

(* handle_host_frame and serve_connection: a task per request; a cancel or *)
(* the client's departure aborts.                                          *)
Served(k, f) ==
  CASE f.t = "gone"   -> {}
    [] f.t = "cancel" -> {r \in conn[k] : r.id # f.id}
    [] OTHER          -> conn[k] \cup {f}

(* A frame arrives: at the host, at a room without one, or nowhere.        *)
HostTakes(g) ==
  /\ up[g] # <<>>
  /\ up' = [up EXCEPT ![g] = Tail(@)]
  /\ CASE host.phase = "up" ->
            conn' = [conn EXCEPT ![ConnId(g)] = Served(ConnId(g), Head(up[g]))] /\ down' = down
       [] host.phase = "away" -> down' = Deliver(down, g, Bye) /\ conn' = conn
       [] host.phase = "zombie" -> UNCHANGED <<down, conn>>
  /\ UNCHANGED <<lim, task, cache, token, link, host, view>>

(* An answer goes to the connection its request came on.  The room sends   *)
(* the host away from a client that left.                                  *)
Reply(k, reply, rest) ==
  LET there == {g \in Links : ConnId(g) = k /\ link[g].phase = "open"}
  IN  IF host.phase = "zombie" THEN conn' = [conn EXCEPT ![k] = rest] /\ down' = down
      ELSE IF there = {} THEN conn' = [conn EXCEPT ![k] = {}] /\ down' = down
      ELSE /\ conn' = [conn EXCEPT ![k] = rest]
           /\ \E g \in there : down' = Deliver(down, g, reply)

(* handle_request: the work is done and answered.                          *)
HostAnswers(k, r) ==
  /\ r \in conn[k] /\ host.phase \in {"up", "zombie"} /\ r.t # "flowing"
  /\ host' = [host EXCEPT !.ran = @ \cup (IF r.t = "call" THEN {r.who} ELSE {})]
  /\ LET streams == r.t = "stream" /\ ~host.old
     IN  Reply(k, Frame(IF r.t = "stream" /\ host.old THEN "unknown" ELSE "ok", r.id, r.who),
               (conn[k] \ {r}) \cup (IF streams THEN {Frame("flowing", r.id, r.who)} ELSE {}))
  /\ UNCHANGED <<lim, task, cache, token, link, up, view>>

(* It fails and says so, or a stream it serves comes to its end.           *)
HostFails(k, r) ==
  /\ r \in conn[k] /\ host.phase \in {"up", "zombie"} /\ Spend("errors")
  /\ Reply(k, Frame("err", r.id, r.who), conn[k] \ {r})
  /\ UNCHANGED <<task, cache, token, link, up, host, view>>

AllTold == [g \in Links |-> IF link[g].phase = "open" THEN Append(down[g], Bye) ELSE down[g]]

(* The host's session ends; the room tells every client.                   *)
HostEnds ==
  /\ host.phase = "up" /\ Spend("ends")
  /\ host' = [host EXCEPT !.phase = "away"]
  /\ conn' = [k \in Links |-> {}]
  /\ down' = AllTold
  /\ UNCHANGED <<task, cache, token, link, up, view>>

(* The host's leg dies unseen; its lease ends the session on its side.     *)
HostVanishes ==
  /\ host.phase = "up" /\ Spend("zombies")
  /\ host' = [host EXCEPT !.phase = "zombie"]
  /\ UNCHANGED <<task, cache, token, link, up, down, conn, view>>

(* The host joins again, perhaps as a newer version.  When it supersedes a *)
(* session the room still held, that one's clients are told later.         *)
HostRejoins ==
  /\ host.phase # "up"
  /\ \E old \in {host.old, FALSE} :
       host' = [host EXCEPT !.phase = "up", !.old = old, !.owed = @ \/ host.phase = "zombie"]
  /\ conn' = [k \in Links |-> {}]
  /\ UNCHANGED <<lim, task, cache, token, link, up, down, view>>

RoomReaps ==
  /\ host.owed
  /\ host' = [host EXCEPT !.owed = FALSE]
  /\ down' = AllTold
  /\ UNCHANGED <<lim, task, cache, token, link, up, conn, view>>

-----------------------------------------------------------------------------
(* Sleep, credentials, presence.                                           *)

Wake ==
  /\ Spend("wakes")
  /\ \E kept \in Kept(World) :
       Adopt([DropCached(World, kept) EXCEPT !.cache.cooling = FALSE])
  /\ UNCHANGED <<token, host, conn, view>>

SignInOrOut ==
  /\ Spend("auth")
  /\ token' = [in |-> ~token.in, noticed |-> "no"]
  /\ UNCHANGED <<task, cache, link, up, down, host, conn, view>>

(* The cache's watcher acts on the credentials it finds now: signed out,   *)
(* it first refuses new links and then drops the one it has.  Credentials  *)
(* it cannot have yet leave all as it is until they come, a change too.    *)
TokenNoticed ==
  /\ token.noticed = "no"
  /\ token' = [token EXCEPT !.noticed = IF token.in THEN "yes" ELSE "clearing"]
  /\ cache' = [cache EXCEPT !.revoked = ~token.in, !.cooling = @ /\ ~token.in]
  /\ UNCHANGED <<lim, task, link, up, down, host, conn, view>>

LinksCleared ==
  /\ token.noticed = "clearing"
  /\ token' = [token EXCEPT !.noticed = "yes"]
  /\ \E kept \in Kept(World) :
       Adopt([DropCached(World, kept) EXCEPT !.cache.cooling = FALSE])
  /\ UNCHANGED <<lim, host, conn, view>>

PresenceChanges ==
  /\ \/ ~view.dark /\ Spend("dark")
     \/ view.dark /\ lim' = lim
  /\ view' = [view EXCEPT !.dark = ~@]
  /\ UNCHANGED <<task, cache, token, link, up, down, host, conn>>

-----------------------------------------------------------------------------
TaskStep(a) ==
  \/ Start(a) \/ Ask(a) \/ Dial(a) \/ ProbeFails(a) \/ Cache(a) \/ Lost(a) \/ Deadline(a)
  \/ (~token.in /\ DialRefused(a)) \/ (a = Watch /\ (WatchRetries \/ Locked(a)))
Wire == \E g \in Links :
  ClientTakes(g) \/ PathSilent(g) \/ HostTakes(g) \/ \E r \in conn[g] : HostAnswers(g, r)
Upkeep == Evict \/ CooldownEnds \/ TokenNoticed \/ LinksCleared \/ Reconcile
Return == (host.phase = "away" /\ HostRejoins) \/ RoomReaps

Next ==
  \/ \E a \in Actors : TaskStep(a) \/ Locked(a) \/ DialRefused(a)
  \/ \E g \in Links : Drop(g) \/ \E r \in conn[g] : HostFails(g, r)
  \/ Wire \/ Upkeep \/ RoomReaps
  \/ Background \/ Foreground
  \/ HostEnds \/ HostVanishes \/ HostRejoins
  \/ Wake \/ SignInOrOut \/ PresenceChanges

Spec == Init /\ [][Next]_vars

(* Tasks are scheduled, the dial lock is handed over in turn, sockets      *)
(* deliver, timers fire, a host whose session ended comes back.  Nothing   *)
(* is asked of the faults, nor that a vanished host ever returns.          *)
Fairness ==
  /\ \A a \in Actors : WF_vars(TaskStep(a))
  /\ \A a \in Calls : SF_vars(Locked(a))
  /\ WF_vars(Wire) /\ WF_vars(Upkeep) /\ WF_vars(Return)

FairSpec == Spec /\ Fairness

-----------------------------------------------------------------------------
(* Properties.                                                             *)

(* Once a sign-out has been acted on no link is cached, also not one whose *)
(* dial was under way (device_room.rs: "Revocation must close them").      *)
RevokedClean == cache.revoked /\ token.noticed = "yes" => cache.link = None

(* A caller never takes another request's answer: not after a redial,      *)
(* where the request ids start over while the host still answers old ones. *)
AnswerIsMine == \A a \in Calls : task[a].phase = "ok" => task[a].got = a

(* The host commits an upload only when it has run every chunk of it,      *)
(* whichever chunks were lost, repeated or answered on a later link.       *)
CommitComplete == lim.commit \cap host.ran # {} => lim.chunks \subseteq host.ran

(* Every call comes back, whatever happens to the links: no dial lock is   *)
(* kept, no waiter forgotten.  (The commit of a failed upload never runs.) *)
CallsEnd == <>[](\A a \in Calls : task[a].phase \in {"ok", "failed", "idle"})

(* The watch flows again after any fault of links or host, unless it has   *)
(* nothing to flow from; and it leaves a link whose far leg is dead.       *)
WatchRecovers ==
  []<>(\/ task[Watch].phase \in {"idle", "ended"} \/ ~token.in \/ view.dark
       \/ task[Watch].phase = "live" <=> host.phase # "zombie")

(* The host does not work on for a request nobody waits for: a dropped     *)
(* subscription or a link that went away ends its tasks.                   *)
Orphaned(g) == \E r \in conn[g] : \A p \in link[g].pending : p.id # r.id
NoOrphans   == []<>(host.phase = "zombie" \/ \A g \in Links : ~Orphaned(g))

(* A watch is served while somebody watches, and no longer.                *)
WatchServed == WatchRecovers /\ NoOrphans
=============================================================================

------------------------------- MODULE Rooms --------------------------------
(***************************************************************************)
(* The lifecycle of one chat's sessions on a device: opened (twice at one  *)
(* time by two threads, or again after an eviction), given a room, written *)
(* to, closed, evicted, deleted.  A session (SessionCore) has a document   *)
(* of its own; its room keeps the document in step with the edge and with  *)
(* the disk.  Sessions that overlap share the disk and the edge, nothing   *)
(* else.                                                                   *)
(*                                                                         *)
(* A room's client is taken as ChatClient shows it to be (one FIFO of      *)
(* batches to push, rows imported in order, a cursor that holds at a gap); *)
(* what is new here is who is alive, and who writes where, while one       *)
(* session takes over from another.                                        *)
(***************************************************************************)
EXTENDS Naturals, Sequences, FiniteSets

CONSTANTS
  SessionIds,   \* the sessions that may be made, in this order: 1, 2, ...
  RoomIds,      \* the rooms, likewise
  MaxSends,     \* bound: edits of the user
  MaxPeerRows,  \* bound: rows of other devices
  Lives         \* the stories: [acts |-> what happens besides opening and
                \* writing, chatRow |-> what the chat's row is at first,
                \* sends, peers |-> how many edits and rows of others]

ASSUME RoomsAssumption ==
  /\ SessionIds = 1..Cardinality(SessionIds) /\ RoomIds = 1..Cardinality(RoomIds)
  /\ MaxSends \in Nat /\ MaxPeerRows \in Nat
  /\ \A l \in Lives : /\ l.acts \subseteq {"preload", "evict", "close", "registry", "delete"}
                      /\ l.chatRow \in {"old", "live"} /\ l.sends <= MaxSends /\ l.peers <= MaxPeerRows

Threads == {"ui", "task"}

(* Own edits are 1..MaxSends; what other devices write follows.            *)
Edits == 1..(MaxSends + MaxPeerRows)
IsOwn(e) == e <= MaxSends

VARIABLES
  life,     \* the story
  chatRow,  \* the chat's row in the registry: "old" (roomGen 1), "live", "gone"
  disk,     \* [snap: the snapshot and its cursor, out: the outbox]
  edge,     \* the edge: the batches stored, <<edit, room it was pushed under>>
  cores,    \* the sessions
  rooms,    \* their rooms
  table,    \* ClientInner.sessions: the session listed for the chat, or 0
  thread,   \* what each thread is about to do
  past      \* history: edits written with no room to hear them (bare), or
            \* while another session had not joined yet (missed); the chat
            \* was deleted (wiped)

roomsVars == <<life, chatRow, disk, edge, cores, rooms, table, thread, past>>

NoSnap == [doc |-> {}, cur |-> 0]
Unmade == [made |-> FALSE, doc |-> {}, from |-> 0, room |-> 0, held |-> FALSE,
           viewed |-> FALSE]
NoRoom == [core |-> 0, live |-> FALSE, cur |-> 0, dirty |-> FALSE, saver |-> FALSE,
           client |-> "none", unsent |-> {}, queue |-> {}]
Waiting == [pc |-> "idle", core |-> 0, room |-> 0]

RoomsInit ==
  /\ life \in Lives
  /\ chatRow = life.chatRow
  /\ disk = [snap |-> NoSnap, out |-> {}]
  /\ edge = <<>>
  /\ cores = [c \in SessionIds |-> Unmade]
  /\ rooms = [r \in RoomIds |-> NoRoom]
  /\ table = 0
  /\ thread = [t \in Threads |-> Waiting]
  /\ past = [sent |-> 0, peers |-> 0, bare |-> {}, missed |-> FALSE, wiped |-> FALSE]

Go(t, pc) == thread' = [thread EXCEPT ![t].pc = pc]

Written == {edge[i][1] : i \in DOMAIN edge}
Outbox == {b[1] : b \in disk.out}

(***************************************************************************)
(* What a session or a room leaves behind.                                 *)
(***************************************************************************)

(* The document of a session lives while something refers to the session.  *)
UsedBy(c, threads) == \E t \in threads : thread[t].core = c
Alive(c) == table = c \/ cores[c].held \/ UsedBy(c, Threads)

(* A snapshot of the document and of the cursor, if anything changed since
   the last one and the document is still there.                            *)
FlushTo(snap, r, alive) ==
  IF rooms[r].dirty /\ alive
  THEN [doc |-> cores[rooms[r].core].doc, cur |-> rooms[r].cur]
  ELSE snap

(* Room::drop: its tasks are cancelled, its client is told to shut down (in
   a task of its own), and it flushes.                                      *)
Dropped(r, alive) ==
  [rooms EXCEPT ![r].live = FALSE,
                ![r].client = IF @ = "up" THEN "closing" ELSE "off",
                ![r].dirty = @ /\ ~alive]

(* The session c, now s, is freed with its last reference: its room goes first,
   while the document is still there (the order of the fields), then the rest. *)
Release(c, s, referred) ==
  LET r == s.room
      gone == ~referred /\ r # 0
  IN  /\ cores' = [cores EXCEPT ![c] = IF referred THEN s ELSE [Unmade EXCEPT !.made = TRUE]]
      /\ rooms' = IF gone THEN Dropped(r, TRUE) ELSE rooms
      /\ disk' = [disk EXCEPT !.snap = IF gone THEN FlushTo(@, r, TRUE) ELSE @]

(***************************************************************************)
(* Opening: on the user's thread, or on a task that preloads.              *)
(***************************************************************************)

NewSession == CHOOSE c \in SessionIds :
                ~cores[c].made /\ \A d \in SessionIds : d < c => cores[d].made

Held(c, t) == IF t = "ui" THEN [cores EXCEPT ![c].held = TRUE] ELSE cores

OpenSession(t) ==
  /\ thread[t].pc = "idle"
  /\ t = "task" => "preload" \in life.acts
  /\ \/ /\ table # 0
        /\ cores' = Held(table, t) /\ t = "ui" /\ ~cores[table].held /\ UNCHANGED thread
     \/ /\ table = 0 /\ chatRow # "gone"
        /\ \E c \in SessionIds : ~cores[c].made
        /\ t = "ui" => \A c \in SessionIds : ~cores[c].held
        /\ Go(t, "load") /\ UNCHANGED cores
  /\ UNCHANGED <<chatRow, disk, edge, rooms, table, past>>

(* The snapshot is read first, the outbox after it.                        *)
LoadSnapshot(t) ==
  /\ thread[t].pc = "load"
  /\ \E c \in SessionIds : ~cores[c].made
  /\ cores' = [cores EXCEPT ![NewSession] =
                 [Unmade EXCEPT !.made = TRUE, !.doc = disk.snap.doc, !.from = disk.snap.cur]]
  /\ thread' = [thread EXCEPT ![t] = [pc |-> "outbox", core |-> NewSession, room |-> 0]]
  /\ UNCHANGED <<chatRow, disk, edge, rooms, table, past>>

LoadOutbox(t) ==
  /\ thread[t].pc = "outbox"
  /\ cores' = [cores EXCEPT ![thread[t].core].doc = @ \cup Outbox]
  /\ Go(t, "insert")
  /\ UNCHANGED <<chatRow, disk, edge, rooms, table, past>>

(* Two openers: the first one's session is kept, the other's is dropped.   *)
Insert(t) ==
  /\ thread[t].pc = "insert"
  /\ LET kept == IF table = 0 THEN thread[t].core ELSE table
     IN  /\ table' = kept
         /\ thread' = [thread EXCEPT ![t].pc = "ensure", ![t].core = kept]
         /\ cores' = IF kept = thread[t].core THEN cores
                     ELSE [cores EXCEPT ![thread[t].core] = [Unmade EXCEPT !.made = TRUE]]
  /\ UNCHANGED <<chatRow, disk, edge, rooms, past>>

(***************************************************************************)
(* ensure_room: by the opener, and for every listed session when the       *)
(* registry changes.                                                       *)
(***************************************************************************)

Return(t) ==
  /\ thread[t].pc = "return"
  /\ thread' = [thread EXCEPT ![t] = Waiting]
  /\ LET c == thread[t].core
     IN  Release(c, Held(c, t)[c],
                 t = "ui" \/ table = c \/ cores[c].held \/ UsedBy(c, Threads \ {t}))
  /\ UNCHANGED <<chatRow, edge, table, past>>

RegistryChanged ==
  /\ "registry" \in life.acts /\ thread["task"].pc = "idle" /\ table # 0
  /\ thread' = [thread EXCEPT !["task"] = [pc |-> "ensure", core |-> table, room |-> 0]]
  /\ chatRow' \in {chatRow} \cup (IF chatRow = "old" THEN {"live"} ELSE {})
  /\ UNCHANGED <<disk, edge, cores, rooms, table, past>>

(* One without a room, unless the chat has no row, or has a room of the first
   generation only.                                                         *)
EnsureRoom(t) ==
  /\ thread[t].pc = "ensure"
  /\ Go(t, IF cores[thread[t].core].room = 0 /\ chatRow = "live" THEN "start" ELSE "return")
  /\ UNCHANGED <<chatRow, disk, edge, cores, rooms, table, past>>

NewRoom == CHOOSE r \in RoomIds :
             rooms[r].core = 0 /\ \A q \in RoomIds : q < r => rooms[q].core # 0

(* Mutant: it starts from the cursor that is on disk by then.              *)
StartsAt_Disk(c) == disk.snap.cur

(* From here on the room hears the session's edits.  Its cursor is the one
   that was read with the session's document.                               *)
StartsAt(c) == cores[c].from

StartRoom(t) ==
  /\ thread[t].pc = "start"
  /\ \E r \in RoomIds : rooms[r].core = 0
  /\ rooms' = [rooms EXCEPT ![NewRoom] =
                 [NoRoom EXCEPT !.core = thread[t].core, !.live = TRUE, !.saver = TRUE,
                                !.cur = StartsAt(thread[t].core)]]
  /\ thread' = [thread EXCEPT ![t].pc = "place", ![t].room = NewRoom]
  /\ UNCHANGED <<chatRow, disk, edge, cores, table, past>>

(* The slot is looked at again; if another thread filled it meanwhile, the
   new room is dropped.                                                     *)
PlaceRoom(t) ==
  LET c == thread[t].core
      r == thread[t].room
  IN  /\ thread[t].pc = "place"
      /\ \/ /\ cores[c].room = 0
            /\ cores' = [cores EXCEPT ![c].room = r]
            /\ UNCHANGED <<rooms, disk>>
         \/ /\ cores[c].room # 0
            /\ rooms' = Dropped(r, TRUE)
            /\ disk' = [disk EXCEPT !.snap = FlushTo(@, r, TRUE)]
            /\ UNCHANGED cores
      /\ Go(t, "return")
      /\ UNCHANGED <<chatRow, edge, table, past>>

(***************************************************************************)
(* The user.                                                               *)
(***************************************************************************)

Attach(c) ==
  /\ cores[c].held /\ ~cores[c].viewed
  /\ cores' = [cores EXCEPT ![c].viewed = TRUE]
  /\ UNCHANGED <<chatRow, disk, edge, rooms, table, thread, past>>

(* A room of the session may still get a client (Join), which will read the
   outbox again: one that has none yet, one that a thread is about to start,
   or one that a change of the registry will have started.                  *)
MayJoin(c) ==
  \/ \E t \in Threads : thread[t].core = c /\ thread[t].pc = "start"
  \/ \E r \in RoomIds : rooms[r].core = c /\ rooms[r].live /\ rooms[r].client = "none"
  \/ cores[c].room = 0 /\ chatRow # "gone"

(* A session that has read the outbox into its document, and whose room will
   read it once more.                                                       *)
Between(c) ==
  /\ cores[c].made /\ Alive(c)
  /\ ~\E t \in Threads : thread[t].core = c /\ thread[t].pc = "outbox"
  /\ MayJoin(c)

Hears(c) == {r \in RoomIds : rooms[r].live /\ rooms[r].core = c}

(* An edit goes into the document; every room of the session writes a batch
   of its own to the outbox and hands it to its client, or keeps it until
   there is one.                                                            *)
Send(c) ==
  LET e == past.sent + 1
  IN  /\ cores[c].held /\ past.sent < life.sends
      /\ cores' = [cores EXCEPT ![c].doc = @ \cup {e}]
      /\ disk' = [disk EXCEPT !.out = @ \cup {<<e, r>> : r \in Hears(c)}]
      /\ rooms' = [r \in RoomIds |->
                     IF r \notin Hears(c) THEN rooms[r]
                     ELSE IF rooms[r].client = "up"
                          THEN [rooms[r] EXCEPT !.queue = @ \cup {<<e, r>>}, !.dirty = TRUE]
                          ELSE [rooms[r] EXCEPT !.unsent = @ \cup {<<e, r>>}, !.dirty = TRUE]]
      /\ past' = [past EXCEPT !.sent = e,
                    !.bare = IF Hears(c) = {} THEN @ \cup {e} ELSE @,
                    !.missed = @ \/ \E d \in SessionIds \ {c} : Between(d)]
      /\ UNCHANGED <<chatRow, edge, table, thread>>

(* The view is closed; Swift lets its handle go.                           *)
CloseSession(c) ==
  /\ "close" \in life.acts /\ cores[c].held
  /\ Release(c, [cores[c] EXCEPT !.held = FALSE, !.viewed = FALSE],
             table = c \/ UsedBy(c, Threads))
  /\ UNCHANGED <<chatRow, edge, table, thread, past>>

(* Past the cap of warm sessions: not one on screen, nor one with edits its
   room has not seen acknowledged.  The code also spares one that streams or
   whose commands the host has not adopted: this evicts more.               *)
Evictable(c) ==
  /\ ~cores[c].viewed
  /\ LET r == cores[c].room IN r # 0 => rooms[r].unsent = {} /\ rooms[r].queue = {}

Evict ==
  /\ "evict" \in life.acts /\ table # 0 /\ Evictable(table)
  /\ Release(table, cores[table], cores[table].held \/ UsedBy(table, Threads))
  /\ table' = 0
  /\ UNCHANGED <<chatRow, edge, thread, past>>

(* The row goes, then the listing, then the room (which flushes), then what
   is on disk.                                                              *)
DeleteSession ==
  /\ "delete" \in life.acts /\ thread["ui"].pc = "idle" /\ chatRow # "gone"
  /\ chatRow' = "gone"
  /\ Go("ui", "unlist")
  /\ past' = [past EXCEPT !.wiped = TRUE]
  /\ UNCHANGED <<disk, edge, cores, rooms, table>>

Unlist ==
  /\ thread["ui"].pc = "unlist"
  /\ thread' = [thread EXCEPT !["ui"] = [pc |-> IF table = 0 THEN "erase" ELSE "close",
                                        core |-> table, room |-> 0]]
  /\ table' = 0
  /\ UNCHANGED <<chatRow, disk, edge, cores, rooms, past>>

CloseRoom ==
  LET c == thread["ui"].core
      r == cores[c].room
  IN  /\ thread["ui"].pc = "close"
      /\ IF r = 0 THEN UNCHANGED <<rooms, disk, cores>>
         ELSE /\ rooms' = Dropped(r, TRUE)
              /\ disk' = [disk EXCEPT !.snap = FlushTo(@, r, TRUE)]
              /\ cores' = [cores EXCEPT ![c].room = 0]
      /\ thread' = [thread EXCEPT !["ui"] = [Waiting EXCEPT !.pc = "erase"]]
      /\ UNCHANGED <<chatRow, edge, table, past>>

DeleteSnapshot ==
  /\ thread["ui"].pc = "erase"
  /\ disk' = [snap |-> NoSnap, out |-> {}]
  /\ thread' = [thread EXCEPT !["ui"] = Waiting]
  /\ UNCHANGED <<chatRow, edge, cores, rooms, table, past>>

(***************************************************************************)
(* A room's tasks.                                                         *)
(***************************************************************************)

(* The client starts from what the outbox holds, and takes over what was
   written before it was there.                                             *)
Join(r) ==
  /\ rooms[r].live /\ rooms[r].client = "none"
  /\ rooms' = [rooms EXCEPT ![r].client = "up", ![r].unsent = {},
                            ![r].queue = disk.out \cup rooms[r].unsent]
  /\ UNCHANGED <<chatRow, disk, edge, cores, table, thread, past>>

Running(r) == rooms[r].client \in {"up", "closing"}

(* The persister hears of a cursor only while the room's sink is there; the
   document takes a row only while it is.                                   *)
Advanced(r, n) == [rooms EXCEPT ![r].cur = IF n > @ THEN n ELSE @, ![r].dirty = TRUE]

(* The room stores a batch once; the acknowledgement names its place, and
   moves the cursor unless rows are missing before it.                      *)
PushAcked(r, b) ==
  LET known == \E i \in DOMAIN edge : edge[i] = b
      grown == IF known THEN edge ELSE Append(edge, b)
      seq   == CHOOSE i \in DOMAIN grown : grown[i] = b
  IN  /\ Running(r) /\ b \in rooms[r].queue
      /\ edge' = grown
      /\ disk' = [disk EXCEPT !.out = @ \ {b}]
      /\ rooms' = [Advanced(r, IF seq = rooms[r].cur + 1 THEN seq ELSE 0) EXCEPT
                     ![r].queue = @ \ {b}]
      /\ UNCHANGED <<chatRow, cores, table, thread, past>>

(* ViewerSink::import, in a document that still exists.  A row whose import *)
(* fails is skipped and counts as applied: here one that changes nothing.   *)
Import(r) ==
  LET n == rooms[r].cur + 1
      c == rooms[r].core
  IN  /\ Running(r) /\ n <= Len(edge) /\ Alive(c)
      /\ cores' = [cores EXCEPT ![c].doc = @ \cup {edge[n][1]}]
      /\ rooms' = Advanced(r, n)
      /\ UNCHANGED <<chatRow, disk, edge, table, thread, past>>

(* The saver, every second, or when the app goes to the background.        *)
Save(r) ==
  /\ rooms[r].live /\ rooms[r].dirty
  /\ disk' = [disk EXCEPT !.snap = FlushTo(@, r, TRUE)]
  /\ rooms' = [rooms EXCEPT ![r].dirty = FALSE]
  /\ UNCHANGED <<chatRow, edge, cores, table, thread, past>>

(* What is left of a room of which nothing runs.                           *)
Rest(room) ==
  IF room.live \/ room.saver \/ room.client = "closing" THEN room
  ELSE [NoRoom EXCEPT !.core = room.core, !.client = "off"]

(* Cancelled, its task flushes once more, if the document is still there.  *)
SaverEnds(r) ==
  /\ ~rooms[r].live /\ rooms[r].saver
  /\ disk' = [disk EXCEPT !.snap = FlushTo(@, r, Alive(rooms[r].core))]
  /\ rooms' = [rooms EXCEPT ![r] = Rest([@ EXCEPT !.saver = FALSE, !.dirty = FALSE])]
  /\ UNCHANGED <<chatRow, edge, cores, table, thread, past>>

ClientEnds(r) ==
  /\ rooms[r].client = "closing"
  /\ rooms' = [rooms EXCEPT ![r] = Rest([@ EXCEPT !.client = "off"])]
  /\ UNCHANGED <<chatRow, disk, edge, cores, table, thread, past>>

(* Another device writes.                                                  *)
PeerRow ==
  /\ past.peers < life.peers
  /\ past' = [past EXCEPT !.peers = @ + 1]
  /\ edge' = Append(edge, <<MaxSends + past.peers + 1, 0>>)
  /\ UNCHANGED <<chatRow, disk, cores, rooms, table, thread>>

RoomSteps ==
  \/ \E t \in Threads : \/ OpenSession(t) \/ LoadSnapshot(t) \/ LoadOutbox(t) \/ Insert(t)
                        \/ EnsureRoom(t) \/ StartRoom(t) \/ PlaceRoom(t)
                        \/ Return(t)
  \/ RegistryChanged
  \/ \E c \in SessionIds : Attach(c) \/ Send(c) \/ CloseSession(c)
  \/ Evict \/ DeleteSession \/ Unlist \/ CloseRoom \/ DeleteSnapshot
  \/ \E r \in RoomIds : \/ Join(r) \/ Import(r) \/ Save(r) \/ SaverEnds(r) \/ ClientEnds(r)
                        \/ \E b \in rooms[r].queue : PushAcked(r, b)
  \/ PeerRow

RoomsNext == RoomSteps /\ UNCHANGED life

RoomsSpec == RoomsInit /\ [][RoomsNext]_roomsVars

(***************************************************************************)
(* Properties.                                                             *)
(***************************************************************************)

(* Whatever sessions overlap: an edit that a room heard is at the edge or in
   the outbox until the chat is deleted; and no cursor, of a room that runs
   or of the snapshot, passes a row that its document lacks.                *)
ReopenKeepsEdits ==
  /\ ~past.wiped => \A e \in 1..past.sent :
       e \in past.bare \/ e \in Written \/ e \in Outbox
  /\ ~past.missed =>
       /\ \A i \in 1..disk.snap.cur : edge[i][1] \in disk.snap.doc
       /\ \A r \in RoomIds : Running(r) /\ Alive(rooms[r].core) =>
            \A i \in 1..rooms[r].cur : edge[i][1] \in cores[rooms[r].core].doc

(* client.rs:803: once a deletion has erased the chat's snapshot, nothing
   saves it again.                                                          *)
DeletedStays ==
  [][(past.wiped /\ thread["ui"].pc = "idle" /\ disk.snap = NoSnap) => disk'.snap = NoSnap]_roomsVars
=============================================================================

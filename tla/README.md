# ZRemote: TLA+ models, checks and proofs

ZRemote is the mobile peer of the Zeron mesh: a SwiftUI application over a
Rust core (`src/native/core/crates`).  The device holds CRDT replicas of chat
sessions and of a workspace registry, edits them offline, and exchanges update
batches with *rooms* (services that order batches and keep checkpoints) over a
WebSocket and over HTTPS; it calls *hosts* (the machines that run the agents)
through their device rooms.  This directory models the parts of that program
whose correctness depends on the order of steps of several actors, checks them
with TLC and proves the central results with TLAPS.

## 1. Inventory

| Component | Code | State | Operations | Modules |
|---|---|---|---|---|
| Chat sync client | `sync/chat_client.rs`, `chat_frames.rs` | `Shared` (cursor, pending batches, unwritten batches, quota flag, retry clock, gap and causal generations, refresh tickets, HTTPS epoch), the session's locals, wake tokens | dial, handshake, catch-up plan, checkpoint fetch, backfill, steady loop, gap repair, push, ACK, ERROR, HTTPS cycle, probe, redial, request_catch_up | `ChatRoom`, `ChatClient`, `Outbox` |
| Chat room sink | `client/live/room.rs`, `sync/store.rs` | document replica, publication slot and pre-join buffer, persisted cursor, dirty generation, snapshot row, outbox rows | start, join, local-update hook, hand over, import, acknowledge, reject, flush, load | `ChatClient` |
| Registry client | `sync/registry.rs`, `doc/registry.rs` | authoritative LWW rows, pending op batches, `server_seq`, GC floor, HLC | write, overlay, hello/state, rows, ack, re-seed, HTTPS cycle, save | `RegistryRows`, `Registry` |
| Durable sync jobs | `sync/sync_jobs.rs` | job rows (doc, kind, version, cursor), clock | schedule, reconcile_page, complete, list | `SyncJobs` |
| Dial, wake, path | `sync/dial.rs`, `wake.rs`, `net_path.rs` | path flag, wake and online broadcasts | backoff, park, announce; race of addresses | `Backoff` |
| Device room, RPC | `rpc/*`, `client/live/relay.rs` | pending calls, link cache, virtual connections, watch table | dial, call, reply, event, upload, watch, revoke | `HostLink` |
| Session queue, commands, host | `doc/queue.rs`, `doc/commands.rs`, `client/demo/mod.rs`, `client/session/mod.rs` | queue rows with gates, command entries, leases, the turn map | enqueue, move, take, gate; evaluate, cancel; drain, run a turn | `HostTurns` |
| Transcript | `doc/schema.rs`, `doc/parts.rs`, `client/session/*` | the document's entries and parts, the tracker's slots, echoes, snapshot, composer | fold, write, decode, join, refresh, publish | `EntryWriter`, `Transcript`, `SessionView` |
| Accounts | `client/auth.rs`, `client/events.rs`, `NativeClient.swift` | keychain, token pairs, cores, their ordered events | restore, sign in, switch, sign out, refresh, rotate | `Accounts` |
| Sidebar | `doc/registry/sidebar_pins.rs`, `sidebar_sections.rs`, `proto/sidebar_pins.rs`, `workspace/view.rs` | pin, location and section rows of the registry, their order keys | pin, move, unpin, file into a section, delete a section, import, reconcile | `Sidebar` |
| Sessions and rooms | `client/client.rs`, `client/live/mod.rs`, `room.rs` | session table, room table, snapshot and outbox on disk | open, preload, evict, close, delete, upgrade | `Rooms` |
| Text | `text/*` | prepared paragraphs, lines | normalize, segment, measure, lay out | `TextLayout` |
| Application state | `AppModel.swift`, `LocalStateStore.swift` | drafts and preferences, their file, the selection | type, send, select, load, save, switch account | `Drafts` |
| Admission budget | `sync/budget.rs` | four semaphores, waiter cap, pause deadline, next dial | socket, dial, http, pause | not modelled |
| WebSocket pump | `sync/socket.rs` | two bounded channels, progress watchdog | pump | not modelled |
| Catalogue, attachments, workspace view | `client/catalog.rs`, `attachments.rs`, `workspace/*` | projections | mostly I/O and pure functions | not modelled |
| FFI, layout, other SwiftUI | `mobile`, `markdown`, `syntax`, `Sources/` | view state | rendering | not modelled |

(Paths are under `src/native/core/crates/<crate>/src` and `src/Sources`.)

How they interact.  The user's edits enter the CRDT document; its local-update
callback (under the publication slot's lock) writes an outbox row and hands the
batch to the chat client, or buffers it until the join task has built one.  The
chat client runs an actor task (sockets, sessions) and, whenever a session ends
or a dial fails, a single-flight HTTPS task; both work on one mutex-protected
`Shared` and call the sink, which imports rows, deletes outbox rows on
acknowledgement and keeps the cursor; a persister task saves document and
cursor.  The registry client has the same two-transport shape over rows instead
of a CRDT.  Backoffs are cut short by wake and online events.  A message is a
command entry, or a queue row, of the chat's document; a host drains both into
turns, writes the reply into the document's parts, and answers calls (leases of
queue edits, uploads, watches) over a cached link.  What changes in a document
is marked by an observer; any thread may refresh a session, which re-decodes
what was marked and publishes snapshot and composer, and the application pulls
what has a new revision.  Tokens rotate in the core and travel back to the
keychain as ordered events.

What is hard: two transports interleave over one cursor; frames may be lost
with a socket at any point; rows may arrive with a hole before them, or parked
for a missing cause; acknowledgements can be lost, repeated, or arrive on both
transports; the outbox write, the snapshot write and the acknowledgement are
three separate persistence steps with kills between them; the room may be
trimmed, checkpointed, or wiped; a wake receipt must be answered by a read that
began after it; a link may be replaced under several calls at once; a turn's
tail, the drain of new commands and the user's queue actions take rows of one
queue; a snapshot is computed from inputs read at different times; a refresh
token is good for one use and its answer may be lost.

Every hazard is listed at its line in `PROJECT.json`, with the properties that
would catch it going wrong.

## 2. Modules

| Module | Role |
|---|---|
| `ChatRoom` | constants, frames, the CRDT's visibility rule, and the pure rules shared by both transports: `PlanCatchUp`, `IsGap`, `Walk` |
| `ChatClient` | the chat client, its sink, the two transports, the disk and the room it talks to; its properties |
| `Outbox` | the abstract promise: which batches are on disk, in the room, or may be handed in twice |
| `RegistryRows` | the registry's rows as pure rules: the clock, the merge of one operation, seeds, the overlay |
| `Registry` | the replica, its client over both transports, the saver, the room and a second device |
| `HostLink` | calls, uploads and watches over the cached link to a host, the room between, the host |
| `SyncJobs` | the durable work table and its workers |
| `Backoff` | waiting out a reconnect backoff against the path flag and the online broadcast |
| `HostTurns` | composer, command ledger, queue and the host that drains them into turns |
| `SessionView` | what several refreshing threads publish of one session |
| `Transcript` | from the document's entries over the tracker and the events to the screen |
| `EntryWriter` | agent events folded into parts, written incrementally, read back |
| `Accounts` | accounts, token pairs, cores and the keychain |
| `Drafts` | drafts, the sends that clear them, and their file |
| `Sidebar` | pins, sections and their order over registry rows that several devices edit |
| `Rooms` | the sessions and rooms of one chat: opened, evicted, closed, deleted by two threads |
| `TextLayout` | paragraphs from normalized text to lines and fragments |
| `Filters` | what `retain` and `filter` keep of a sequence, as a recursive function |
| `MCChatClient`, `MCRegistry`, `MCHostLink`, `MCParts`, `MCApp` | the instances TLC checks |
| `ChatClient_proofs`, `ChatCursor_proofs`, `HostLink_proofs`, `Registry_proofs`, `HostTurns_proofs`, `Rooms_proofs`, `Filters_proofs` | theorems and lemmas |
| `Parts_proofs` | theorems of components of `MCParts` that share nothing: `SyncJobs` and `Backoff`, `SessionView`, `EntryWriter`, `Drafts`, `Accounts` |

An action is one stretch of code between two awaits, lock regions or
transactions that another task can tell apart.  Variables marked "history" are
not in the code: a property speaks of them, or a defect the code really has is
recorded in them so that a property can say what holds apart from it (§4).

### ChatClient: state and code

| Variable | Code |
|---|---|
| `srv` | the room: `log` of batch ids, checkpoint (`on`, `ckpt`, frontier `ids`), remaining `quota` refusals, `used` (ids ever accepted, its deduplication) |
| `needs` | CRDT causality: the items a batch depends on |
| `c2s`, `s2c` | the socket's two FIFO channels |
| `shared` | `Shared`; the generations that are only compared for "unchanged since" are flags on their observers (`gapSame`, `causalSame`, `epochSame`) |
| `sess` | the actor: `phase` of `run_session`, the STATE it read, the plan, `inFlight`, repairs used, refresh in flight, and `row`, a row imported but not yet accounted for |
| `tok` | the nudge, probe and redial channels (capacity one each) |
| `http` | the HTTPS task: phase, cloned batches, captured cursor, ticket and generations, the answer |
| `sink` | the publication `slot`, its `unsent` buffer and the batch in `hand`, the document `got`, the persister (`pcur`, `dirty`, `flush`), the snapshot `saved`, the `outbox` and its `rejected` rows; `redo` is a history variable: batches the client may be given twice |
| `asked` | history variable: what the room held at each wake receipt |
| `env`, `issued` | counters that bound faults, and own edits made |

Every action is one stretch of code between two awaits or lock regions that
another task can tell apart; the handlers of `handle_frame_with_replay`, the
arms of the `select!` loop and the loop top that follows them are one action
each (`AfterFrame`, `Finish`), because the actor is one task.  A row is two
steps (`SessRow`, `SessApplyRow`; `HttpRow`, `HttpApplyRow`): the code reads
`needs_checkpoint` and the cursor, calls `import` without the lock and takes
the lock again.  The HTTPS push is three (`HttpPersist`, `HttpPost`,
`HttpAck`), the snapshot writer two (`FlushSample`, `FlushSave`), a hand-over
two (`HandOver`, `Handed`).  During a checkpoint fetch the socket's frames are
buffered and replayed afterwards; `SessFetch` marks the end of what was
buffered (`Marked`, END) because frames before the mark are all handled before
the session joins, even those behind the ROWS_DONE answer (`SessDefer`).

The room is external: it is modelled from what the client sends and expects
(`ServeHello`, `ServeRows`, `ServePush`, `RemoteAppend`, `PostCheckpoint`,
`Wipe`, `HttpServe`).  It answers in order, broadcasts a row to every other
socket, deduplicates batch ids, and may refuse a batch (`Poison` for good,
`quota` for now).  CRDT import is external too: an item whose causes are
missing is held (`got`) but not `Visible`.

Simplifications, each of which leaves the properties' hazards in place:

* Frames in flight when a session ends are lost, except those the room had
  already read; that is one of the losses a real socket may have, and the room
  may have served any prefix of what was sent.
* `pending` is a set served oldest first; batch numbers are issue order.
* The loop of `push_pending` is one step.  Between its sends the HTTPS task may
  retire a batch the loop then sends again; the room deduplicates it.
* Time is not modelled: a deadline may pass whenever it is pending.  A drop, a
  backfill deadline and a probe deadline all end the session in the same way.
* Probe frames, presence, statistics, event broadcasts and logs are left out.
* `MaxRepairs` stands for `MAX_GAP_REPAIRS_PER_SESSION`.
* A room dropped and opened again within one process is `Rooms`' subject.

### Registry

| Variable | Code |
|---|---|
| `doc` | `RegistryDoc`: `auth` rows, `pending` batches with their in-flight mark, `server_seq`, `HlcClock`, whether it was ever seeded |
| `wall` | this device's wall clock |
| `disk` | the saved snapshot and `registry_dirty` |
| `net`, `c2s`, `s2c`, `nudge` | the actor's session and its two FIFO channels, the one-slot nudge |
| `http` | the single-flight task `spawn_offline_sync`: cloned batches, the sequence it asks from, the answer |
| `room`, `peer` | external: the room as the repository's own mock server has it, and a second device with a clock of its own |
| `past` | history |

A stamp is (time, counter, device): the zero padding of `encode_hlc` makes the
order of the strings this order.  One `Write` action stands for the individual
field setters, which differ in kind and fields only.  A session joins in two
steps: `SessState` applies the room's answer, `SessJoined` pushes what is
pending by then.  Presence and statistics are left out.

### HostLink

| Variable | Code |
|---|---|
| `task` | each caller in `relay.rs`: its attempts, its dials, the link it uses, its call id |
| `cache` | `LinkCache`: the link, the cooldown, the revocation, who dials |
| `token` | credentials, and whether the cache's watcher has noticed their change |
| `link`, `up`, `down` | each socket with its `RpcClient` (next id, pending calls) and its two channels |
| `host`, `conn` | the host behind the room: its session, its virtual connections, what it has run |
| `view` | the watch table: foreground, presence of the host, unsupported |

A frame reaches the task that waits for it (`Told`): an answer, an error of the
host (`HostFails`: a probe it does not serve, a call or chunk it rejects, a
subscription it refuses) or the end of a stream it had begun.  An error ends a
call or an upload without another attempt and leaves the link; the watch waits
and subscribes again, after an end too.  A host that answers with an error has
not run the request.  Keepalives are left out; what they detect is `PathSilent`.
The cache's watcher (`TokenNoticed`, `LinksCleared`) has something to watch only
under a token source that publishes changes: the crate's tests have one; the
app's `Bearer` (client/src/live/mod.rs:86-98) publishes none, and its sign-out
closes the relay (`disconnect_all`) instead.  `DialAttempts`,
`ChunkRounds` and `CallAttempts` are the code's constants.

### HostTurns

The composer's half is `session/mod.rs` (send, interrupt, retry, queue actions,
edit leases); the host's half is `DemoHost`, the only host in this repository
(the production host is another program).  A document write is one step (the
write gate), a critical section over the turn map is one step, and everything
between two of them interleaves: `due` holds the `on_command` timers, `task` a
drain or an RPC handler between two such steps, `turns` the spawned turns with
their phase and cancellation.  To begin an edit the host writes the row's gate
(`GateRow`) and then records the lease (`GrantLease`); a finish takes the lease
away (`DropLease`), then the row or its gate (`EndEdit`), and reports a conflict
if the row is no longer the one that was leased (`RpcFinish`).  `commands` and `queue` are the document's,
`expired` the commands past their time to live on the composer's clock,
`rowGate`, `leases`, `editors`, `pendingRows` and `rpcs` the edit protocol.

### SessionView and Transcript

`SessionView` takes the refresh apart: `marks` (`Dirty`), `wakeup`
(`refresh_wake`), and per thread the steps take, project, gate, publish, with
the session row read before the state lock (`rowSeen`).  `Transcript` takes a
refresh as one step and follows the data instead: `list` and `body` are the
document, `core` the tracker's slots, joined entries, ledger and echo with
their revisions, `pump` the coalescing event pump, `app` NativeClient's
refresh task and its cache by revision, `warm` whether the client still holds
the core.  A text is a version and a length: it grows, or is rewritten.  A
reopened core is taken to see the same document.

### EntryWriter

`folded` is the accumulator of `fold_event_into_parts`, `written` the mirror in
`SegmentWriter`, `maps` the entry's part maps in the document.  A question is
folded under an id of its own and stored under its request's (`ToDocPart`); a
reader knows it by the latter (`FromDocPart`).  A text is its
length.  A tool call has one result; direct writes of a chip or a status come
when no writer is there.

### Accounts and Drafts

`Accounts`: the service (`issued`, `owner`, `aged`) is external; `keychain`,
`known`, `account`, `client` and `operation` are `NativeClient`'s, `coreOf`
each core's `TokenProvider` and event queue.  The keychain may refuse any save:
after a refresh, a new account's or a sign-out's.  One account operation at a time:
`AppModel.restoring` hides everything else (`ZRemoteRootView.swift:64`).
`Drafts`: `drafts`, `edited`, `phase`, `loaded`, `saveAfter`, `saveTask`,
`selected` and `sending` are `AppModel`'s, `stored` the file.  The other
preferences follow the same rules.  A switch saves (`SwitchSaves`) and leaves in
a later step (`SwitchAway`); it comes back to the same account.  `Disconnect`
clears the file.

### SyncJobs and Backoff

`SyncJobs`: `jobClock`, `wake` and `scan` are the tables; `holds` is what a
worker read (workers are outside the repository).  `Backoff`: `pathOffline` is
`PATH_OFFLINE`, `unread` a receiver's place in the bounded broadcast channel
(`Slots + 1` when it lags), `stage` and `parked` each dialler's wait.

### Sidebar, Rooms and TextLayout

`Sidebar`: `bar` is each device's registry replica as the sidebar reads it
(registers with stamps, queue, cursor, clock), `store` and `log` the room,
`intents` the history of the user's changes with what the device had seen;
`cut` the chats whose pins were pruned.  The order keys are the code's digits.
The registry's own operators are those of doc/src/registry.rs; each change takes
a stamp per row and one more for its batch's id.
`Rooms`: `table` is the session table and `room_table`, `cores` the sessions
(document, listeners, attached view), `rooms` each `Room` with its client's
queue and cursor and its saver, `disk` snapshot and outbox, `thread` what the
two opening threads are about to do.  `TextLayout`: pure functions from text
and spans to segments (`para`) and one action per line laid out; a text is a
sequence of character classes and the font a small table of widths with one
ligature and one kerned pair.

## 3. Properties and runs

| Run | Instance | Checks |
|---|---|---|
| `chat_socket` | WebSocket only, two remote rows, one lost socket, two wake receipts, fairness | `GapRemembered`, `Converges`, `RefreshCompletes` |
| `chat_faults` | one own and one remote batch, an item whose cause never comes, one kill, one wipe, one checkpoint, one flush, one quota refusal | `SavedHonest`, `CursorNotAhead`, `ResetIsReal` |
| `chat_https` | both transports, a seeded room, two remote rows, one wake receipt, one redial or probe (a redial ends the session as a lost socket does) | `TypeInv`, `CursorHonest`, `RefreshFresh` |
| `chat_outbox` | three own batches (one poisoned, one over the cap), both transports, one drop, one kill, one failed write | `OutboxKept` |
| `chat_delivery` | one own batch, both transports, one drop, one kill, one failed write, fairness | `Delivered` |
| `registry` | eight stories (below), both transports, fairness | `CursorHonest`, `NothingLost`, `OrderKept`, `ViewKept`, `Pushed`, `Converges` |
| `host_link` | fourteen stories (below), fairness | `RevokedClean`, `AnswerIsMine`, `CommitComplete`, `CallsEnd`, `WatchServed` |
| `parts` | eight components that share no state, one per initial state | `WakeKept`, `ReconcileCovers`, `WaitHonest`, `DeliveredOnce`, `GateHolds`, `Settled`, `ViewSettles`, `EchoKept`, `ScreenHonest`, `ReaderSeesFold`, `ExpiryHonest`, `RecordsHonest`, `DraftsKept` |
| `app` | three components that share no state, one per initial state | `IntentHonoured`, `LastWordKept`, `PrunedHonest`, `ReopenKeepsEdits`, `TextSet` |
| `chat_quota` | WebSocket only, one quota refusal, one drop | finds `Delivered` violated |
| `chat_stranded` | one failed write, one flush, one kill | finds `NoEditStranded` violated |
| `registry_overtaken` | two writes of another device, both transports, one drop | finds `CursorApplied` violated |

Chat client:

* `CursorHonest`: every row the room still holds at or below the cursor is
  visible in the document.  `SavedHonest` says it of the pair on disk.  Both
  are stated for executions without a wipe (after a wipe the room's numbers
  restart and the comparison has no meaning; `CursorNotAhead` is the property
  for that case).
* `GapRemembered`: a joined session that holds a later row of another device
  but not an earlier one has flagged a gap, asked for rows, or wants the
  checkpoint.
* `RefreshFresh` and `RefreshCompletes`: `catch_up_completed(ticket)` speaks of
  everything the room held at the request, and does so eventually.
* `ResetIsReal`: an action property, the reasons for which a cursor may fall.
* `OutboxKept`: refinement of `Outbox`: a batch is on disk before the room sees
  it, it leaves the disk only once the room has it, and is never written again
  unless it is one of those in `redo`.
* `Delivered`: a batch in the outbox that fits a row ends in the room, or marked
  as the checkpoint's to carry.

Registry:

* `CursorHonest`: what the room holds at or below the cursor is what the
  replica holds, in memory and on disk.
* `NothingLost`, `OrderKept` (`InOrder`, `StampsFresh`), `Pushed`: a batch leaves the queue only once it
  reached the room or with an unsaved process; batches reach the room in the
  order they were made, each stamp newer than those before it, across a restart
  too; and every one does, in the end.
* `ViewKept` (`AckKeepsView`, `RowsSurvive`): an acknowledgement changes nothing the user
  sees, and no answer takes a row from sight but by a tombstone.
* `Converges`: replica and room agree in the end on every row either shows.

Host link:

* `RevokedClean`: once a sign-out has been acted on, no link is cached.
* `AnswerIsMine`: a caller never takes another request's answer.
* `CommitComplete`: an upload is committed only with all its chunks.
* `CallsEnd`, `WatchServed` (`WatchRecovers`, `NoOrphans`): every call comes
  back, the watch flows again after any fault, the host works for nobody that
  is gone.

The parts:

* `WakeKept`, `ReconcileCovers` (jobs): completing an older version erases no
  newer request; a scan that has ended woke every document.
* `WaitHonest` (backoff): a wait parked for an offline path whose path is back
  has the ending event still unread, and an event ends a wait only if it came
  during it.
* `DeliveredOnce` (`NothingDropped`, `LandsOnce`), `GateHolds`, `Settled` (host turns): at every
  moment something holds each message sent; it lands once, and never after its
  removal; a row an editor holds leaves only by that edit; everything settles.
* `ViewSettles`, `EchoKept` (session view): at rest, snapshot and composer show
  the document and the row; a message once shown stays shown, and never twice.
* `ScreenHonest` (`ScreenShowsDoc`, `VersionsHonest`; transcript): once everything is delivered
  the screen is the join of the whole document and the echo; the same revision
  is the same entry, and an append hint covers what changed since its base.
* `ReaderSeesFold` (entry writer): a reader decodes what was folded, but for the
  id of a question, which is its request's (`AsRead`).
* `ExpiryHonest`, `RecordsHonest` (accounts): the service refuses a pair only
  if a later one was lost; no record holds another account's pair.
* `DraftsKept` (drafts): no text left is lost, none sent is back, and the file
  follows.

The application:

* `IntentHonoured`, `LastWordKept` (sidebar): a change does to the device's own
  lists what it says; and once all is exchanged, a chat stands where a change
  put it that no other change of its place had seen.
* `PrunedHonest` (sidebar): only a chat that was really deleted loses its pin.
* `ReopenKeepsEdits` (rooms): whichever sessions overlap, an edit that a room
  heard is at the edge or in the outbox, and no cursor passes a row its document
  lacks.
* `TextSet` (text): no character is lost or measured twice on the way to the
  segments, and each line is what a typesetter would make of the text: it goes
  on to the last end that fits, is as wide as its fragments, and drops only what
  hangs or breaks.

No run may deadlock-check: with every bound used up and everything delivered
the modelled system really stops (`CHECK_DEADLOCK FALSE`).

### Bounds

*Chat.*  Each hazard needs at most one loss, one kill, one failed write, one
quota refusal and one wipe, and these are the bounds; two remote rows are the
least number for which rows can be out of order and one be missing behind the
other; three own batches are the least for a retired, a refused and a live one
in one queue.  `MaxRepairs = 1` lets a session both repair and give up.
`Remote` rows are not symmetric in the temporal runs, so no symmetry is used.
`Kinds` picks how a remote row may depend on others: `free` (nothing), `chained`
(on what its author had seen), `orphan` (on `Hidden`, which never arrives).

*Registry.*  An initial state picks one story of `MCRegistry`, so that one run
covers them without their product: `Gap` (a lost broadcast before another),
`Behind` and `Ahead` (both devices write one row, this clock behind or ahead),
`Batches` (a cascading delete cut at `cap` 1, on both transports), `Both` (the
transports together with another device), `Killed` (a kill with an older
snapshot), `Wiped`, `Collected` (a tombstone collected by the room).  One field
and at most two rows suffice, as rows merge field by field; `MaxCounter = 2`
makes the clock's counter roll over within a story.

*Host link.*  Two sockets at a time (a finished one is used again), two calls
or an upload of two chunks and its commit, one watch; `Lossy`, `Woken`, `Auth`,
`Upload`, `Ends`, `Vanish`, `Shared`, `Watched`, `Seen`, `Refused`, `Dark`,
`OldHost`, `Failing` and `Rejects` (one error of the host, to a call, a watch or
an upload) let one or two faults meet.

*Parts.*  Jobs: two documents, two workers, four versions, pages of one
document (the least that gives a scan a middle).  Backoff: two diallers, a
channel of two events (so that it lags), three path changes.  Host turns: two
messages, two task slots, nine stories (`Steered`, `Parked`, `Edited`, `Raced`,
`Sorted`, `Retried`, `Flapped`, `Cut`, `Asked`).  Session view: one own
message, two threads, two edits, three row changes.  Transcript: three scripts,
of up to four writes of a single reply, three of a reply with a continuation,
two of a reply with an own message and a flapping path; two parts per entry.
Entry writer: two calls (one starts a subagent), three events, two late
writes.  Accounts: two people, three logins, two cores, two callers, one aged
token, two changes, one mishap, from three keychains.  Drafts: three keys, two
texts, one account switch, one failure.

*Application.*  Sidebar: two devices with different clocks, three chats, one
section, two changes and one lost broadcast, in five stories; the limit of two
pins is reached, so that a third is refused.  Rooms: two sessions, three rooms,
two opening threads, two edits and one row of another device, in four stories.  Text: nine texts of four to seven characters, each as
one span, two styles, with a chip and with an atomic span, in four white-space
modes.

### Fairness

`ChatClient!FairSpec` assumes weak fairness of the room (`Server`), of the join
task, of the session's actor and of the HTTPS task's progress.  The tasks are
spawned on a runtime that runs every ready task, and every wait in them has a
deadline after which the loop goes on.  A dial is fair only as part of
`Session`: the backoff loop (`wait_backoff`) always dials again.  Nothing is
assumed of `DialFail`, `Drop`, `Crash`, `HttpFail`, of the flush task, of the
user and of other devices; the faults are bounded, so "eventually" means after
the last of them.  `Registry!Fairness` is the same for the registry's actor, its
HTTPS task and the room.  `HostLink!Fairness` is weak for every task, the
channels and the cache's upkeep; strong only for a caller that waits for the
dial lock, a fair (FIFO) tokio mutex that others take and release repeatedly.
`TurnsFair` is weak for the host's drains and turns, the uploads and the return
of the path.  The other parts check safety only, at rest where it matters, and
assume none.

## 4. Findings

1. `chat_quota`: the retry clock is cleared before the retried push is
   answered; a socket lost in between leaves `quota_blocked` set with no clock,
   and `push_pending` sends nothing in any later session.
2. `chat_stranded`: a failed outbox write followed by a snapshot and a kill
   leaves an edit in the document with nothing to carry it; the store's marker
   for this case is not read on the device.
3. `registry_overtaken`: an HTTPS pull answered before a session moved the
   replica is applied between the next session's hello and its answer.  The
   older row is put back and the cursor passes it for good.

### What the properties step around

Some properties hold only apart from something the code does, which a history
variable records.  Each was seen as a counterexample before the exception was
written down.

| History | What the code does |
|---|---|
| `ChatClient.redo` | a batch whose acknowledgement or outbox delete was lost is handed in again |
| `Registry.unmarked` | an HTTPS post that fails under a live session un-marks batches nobody pushes then |
| `Registry.mixed` | the two transports carry batches at one time and reorder them |
| `Registry.regress` | a late HTTPS answer or frame puts an older row over a newer one (finding 3); so does the replay of an old upsert after a delete and a revival |
| `Registry.missed` | a lost last broadcast is not noticed until another one, or the next session |
| `Registry.back`, `observed` | a kill that forgets a clock taken ahead by a row it saw lets a stamp be issued again (against the comment at doc/registry.rs:61-62) |
| `Registry.lostWrite` | a kill takes what the debounced saver has not written (`stop()` clears the dirty mark without saving, and a failed save is not retried) |
| `Backoff.behind` | the drain of old events stops at `Lagged`, so an event of before the wait may end it (against registry.rs:626-627) |
| `HostTurns.overrun` | a turn replaced before it takes the gate never writes its prompt (demo/mod.rs:539) |
| `HostTurns.unwoken` | a loss of the path shorter than the 4 s grace drops drains without another wake |
| `Accounts.lost` | a switch or sign-out while a refresh is under way drops its event and leaves a spent pair in the keychain |
| `Sidebar.cut` | after a lost broadcast the sync client reports the later rows (sync/registry.rs:951-959) before it asks again, and the client prunes the pins of a chat it has not heard of yet (client.rs:162-174, against its comment: pins of deleted chats) |
| `Rooms.bare` | an edit made before any room listens gets no outbox row |
| `Rooms.missed` | an eviction between `open_session`'s fast path and the view's attachment lets a second client push the rows again and move its cursor past an edit its document lacks: an edit of one session is marked when another one has read the outbox and may still be given a room that reads it again (`Between`, `MayJoin`) |
| `Drafts.revived`, `unsaved` | a save pending for 300 ms is cancelled when the account expires; switching while the file is still read overwrites it with nearly empty preferences (AppModel.swift:300); a failed load lets the next save overwrite the file |

Further observations made while modelling, visible in the models' actions:

* `ChatClient`: over HTTPS the answer of a pull that began before the socket's
  rows came in can be read as a room that was reset: the cursor falls and rows
  are pulled again (harmless; `ResetIsReal` is checked on the socket alone).
* `ChatClient`: after a kill `CursorHonest` can fail for a while.  The outbox
  gives back a batch whose causes the saved snapshot lacks, so it is parked;
  its acknowledgement over HTTPS moves the cursor all the same, and so does a
  repair that imports the rows after the cursor it captured
  (chat_client.rs:1516-1639).  The next checkpoint brings the missing items; a
  flush and a second kill before it keep them missing until then.  With a
  failed outbox write the same can come about over the socket.  The theorems of
  §5 on the cursor's honesty therefore speak of a process until it is killed.
* `Registry`: an unobserved delete by a slower clock does not tombstone; the
  acknowledgement of an HTTPS push retires the batch before the pull, so the own
  write vanishes for a moment; a full answer after a collection re-seeds rows
  the room deleted; a wipe is not noticed if the room regrew past the cursor.
* `HostLink`: the timeout of one call drops the shared link, so another call
  in flight may run twice; `invalidate` drops whatever link is cached now; a
  sign-out and sign-in during one dial caches a link with the old credentials;
  `subscribe_checked` has no deadline.
* `HostTurns`: a row that is gated at the head blocks those behind it; the
  status can stay Working after the interrupt of a waiting turn; the demo
  host's drain ignores a command's expiry.
* `SessionView`: the row is read before the state lock with nothing to order
  two refreshes, so a snapshot's `working` flag may be the older one (the
  composer, under its gate, is right).
* `Transcript`: schema.rs:417-423 says a torn entry degrades to a missing row;
  the salvage shows it as an empty entry of its own.
* `Accounts`: overlapping switches, which only the UI prevents, would cancel
  each other.
* `Sidebar`: unpinning a chat that stands in a section drops it from the
  section, where the comment of `project_sections` has it stay; nothing calls
  it so.
* `Rooms`: `delete_project` (client.rs:1018-1028) removes the sessions without
  closing their rooms or deleting their snapshots; a session deleted while its
  room saves may be saved again, against client.rs:803-805 (`DeletedStays`
  states it; no run checks it).
* `TextLayout`: the padding at the end of a padded span that is not atomic goes
  onto a ligature's last unit, which has no advance of its own, so that breaking
  anywhere may split it (prepare.rs:1077-1089); the minimum width is too small if words are not broken and a soft
  hyphen follows an end that only hangs; an atomic span that begins or ends
  with white space is cut by the hang.  The inputs of `app` leave these out.

## 5. Proofs

`TypeCorrect` and `OutboxKeptAlways` hold for every `MaxOwn`, every finite or
infinite `Remote`, every choice of `Poison`, `Oversize` and `Kinds`, either transport setting and every
bound; they assume only `RoomAssumption` and `ClientAssumption` (the constants
are of their kinds), which TLC evaluates on every run.

(These two are about `ChatClient`, as are the three on its cursors below.)

* `TypeCorrect` (`Spec => []TypeInv`).  `TypeOK` alone is not inductive: the
  type of a row read from an answer depends on the answer ending at a row the
  room has (`FramesUpTo`), the HTTPS cursor rule on its answer being complete
  (`CycleComplete`), and a session's first frame on a closed socket carrying
  nothing.  The proof splits the invariant into the part the session can
  disturb (`TalkInv`) and the rest (`WorldInv`), has one lemma per action, and
  composes them in `StepType`.
* `OutboxKeptAlways` (`Spec => OutboxKept`).  The inductive invariant is
  `OutboxInv`, under `TypeInv`: a pending batch is safe (on disk or in the
  room) or still unwritten; a batch that is both is in `redo`; only safe
  batches are on the wire, in the HTTPS request or refused; only batches the
  room has are acknowledged, on either transport; what waits in the slot's
  buffer, or in the hand-over, will be handed in a second time.  Every clause
  is needed: an acknowledgement must speak of a batch in the room for `Retire`
  to be allowed, a push of a batch on disk for `Land`, and an unwritten batch
  must not be on disk already for a write to be a `Record`.  Each action lemma
  shows that `OutboxInv` is kept and that the step is a step of `Outbox` or a
  stutter; `RecordStep`, `LandStep`, `RetireStep`, `HoldStep` and `RestartStep`
  name the abstract steps.

* `CursorHonestUntilKill`, `SavedHonestUntilKill`, `CursorWithinRoom`
  (`ChatCursor_proofs`), over both transports.  A cursor is copied between the
  client, the sink, a flush under way, the snapshot, the HTTPS cycle, the plans
  and the row being applied, and each copy is used after the others have moved.
  `CursorInv` says of every copy that it is `Sound`: not beyond the log while
  the room was not wiped, and covering only rows the document shows while the
  process was not killed either.  `Onward` is why that lasts: between a wipe and
  a kill a room and a document only grow, so a sound cursor stays sound however
  late it is used.  Two more parts are needed: what the socket carries is true
  of the room (`TrueFrames`), and an acknowledged batch is one of this device's
  own and so in the document, which is where `OutboxInv` comes in.
  `CursorNotAhead` after a wipe is proved for the socket alone (`SocketOnly`:
  the handshake settles the cursor and no wipe survives the session); with
  HTTPS, a cycle may still hold what it read of the old room.  The two theorems
  on honesty end at the first kill because the property is not true in general
  after it (§4).
* `GapRememberedUntilKill`, `WakeIsAnswered` (`ChatCursor_proofs`), over both
  transports.  A wake is completed by a read that somebody else may have begun,
  and a row that comes over one transport may lie beyond rows the other has not
  brought, so both properties are about what the reads under way will still
  bring.  `LedgerInv` keeps that account over `CursorInv`: at most one read is
  outstanding on the wire (`ReadInv`), so an end of rows belongs to the read
  that is out; the wakes that a read may complete were asked for before the room
  answered it, and their rows lie in the document, in a checkpoint or among what
  the read brings (`Reach`); and a hole in the document lies within what a read
  under way brings, else the gap is flagged.  What lasts is again that a room
  and a document only grow (`Further`), so both theorems end at the first wipe or
  kill (`Calm`).  For a wake, the theorem says that its rows are in the document
  or have been trimmed into a checkpoint since (`LandedOrTrimmed`), and
  `RefreshFresh` itself where the room has cut no checkpoint.
* `HostRevokedClean`, `HostAnswerIsMine`, `HostCommitComplete`
  (`HostLink_proofs`), for any set of callers, sockets, chunks and stories.
  `LinkInv`: a call is pending on a link under an id exactly if its task waits
  there with that id, so an abandoned id has no taker; ids on the wire are
  below the link's next one, and a frame agrees with the task pending under its
  id, so the restart of the ids on a new link confuses nobody; id 1 is the
  probe's; an answer that is no error implies that the host ran the request; a
  commit is on the wire only when the host has run every chunk of that upload.  A
  revocation refuses new links before it clears the cache, hence `RevokedClean`.
* `CursorHonestAlways`, `NothingLostAlways` (`Registry_proofs`), for any finite
  set of rows, any instance, batch cap and story.  The cursor of the replica is
  set from answers that were computed earlier, from a cursor the replica had
  when it asked, and that race each other and the broadcasts.  `HeldTo(rm, auth,
  n)` says that the replica holds what the room holds up to `n`; an answer is
  true (`AnswerTrue`) if it agrees with the room up to its own number and leaves
  out only rows up to the cursor it was computed from.  `CursorsAre` says so of
  every hello, answer and pull under way, of the replica and of the one saved.
  Three facts keep it: a room only grows (`Grew`, `GrewHolds`), so what was true
  stays true however late it is used; an answer applied leaves the replica
  holding the room up to its number (`AnswerHolds`); and while an HTTPS pull is
  under way a session asks from a cursor no later than the replica's (`Busy`).
  The theorem excludes, as the property does, a wiped room and the step that
  puts an older row over a newer one (finding 3).  `NothingLost` needs that an
  acknowledgement under way names a batch that reached the room (`AcksTrue`) and
  that no operation on the queue drops another batch.  What the folds over
  batches do (`MergeInto`, `Enqueue`, `Only`) is proved by induction over the
  index of a recursive function (`UpTo` of `Filters_proofs`).
* `DeliveredOnceAlways`, `GateHoldsAlways` (`HostTurns_proofs`), for any set of
  messages, any set of tasks and every story; `TurnsAssumption` says that a story
  speaks of these messages and tasks and that `NoMsg`, the message of a turn
  without one, is no message.  A drain that saw a row takes it in one step, and
  the turn that will write it is spawned in another, by tasks that know nothing
  of each other.  `DeliveredOnce` alone says nothing of what happens in between,
  so `TurnsInv` says where a message can be: `Alone`, that a message with a row
  was taken by nobody (no command, task, upload or turn names it and the
  transcript lacks it) and one that was removed or never sent is nowhere; and
  `Held`, that a message sent is somewhere.  A row leaves the queue only into a
  hand that holds it from that step on (`RowLeaves`) or into `removed`
  (`TaskRemoves`), and a hand lets go only of what the next has (`HandedOn`);
  `Alone` is why the row and the hand are never two.  A message may well be in
  two hands (a retried command and the turn of the first), which is what the
  deduplication by id in `AdoptPrompt` is for; the invariant needs it in that
  lemma alone.  `GateHolds` follows for each step from what it takes:
  `take_next_queued` stops at a gated head, `take_queued` leaves a gated row,
  and a removal or the discard that ends an edit is recorded in `removed`.
* `ViewSettlesAlways`, `ViewEchoKept` (`Parts_proofs`), for any set of
  messages and threads: what the published snapshot lags behind is owed, as a
  mark, as the import's duty or in a thread's hands (`ViewInv`); one thread
  writes at a time, and what it read is no older than what is published.
* `DraftsKeptAlways` (`Parts_proofs`), for any set of sessions and any number
  of texts: each text stands once and under one key, a message under way only
  under its own key, and while the file loads what was typed and what was read
  have no key in common (`DraftInv`).
* `AccountsExpiryHonest`, `AccountsRecordsHonest` (`Parts_proofs`), for any
  set of people, sessions, cores and tasks that refresh.  A pair that is not the
  last one issued is refused, so `AccountsInv` says where the last pair of a
  session can be: with the core in use, whose tasks rotate it under the gate and
  report in order (`ClientFresh`), and in the records unless that core still
  owes a report (`RecordsFresh`).  A core that is not at rest when it is taken
  out of use gives its session up for lost (`StoppedLost`); every other refusal
  is thereby excluded.  `PlacesTrue` says whose core runs and what an operation
  between two awaits may rely on, `RecordsTrue` whose pair each record holds.
  `AccountsAssumption` says of a keychain a run begins with that each session in
  it is one person's, as saved by an earlier run.
* `EntryReaderSeesFold` (`Parts_proofs`), for any sets of calls and any number of
  events and late writes.  A sync writes only the fields in which a part differs
  from the mirror, and leaves in the map what it does not write.  `EntryInv` says
  that each map is nevertheless the mirror's part converted (`MapsTrue`); that
  needs that no field ever set is unset by the fold while a writer runs
  (`FoldAhead`, `After`).  What `FromDocPart` makes of a converted part is the part
  under the id a reader is to see (`Decodes`).
* `JobsWakeKept`, `JobsReconcileCovers` (`Parts_proofs`), for any number of
  documents and workers and any page size.  The invariant `JobsInv` rests on
  the clock: a version is issued once (`Issued`), so a row that still has the
  version a worker read is the row the worker read; whoever still matches has
  seen every request (`HoldersSaw`), and what is owed lies behind the cursor of
  the row and of every scanner that still matches (`ScanOwes`, `ScannersOwe`).
* `BackoffWaitHonest` (`Parts_proofs`), for any set of diallers and any
  channel capacity: between the drain and the wait the flag is read, so a
  broadcast is either still to come, unread, or was followed by a read of the
  flag.
* `ReopenKeepsEditsAlways` (`Rooms_proofs`), for any number of sessions, rooms,
  edits, rows and stories; it assumes `RoomsAssumption`, that sessions and rooms
  are numbered.  The edit's half is short: an edit goes into the outbox in the
  step that makes it and leaves it in the step that puts it on the edge.  The
  cursor's half needs to know who shares what.  A thread that reads a document
  is alone with its session (`AloneWith`); a room that is live is its
  session's or in the hands of the thread that will place it, and its session
  is alive (`HomesTrue`), so a flush finds the document its cursor is about;
  what a room took over from the outbox is in its document (`RoomCovered`), so
  an acknowledgement may move its cursor.  That last clause is kept only if a
  session that has read the outbox misses no edit of another session until its
  room has read the outbox for the last time (`Between`), which is what
  `past.missed` records; without the exemption the property is false in the
  code, and with an exemption that ends with the session's first room, as an
  earlier version of `Between` had it, it is false as soon as a session gets a
  second room.

Only model-checked:

* every liveness property (`Converges`, `RefreshCompletes`, `Delivered`,
  `Pushed`, `CallsEnd`, `WatchServed`, `Settled`), which need fairness and
  ENABLED;
* `ResetIsReal`, which is true of the socket alone, and the cursor's honesty
  after a kill, which is not true in general (§4);
* `Registry.OrderKept`: that stamps are fresh holds only within bounds.  A clock
  whose counter passes `MaxCounter` runs ahead of the wall, and a kill that
  forgets it lets a stamp be issued again; the stories of `MCRegistry` stay
  below that;
* `GapRemembered` and `RefreshFresh` after a wipe or a kill, and `RefreshFresh`
  of rows that a checkpoint took in while the refresh ran;
* the safety properties of `Transcript`, `Sidebar` and `TextLayout`.  That of
  `TextLayout` compares folds over sequences with a reference over whole texts.

## 6. Not modelled

* `budget.rs`: semaphores, a waiter cap and a pacing clock.  Its promises are
  about elapsed time and the runtime's fair queues, which these models abstract.
* `socket.rs`: a byte pump with a watchdog; its contract here is two FIFO
  channels that may break.
* `dial.rs`'s race of addresses, presence frames, statistics, logs: no
  replicated state.
* Rendering, the layout of rows, Markdown, syntax colours, SwiftUI views, wire
  types: sequential data shaping, best covered by the repository's tests.  Of
  the text crate: font fallback, script-specific and bidirectional breaks,
  letter spacing, the rounding of widths, the repair of spans and the cache of
  widths.
* The catalogue, attachments and the workspace view: projections of the
  registry without a state of their own that steps could bring out of order.
* The production host, the rooms, the token service: other programs, modelled
  as external from how this code uses them.

Arms of modelled functions that are left out, and what that means for what is
shown:

* A row whose import fails (room.rs:215-220) is skipped, and the cursor passes
  it.  In `ChatClient` and `Rooms` it is a row that changes nothing; what another
  row lost with it is the case of a cause that never comes (`Hidden`).  So
  `CursorHonest` and `ReopenKeepsEdits` speak of rows that can be read.  A sink
  whose document is gone (room.rs:205-207) applies nothing and reports success;
  its client is about to stop, and no property speaks of its cursor.
* `Registry`: the room rejects nothing.  An error frame is only counted and
  logged (sync/registry.rs:993-996), and the session goes on; over HTTPS a
  rejected batch ends the round (869-873), in each round before those behind it.
  `Pushed` is therefore about batches the room accepts.  HTTPS
  is off in the stories `Wiped` and `Collected`: re-seeding over HTTPS under a
  live session is not covered.
* `HostTurns` is the life of one open session, as long as a view shows it.  Once
  it is evicted the whole document is gone, for `DemoHost` keeps none and a
  reopened chat starts from its fixture (`session_doc`, demo/mod.rs:255-275); a
  turn or a drain that comes later finds no session and returns (455-457,
  581-583), with the prompt of a row it may have taken.  The reply's segment can
  always be opened (634-640).  The look at
  the snapshot and the push (588-600) are one step: the turn gate keeps other
  turns out between them.  The host does not enforce a lease's expiry.
* `SessionView`: commands that were cancelled are passed over
  (session/mod.rs:738), but nothing in the repository cancels one.
* `Rooms.Evictable` ignores the streaming reply and the commands without an
  answer that spare a session, and so evicts more than the code.
* `Sidebar`: every row can be read.  `read_chats` skips a malformed one
  (doc/registry.rs:694-705, 1214), so the pins of such a chat are pruned though it
  is live, against `PrunedHonest`.  An order key beyond its longest is refused
  (proto sidebar_pins.rs:54-58, 65) after the clock has ticked; that takes
  thousands of moves into one gap.
* `HostLink`: credentials that are temporarily unavailable leave the cache as it
  is (device_room.rs:872), which is the watcher not acting.  An error that the
  host reports after it did part of a request is not distinguished.
* `Drafts`: the save that follows a failed switch (`try?`) succeeds, and nothing
  is typed while an account is restored.

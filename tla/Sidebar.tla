------------------------------ MODULE Sidebar -------------------------------
(***************************************************************************)
(* The sidebar: which chats are pinned, in what order, and in which section *)
(* (crates/doc/src/registry/sidebar_pins.rs, sidebar_sections.rs,          *)
(* proto/src/sidebar_pins.rs, the front page of workspace/view.rs).        *)
(*                                                                         *)
(* It lives in registry rows that every device edits offline: a pin row    *)
(* (pinned, orderKey) and a location row per chat, a row per section.  A    *)
(* register is one field of a row, <<field, chat or section>>; all of them  *)
(* are last writer wins, by the stamps of RegistryRows, so a device that   *)
(* edits what it sees must stamp its edit later than all it saw, whatever  *)
(* its wall clock says.  The room is the one of Registry, reduced to a log  *)
(* of accepted batches: a device reads it in order, except that a broadcast *)
(* may be lost, after which it says hello again.                           *)
(***************************************************************************)
EXTENDS Integers, FiniteSets, SequencesExt

CONSTANTS
  SDevices,    \* numbers of devices
  Wall,        \* wall clock of each device
  Chats,       \* numbers of chats
  Section,     \* id of the one section
  KeyBase,     \* digits of an order key (16)
  MaxPins,     \* MAX_SIDEBAR_PINS
  Stories,     \* runs: what was done to the sidebar before (past), the chats that
               \* are created during the run (young), the changes it offers (acts,
               \* to the chats in use), broadcasts it loses (losses)
  MaxIntents   \* bound on the user's changes

Stamps == INSTANCE RegistryRows WITH RowIds <- {}, Fields <- {}, MaxCounter <- 999999
NoStamp == Stamps!NoStamp

VARIABLES
  tale,     \* the story of this run
  bar,      \* per device: rep (the replica's registers), queue (batches not
            \* acknowledged), sent (how many of them the room has), clock, cursor,
            \* torn (must say hello), synced, dirty (registry_changed is due)
  store,     \* the room's registers
  log,      \* accepted batches: the rows they touched as the room then held them
  intents,  \* history: the changes made, with what each of them had seen
  holes,    \* history: broadcasts lost
  cut       \* history: live chats unpinned by a device with a gap behind it

sidebarVars == <<tale, bar, store, log, intents, holes, cut>>

(* Registers, and the row each is a field of.                              *)
Regs == ({"chat", "pinned", "key", "place"} \X Chats) \cup
        ({"made", "gone", "shut"} \X {Section}) \cup {<<"ready", 0>>}
RowOf(r) == CASE r[1] \in {"pinned", "key"} -> <<"pin", r[2]>>
              [] r[1] \in {"made", "gone", "shut"} -> <<"section", r[2]>>
              [] OTHER -> r
Unset(r) == [v |-> CASE r[1] = "place" -> "" [] r[1] = "key" -> <<>> [] OTHER -> FALSE,
             at |-> NoStamp]
Has(x, r) == x[r].at # NoStamp
IsSet(x, r, v) == Has(x, r) /\ x[r].v = v
RowPresent(x, row) == \E r \in Regs : RowOf(r) = row /\ Has(x, r)

(* One batch: an upsert of some registers under one stamp.                 *)
Merge(x, b) == [r \in Regs |-> IF r \in DOMAIN b.set /\ Stamps!Newer(b.hlc, x[r].at)
                                 THEN [v |-> b.set[r], at |-> b.hlc] ELSE x[r]]
Seen(d) == FoldLeft(Merge, bar[d].rep, bar[d].queue)

-----------------------------------------------------------------------------
(* What the rows mean.                                                     *)

Live(x, c) == IsSet(x, <<"chat", c>>, TRUE)
Ready(x)   == Has(x, <<"ready", 0>>)

(* sidebar_location: the placement register, unless an older app, which    *)
(* writes only `pinned`, wrote later.                                      *)
PlaceOf(x, c) ==
  IF Has(x, <<"place", c>>) /\ ~Stamps!Newer(x[<<"pinned", c>>].at, x[<<"place", c>>].at)
    THEN x[<<"place", c>>].v
    ELSE IF IsSet(x, <<"pinned", c>>, TRUE) THEN "pinned" ELSE ""

(* The order of keys, as strings.                                          *)
Before(a, b) ==
  \/ IsStrictPrefix(a, b)
  \/ \E i \in 1..Len(a) : i <= Len(b) /\ a[i] < b[i] /\ SubSeq(a, 1, i - 1) = SubSeq(b, 1, i - 1)

KeyOf(x, c) == x[<<"key", c>>].v

(* ordered_sidebar_pins.                                                   *)
Pins(x) ==
  SetToSortSeq({c \in Chats : Has(x, <<"key", c>>) /\ PlaceOf(x, c) = "pinned"},
               LAMBDA c, e : Before(KeyOf(x, c), KeyOf(x, e)))

SectionLive(x) == RowPresent(x, <<"section", Section>>) /\ ~IsSet(x, <<"gone", Section>>, TRUE)

(* sidebar_sections: its members, when it is shown.                        *)
Members(x) == IF SectionLive(x) /\ Has(x, <<"made", Section>>)
              THEN {c \in Chats : Has(x, <<"place", c>>) /\ PlaceOf(x, c) = Section} ELSE {}

(* derive: the front page of chats that exist.                             *)
FrontPins(x) == SelectSeq(Pins(x), LAMBDA c : Live(x, c))
FrontPlace(x, c) == IF c \in Range(Pins(x)) THEN "pinned"
                    ELSE IF c \in Members(x) THEN Section ELSE ""

-----------------------------------------------------------------------------
(* pin_order_key_between: the bounds are keys or <<>> for none; the nonce  *)
(* is the stamp, so that two devices never make the same key.  Keys stay   *)
(* far below the length at which the code gives up.                        *)
Midpoint(lo, hi) == (lo + hi) \div 2
Nonce(stamp) == <<stamp[1], stamp[2] \div (KeyBase * KeyBase),
                  (stamp[2] \div KeyBase) % KeyBase, stamp[2] % KeyBase, stamp[3]>>

KeyBetween(lower, upper, stamp) ==
  LET lo(i)   == IF i <= Len(lower) THEN lower[i] ELSE 0
      cap(i)  == IF i <= Len(upper) THEN upper[i] ELSE KeyBase
      \* the upper bound counts only while the digits so far were equal to its own
      open(i) == \E j \in 1..(i - 1) : lo(j) # cap(j)
      hi(i)   == IF open(i) THEN KeyBase ELSE cap(i)
      n       == CHOOSE i \in 1..(Len(lower) + Len(upper) + 1) :
                   hi(i) > lo(i) + 1 /\ \A j \in 1..(i - 1) : hi(j) <= lo(j) + 1
  IN  [j \in 1..(n - 1) |-> lo(j)] \o <<Midpoint(lo(n), hi(n))>> \o Nonce(stamp)
        \o <<KeyBase \div 2>>

-----------------------------------------------------------------------------
(* A change reads and writes through a writer: the device's view, its      *)
(* clock, and the batches it has queued.                                   *)
Writer(d) == [x |-> Seen(d), clock |-> bar[d].clock, out |-> <<>>, dev |-> d]

NextStamp(w) == Stamps!StampOf(Stamps!Tick(w.clock, Wall[w.dev]), w.dev)

Ticked(w) == [w EXCEPT !.clock = Stamps!Tick(@, Wall[w.dev])]
\* the id of a batch takes a tick of its own
Queue(w, b) == Ticked([w EXCEPT !.x = Merge(@, b), !.out = Append(@, b)])
Write(w, set) == Queue(Ticked(w), [set |-> set, hlc |-> NextStamp(w)])
Put(w, r, v) == Write(w, [q \in {r} |-> v])

(* observe_sidebar_row: the clock catches up with the newest stamp of the row. *)
Observed(w, row) ==
  [w EXCEPT !.clock = FoldSet(LAMBDA s, k : Stamps!Observe(k, s), @,
                              {w.x[r].at : r \in {q \in Regs : RowOf(q) = row}})]

Initialized(w) == IF Ready(w.x) THEN w ELSE Put(w, <<"ready", 0>>, TRUE)

Located_Blind(w, c, place) == Put(w, <<"place", c>>, place)

(* write_sidebar_location.                                                 *)
Located(w, c, place) ==
  Put(Observed(Observed(w, <<"place", c>>), <<"pin", c>>), <<"place", c>>, place)

(* SidebarPinChange::project: the list a change of the pins asks for.      *)
Project(ids, ch) ==
  LET rest  == SelectSeq(ids, LAMBDA i : i # ch.chat)
      at(i) == CHOOSE k \in DOMAIN rest : rest[k] = i
      k     == IF ch.before \in Range(rest) THEN at(ch.before)
               ELSE IF ch.after \in Range(rest) THEN at(ch.after) + 1 ELSE Len(rest) + 1
  IN  IF ch.act = "move" /\ ch.chat \notin Range(ids) THEN ids
      ELSE IF ch.act \in {"pin", "move"} THEN InsertAt(rest, k, ch.chat)
      ELSE IF ch.act \in {"unpin", "assign"} THEN rest ELSE ids

PinRefused(w, ch) ==
  ch.act = "pin" /\ \/ ch.chat \notin Range(Pins(w.x)) /\ Len(Pins(w.x)) >= MaxPins
                    \/ ~Live(w.x, ch.chat)

Unpinned(w, c, current) ==
  Put(IF c \in Range(current) THEN Located(w, c, "") ELSE w, <<"pinned", c>>, FALSE)

(* The key is made, and its stamp taken, before the location is written.   *)
Keyed(w, ch, current) ==
  LET next  == Project(current, ch)
      i     == CHOOSE k \in DOMAIN next : next[k] = ch.chat
      lower == IF i = 1 THEN <<>> ELSE KeyOf(w.x, next[i - 1])
      upper == IF i = Len(next) THEN <<>> ELSE KeyOf(w.x, next[i + 1])
      key   == KeyBetween(lower, upper, NextStamp(w))
      keyed == (<<"key", ch.chat>> :> key) @@
               (IF ch.act = "pin" THEN <<"pinned", ch.chat>> :> TRUE ELSE <<>>)
      w1    == IF ch.act = "pin" THEN Located(Ticked(w), ch.chat, "pinned") ELSE Ticked(w)
  IN  Queue(w1, [set |-> keyed, hlc |-> NextStamp(w)])

(* change_sidebar_pin.                                                     *)
PinChanged(w, ch) ==
  LET current == Pins(w.x)
      w1 == Observed(Observed(Initialized(w), <<"place", ch.chat>>), <<"pin", ch.chat>>)
  IN  IF PinRefused(w, ch) THEN w
      ELSE IF ch.act = "unpin" THEN Unpinned(w1, ch.chat, current)
      ELSE IF ch.act = "move" /\ ch.chat \notin Range(current) THEN w1
      ELSE Keyed(w1, ch, current)

Created(w) ==
  IF RowPresent(w.x, <<"section", Section>>) THEN w
  ELSE Write(Ticked(w), (<<"made", Section>> :> TRUE) @@ (<<"shut", Section>> :> FALSE) @@
                        (<<"gone", Section>> :> FALSE))

Collapsed(w, shut) ==
  IF SectionLive(w.x)
    THEN Put(Observed(w, <<"section", Section>>), <<"shut", Section>>, shut) ELSE w

Deleted(w) == Put(Observed(w, <<"section", Section>>), <<"gone", Section>>, TRUE)

(* Assign to the section, or (place "") back to the recent list.           *)
AssignRefused(w, ch) ==
  (ch.place = Section /\ ~SectionLive(w.x)) \/ ~Live(w.x, ch.chat)
Assigned(w, ch) ==
  LET w1 == Put(Observed(w, <<"pin", ch.chat>>), <<"pinned", ch.chat>>, FALSE)
      w2 == Located(w1, ch.chat, ch.place)
  IN  IF AssignRefused(w, ch) THEN w
      ELSE IF ch.place = Section THEN Collapsed(w2, FALSE) ELSE w2

Imported_Always(w, c) == Located(Created(w), c, Section)

(* Import of a section with one member: nothing of a section that exists   *)
(* or existed is touched, and no chat that was ever placed is moved.       *)
Imported(w, c) ==
  LET w1 == Created(w)
      w2 == IF ~Has(w1.x, <<"place", c>>) /\ c \notin Range(Pins(w1.x)) /\ Live(w1.x, c)
              THEN Located(w1, c, Section) ELSE w1
  IN  IF RowPresent(w.x, <<"section", Section>>) THEN w ELSE Collapsed(w2, FALSE)

(* An older app's pin and unpin: the pin row only.                         *)
Toggled(w, ch) ==
  LET w1  == Observed(w, <<"pin", ch.chat>>)
      key == <<1>> \o Nonce(NextStamp(w1)) \o <<KeyBase \div 2>>
  IN  IF ch.place = "" THEN Put(w1, <<"pinned", ch.chat>>, FALSE)
      ELSE Write(w1, (<<"pinned", ch.chat>> :> TRUE) @@ (<<"key", ch.chat>> :> key))

(* change_sidebar_pin and change_sidebar_section; upsert_chat, delete_chat. *)
Changed(w, ch) ==
  CASE ch.act \in {"born", "remove"} -> Put(w, <<"chat", ch.chat>>, ch.act = "born")
    [] ch.act = "legacy" -> Toggled(w, ch)
    [] ch.act \in {"pin", "move", "unpin"} -> PinChanged(w, ch)
    [] ch.act = "create"   -> Created(Initialized(w))
    [] ch.act = "collapse" -> Collapsed(Initialized(w), TRUE)
    [] ch.act = "delete"   -> Deleted(Initialized(w))
    [] ch.act = "assign"   -> Assigned(Initialized(w), ch)
    [] ch.act = "import"   -> Imported(Initialized(w), ch.chat)


Change(act, c) == [act |-> act, chat |-> c, after |-> 0, before |-> 0, place |-> ""]
LastOf(ids) == IF ids = <<>> THEN 0 ELSE Last(ids)

(* What the client offers for view x (pin_session puts a chat last).       *)
Offered(x) ==
  {[Change("pin", c) EXCEPT !.place = "pinned",
                            !.after = IF LastOf(Pins(x)) = c THEN 0 ELSE LastOf(Pins(x))] : c \in Chats}
  \cup UNION {{[Change("move", c) EXCEPT !.place = "pinned", !.before = e],
               [Change("move", c) EXCEPT !.place = "pinned", !.after = e]} :
                 <<c, e>> \in {p \in Chats \X Range(Pins(x)) : p[1] # p[2]}}
  \cup {Change("unpin", c) : c \in Range(Pins(x))}
  \cup {[Change("assign", c) EXCEPT !.place = p] : c \in Chats, p \in {"", Section}}
  \cup {[Change("import", c) EXCEPT !.place = Section] : c \in Chats}
  \cup {[Change("legacy", c) EXCEPT !.place = p] : c \in Chats, p \in {"", "pinned"}}
  \cup {Change("remove", c) : c \in {e \in Chats : Live(x, e)}}
  \cup {Change("born", c) : c \in {e \in tale.young : ~Has(x, <<"chat", e>>)}}
  \cup {Change(act, 0) : act \in {"collapse", "delete"}}
  \* the id of a new section is nobody's yet
  \cup (IF \E i \in DOMAIN intents : intents[i].change.act \in {"create", "import"}
          THEN {} ELSE {Change("create", 0)})

-----------------------------------------------------------------------------
(* The devices and the room.                                                *)

(* The room a run starts from: the chats that exist, and what device 2 made of
   the sidebar before.                                                      *)
Bare == [r \in Regs |-> IF r[1] = "chat" /\ r[2] \notin tale.young
                           THEN [v |-> TRUE, at |-> <<1, 0, 1>>] ELSE Unset(r)]
Furnished(past) ==
  FoldLeft(Changed, [x |-> Bare, clock |-> <<0, 0>>, out |-> <<>>, dev |-> 2], past).x

SidebarInit ==
  /\ tale \in Stories
  /\ store = Furnished(tale.past)
  /\ bar = [d \in SDevices |-> [rep |-> [r \in Regs |-> Unset(r)], queue |-> <<>>, sent |-> 0,
                                 clock |-> <<0, 0>>, cursor |-> 0, torn |-> TRUE,
                                 synced |-> FALSE, dirty |-> FALSE]]
  /\ log = <<>> /\ intents = <<>> /\ holes = 0 /\ cut = {}

(* The changes a device knows of: all batches of theirs reached it.        *)
Unknown(d) == {log[i].why : i \in (bar[d].cursor + 1)..Len(log)} \cup
              UNION {{bar[e].queue[k].why : k \in (bar[e].sent + 1)..Len(bar[e].queue)} :
                       e \in SDevices \ {d}}
Known(d) == (1..Len(intents)) \ Unknown(d)

Keep(d, dirty, w, why) ==
  bar' = [bar EXCEPT ![d].dirty = dirty, ![d].clock = w.clock,
                     ![d].queue = @ \o [i \in DOMAIN w.out |-> [set |-> w.out[i].set,
                                                              hlc |-> w.out[i].hlc, why |-> why]]]

(* pin_change: once the preferences were read (pins_ready).                *)
User(d, ch) ==
  LET w == Changed(Writer(d), ch)
  IN  /\ w.out # <<>>
      /\ Keep(d, bar[d].dirty, w, Len(intents) + 1)
      /\ intents' = Append(intents, [dev |-> d, change |-> ch, saw |-> Known(d)])
      /\ UNCHANGED <<tale, store, log, holes, cut>>

(* registry_changed: reconcile_sidebar_pins, after a server state applied.
   An event whose handling changes nothing is not a step.  Every row here can be
   read: read_chats skips a malformed one, and its chat counts as unknown.    *)
Orphans(x) == {c \in Range(Pins(x)) : ~Live(x, c)}

Reconciled(w) ==
  FoldLeft(LAMBDA u, c : IF c \in Orphans(w.x) THEN PinChanged(u, Change("unpin", c)) ELSE u,
           Initialized(w), Pins(w.x))

Reconcile(d) ==
  /\ bar[d].dirty /\ bar[d].synced
  /\ LET w == Reconciled(Writer(d))
     IN  w.out # <<>> /\ Keep(d, FALSE, w, 0)
  /\ cut' = cut \cup {c \in Orphans(Seen(d)) : Live(FoldLeft(Merge, store, bar[d].queue), c)}
  /\ UNCHANGED <<tale, store, log, intents, holes>>

(* The batches a device has not sent reach the room, which merges each and *)
(* broadcasts the rows it touched.                                         *)
Accepted(x, b) == LET m == Merge(x, b)
                      rows == {RowOf(r) : r \in DOMAIN b.set}
                  IN  [r \in {q \in Regs : RowOf(q) \in rows} |-> m[r]]

Push(d) ==
  /\ ~bar[d].torn /\ bar[d].sent < Len(bar[d].queue)
  /\ LET fresh == SubSeq(bar[d].queue, bar[d].sent + 1, Len(bar[d].queue))
         take(r, b) == [store |-> Merge(r.store, b),
                        log  |-> Append(r.log, [from |-> d, why |-> b.why,
                                                rows |-> Accepted(r.store, b)])]
         taken == FoldLeft(take, [store |-> store, log |-> log], fresh)
     IN  store' = taken.store /\ log' = taken.log
  /\ bar' = [bar EXCEPT ![d].sent = Len(bar[d].queue)]
  /\ UNCHANGED <<tale, intents, holes, cut>>

Apply(x, rows) == [r \in Regs |-> IF r \in DOMAIN rows THEN rows[r] ELSE x[r]]

(* apply_rows, and, for a device's own batches, ack_batch.  (Once the last change
   is made, what is left to read is read at once: a bound.)                  *)
Receive(d) ==
  /\ ~bar[d].torn /\ bar[d].cursor < Len(log)
  /\ LET last == IF Len(intents) = MaxIntents THEN Len(log) ELSE bar[d].cursor + 1
         read == SubSeq(log, bar[d].cursor + 1, last)
         own  == Len(SelectSeq(read, LAMBDA e : e.from = d))
     IN  bar' = [bar EXCEPT ![d].rep = FoldLeft(LAMBDA x, e : Apply(x, e.rows), @, read),
                            ![d].cursor = last, ![d].dirty = TRUE,
                            ![d].queue = SubSeq(@, own + 1, Len(@)), ![d].sent = @ - own]
  /\ UNCHANGED <<tale, store, log, intents, holes, cut>>

\* mutant: the rows past the gap are taken for all there was
ReceivePast_Jumps(d) ==
  /\ holes < tale.losses /\ ~bar[d].torn
  /\ \E n \in (bar[d].cursor + 2)..Len(log) :
       /\ \A i \in (bar[d].cursor + 1)..n : log[i].from # d
       /\ bar' = [bar EXCEPT ![d].rep = Apply(@, log[n].rows), ![d].cursor = n,
                              ![d].dirty = TRUE]
  /\ holes' = holes + 1
  /\ UNCHANGED <<tale, store, log, intents, cut>>

(* Broadcasts are lost and a later one is read: its rows are applied, the   *)
(* cursor is held, Applied is sent, and the socket is dropped.              *)
ReceivePast(d) ==
  /\ holes < tale.losses /\ ~bar[d].torn
  /\ \E n \in (bar[d].cursor + 2)..Len(log) :
       /\ \A i \in (bar[d].cursor + 1)..n : log[i].from # d
       /\ bar' = [bar EXCEPT ![d].rep = Apply(@, log[n].rows), ![d].torn = TRUE,
                              ![d].dirty = TRUE]
  /\ holes' = holes + 1
  /\ UNCHANGED <<tale, store, log, intents, cut>>

(* hello, and the state that answers it; batches the room has are acknowledged. *)
Hello(d) ==
  /\ bar[d].torn
  /\ bar' = [bar EXCEPT ![d].rep = store, ![d].cursor = Len(log), ![d].torn = FALSE,
                         ![d].synced = TRUE, ![d].dirty = TRUE, ![d].sent = 0,
                         ![d].queue = SubSeq(@, bar[d].sent + 1, Len(@))]
  /\ UNCHANGED <<tale, store, log, intents, holes, cut>>

SidebarNext ==
  \E d \in SDevices :
    \/ /\ Len(intents) < MaxIntents
       /\ LET x == Seen(d)
          IN  Ready(x) /\ \E ch \in {o \in Offered(x) : o.act \in tale.acts /\ o.chat \in tale.use \cup {0}} :
                                 User(d, ch)
    \/ Reconcile(d) \/ Push(d) \/ Receive(d) \/ ReceivePast(d) \/ Hello(d)

-----------------------------------------------------------------------------
(* A change does to the device's own list what it says (proto: project), whatever
   stamps and keys the rows carried: the pins become the projected list, the
   chats it does not name keep their place, and its chat gets the place asked
   for.  (An older app's change may lose against a location it does not read.) *)
Obeyed(x, y, ch) ==
  /\ Pins(y) = Project(Pins(x), ch)
  /\ \A c \in Chats \ {ch.chat} : ch.act # "delete" => FrontPlace(y, c) = FrontPlace(x, c)
  /\ ch.act \in {"pin", "unpin", "assign"} => FrontPlace(y, ch.chat) = ch.place
  /\ ch.act = "delete" => Members(y) = {}

IntentHonoured ==
  [][intents' # intents =>
       LET i == Last(intents')
       IN  \A d \in SDevices : i.dev = d /\ i.change.act # "legacy" =>
             Obeyed(Seen(d), Seen(d)', i.change)]_sidebarVars

(* When all is exchanged, a chat stands where a change put it that no other
   change of its place had seen: what a user did after seeing another's change
   is never undone by it, however the wall clocks differ, unless the chat was
   taken for deleted (PrunedHonest).  (An older app sees no locations.)     *)
Exchanged ==
  \A d \in SDevices : /\ bar[d].queue = <<>> /\ bar[d].cursor = Len(log) /\ ~bar[d].torn
                       /\ Reconciled(Writer(d)).out = <<>>
By(c, acts) == {i \in DOMAIN intents : intents[i].change.chat = c /\ intents[i].change.act \in acts}
Placed(c)   == By(c, {"pin", "unpin", "assign"})
\* an import moves nothing that it knew to be placed
Movers(c)   == Placed(c) \cup By(c, {"legacy"}) \cup
               {i \in By(c, {"import"}) : intents[i].saw \cap Placed(c) = {}}

LastWordKept ==
  Exchanged => \A c \in Chats \ cut : Live(store, c) /\ Placed(c) # {} =>
    \E i \in Movers(c) :
      /\ \A j \in Placed(c) : i \notin intents[j].saw
      /\ \/ FrontPlace(store, c) = intents[i].change.place
         \/ intents[i].change.place = Section /\ ~SectionLive(store) /\ FrontPlace(store, c) = ""

(* reconcile_sidebar_pins unpins only chats that the room, or this device, deleted
   (client.rs:163, "prune pins of deleted chats"), unless the device has read past a
   broadcast it missed and not been answered yet.                           *)
PrunedHonest ==
  [][\A d \in SDevices : Reconcile(d) => cut' = cut \/ bar[d].torn]_sidebarVars
=============================================================================

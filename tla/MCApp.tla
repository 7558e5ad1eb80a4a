------------------------------- MODULE MCApp --------------------------------
(***************************************************************************)
(* Components that share no state, checked in one run: the initial state   *)
(* picks one of them, and only its steps are taken.                        *)
(***************************************************************************)
EXTENDS Sidebar, Rooms, TextLayout

(* The sidebar.  Two pinned chats are sorted; a section is filed into; an  *)
(* older app pins too; two devices start from nothing; a chat is created   *)
(* and pinned while another device misses a broadcast.                     *)
MCWall == [d \in SDevices |-> d]
PinAt(c, e) == [Change("pin", c) EXCEPT !.place = "pinned", !.after = e]
Filed == <<Change("create", 0), [Change("assign", 2) EXCEPT !.place = Section], PinAt(1, 0)>>
Sorting == [past |-> <<PinAt(1, 0), PinAt(2, 1)>>, acts |-> {"pin", "move", "unpin", "remove"},
            losses |-> 0, use |-> Chats, young |-> {}]
Filing == [past |-> Filed, acts |-> {"assign", "pin", "unpin", "delete", "collapse"},
           losses |-> 1, use |-> {1, 2}, young |-> {}]
Mixed == [past |-> Filed, acts |-> {"legacy", "assign", "pin", "unpin"},
          losses |-> 0, use |-> {1, 2}, young |-> {}]
Fresh == [past |-> <<>>, acts |-> {"create", "import", "assign", "pin", "delete"},
          losses |-> 0, use |-> {1}, young |-> {}]
Hole == [past |-> <<>>, acts |-> {"born", "pin"}, losses |-> 1, use |-> {3}, young |-> {3}]
MCSorts == {Sorting, Filing, Mixed, Fresh, Hole}

(* The sessions of a chat.                                                 *)
Lived == [acts |-> {"preload"}, chatRow |-> "live", sends |-> 1, peers |-> 0]
MCLives == {[Lived EXCEPT !.acts = {"evict", "close"}, !.sends = 2, !.peers = 1],
            [Lived EXCEPT !.acts = {"preload", "evict"}],
            [Lived EXCEPT !.acts = {"registry", "close"}, !.chatRow = "old"],
            [Lived EXCEPT !.acts = {"delete", "close"}, !.peers = 1]}

(* Texts set as one span, as two styles, with a chip and with an atomic span. *)
Plain(a, b) == [from |-> a, to |-> b, style |-> 1, padStart |-> 0, padEnd |-> 0,
                atomic |-> FALSE]
Styled(t, k) == <<Plain(0, k), [Plain(k, Len(t)) EXCEPT !.style = 2]>>
Chip(t, k) == <<Plain(0, k), [Plain(k, Len(t)) EXCEPT !.padStart = 1, !.padEnd = 1]>>
Box(t, k) == <<Plain(0, k), [Plain(k, k + 2) EXCEPT !.atomic = TRUE, !.padEnd = 1],
               Plain(k + 2, Len(t))>>
Ligated(t) == \E k \in 2..Len(t) : Pair(t[k - 1], t[k]).sub
Cuts(t, n) == {k \in 0..(Len(t) - n) : "mark" \notin {t[k + 1]} \cup
                                          {t[i] : i \in DOMAIN t \cap {k + n + 1}}}
Boxed(t) == {k \in Cuts(t, 2) : {t[k + 1], t[k + 2]} \cap {" ", "tab", "nl"} = {}}
Inputs(t, mode, any) ==
  {[text |-> t, spans |-> s, mode |-> mode, any |-> any] :
     s \in {<<Plain(0, Len(t))>>} \cup {Styled(t, k) : k \in Cuts(t, 1)} \cup
           {Chip(t, k) : k \in IF Ligated(t) THEN {} ELSE Cuts(t, 1)} \cup
           {Box(t, k) : k \in Boxed(t)}}

Words == {<<"a", "f", "i", "-", ">", "a">>, <<"a", " ", " ", "!", "shy", "a">>,
          <<"f", "shy", "i", "a", "shy", "a">>, <<"a", "mark", " ", "a", "-", ">">>,
          <<"a", "a", "-", ">", " ", "f", "i">>}
Blanks == {<<" ", "a", "tab", "nl", " ", "a">>, <<"a", "nl", "nl", "tab", "tab", "a">>,
           <<"tab", "a", " ", "tab", "a", "a">>, <<" ", "nl", "a", " ">>}
MCParagraphs ==
  UNION {Inputs(t, "normal", any) : t \in Words, any \in BOOLEAN} \cup
  UNION {Inputs(t, m, TRUE) : t \in Blanks, m \in {"normal", "pre-line", "pre-wrap", "pre"}} \cup
  {[text |-> <<"a">>, spans |-> <<Plain(0, 1)>>, mode |-> "normal", any |-> FALSE]}

VARIABLE part

appVars == <<part, sidebarVars, roomsVars, textVars>>

Init ==
  /\ part \in {"sidebar", "rooms", "text"}
  /\ tale \in IF part = "sidebar" THEN Stories ELSE {CHOOSE s \in Stories : TRUE}
  /\ life \in IF part = "rooms" THEN Lives ELSE {CHOOSE l \in Lives : TRUE}
  /\ input \in IF part = "text" THEN Paragraphs ELSE {CHOOSE i \in Paragraphs : Len(i.text) = 1}
  /\ SidebarInit /\ RoomsInit /\ TextInit

Next ==
  \/ part = "sidebar" /\ SidebarNext /\ UNCHANGED <<part, roomsVars, textVars>>
  \/ part = "rooms" /\ RoomsNext /\ UNCHANGED <<part, sidebarVars, textVars>>
  \/ part = "text" /\ TextNext /\ UNCHANGED <<part, sidebarVars, roomsVars>>

Spec == Init /\ [][Next]_appVars
=============================================================================

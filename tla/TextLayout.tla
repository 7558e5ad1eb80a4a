----------------------------- MODULE TextLayout ------------------------------
(***************************************************************************)
(* Paragraphs broken into lines (crates/text): white space is normalized,  *)
(* the text is cut into segments at its break opportunities, each segment  *)
(* is measured once, and lines are then laid out from the measures alone,  *)
(* one at a time, at whatever width the next line has.                     *)
(*                                                                         *)
(* A text is a sequence of characters that stand for the classes the code  *)
(* tells apart; an offset counts them from 0.  Widths are integers: the    *)
(* rounding of floats, and the slack that absorbs it, are left out.  The   *)
(* font (Base, Pair) and the line break rules (Opportunity) are libraries.  *)
(* Fallback fonts, scripts and text that runs right to left are left out.  *)
(***************************************************************************)
EXTENDS Integers, FiniteSets, SequencesExt

CONSTANTS
  Paragraphs,   \* inputs: [text, spans, mode (white-space), any (overflow-wrap)]
  LineWidths,   \* widths a line may have
  MaxLines      \* bound on the lines laid out

VARIABLES
  input,        \* the paragraph
  para,         \* Prepared
  pos,          \* where the next line starts: <<segment, unit>>
  lines         \* the lines so far, with the width each was offered

textVars == <<input, para, pos, lines>>

MaxI(a, b) == IF a > b THEN a ELSE b
MinI(a, b) == IF a < b THEN a ELSE b
Total(s) == FoldLeft(LAMBDA a, b : a + b, 0, s)
At(t, p) == t[p + 1]

-----------------------------------------------------------------------------
(* The font: f and i make a ligature, so do - and > , which also may be set *)
(* on two lines; a is set closer to f and to a space.                       *)
SpaceWidth  == 4
HyphenWidth == 2
TabSize == 2
Base(c) == CASE c \in {"a", "f", ">"} -> 3 [] c \in {"i", "-", "!"} -> 2
             [] c = " " -> SpaceWidth [] OTHER -> 0
NoPair == [left |-> 0, right |-> 0, sub |-> FALSE]
Pair(c, d) == CASE <<c, d>> = <<"f", "i">> -> [left |-> 1, right |-> -2, sub |-> TRUE]
                [] <<c, d>> = <<"-", ">">> -> [left |-> 2, right |-> -3, sub |-> TRUE]
                [] <<c, d>> \in {<<"a", "f">>, <<"a", " ">>, <<" ", "a">>} ->
                     [NoPair EXCEPT !.left = -1]
                [] OTHER -> NoPair

(* Graphemes: a combining mark stays with what it marks.                   *)
Hard(c) == c = "nl"
Boundary(t, p) == p \in {0, Len(t)} \/ At(t, p) # "mark" \/ At(t, p - 1) \in {"nl", "tab"}
Graphemes(t, a, b) == SetToSortSeq({p \in a..(b - 1) : Boundary(t, p)}, <)

(* UAX #14 for these characters: what may follow a break after offset p.    *)
Opportunity(t, p) ==
  LET c == At(t, p - 1)
      d == At(t, p)
  IN  \/ Hard(c)
      \/ /\ d \notin {" ", "tab", "nl", "!", "shy"}
         /\ \/ c = " " \/ (c \in {"tab", "shy", "obj"} /\ d # "mark")
            \/ d = "obj"
            \/ c = "-" /\ d \notin {"-", "mark"} /\ p > 1 /\ At(t, p - 2) \notin {" ", "nl", "obj"}

-----------------------------------------------------------------------------
(* CSS white-space processing, with the spans moved onto the output.       *)
Collapses(mode) == mode \in {"normal", "pre-line"}
Blank(c, mode) == c \in {" ", "tab"} \/ (mode = "normal" /\ c = "nl")

(* Mutant: the spans keep the space that was taken back.                   *)
PopSpace_Alone(n) == [n EXCEPT !.out = Front(@)]

(* pop_space: no span reaches past the shorter output.                     *)
PopSpace(n) ==
  LET len == Len(n.out) - 1
  IN  [n EXCEPT !.out = Front(@), !.from = [k \in DOMAIN @ |-> MinI(@[k], len)],
                !.to = [k \in DOMAIN @ |-> IF k <= n.cur THEN MinI(@[k], len) ELSE @[k]]]

(* The spans that end at or before offset i are closed.                    *)
Entered(n, spans, i) ==
  LET cur == CHOOSE k \in n.cur..Len(spans) :
               /\ k = Len(spans) \/ spans[k].to > i
               /\ \A j \in n.cur..(k - 1) : spans[j].to <= i
      len == Len(n.out)
  IN  [n EXCEPT !.cur = cur,
                !.to   = [k \in DOMAIN @ |-> IF k \in n.cur..(cur - 1) THEN len ELSE @[k]],
                !.from = [k \in DOMAIN @ |-> IF k \in (n.cur + 1)..cur THEN len ELSE @[k]]]

Pushed(n, c) == [n EXCEPT !.out = Append(@, c), !.ws = FALSE]

Normalized1(n, c, mode) ==
  IF Collapses(mode) /\ Blank(c, mode)
    THEN [n EXCEPT !.ws = TRUE,
                   !.out = IF n.ws \/ @ = <<>> \/ (mode = "pre-line" /\ Last(@) = "nl")
                           THEN @ ELSE Append(@, " ")]
    ELSE IF mode = "pre-line" /\ c = "nl" /\ n.ws /\ n.out # <<>> /\ Last(n.out) = " "
           THEN Pushed(PopSpace(n), c) ELSE Pushed(n, c)

Normalize(text, spans, mode) ==
  LET none == [k \in DOMAIN spans |-> 0]
      n == FoldLeft(LAMBDA m, i : Normalized1(Entered(m, spans, i - 1), text[i], mode),
                    [out |-> <<>>, from |-> none, to |-> none, cur |-> 1, ws |-> FALSE],
                    [i \in DOMAIN text |-> i])
      m == IF Collapses(mode) /\ n.ws /\ n.out # <<>> /\ Last(n.out) = " " THEN PopSpace(n) ELSE n
      len == Len(m.out)
  IN  [text |-> m.out,
       spans |-> [k \in DOMAIN spans |->
                    [spans[k] EXCEPT !.from = IF k > m.cur THEN len ELSE m.from[k],
                                     !.to   = IF k >= m.cur THEN len ELSE m.to[k]]]]

-----------------------------------------------------------------------------
(* Break opportunities: <<offset, mandatory>>.  An atomic span is one object *)
(* to the rules; nothing breaks inside a grapheme.                          *)
Breaks(t, spans, mode) ==
  LET boxes   == {k \in DOMAIN spans : spans[k].atomic /\ spans[k].from < spans[k].to}
      inBox(p) == \E k \in boxes : spans[k].from < p /\ p < spans[k].to
      starts  == {p \in 0..(Len(t) - 1) : ~inBox(p)}
      order   == SetToSortSeq(starts, <)
      sub     == [i \in DOMAIN order |-> IF \E k \in boxes : spans[k].from = order[i]
                                           THEN "obj" ELSE At(t, order[i])]
      soft    == {order[i] : i \in {j \in 2..Len(order) : Opportunity(sub, j - 1)}}
  IN  IF mode = "pre" THEN {p \in 1..Len(t) : p = Len(t) \/ Hard(At(t, p - 1))}
      ELSE {p \in soft : Boundary(t, p)} \cup {Len(t)}

Mandatory(t, p) == p = Len(t) \/ Hard(At(t, p - 1))

(* The cuts inside a segment where white space ends: a line that overflows in
   such space ends after it.                                                *)
HangCuts(t, spans, ws(_), a, b) ==
  LET inBox(p) == \E k \in DOMAIN spans : spans[k].atomic /\ spans[k].from < p /\ p < spans[k].to
  IN  {i \in (a + 2)..(b - 1) :
         /\ ~ws(i) /\ ws(i - 1) /\ Boundary(t, i) /\ ~inBox(i)
         /\ \E s \in (a + 1)..(i - 1) : ~ws(s - 1) /\ ~inBox(s) /\ \A j \in s..(i - 1) : ws(j)}

(* Segments: visible content from start to cend, white space that hangs to wend,
   a hard break to end.                                                     *)
Segments(t, spans, mode) ==
  LET hangs == mode # "pre"
      ws(p) == At(t, p) = " " \/ (mode = "pre-wrap" /\ At(t, p) = "tab")
      run(a, b) == IF hangs THEN CHOOSE e \in a..b : /\ \A p \in e..(b - 1) : ws(p)
                                                     /\ e = a \/ ~ws(e - 1)
                   ELSE b
      hangOnly(a, e) == [start |-> a, cend |-> run(a, e), wend |-> e, end |-> e, brk |-> "hang"]
      cut(out, end) ==
        LET a     == IF out = <<>> THEN 0 ELSE Last(out).end
            must  == Mandatory(t, end)
            wend  == IF must /\ end > a /\ Hard(At(t, end - 1)) THEN end - 1 ELSE end
            cend  == run(a, wend)
            cuts  == IF hangs THEN SetToSortSeq(HangCuts(t, spans, ws, a, cend), <) ELSE <<>>
            froms == <<a>> \o cuts
            cur   == Last(froms)
            brk   == IF must THEN "mandatory"
                     ELSE IF cend = end /\ cend > cur /\ At(t, cend - 1) = "shy" THEN "soft hyphen"
                     ELSE "allowed"
            merges == cend = cur /\ out # <<>> /\ Last(out).brk # "mandatory"
        IN  IF merges THEN [out EXCEPT ![Len(out)].wend = wend, ![Len(out)].end = end,
                                       ![Len(out)].brk = brk]
            ELSE out \o [i \in DOMAIN cuts |-> hangOnly(froms[i], cuts[i])]
                     \o <<[start |-> cur, cend |-> cend, wend |-> wend, end |-> end, brk |-> brk]>>
  IN  FoldLeft(cut, <<>>, SetToSortSeq(Breaks(t, spans, mode), <))

-----------------------------------------------------------------------------
(* Measuring.                                                              *)
SpanAt(spans, p) == CHOOSE k \in DOMAIN spans : spans[k].from <= p /\ p < spans[k].to

(* The context of the graphemes on both sides of p, when one run of the font
   holds both.                                                              *)
KernAt(t, spans, p) ==
  IF p = 0 \/ p >= Len(t) THEN NoPair
  ELSE LET l == SpanAt(spans, p - 1)
           r == SpanAt(spans, p)
           apart == \/ ~Boundary(t, p) \/ spans[l].style # spans[r].style
                    \/ spans[l].atomic \/ spans[r].atomic
                    \/ l # r /\ (spans[l].padEnd # 0 \/ spans[r].padStart # 0)
       IN  IF apart THEN NoPair ELSE Pair(At(t, p - 1), At(t, p))

(* The shaper: the advances of the graphemes of t from a to b as one run.  *)
Shape(t, a, b) ==
  LET gs == Graphemes(t, a, b)
      kern(p) == IF p > a /\ p < b THEN Pair(At(t, p - 1), At(t, p)) ELSE NoPair
      end(i) == IF i = Len(gs) THEN b ELSE gs[i + 1]
  IN  [i \in DOMAIN gs |-> Base(At(t, gs[i])) + kern(end(i)).left + kern(gs[i]).right]

(* add_to_last_unit: the last one that bears a glyph.                      *)
AddToLast(units, k) ==
  LET bears == {i \in DOMAIN units : units[i] # 0}
      i == IF bears = {} THEN Len(units) ELSE CHOOSE j \in bears : \A l \in bears : l <= j
  IN  IF units = <<>> THEN units ELSE [units EXCEPT ![i] = @ + k]

(* A slice of one span, of one kind.  A box is one unit; so is a tab.      *)
Piece(t, spans, p, q, wantUnits) ==
  LET k    == SpanAt(spans, p)
      s    == spans[k]
      padA == IF p = s.from THEN s.padStart ELSE 0
      padB == IF q = s.to THEN s.padEnd ELSE 0
      tab  == At(t, p) = "tab" /\ ~s.atomic
      adv  == Shape(t, p, q)
      width == Total(adv) + padA + padB
      units == [i \in DOMAIN adv |-> adv[i] + (IF i = 1 THEN padA ELSE 0)
                                            + (IF i = Len(adv) THEN padB ELSE 0)]
  IN  IF tab THEN [from |-> p, to |-> q, span |-> k, tab |-> TRUE, width |-> TabSize * SpaceWidth,
                   units |-> IF wantUnits THEN <<TabSize * SpaceWidth>> ELSE <<>>]
      ELSE [from |-> p, to |-> q, span |-> k, tab |-> FALSE, width |-> width,
            units |-> IF ~wantUnits THEN <<>> ELSE IF s.atomic THEN <<width>> ELSE units]

(* Kerning between two pieces of a region; a ligature across them is one glyph. *)
Kerned(t, spans, ps, i) ==
  LET pc == KernAt(t, spans, ps[i].to)
      r0 == ps[i + 1].units[1]
  IN  IF ps[i].tab \/ ps[i + 1].tab THEN ps
      ELSE IF pc.sub /\ ps[i].units # <<>> /\ ps[i + 1].units # <<>>
        THEN [ps EXCEPT ![i].units = AddToLast(@, pc.left + r0 + pc.right),
                        ![i].width = @ + pc.left + r0 + pc.right,
                        ![i + 1].units[1] = 0, ![i + 1].width = @ - r0]
        ELSE [ps EXCEPT ![i].width = @ + pc.left, ![i].units = AddToLast(@, pc.left),
                        ![i + 1].width = @ + pc.right,
                        ![i + 1].units = IF @ = <<>> THEN @ ELSE [@ EXCEPT ![1] = @ + pc.right]]

Region(t, spans, a, b, wantUnits) ==
  LET loose(p) == ~spans[SpanAt(spans, p)].atomic
      cuts == {a} \cup {p \in (a + 1)..(b - 1) :
                          \/ \E k \in DOMAIN spans : spans[k].from = p /\ spans[k].to > p
                          \/ loose(p) /\ "tab" \in {At(t, p), At(t, p - 1)}}
      from == SetToSortSeq(cuts, <)
      to(i) == IF i = Len(from) THEN b ELSE from[i + 1]
      ps == [i \in DOMAIN from |-> Piece(t, spans, from[i], to(i), wantUnits)]
  IN  IF a = b THEN <<>>
      ELSE FoldLeft(LAMBDA qs, i : Kerned(t, spans, qs, i), ps, [i \in 1..(Len(ps) - 1) |-> i])

WidenFirst(ps, k) == IF ps = <<>> \/ k = 0 THEN ps ELSE [ps EXCEPT ![1].width = @ + k]
WidenLast(ps, k) ==
  IF ps = <<>> \/ k = 0 THEN ps
  ELSE [ps EXCEPT ![Len(ps)].width = @ + k, ![Len(ps)].units = AddToLast(@, k)]

HangLead(t, spans, seg) ==
  IF seg.cend > seg.start /\ seg.wend > seg.cend THEN KernAt(t, spans, seg.cend).right ELSE 0

(* One measured segment.  The context across its end widens what stands left of
   the end; lead is what the context across its start takes from its first glyph
   when it continues a line, tail the kerning of its last glyph.             *)
Measure(t, spans, any, seg) ==
  LET inner   == KernAt(t, spans, seg.cend)
      kern    == IF seg.cend > seg.start THEN inner ELSE NoPair
      hangs   == seg.wend > seg.cend
      content == WidenLast(Region(t, spans, seg.start, seg.cend, any), kern.left)
      hang    == WidenFirst(WidenLast(Region(t, spans, seg.cend, seg.wend, FALSE),
                                      KernAt(t, spans, seg.wend).left), HangLead(t, spans, seg))
      before  == IF seg.start = 0 THEN NoPair ELSE KernAt(t, spans, seg.start)
      units   == FlattenSeq([i \in DOMAIN content |-> content[i].units])
  IN  [start |-> seg.start, cend |-> seg.cend, wend |-> seg.wend, brk |-> seg.brk,
       content |-> content, hang |-> hang,
       breakable |-> any /\ Len(units) > 1,
       hyphen |-> IF seg.brk = "soft hyphen" THEN HyphenWidth ELSE 0,
       leads |-> before.right # 0 \/ before.sub, lead |-> before.right,
       tail  |-> IF kern.sub THEN 0 ELSE kern.left]

Prepare(in) ==
  LET n   == Normalize(in.text, in.spans, in.mode)
      any == in.any /\ in.mode # "pre"
      segs == IF n.text = <<>> THEN <<>> ELSE Segments(n.text, n.spans, in.mode)
  IN  [text |-> n.text, spans |-> n.spans, wrap |-> in.mode # "pre", any |-> any,
       segs |-> [i \in DOMAIN segs |-> Measure(n.text, n.spans, any, segs[i])]]

-----------------------------------------------------------------------------
(* Laying out one line.                                                    *)

(* To the next stop, but not to one closer than half a space.              *)
TabAdvance(stop, x) ==
  LET d == stop - (x % stop) IN IF 2 * d < stop \div TabSize THEN d + stop ELSE d

Advance(pc, x) == IF pc.tab THEN TabAdvance(pc.width, x) ELSE pc.width
PiecesAdv(ps, x0) == FoldLeft(LAMBDA x, pc : x + Advance(pc, x), x0, ps) - x0

(* The units of a segment: [w, tab, at (offset)].                          *)
UnitsOf(t, seg) ==
  FlattenSeq([i \in DOMAIN seg.content |->
    LET pc == seg.content[i]
        gs == IF Len(pc.units) = 1 THEN <<pc.from>> ELSE Graphemes(t, pc.from, pc.to)
    IN  [k \in DOMAIN pc.units |->
           [w |-> pc.units[k], tab |-> pc.tab, at |-> gs[k], span |-> pc.span]]])

UnitAdv(u, x) == IF u.tab THEN TabAdvance(u.w, x) ELSE u.w

(* Mutant: it may start a line.                                            *)
Inseparable_Never(a) == FALSE

(* A unit without an advance (the tail of a ligature) stays with the one
   before it.                                                               *)
Inseparable(a) == a = 0

(* Units from number `from` on, while they fit; the first in any case when
   forced.                                                                  *)
FitUnits(p, i, from, x0, fit, force) ==
  LET us == UnitsOf(p.text, p.segs[i])
      put(s, k) == LET a == UnitAdv(us[k], s.x)
                   IN  IF s.rest # 0 THEN s
                       ELSE IF s.placed /\ s.x + a > fit /\ ~Inseparable(a) THEN [s EXCEPT !.rest = k]
                       ELSE [s EXCEPT !.x = @ + a, !.placed = TRUE]
  IN  FoldLeft(put, [x |-> x0, placed |-> ~force, rest |-> 0],
               [k \in 1..(Len(us) - from) |-> from + k])

None == 0
EndAfter(seg, width, hyphenated) ==
  [next |-> <<seg + 1, 0>>, width |-> width, hyphenated |-> hyphenated, endSeg |-> seg]
EndInside(seg, k, width) ==
  [next |-> <<seg, k - 1>>, width |-> width, hyphenated |-> FALSE, endSeg |-> None]
Open == [endSeg |-> -1]

(* The line that starts at `start` = <<segment, unit>>.                    *)
Step(p, start, fit) ==
  LET segs == p.segs
      \* a line that starts in a substituted context is shaped anew
      reshaped == start[2] = 0 /\ segs[start[1]].leads
      tail(k)  == IF reshaped THEN segs[k].tail ELSE 0
      content(i, x) == PiecesAdv(segs[i].content, x)
      hang(i, x) == PiecesAdv(segs[i].hang, x)

      overflow(s, i, base) ==
        LET x    == s.x - tail(s.last)
            hy   == ~(p.any /\ x <= fit)
            part == FitUnits(p, i, 0, base, fit, FALSE)
        IN  IF s.brk # None THEN EndAfter(s.brk, s.brkW, s.brkHy)
            ELSE IF segs[s.last].brk = "soft hyphen"
              THEN EndAfter(s.last, x + (IF hy THEN segs[s.last].hyphen ELSE 0), hy)
            ELSE IF p.any /\ segs[i].breakable /\ s.x <= fit /\ part.rest > 1
              THEN EndInside(i, part.rest, part.x)
            ELSE EndAfter(s.last, x, FALSE)

      \* segment i is on the line, which is x wide now
      placed(s, i, x) ==
        LET xe  == x - tail(i)
            hw  == xe + segs[i].hyphen
            s1  == [s EXCEPT !.x = x, !.last = i]
            brk(w, hy) == IF w <= fit THEN [s1 EXCEPT !.brk = i, !.brkW = w, !.brkHy = hy] ELSE s1
        IN  CASE segs[i].brk = "mandatory" -> [s1 EXCEPT !.out = EndAfter(i, xe, FALSE)]
              [] segs[i].brk = "allowed" -> brk(xe, FALSE)
              [] segs[i].brk = "hang" ->
                   IF p.wrap /\ xe <= fit /\ x + hang(i, x) > fit
                     THEN [s1 EXCEPT !.out = EndAfter(i, xe, FALSE)] ELSE s1
              [] OTHER -> brk(hw, TRUE)

      first(s, i) ==
        LET whole == content(i, 0)
            split == start[2] > 0 \/ (p.wrap /\ segs[i].breakable /\ whole - tail(i) > fit)
            part  == FitUnits(p, i, start[2], 0, fit, TRUE)
        IN  IF ~split THEN placed(s, i, whole)
            ELSE IF part.rest # 0 THEN [s EXCEPT !.out = EndInside(i, part.rest, part.x)]
            ELSE placed(s, i, part.x)

      further(s, i) ==
        LET base == s.x + hang(s.last, s.x) + (IF segs[i].leads THEN segs[i].lead ELSE 0)
            cand == base + content(i, base)
        IN  IF p.wrap /\ cand - tail(i) > fit THEN [s EXCEPT !.out = overflow(s, i, base)]
            ELSE placed(s, i, cand)

      walk(s, i) == IF s.out # Open THEN s ELSE IF s.last = None THEN first(s, i) ELSE further(s, i)
  IN  FoldLeft(walk, [x |-> 0, last |-> None, brk |-> None, brkW |-> 0, brkHy |-> FALSE, out |-> Open],
               [k \in 1..(Len(segs) - start[1] + 1) |-> start[1] + k - 1]).out

(* pos_byte, line_bytes: what is visible of the line.                      *)
ByteOf(p, c) ==
  IF c[1] > Len(p.segs) THEN Len(p.text)
  ELSE IF c[2] = 0 THEN p.segs[c[1]].start
  ELSE UnitsOf(p.text, p.segs[c[1]])[c[2] + 1].at
LineBytes(p, start, s) ==
  <<ByteOf(p, start), IF s.endSeg = None THEN ByteOf(p, s.next) ELSE p.segs[s.endSeg].cend>>

-----------------------------------------------------------------------------
(* Fragments: maximal runs of one span, with their place on the line; a tab
   is one of its own.                                                       *)
AddPiece(out, span, a, b, x, width, tab) ==
  IF out # <<>> /\ ~tab /\ ~Last(out).tab /\ Last(out).span = span /\ Last(out).to = a
    THEN [out EXCEPT ![Len(out)].to = b, ![Len(out)].width = x + width - Last(out).x]
    ELSE Append(out, [from |-> a, to |-> b, span |-> span, x |-> x, width |-> width, tab |-> tab])

Fragments(p, start, s) ==
  LET last  == IF s.endSeg # None THEN s.endSeg ELSE s.next[1]
      split == s.endSeg = None
      bytes == LineBytes(p, start, s)
      reshaped == start[2] = 0 /\ p.segs[start[1]].leads

      \* whole pieces, one after the other
      whole(f, ps, lead, tail) ==
        FoldLeft(LAMBDA g, k :
                   LET adv == Advance(ps[k], g.x)
                       l   == IF k = 1 THEN lead ELSE 0
                       cut == IF k = Len(ps) THEN tail ELSE 0
                   IN  [x |-> g.x + adv,
                        out |-> AddPiece(g.out, ps[k].span, ps[k].from, ps[k].to, g.x - l,
                                         adv + l - cut, ps[k].tab)],
                 f, [k \in DOMAIN ps |-> k])

      \* some units of a segment, piece by piece
      partly(f, seg, from, to, lo, hi, lead) ==
        LET us == UnitsOf(p.text, seg)
            ps == SelectSeq(seg.content, LAMBDA pc : pc.to > lo /\ pc.from < hi)
        IN  FoldLeft(LAMBDA g, k :
                       LET pc  == ps[k]
                           in  == {u \in (from + 1)..to : us[u].at >= pc.from /\ us[u].at < pc.to}
                           x1  == FoldLeft(LAMBDA x, u : x + UnitAdv(us[u], x), g.x, SetToSortSeq(in, <))
                           l   == IF k = 1 THEN lead ELSE 0
                       IN  [x |-> x1,
                            out |-> AddPiece(g.out, pc.span, MaxI(pc.from, lo), MinI(pc.to, hi),
                                             g.x - l, x1 - g.x + l, pc.tab)],
                     f, [k \in DOMAIN ps |-> k])

      one(f, i) ==
        LET seg  == p.segs[i]
            from == IF i = start[1] THEN start[2] ELSE 0
            part == from > 0 \/ (i = last /\ split)
            lead == IF i # start[1] /\ seg.leads THEN seg.lead ELSE 0
            tail == IF reshaped /\ i = last /\ ~split THEN seg.tail ELSE 0
            f1   == [f EXCEPT !.x = @ + lead]
            f2   == IF ~part THEN whole(f1, seg.content, lead, tail)
                    ELSE partly(f1, seg, from,
                                IF i = last /\ split THEN s.next[2] ELSE Len(UnitsOf(p.text, seg)),
                                IF from = 0 THEN seg.start ELSE bytes[1],
                                IF i = last /\ split THEN bytes[2] ELSE seg.cend, lead)
        IN  IF i = last THEN f2 ELSE whole(f2, seg.hang, 0, 0)
  IN  FoldLeft(one, [x |-> 0, out |-> <<>>],
               [k \in 1..(last - start[1] + 1) |-> start[1] + k - 1]).out

(* Narrowest width that avoids overflow.                                   *)
MinContentWidth(p) ==
  LET widest(i) ==
        LET seg == p.segs[i]
            us  == UnitsOf(p.text, seg)
        IN  IF seg.breakable
              THEN MaxI(FoldLeft(LAMBDA m, u : MaxI(m, u.w), 0, us), Last(us).w + seg.hyphen)
              ELSE PiecesAdv(seg.content, 0) + seg.hyphen
  IN  FoldLeft(LAMBDA m, i : MaxI(m, widest(i)), 0, [i \in DOMAIN p.segs |-> i])

-----------------------------------------------------------------------------
TextInit ==
  /\ input \in Paragraphs
  /\ para = Prepare(input)
  /\ pos = <<1, 0>>
  /\ lines = <<>>

(* layout_next_line: the caller carries the end of a line to the next.     *)
NextLine(w) ==
  /\ pos[1] <= Len(para.segs) /\ Len(lines) < MaxLines
  /\ \E s \in {Step(para, pos, w)} :
       /\ pos' = s.next
       /\ lines' = Append(lines, [range |-> LineBytes(para, pos, s), width |-> s.width,
                                  hyphenated |-> s.hyphenated, whole |-> s.endSeg # None,
                                  frags |-> Fragments(para, pos, s), fit |-> w, from |-> pos])
  /\ UNCHANGED <<input, para>>

TextNext == \E w \in LineWidths : NextLine(w)
-----------------------------------------------------------------------------
(* Normalizing drops and merges white space only: what is not white space is
   kept, in order, each character under the span it came with; the spans tile
   the output, and no blank that collapses is left at an end, after another
   one, or beside a hard break.                                             *)
Solid(t, spans, mode) ==
  LET keep(p) == ~Blank(At(t, p), mode)
  IN  [i \in DOMAIN SetToSortSeq({p \in 0..(Len(t) - 1) : keep(p)}, <) |->
         LET p == SetToSortSeq({q \in 0..(Len(t) - 1) : keep(q)}, <)[i]
         IN  <<At(t, p), SpanAt(spans, p)>>]

TextKept ==
  LET t == para.text
      n == Len(para.spans)
      m == input.mode
  IN  /\ Solid(t, para.spans, m) = Solid(input.text, input.spans, m)
      /\ para.spans[1].from = 0 /\ para.spans[n].to = Len(t)
      /\ \A k \in 1..n : /\ para.spans[k].from <= para.spans[k].to
                         /\ k < n => para.spans[k].to = para.spans[k + 1].from
      /\ Collapses(m) => \A p \in 0..(Len(t) - 1) : Blank(At(t, p), m) =>
           /\ At(t, p) = " " /\ p > 0 /\ p < Len(t) - 1
           /\ {At(t, p - 1), At(t, p + 1)} \cap {" ", "nl"} = {}

(* The advance of the text from a to b as one line, set grapheme by grapheme:
   what the line is, however it was cut into segments and pieces.           *)
InContext(t, spans, p) ==
  IF p \in 1..(Len(t) - 1) /\ Boundary(t, p) /\ SpanAt(spans, p - 1) = SpanAt(spans, p)
    THEN Pair(At(t, p - 1), At(t, p)) ELSE KernAt(t, spans, p)

SetWidth(p, a, b, reshaped) ==
  LET t  == p.text
      gs == Graphemes(t, a, b)
      end(i) == IF i = Len(gs) THEN b ELSE gs[i + 1]
      s(i)   == p.spans[SpanAt(p.spans, gs[i])]
      kern(i) == InContext(t, p.spans, end(i))
      left(i) == IF reshaped /\ end(i) = b /\ ~kern(i).sub THEN 0 ELSE kern(i).left
      adv(i, x) ==
        IF At(t, gs[i]) = "tab" /\ ~s(i).atomic THEN TabAdvance(TabSize * SpaceWidth, x)
        ELSE Base(At(t, gs[i])) + left(i)
             + (IF gs[i] > a THEN InContext(t, p.spans, gs[i]).right ELSE 0)
             + (IF gs[i] = s(i).from THEN s(i).padStart ELSE 0)
             + (IF end(i) = s(i).to THEN s(i).padEnd ELSE 0)
  IN  FoldLeft(LAMBDA x, i : x + adv(i, x), 0, [i \in DOMAIN gs |-> i])

Reshaped(p, l) == l.from[2] = 0 /\ p.segs[l.from[1]].leads

(* The ways a line that starts at a may end: <<offset, hyphen>>.           *)
Ends(p, a) == {<<p.segs[i].cend, p.segs[i].hyphen>> :
                 i \in {j \in DOMAIN p.segs : p.segs[j].brk # "hang" /\ p.segs[j].cend > a}}
Splits(p, a) ==
  {<<q, 0>> : q \in {r \in (a + 1)..(Len(p.text) - 1) :
     /\ p.any /\ Boundary(p.text, r) /\ ~InContext(p.text, p.spans, r).sub
     /\ Base(At(p.text, r)) # 0 /\ SpanAt(p.spans, r) = SpanAt(p.spans, r - 1)
     /\ ~p.spans[SpanAt(p.spans, r)].atomic}}
WidthTo(p, l, e) == SetWidth(p, l.range[1], e[1], Reshaped(p, l)) + e[2]

HangsOrBreaks(t, a, b) == \A p \in a..(b - 1) : At(t, p) \in {" ", "tab", "nl"}

Tiled(l) ==
  LET f == l.frags
      hyphen == IF l.hyphenated THEN HyphenWidth ELSE 0
  IN  IF f = <<>> THEN l.range[1] = l.range[2]
      ELSE /\ f[1].from = l.range[1] /\ Last(f).to = l.range[2]
           /\ f[1].x = 0 /\ Last(f).x + Last(f).width + hyphen = l.width
           /\ \A k \in 1..(Len(f) - 1) : /\ f[k].to = f[k + 1].from
                                        /\ f[k].x + f[k].width = f[k + 1].x
           /\ \A k \in DOMAIN f : /\ para.spans[f[k].span].from <= f[k].from
                                  /\ f[k].to <= para.spans[f[k].span].to

(* The last line laid out: nothing visible is dropped before it; it is as wide
   as its text, and its fragments are just that text; it goes on to the last end
   that fits, and is too wide only if it could not have ended before, and never
   at a width no narrower than the narrowest.                               *)
LineTrue(p, l, before) ==
  LET ends == Ends(p, l.range[1])
      later == {e \in ends : e[1] > l.range[2]}
      next == {e \in later : \A g \in later : e[1] <= g[1]}
  IN  /\ before <= l.range[1] /\ HangsOrBreaks(p.text, before, l.range[1])
      /\ l.width = SetWidth(p, l.range[1], l.range[2], Reshaped(p, l) /\ l.whole)
                     + (IF l.hyphenated THEN HyphenWidth ELSE 0)
      /\ Tiled(l)
      /\ p.wrap => \A e \in next : \/ WidthTo(p, l, e) > l.fit
                                  \/ \E q \in l.range[2]..(e[1] - 1) : Hard(At(p.text, q))
      /\ p.wrap /\ l.width > l.fit =>
           /\ \A e \in ends \cup Splits(p, l.range[1]) : e[1] < l.range[2] => WidthTo(p, l, e) > l.fit
           /\ p.any => l.fit < MinContentWidth(p)

(* Lines are made from measures of segments and pieces alone, and are what a
   typesetter would make of the text; each makes progress, and the text ends
   with the last one.                                                       *)
LinesTrue ==
  LET n == Len(lines)
      end(k) == IF k = 0 THEN 0 ELSE lines[k].range[2]
      from == lines[n].from
  IN  /\ n > 0 => /\ LineTrue(para, lines[n], end(n - 1))
                  /\ pos[1] > from[1] \/ (pos[1] = from[1] /\ pos[2] > from[2])
      /\ pos[1] > Len(para.segs) => HangsOrBreaks(para.text, end(n), Len(para.text))

(* A paragraph is set whole: no character is lost or measured twice on the way
   to its segments, and none on the way to its lines.                       *)
TextSet == TextKept /\ LinesTrue
=============================================================================

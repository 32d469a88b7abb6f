----------------------------- MODULE LineRegions ----------------------------
(***************************************************************************)
(* LineRegionsSupport and LineRegionsCompactSupport: the stores a parse    *)
(* fills with the regions of each line.  The plain store appends: whoever  *)
(* draws paints the list in its order.  The compact store keeps the list   *)
(* sorted and without overlap, splitting, shortening and dropping what a   *)
(* new region covers.                                                      *)
(*                                                                         *)
(* A LineRegion is a record; its id stands for its address, end -1 for the *)
(* end of the line.  A store is a record: the ring of lists, the window,   *)
(* flowBackground (an id, 0 for none) and schemeStack.                     *)
(***************************************************************************)
EXTENDS RegionMapper, FiniteSetsExt

NoDefine == [type |-> "none"]
StyledRegion(fore, back, style) ==
  [type |-> "styled", fore |-> fore, back |-> back, style |-> style]
TextRegion(start_text, end_text, start_back, end_back) ==
  [type |-> "text", start_text |-> start_text, end_text |-> end_text,
   start_back |-> start_back, end_back |-> end_back]

(* What is not set ("") is taken from the parent; styles are joined, texts *)
(* are taken in pairs.                                                     *)
assignParent(rdef, parent) ==
  IF rdef.type = "styled"
  THEN StyledRegion(IF rdef.fore = "" THEN parent.fore ELSE rdef.fore,
                    IF rdef.back = "" THEN parent.back ELSE rdef.back,
                    rdef.style \cup parent.style)
  ELSE LET text == IF "" \in {rdef.start_text, rdef.end_text} THEN parent ELSE rdef
           back == IF "" \in {rdef.start_back, rdef.end_back} THEN parent ELSE rdef
       IN TextRegion(text.start_text, text.end_text, back.start_back, back.end_back)

applyRegionDefine(rd, parent) ==
  IF rd = NoDefine \/ parent = NoDefine THEN rd ELSE assignParent(rd, parent)

NoRegion == 0
Background == [id |-> 0, region |-> NoRegion, scheme |-> "", start |-> 0, end |-> 0,
               special |-> FALSE, rdef |-> NoDefine]

-----------------------------------------------------------------------------
(* resize(lineCount), setSpecialRegion, setRegionMapper on a new store.    *)
NewSupport(compact, lineCount, special, mapper) ==
  [compact |-> compact, lines |-> [i \in 0..lineCount - 1 |-> <<>>], first |-> 0, count |-> lineCount,
   flow |-> 0, stack |-> <<>>, special |-> special, mapper |-> mapper, made |-> 0]

setFirstLine(s, first) == [s EXCEPT !.first = first]
checkLine(s, lno) == lno >= s.first /\ lno < s.first + s.count
getLineIndex(s, lno) == ((s.first % s.count) + lno - s.first) % s.count
getLineRegions(s, lno) == IF checkLine(s, lno) THEN s.lines[getLineIndex(s, lno)] ELSE <<>>

Top(s) == Last(s.stack)
hasParent(regions, id, ancestor) == ancestor \in ToSet(Chain(regions, id))

(* What the region is drawn with, and the store whose mapper was asked.    *)
DrawnWith(s, regions, id) ==
  IF s.mapper = NoMapper THEN [rdef |-> NoDefine, s |-> s]
  ELSE LET got == IF id = NoRegion THEN [found |-> 0, mapper |-> s.mapper]
                  ELSE getRegionDefine(s.mapper, regions, id)
           rd == IF got.found = 0 THEN Top(s).rdef ELSE s.mapper.values[got.found]
       IN [rdef |-> applyRegionDefine(rd, Top(s).rdef), s |-> [s EXCEPT !.mapper = got.mapper]]

(* flowBackground->end = end, in whatever list the node is.                *)
EndFlow(s, end) ==
  [s EXCEPT !.lines = [i \in DOMAIN @ |->
     [k \in DOMAIN @[i] |-> IF @[i][k].id = s.flow THEN [@[i][k] EXCEPT !.end = end] ELSE @[i][k]]]]

-----------------------------------------------------------------------------
(* The compact store.  A new region goes before the first that does not    *)
(* start before it, and before the special ones, which stay last.          *)
Stops(list, new, i) ==
  \/ list[1].start >= new.start
  \/ list[i].start = new.start
  \/ /\ list[i].start < new.start
     /\ (i = Len(list) \/ list[i + 1].start > new.start \/ list[i + 1].special)

PlaceOf(list, new) ==
  LET i == CHOOSE k \in DOMAIN list : Stops(list, new, k) /\ \A j \in 1..k - 1 : ~Stops(list, new, j)
  IN IF list[1].start >= new.start THEN 1 ELSE IF list[i].start = new.start THEN i ELSE i + 1

Reaches(r, at) == r.end > at \/ r.end = -1

(* What is left of the region before the new one, after it, as a copy of   *)
(* its own: none when the new region covers its end too.                   *)
TailOf(prev, new, id) ==
  IF Reaches(prev, new.start) /\ new.end # -1 /\ Reaches(prev, new.end)
  THEN <<[prev EXCEPT !.id = id, !.start = new.end]>> ELSE <<>>

(* The regions after: those under the new one go, those it reaches into    *)
(* start where it ends.                                                    *)
Covers(new, r) == new.end = -1 \/ (r.end # -1 /\ r.end <= new.end)
Mutant_Uncovered(new, after) == SelectSeq(after, LAMBDA r : r.special \/ ~Covers(new, r))
Uncovered(new, after) ==
  FoldLeft(LAMBDA left, r :
             IF r.special THEN Append(left, r)
             ELSE IF Covers(new, r) THEN <<>>
             ELSE Append(left, IF r.start < new.end THEN [r EXCEPT !.start = new.end] ELSE r),
           <<>>, after)

(* The background region, when it is split, goes on in its second part.    *)
Mutant_FlowAfter(s, prev, tail) == s.flow
FlowAfter(s, prev, tail) == IF tail # <<>> /\ prev.id = s.flow THEN tail[1].id ELSE s.flow

Fit(s, list, new) ==
  LET at == PlaceOf(list, new)
      prev == list[at - 1]
      tail == IF at = 1 THEN <<>> ELSE TailOf(prev, new, s.made + 1)
      before == IF at = 1 THEN <<>>
                ELSE Append(SubSeq(list, 1, at - 2),
                            IF Reaches(prev, new.start) THEN [prev EXCEPT !.end = new.start] ELSE prev)
      after == Uncovered(new, tail \o SubSeq(list, at, Len(list)))
  IN [list |-> before \o <<new>> \o after,
      flow |-> FlowAfter(s, prev, tail),
      made |-> s.made + Len(tail)]

addLineRegion(s, lno, new) ==
  LET i == getLineIndex(s, lno)
      list == s.lines[i]
  IN IF list = <<>> \/ new.special \/ ~s.compact
     THEN [s EXCEPT !.lines[i] = Append(list, new)]
     ELSE LET fit == Fit(s, list, new)
          IN [s EXCEPT !.lines[i] = fit.list, !.flow = fit.flow, !.made = fit.made]

-----------------------------------------------------------------------------
(* RegionHandler: what the parser tells the store.                         *)
startParsing(s) == [s EXCEPT !.stack = <<Background>>]

clearLine(s, lno) ==
  IF ~checkLine(s, lno) THEN s
  ELSE LET first == [Top(s) EXCEPT !.id = s.made + 1, !.start = 0, !.end = -1]
       IN [s EXCEPT !.lines[getLineIndex(s, lno)] = <<first>>, !.flow = first.id, !.made = first.id]

addRegion(s, regions, lno, start, end, region) ==
  IF ~checkLine(s, lno) THEN s
  ELSE LET drawn == DrawnWith(s, regions, region)
           new == [id |-> s.made + 1, region |-> region, scheme |-> Top(s).scheme, start |-> start, end |-> end,
                   special |-> hasParent(regions, region, s.special), rdef |-> drawn.rdef]
       IN addLineRegion([drawn.s EXCEPT !.made = new.id], lno, new)

(* The background goes on from here as the new one says.                   *)
Flow(s, lno, like, start) ==
  LET new == [like EXCEPT !.id = s.made + 1, !.start = start, !.end = -1]
  IN addLineRegion([EndFlow(s, start) EXCEPT !.flow = new.id, !.made = new.id], lno, new)

enterScheme(s, regions, lno, start, region, scheme) ==
  LET drawn == DrawnWith(s, regions, region)
      new == [id |-> 0, region |-> region, scheme |-> scheme, start |-> start, end |-> -1,
              special |-> FALSE, rdef |-> drawn.rdef]
      entered == [drawn.s EXCEPT !.stack = Append(@, new)]
  IN IF ~checkLine(s, lno) \/ region = NoRegion THEN entered ELSE Flow(entered, lno, new, start)

leaveScheme(s, lno, end) ==
  LET left == [s EXCEPT !.stack = Front(@)]
  IN IF ~checkLine(s, lno) \/ Top(s).region = NoRegion THEN left ELSE Flow(left, lno, Top(left), end)

-----------------------------------------------------------------------------
(* What a reader of the list sees at a column: the last region over it.    *)
Over(r, col) == ~r.special /\ r.start <= col /\ (r.end = -1 \/ col < r.end)
Seen(list, col) ==
  LET k == SelectLastInSeq(list, LAMBDA r : Over(r, col))
  IN IF k = 0 THEN Background ELSE [list[k] EXCEPT !.id = 0, !.start = 0, !.end = 0]
=============================================================================

--------------------------- MODULE ParsedLineWriter -------------------------
(***************************************************************************)
(* ParsedLineWriter: a line of text and its list of regions, written with  *)
(* markup around each region.  What is written is a sequence of pieces: a  *)
(* character of the text, or a markup that opens or closes.                *)
(***************************************************************************)
EXTENDS LineRegions

Text(chars) == [k \in DOMAIN chars |-> <<"text", chars[k]>>]
Opens(markup) == <<<<"open", markup>>>>
Closes(markup) == <<<<"close", markup>>>>

(* write(line, from, num): nothing looks for the end of the line here.     *)
Part(line, from, num) == SubSeq(line, from + 1, from + num)

Mutant_WriteRegion(before, r, line) ==
  LET pos == Max({before.pos, r.start})
      num == (IF r.end = -1 THEN Len(line) ELSE r.end) - r.start
  IN [pos |-> pos + num,
      spans |-> Append(before.spans, [gap |-> <<>>, r |-> r, token |-> Part(line, pos, num)])]

(* One region after what has been written up to a position: the text       *)
(* before it and its own.                                                  *)
WriteRegion(before, r, line) ==
  LET pos == Max({before.pos, r.start})
      num == (IF r.end = -1 THEN Len(line) ELSE r.end) - r.start
  IN [pos |-> pos + num,
      spans |-> Append(before.spans, [gap |-> Part(line, before.pos, pos - before.pos), r |-> r,
                                      token |-> Part(line, pos, num)])]

Spans(line, list) ==
  FoldLeft(LAMBDA before, r : WriteRegion(before, r, line), [pos |-> 0, spans |-> <<>>],
           SelectSeq(list, LAMBDA r : ~r.special /\ r.start # r.end))

(* A line of which each span has been written as pieces.                   *)
WriteLine(line, written, pieces) ==
  FlattenSeq([k \in DOMAIN pieces |-> Text(written.spans[k].gap) \o pieces[k]])
    \o Text(Part(line, written.pos, Len(line) - written.pos))

HasRegion(r) == r.region # NoRegion
HasDefine(r) == r.rdef # NoDefine

-----------------------------------------------------------------------------
(* The classes of a span are the names of the region and its ancestors.    *)
tokenWrite(line, list, regions) ==
  LET w == Spans(line, SelectSeq(list, HasRegion))
      classes(r) == [k \in DOMAIN Chain(regions, r.region) |-> regions[Chain(regions, r.region)[k]].name]
  IN WriteLine(line, w, [k \in DOMAIN w.spans |->
       LET span == w.spans[k] IN
       Opens(classes(span.r)) \o Text(span.token) \o Closes(classes(span.r))])

Set(kind, markup) == IF markup = "" THEN <<>> ELSE <<<<kind, markup>>>>
markupWrite(line, list) ==
  LET w == Spans(line, SelectSeq(list, HasDefine))
  IN WriteLine(line, w, [k \in DOMAIN w.spans |->
       LET rdef == w.spans[k].r.rdef IN
       Set("open", rdef.start_back) \o Set("open", rdef.start_text) \o Text(w.spans[k].token)
         \o Set("close", rdef.end_text) \o Set("close", rdef.end_back)])

(* docLinkHash: for some tokens, alone or in a scheme, the url they lead   *)
(* to.                                                                     *)
Url(links, scheme, token) ==
  IF scheme # "" /\ <<token, scheme>> \in DOMAIN links THEN links[<<token, scheme>>]
  ELSE IF <<token, "">> \in DOMAIN links THEN links[<<token, "">>] ELSE ""

writeHref(links, scheme, token, start) ==
  LET url == Url(links, scheme, token)
  IN IF url = "" THEN <<>> ELSE IF start THEN Opens(<<"a", url>>) ELSE Closes(<<"a", url>>)

writeStyle(rdef) == <<rdef.fore, rdef.back, rdef.style>>
IsColored(rdef) == rdef.fore # "" \/ rdef.back # ""
writeStart(rdef) == IF IsColored(rdef) THEN Opens(writeStyle(rdef)) ELSE <<>>
writeEnd(rdef) == IF IsColored(rdef) THEN Closes(writeStyle(rdef)) ELSE <<>>

htmlRGBWrite(line, list, links) ==
  LET w == Spans(line, SelectSeq(list, HasDefine))
  IN WriteLine(line, w, [k \in DOMAIN w.spans |->
       LET span == w.spans[k]
           href(start) == writeHref(links, span.r.scheme, span.token, start)
       IN href(TRUE) \o writeStart(span.r.rdef) \o Text(span.token)
            \o writeEnd(span.r.rdef) \o href(FALSE)])
=============================================================================

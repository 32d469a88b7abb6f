---------------------------- MODULE MCConsoleTools --------------------------
(***************************************************************************)
(* Two small files, a few regions and blocks, two HRDs: every order of     *)
(* calls the parser can make, up to MaxEvents of them.                     *)
(***************************************************************************)
EXTENDS ConsoleTools

Arg(o, v) == [o |-> o, v |-> v]
MCCommandLines == {
  <<Arg("h", ""), Arg("i", "a"), Arg("t", "text"), Arg("ls", "links"), Arg("", "abc")>>,
  <<Arg("h", ""), Arg("i", "b"), Arg("ln", ""), Arg("dc", ""), Arg("", "tab")>>,
  <<Arg("ht", ""), Arg("i", ""), Arg("a", "a"), Arg("", "crlf")>>,
  <<Arg("v", ""), Arg("i", "a"), Arg("t", "pla"), Arg("", "ab")>>,
  <<Arg("p", ""), Arg("i", "a"), Arg("", "abc")>>,
  <<Arg("h", ""), Arg("i", "none"), Arg("", "abc")>>,
  <<Arg("v", ""), Arg("i", "a"), Arg("", "none")>>,
  <<Arg("h", ""), Arg("i", "a"), Arg("", "missing")>>,
  <<Arg("h", ""), Arg("ls", "missing"), Arg("", "abc")>>,
  <<Arg("ld", ""), Arg("t", "text")>>, <<Arg("ld", ""), Arg("t", "pla")>>,
  <<Arg("ls", "")>>, <<Arg("", "abc")>> }

MCFiles ==
  ("abc" :> <<"a", "b", "c">>) @@ ("ab" :> <<"a", "b", "\r", "c">>)
  @@ ("crlf" :> <<"a", "\r", "\n", "\n", "b">>) @@ ("tab" :> <<"\t", "\n">>) @@ ("none" :> <<"a">>)
MCMaxEvents == ("abc" :> 4) @@ ("ab" :> 2) @@ ("crlf" :> 3) @@ ("tab" :> 1) @@ ("none" :> 0)
MCTypes == << [name |-> "cpp", description |-> "C++", detects |-> {"strange"}],
              [name |-> "text", description |-> "plain", detects |-> {"abc", "crlf", "tab", "ab"}] >>
MCLetters == ("cpp" :> <<"c", "p", "p">>) @@ ("C++" :> <<"c", "+", "+">>) @@ ("text" :> <<"t", "e", "x", "t">>)
             @@ ("plain" :> <<"p", "l", "a", "i", "n">>) @@ ("pla" :> <<"p", "l", "a">>)

Assign(name, value) == [name |-> name, value |-> value]
MCHrds ==
  (<<"rgb", "a">> :> << Assign("def:Text", StyledRegion("1", "2", {})), Assign("word", StyledRegion("3", "", {"bold"})) >>)
  @@ (<<"text", "b">> :> << Assign("def:Text", TextRegion("<", ">", "", "")), Assign("word", TextRegion("(", ")", "[", "]")) >>)
  @@ (<<"console", "a">> :> << Assign("def:Text", StyledRegion("1", "2", {})), Assign("word", StyledRegion("", "4", {})) >>)
MCLinks == "links" :> ((<<<<"a">>, "s">> :> "u1") @@ (<<<<"b", "c">>, "">> :> "u2"))

MCRegions == << [name |-> "word", parent |-> 0], [name |-> "pair", parent |-> 0], [name |-> "sub", parent |-> 1] >>
Mark(start, end, region) == [start |-> start, end |-> end, region |-> region]
MCMarks == {Mark(span[1], span[2], 1) : span \in {<<1, 1>>} \cup {p \in (0..3) \X (0..3) : p[1] < p[2]}}
           \cup {Mark(0, 1, 2), Mark(1, 2, 2)}
MCBlocks == { [region |-> 3, scheme |-> "s"], [region |-> NoRegion, scheme |-> "t"] }
MCScreens == { <<2, 1>>, <<3, 3>> }
MCKeys == {"up", "down", "left", "right", "ctrl left", "page up", "page down", "home", "end"}

-----------------------------------------------------------------------------
Windowed(s) == {lno \in s.first..s.first + s.count - 1 : lno < Len(lines)}

(* LineRegionsCompactSupport::addLineRegion: "guarantees non-interlaced    *)
(* creation of LineRegion structures": the regions of a line follow one    *)
(* another, and at every column show what the plain store's list shows     *)
(* when it is painted in its order.                                        *)
CompactIsFlat ==
  \A lno \in Windowed(compact) :
    LET list == getLineRegions(compact, lno)
        flat == SelectSeq(list, LAMBDA r : ~r.special)
    IN /\ \A k \in 1..Len(flat) - 1 : flat[k].end # -1 /\ flat[k].start <= flat[k].end /\ flat[k].end <= flat[k + 1].start
       /\ \A col \in 0..Len(lines[lno + 1]) - 1 : Seen(list, col) = Seen(getLineRegions(plain, lno), col)

(* flowBackground (LineRegionsSupport): while a line is parsed it is a     *)
(* node of that line's list, not one freed by a region that came over it,  *)
(* and reaches to the end of the line.                                     *)
FlowIsHere ==
  pc = "parse" =>
    \A s \in {plain, compact} : checkLine(s, feed.lno) =>
      \E k \in DOMAIN getLineRegions(s, feed.lno) :
        LET r == getLineRegions(s, feed.lno)[k] IN r.id = s.flow /\ r.end = -1

(* What is written of a job that ends well is the file: with the markup    *)
(* left out its lines in order, each character once, and every markup      *)
(* opened is closed, innermost first (ParsedLineWriter, genOutput); and    *)
(* the lines with some line end after each but the last are the file       *)
(* (TextLinesStore::loadFile).                                             *)
Glued(ends) == FlattenSeq([k \in DOMAIN lines |-> IF k = Len(lines) THEN lines[k] ELSE lines[k] \o ends[k]])
LinesAreTheFile ==
    /\ \E ends \in [1..Len(lines) - 1 -> {<<"\r">>, <<"\n">>, <<"\r", "\n">>}] :
         Glued(ends) = replaceTabs(Files[settings.input])
    /\ \A k \in DOMAIN lines : ToSet(lines[k]) \cap {"\r", "\n"} = {}
TextOf(pieces) == [k \in DOMAIN SelectSeq(pieces, LAMBDA p : p[1] = "text") |->
                     SelectSeq(pieces, LAMBDA p : p[1] = "text")[k][2]]
Nesting(pieces) ==
  FoldLeft(LAMBDA open, p : IF p[1] = "open" THEN Append(open, p[2])
                            ELSE IF p[1] # "close" THEN open
                            ELSE IF open # <<>> /\ (useMarkup \/ Last(open) = p[2]) THEN Front(open) ELSE <<"wrong">>,
           <<>>, pieces)
OutputIsTheText ==
  pc = "done" /\ settings.job \in {"gen", "tokens"} /\ (\A k \in DOMAIN out : out[k][1] # "error") =>
    LET written == SelectSeq(out, LAMBDA o : o[1] = "line")
    IN /\ LinesAreTheFile
       /\ Nesting(out) = <<>>
       /\ [k \in DOMAIN written |-> TextOf(written[k][2])] = lines
       /\ \A k \in DOMAIN written : Nesting(written[k][2]) = <<>>

(* The screen shows the text from topline and leftpos on, each character   *)
(* with the color of the last region over it, nothing past a row's end     *)
(* (TextConsoleViewer::view).                                              *)
ScreenShowsText ==
  pc = "key" =>
    \A y \in 0..view.Y - 1, x \in 0..view.X - 1 :
      LET lno == view.topline + y
          col == view.leftpos + x
          here == lno < Len(lines) /\ col < Len(lines[lno + 1])
          list == SelectSeq(getLineRegions(plain, lno), HasDefine)
          seen == Seen(list, col).rdef
      IN screen[y * view.X + x] =
           << IF here THEN lines[lno + 1][col + 1] ELSE " ",
              IF here /\ seen # NoDefine THEN Color(seen, background) ELSE background >>

(* A type asked for by the beginning of its name or description is the one *)
(* selected ("don`t found type by name, check by description or part of    *)
(* description", ConsoleTools::selectType).                                *)
Means(wanted, t) == IsPrefix(Letters[wanted], Letters[t.name]) \/ IsPrefix(Letters[wanted], Letters[t.description])
TypeIsMeant ==
  type # "" /\ settings.type # "" /\ (\E k \in DOMAIN Types : Means(settings.type, Types[k])) =>
    \E k \in DOMAIN Types : Types[k].name = type /\ Means(settings.type, Types[k])
=============================================================================

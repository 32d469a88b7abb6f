--------------------------- MODULE EditorServices ---------------------------
(***************************************************************************)
(* The services of an editor that live from its parses: an Outliner, which *)
(* listens to the calls every parse makes and to modifyEvent, and the      *)
(* search for the other bracket of a pair, which asks for the regions of   *)
(* one line after the other, each of which may parse, move the window and  *)
(* turn the ring.  The editor is BaseEditor's.                             *)
(***************************************************************************)
EXTENDS BaseEditor, FiniteSets, PairMatch

Out == INSTANCE Outliner

CONSTANTS
  MaxItems,  \* bound: how long an outline may be when a call comes
  CallsOf,   \* CallsOf[g][<<s, c>>]: what a parse of line c entered with s calls
  Depth      \* how many blocks a stack has open

ASSUME CallsAssumption ==
  /\ CallsOf \in [Grammars -> [States \X Contents -> Seq(Out!Calls)]]
  /\ Depth \in [States -> Nat]
  /\ MaxItems \in Nat

Count(calls, call, n) == Cardinality({i \in 1 .. n : calls[i] = call})

(* A line enters and leaves the blocks its stack gains and loses.          *)
ASSUME DepthAssumption ==
  \A g \in Grammars, s \in States, c \in Contents :
    LET calls == CallsOf[g][<<s, c>>]
    IN Depth[Scan[g][<<s, c>>]] =
         Depth[s] + Count(calls, "enter", Len(calls)) - Count(calls, "leave", Len(calls))

VARIABLES
  outliner,    \* the Outliner attached to the editor, if there is one
  unheard,     \* the first line whose change the Outliner was not told of
  search       \* the searchPair call in progress, or the last one

services == <<outliner, unheard, search>>
all == <<vars, services>>

NoOutliner == [none |-> TRUE]
Attached == outliner # NoOutliner

NoSearch == [phase |-> "none"]
Searching == search.phase \in {"begin", "ask", "read"}
FreeHost == ~Searching
InBound  == Attached => Len(outliner.outline) <= MaxItems

-----------------------------------------------------------------------------
(* The Outliner hears what the editor's region handlers and listeners do.  *)

CallsIn(l, s) == CallsOf[grammar][<<s, text[l]>>]

(* fillInvisibleSchemes enters the blocks a parse begins in.               *)
Begun(o, s) == [Out!startParsing(o) EXCEPT !.curLevel = Depth[s]]

Hears(o) == outliner' = IF Attached THEN o ELSE outliner

(* It has forgotten a line when it would take it again from a parse.       *)
Forgot(l) ==
  /\ outliner.modifiedLine <= l
  /\ \A i \in DOMAIN outliner.outline : outliner.outline[i].lno < l

Unheard(l) == unheard' = IF Attached /\ ~Forgot(l) THEN Smaller(unheard, l) ELSE unheard

AddOutliner ==
  /\ Ready /\ FreeHost /\ ~Attached
  /\ outliner' = Out!NewOutliner
  /\ unheard' = IF invalidLine = 0 THEN MaxLines ELSE 0
  /\ search' = NoSearch
  /\ UNCHANGED vars

RemoveOutliner ==
  /\ Ready /\ FreeHost /\ Attached /\ changes < MaxChanges
  /\ outliner' = NoOutliner /\ unheard' = MaxLines
  /\ search' = NoSearch
  /\ changes' = changes + 1
  /\ UNCHANGED <<hostVars, grammar, mapper, lineCount, invalidLine, backParse,
                 windowVars, ringVars, pred, job, shown>>

(* A parse that has something to parse begins.                             *)
HearsStart ==
  IF Idle /\ ~Idle' THEN Hears(Begun(outliner, job'.state)) ELSE UNCHANGED outliner

HearsLine ==
  Hears(Out!LineParsed(outliner, job.line, text[job.line], CallsIn(job.line, job.state)))

HearsEnd == Hears(Out!endParsing(outliner, stopLine(job.stop)))

ModifyEventHeard(topLine) ==
  /\ ModifyEvent(topLine)
  /\ IF invalidLine > topLine
     THEN /\ Hears(Out!modifyEvent(outliner, topLine))
          /\ unheard' = IF topLine <= unheard THEN MaxLines ELSE unheard
     ELSE UNCHANGED outliner /\ Unheard(topLine)

(* tryParseLine is a parse of one line.                                    *)
ModifyLineEventHeard(line) ==
  /\ InBound
  /\ ModifyLineEvent(line)
  /\ IF invalidLine > line /\ grammar # NoGrammar
     THEN LET begun == Begun(outliner, pred[line])
              heard == Out!LineParsed(begun, line, text[line], CallsIn(line, pred[line]))
          IN Hears(Out!endParsing(heard, line))
     ELSE UNCHANGED outliner
  /\ Unheard(line)

-----------------------------------------------------------------------------
(* searchPair: a step per call of getLineRegions, and one per answer.      *)

RegionsIn(regions) ==
  IF regions = None THEN <<>>
  ELSE CallsOf[regions.grammar][<<regions.state, regions.content>>]

getLastVisibleLine == Smaller(wStart + wSize, lineCount) - 1

(* A line is read in good faith if it is in the valid part of the text and *)
(* of those the ring keeps coloured: the one just below a window at the    *)
(* end of them, for which validate moves nothing, is not.                  *)
Read(lno, trusted) ==
  /\ trusted /\ lno < invalidLine
  /\ firstLine <= lno /\ lno < firstLine + regionCoverLines(wSize)

SearchPair(lineNo, start_line, end_line) ==
  /\ FreeHost
  /\ GetLineRegions(lineNo)
  /\ search' = [phase |-> "begin", line |-> lineNo, first |-> start_line, last |-> end_line,
                trusted |-> TRUE]

searchLocalPair(lineNo)  == SearchPair(lineNo, wStart, getLastVisibleLine)
searchGlobalPair(lineNo) == SearchPair(lineNo, 0, lineCount)

(* The walk goes on to the next line, or searchPair returns.               *)
Continue(pm, lno, trusted) ==
  LET next == NextLine(pm, lno)
      over == \/ pm.pairBalance = 0
              \/ pm.pairBalance > 0 /\ next > search.last
              \/ pm.pairBalance < 0 /\ next < search.first
  IN search' = [phase |-> IF over THEN "done" ELSE "ask", line |-> next,
                first |-> search.first, last |-> search.last, trusted |-> trusted, pm |-> pm]

(* getPairMatch: the pair region under the cursor, if there is one.        *)
getPairMatch ==
  /\ search.phase = "begin" /\ Ready
  /\ LET regions == RegionsIn(shown.regions)
         faith == Read(search.line, TRUE)
     IN \/ search' = NoSearch
        \/ \E at \in DOMAIN regions :
             LET pm == NewPairMatch(search.line, at, regions[at] = "pairStart")
             IN /\ regions[at] \in Pairs
                /\ Continue(Walk(pm, search.line, regions, at), search.line, faith)
  /\ UNCHANGED <<vars, outliner, unheard>>

AskNext ==
  /\ search.phase = "ask"
  /\ \E lno \in LineStarts : lno = search.line /\ GetLineRegions(lno)
  /\ search' = [search EXCEPT !.phase = "read"]

ReadNext ==
  /\ search.phase = "read" /\ Ready
  /\ LET regions == RegionsIn(shown.regions)
     IN Continue(Walk(search.pm, search.line, regions, Edge(search.pm, regions)), search.line,
                 Read(search.line, search.trusted))
  /\ UNCHANGED <<vars, outliner, unheard>>
-----------------------------------------------------------------------------
ServicesInit == Init /\ outliner = NoOutliner /\ unheard = MaxLines /\ search = NoSearch

(* Calls of the host, of which none comes while a search is in progress.   *)
(* backParse keeps its -1: a line is parsed however far off it is.         *)
Unnoticed == UNCHANGED <<outliner, unheard>>

HostCalls ==
  \/ Host /\ Unnoticed
  \/ \E l \in Lines : ModifyEventHeard(l) \/ ModifyLineEventHeard(l)
  \/ \E n \in LineStarts : LineCountEvent(n) /\ Unnoticed
  \/ \E g \in Grammars : SetFileType(g) /\ UNCHANGED outliner /\ Unheard(0)
  \/ (\E m \in Mappers : SetRegionMapper(m)) /\ Unnoticed
  \/ View /\ (InBound \/ Idle') /\ HearsStart /\ UNCHANGED unheard

Searches ==
  \/ \E l \in Lines :
       /\ wStart <= l /\ l < Smaller(wStart + wSize, lineCount)
       /\ InBound /\ (searchLocalPair(l) \/ searchGlobalPair(l))
       /\ HearsStart /\ UNCHANGED unheard
  \/ getPairMatch
  \/ AskNext /\ HearsStart /\ UNCHANGED unheard
  \/ ReadNext

ParserHeard ==
  \/ ParseLine /\ HearsLine /\ UNCHANGED <<unheard, search>>
  \/ EndParse /\ HearsEnd /\ UNCHANGED <<unheard, search>>

ServicesNext ==
  \/ FreeHost /\ HostCalls /\ search' = NoSearch
  \/ AddOutliner \/ RemoveOutliner
  \/ Searches \/ ParserHeard

ServicesSpec == ServicesInit /\ [][ServicesNext]_all

-----------------------------------------------------------------------------
(* What a listener and a search must find.                                 *)

TrueCalls(l) == CallsIn(l, TrueState[l])

(* The item a parse of the whole text gives line l.                        *)
TrueItem(l) ==
  LET at == {i \in DOMAIN TrueCalls(l) : TrueCalls(l)[i] = "outlined"}
      first == CHOOSE i \in at : \A j \in at : i <= j
      Before(call) == Count(TrueCalls(l), call, first)
  IN [lno |-> l, pos |-> first,
      level |-> Depth[TrueState[l]] + Before("enter") - Before("leave"),
      token |-> [i \in 1 .. Cardinality(at) |-> text[l]]]

ItemsOf(l) == {outliner.outline[i] : i \in {j \in DOMAIN outliner.outline : outliner.outline[j].lno = l}}

(* Of the valid lines the Outliner was told everything of, every one that  *)
(* has outlined regions is in the list as a parse of the whole text gives  *)
(* it, level and label, and no other is: whatever pieces the text was      *)
(* parsed in, read again, edited and remapped (Outliner, BaseEditor's      *)
(* handler and listener calls).  It may be there more than once.           *)
OutlineTrue ==
  (Attached /\ Idle /\ grammar # NoGrammar) =>
    \A l \in Lines : l < Smaller(Known, unheard) =>
      ItemsOf(l) = IF \E i \in DOMAIN TrueCalls(l) : TrueCalls(l)[i] = "outlined"
                   THEN {TrueItem(l)} ELSE {}

(* manageTree gives an item as many levels as it has ancestors: items      *)
(* before it of a level lower than that of all since then.                 *)
TreePacked ==
  (Attached /\ Idle) =>
    \A n \in DOMAIN outliner.outline :
      LET level(i) == outliner.outline[i].level
          Ancestors == {j \in 1 .. n - 1 : \A k \in j + 1 .. n : level(j) < level(k)}
      IN Out!PackedLevel([i \in 1 .. n |-> level(i)]) = Cardinality(Ancestors)

(* The brackets of lines a to b of the text, by line and place.            *)
Kind(p) == RegionsIn(Fresh(p[1]))[p[2]]
Brackets(a, b) ==
  UNION {{p \in {l} \X DOMAIN RegionsIn(Fresh(l)) : Kind(p) \in Pairs} :
         l \in {l \in Lines : a <= l /\ l <= b /\ l < lineCount}}

LessEq(p, q) == p[1] < q[1] \/ (p[1] = q[1] /\ p[2] <= q[2])
Toward(down, p, q) == IF down THEN LessEq(p, q) ELSE LessEq(q, p)

(* As many open as close.                                                  *)
Balanced(brackets) ==
  Cardinality({p \in brackets : Kind(p) = "pairStart"})
  = Cardinality({p \in brackets : Kind(p) = "pairEnd"})

(* The bracket that matches one: the nearest with as many of each kind     *)
(* from one to the other.                                                  *)
Match(p, first, last) ==
  LET down == Kind(p) = "pairStart"
      brackets == IF down THEN Brackets(p[1], last) ELSE Brackets(first, p[1])
      Between(q) == {r \in brackets : Toward(down, p, r) /\ Toward(down, r, q)}
      found == {q \in brackets : Toward(down, p, q) /\ Balanced(Between(q))}
  IN IF found = {} THEN <<NoMatch, 0>>
     ELSE CHOOSE q \in found : \A r \in found : Toward(down, q, r)

(* A search that read only valid lines of the cover finds the bracket that *)
(* matches in the text, or that there is none in the lines it was to look  *)
(* in, though each line it asked for may have moved the window and the     *)
(* ring (searchPair, getLineRegions, validate).                            *)
PairRight ==
  (search.phase = "done" /\ search.trusted) =>
    LET pm == search.pm
    IN /\ pm.sat \in DOMAIN RegionsIn(Fresh(pm.sline))
       /\ pm.topPosition = (Kind(<<pm.sline, pm.sat>>) = "pairStart")
       /\ <<pm.eline, pm.eat>> = Match(<<pm.sline, pm.sat>>, search.first, search.last)

(* The same of every search that found a bracket.                          *)
PairTrue ==
  (search.phase = "done" /\ search.pm.eline # NoMatch) =>
    LET pm == search.pm
    IN /\ pm.sat \in DOMAIN RegionsIn(Fresh(pm.sline))
       /\ <<pm.eline, pm.eat>> = Match(<<pm.sline, pm.sat>>, search.first, search.last)
=============================================================================

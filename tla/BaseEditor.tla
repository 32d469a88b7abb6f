----------------------------- MODULE BaseEditor -----------------------------
(***************************************************************************)
(* The editor facade of the library (src/colorer/editor/BaseEditor.cpp)    *)
(* with the two caches it keeps for a text it does not own:                *)
(*                                                                         *)
(*   - the parse cache of TextParser, seen here through the only question  *)
(*     parse() asks of it: which blocks are open at the start of a line    *)
(*     (pred).  The lines below invalidLine are those it answers for;      *)
(*   - the ring of coloured lines of LineRegionsSupport (ring, firstLine,  *)
(*     lrSize), filled by the region callbacks while lines are parsed.     *)
(*                                                                         *)
(* The grammar is any function Scan from the blocks open at the start of a *)
(* line and the line's content to the blocks open at the start of the      *)
(* next.  A parse is a sequence of ParseLine steps; while one runs (job)   *)
(* no other call is made, as the editor is used from one thread.           *)
(*                                                                         *)
(* The host edits its text and then announces the edit, in a call of its   *)
(* own (unannounced, docLines against lineCount): it asks nothing of the   *)
(* editor in between.                                                      *)
(***************************************************************************)
EXTENDS Integers

CONSTANTS
  MaxLines,       \* bound: the longest text
  FirstTexts,     \* bound: the texts an editor is opened on
  Contents,       \* what a line can say, as far as the grammar can tell
  States,         \* the stacks of blocks open at the start of a line
  Root,           \* only the base scheme is open
  Grammars,       \* file types
  NoGrammar,      \* no file type was set, or it has no base scheme
  Scan,           \* Scan[g][<<s, c>>]: the stack after line c entered with s
  Mappers,        \* region mappings (HRD sets)
  WindowSizes,    \* the heights a host window can have
  DefaultWindow,  \* wSize of a new editor (20)
  IdleLines,      \* IDLE_PARSE(time): lines an idle call looks ahead
  BackParses,     \* values a host gives setBackParse
  Reach,          \* how far off its window a host asks for regions
  MaxChanges      \* bound: edits, remaps, file types and resizes in a behaviour

ASSUME LinesAssumption ==
  MaxLines \in Nat \ {0} /\ FirstTexts \subseteq [0 .. MaxLines - 1 -> Contents]
ASSUME GrammarAssumption ==
  /\ Root \in States
  /\ NoGrammar \notin Grammars
  /\ Scan \in [Grammars -> [States \X Contents -> States]]
ASSUME WindowAssumption ==
  /\ WindowSizes \subseteq Nat
  /\ DefaultWindow \in Nat \ {0}
  /\ IdleLines \in Nat \ {0}
  /\ BackParses \subseteq Int
  /\ MaxChanges \in Nat /\ Reach \in Nat

VARIABLES
  text, docLines,     \* the host's lines 0..docLines-1
  unannounced,        \* the edit the host still has to announce
  changes,            \* how many changes were made (bounded by MaxChanges)
  grammar, mapper,    \* baseScheme of the parser, regionMapper
  lineCount, invalidLine, backParse, wStart, wSize, lrSize,
  firstLine, ring,    \* LineRegionsSupport
  pred,               \* ParseCache: stack it finds for the start of a line
  job,                \* the parse() call in progress
  shown               \* what the last call, if getLineRegions, returned

hostVars   == <<text, docLines, unannounced>>
ringVars   == <<firstLine, ring, lrSize>>
windowVars == <<wStart, wSize>>
vars == <<hostVars, changes, grammar, mapper, lineCount, invalidLine, backParse,
          windowVars, ringVars, pred, job, shown>>

Lines      == 0 .. MaxLines - 1
LineStarts == 0 .. MaxLines       \* MaxLines: the stack left by the last line
None       == [none |-> TRUE]     \* a null LineRegion*, or no result

Smaller(a, b) == IF a < b THEN a ELSE b

-----------------------------------------------------------------------------
(* The edit the host has made and not announced: nothing, one line         *)
(* changed in place, or anything from a line on.                           *)

Announced == [edit |-> "none", at |-> MaxLines]
Edits     == [edit : {"none", "line", "text"}, at : LineStarts]

(* The host calls the editor when no parse runs and its text is known.     *)
Idle  == job.mode = "none"
Ready == Idle /\ unannounced = Announced /\ lineCount = docLines

-----------------------------------------------------------------------------
(* LineRegionsSupport: a ring of lrSize lines, of which it serves the      *)
(* lines firstLine .. firstLine + lrSize - 1.                              *)

regionWindow(w)      == IF w < 1 THEN 1 ELSE w
regionCoverLines(w)  == regionWindow(w) * 2
regionBufferLines(w) == regionWindow(w) * 3

EmptyRing(n)   == [i \in 0 .. n - 1 |-> None]
checkLine(l)   == l >= firstLine /\ l < firstLine + lrSize
Mutant_getLineIndex(l) == (l - firstLine) % lrSize
getLineIndex(l) == ((firstLine % lrSize) + l - firstLine) % lrSize
LineRegionsOf(l) == IF checkLine(l) THEN ring[getLineIndex(l)] ELSE None

(* The regions a line gets: which line it is, and all they depend on.      *)
Regions ==
  [line : Lines, state : States, content : Contents, grammar : Grammars, mapper : Mappers]

Colored(l, s) ==
  [line |-> l, state |-> s, content |-> text[l], grammar |-> grammar, mapper |-> mapper]

(* clearLine, then the line's addRegion, enterScheme and leaveScheme calls *)
(* of a line entered with stack s: a line outside the ring is ignored.     *)
RingAfter(l, s) ==
  IF checkLine(l) THEN [ring EXCEPT ![getLineIndex(l)] = Colored(l, s)] ELSE ring

-----------------------------------------------------------------------------
(* TextParser::parse over [line, stop): the fields of a call in progress.  *)
(* asked is the line getLineRegions was called for, NotAsked in validate.  *)

NotAsked == -2
NoJob == [mode |-> "none", line |-> 0, stop |-> 0, state |-> Root, asked |-> NotAsked]
Jobs  == [mode : {"none", "read", "update"}, line : LineStarts, stop : LineStarts,
          state : States, asked : NotAsked .. MaxLines]

(* The call returns to getLineRegions, which reads the ring, or to         *)
(* validate, which returns nothing.                                        *)
Returned(asked, regions) ==
  IF asked = NotAsked THEN None ELSE [line |-> asked, regions |-> regions]

(* What validate(lno, true) does before it parses: where the window and    *)
(* the ring go, and which lines are parsed in which mode.  wStart + wSize  *)
(* is read before the window is moved to the line asked for.               *)
Plan(lno) ==
  LET line   == IF lno = -1 \/ lno > lineCount THEN lineCount - 1 ELSE lno
      w      == regionWindow(wSize)
      cover  == regionCoverLines(wSize)
      grow   == lrSize < cover
      top    == IF line < wStart \/ line > wStart + wSize THEN line ELSE wStart
      move   == grow \/ top < firstLine \/ top + wSize > firstLine + cover
      first  == IF move THEN (top \div w) * w ELSE firstLine
      oneUp  == ~grow /\ firstLine - first = w
      from   == IF move THEN first ELSE wStart + wSize
      to     == IF move THEN first + cover - (IF oneUp THEN w - 1 ELSE 0)
                ELSE IF invalidLine = 0 THEN firstLine + cover ELSE wStart + wSize
      update == (~move /\ invalidLine <= to) \/ invalidLine <= from
  IN [top   |-> top,
      grow  |-> grow,
      size  |-> IF grow THEN regionBufferLines(wSize) ELSE lrSize,
      first |-> first,
      from  |-> IF update THEN invalidLine ELSE from,
      to    |-> Smaller(to, lineCount),
      mode  |-> IF update THEN "update" ELSE "read"]

(* What validate(lno, false) parses; the window and the ring stay.         *)
Mutant_CachePlan(lno) ==
  [from |-> 0, to |-> Smaller(lno + 1, lineCount), mode |-> "update"]
CachePlan(lno) ==
  LET line == IF lno = -1 \/ lno > lineCount THEN lineCount - 1 ELSE lno
  IN [from |-> invalidLine, to |-> Smaller(line + 1, lineCount), mode |-> "update"]

(* The call of parse() ends validate: with nothing to parse or no base     *)
(* scheme it comes back at once, and stopLine is then the line it started  *)
(* from.  Otherwise the job runs line by line.                             *)
StartParse(plan, asked) ==
  \/ /\ plan.from < plan.to
     /\ grammar # NoGrammar
     /\ job' = [mode |-> plan.mode, line |-> plan.from, stop |-> plan.to,
                state |-> pred[plan.from], asked |-> asked]
     /\ shown' = None
     /\ UNCHANGED invalidLine
  \/ /\ plan.from < plan.to => grammar = NoGrammar
     /\ invalidLine' = IF plan.from < plan.to /\ plan.mode = "update"
                       THEN plan.from + 1 ELSE invalidLine
     /\ shown' = Returned(asked, LineRegionsOf(asked)')
     /\ UNCHANGED job

Rebuild(lno, asked) ==
  LET plan == Plan(lno)
  IN /\ wStart' = plan.top
     /\ lrSize' = plan.size
     /\ firstLine' = plan.first
     /\ ring' = IF plan.grow THEN EmptyRing(plan.size) ELSE ring
     /\ StartParse(plan, asked)
     /\ UNCHANGED <<hostVars, changes, grammar, mapper, lineCount, backParse, wSize, pred>>

-----------------------------------------------------------------------------
(* Calls of the host.                                                      *)

(* The lines regions are asked for: those of the window, and, by a search  *)
(* for pairs, those up to Reach lines off it (and -1, the last line).      *)
Asked == {l \in -1 .. MaxLines : wStart - Reach <= l /\ l < wStart + wSize + Reach}

(* getLineRegions: nothing is parsed for a line further than backParse     *)
(* lines below the valid part of the text.                                 *)
GetLineRegions(lno) ==
  /\ Ready
  /\ IF backParse > 0 /\ lno - invalidLine > backParse
     THEN /\ shown' = Returned(lno, None)
          /\ UNCHANGED <<hostVars, changes, grammar, mapper, lineCount, invalidLine,
                         backParse, windowVars, ringVars, pred, job>>
     ELSE Rebuild(lno, lno)

Validate(lno, rebuildRegions) ==
  /\ Ready
  /\ IF rebuildRegions
     THEN Rebuild(lno, NotAsked)
     ELSE /\ StartParse(CachePlan(lno), NotAsked)
          /\ UNCHANGED <<hostVars, changes, grammar, mapper, lineCount, backParse,
                         windowVars, ringVars, pred>>

IdleJob ==
  /\ invalidLine < lineCount
  /\ Validate(invalidLine + IdleLines, FALSE)

(* modifyEvent: the host announces its edit, or more than its edit.        *)
ModifyEvent(topLine) ==
  /\ Idle
  /\ unannounced.edit # "none"
  /\ topLine <= unannounced.at
  /\ invalidLine' = Smaller(invalidLine, topLine)
  /\ unannounced' = Announced
  /\ shown' = None
  /\ UNCHANGED <<text, docLines, changes, grammar, mapper, lineCount, backParse,
                 windowVars, ringVars, pred, job>>

(* TextParser::tryParseLine: the line is parsed and coloured from the      *)
(* stack the cache has for it; the result is whether the cache has for the *)
(* next line the stack this parse ends with.                               *)
Mutant_TryParseLine(line) == grammar # NoGrammar
TryParseLine(line) ==
  /\ grammar # NoGrammar
  /\ Scan[grammar][<<pred[line], text[line]>>] = pred[line + 1]

ModifyLineEvent(line) ==
  /\ Idle
  /\ unannounced.edit = "line"
  /\ line = unannounced.at
  /\ IF invalidLine > line
     THEN /\ invalidLine' = IF TryParseLine(line) THEN invalidLine ELSE line
          /\ ring' = IF grammar # NoGrammar THEN RingAfter(line, pred[line]) ELSE ring
     ELSE UNCHANGED <<invalidLine, ring>>
  /\ unannounced' = Announced
  /\ shown' = None
  /\ UNCHANGED <<text, docLines, changes, grammar, mapper, lineCount, backParse,
                 windowVars, firstLine, lrSize, pred, job>>

VisibleTextEvent(start, size) ==
  /\ Idle
  /\ wStart' = start /\ wSize' = size
  /\ shown' = None
  /\ UNCHANGED <<hostVars, changes, grammar, mapper, lineCount, invalidLine, backParse,
                 ringVars, pred, job>>

LineCountEvent(newLineCount) ==
  /\ Idle
  /\ newLineCount = docLines /\ newLineCount # lineCount
  /\ lineCount' = newLineCount
  /\ shown' = None
  /\ UNCHANGED <<hostVars, changes, grammar, mapper, invalidLine, backParse,
                 windowVars, ringVars, pred, job>>

SetBackParse(n) ==
  /\ Idle
  /\ backParse' = n
  /\ shown' = None
  /\ UNCHANGED <<hostVars, changes, grammar, mapper, lineCount, invalidLine,
                 windowVars, ringVars, pred, job>>

(* setFileType: the parser gets the base scheme and an empty cache.        *)
SetFileType(g) ==
  /\ Idle /\ changes < MaxChanges
  /\ changes' = changes + 1
  /\ grammar' = g
  /\ pred' = [l \in LineStarts |-> Root]
  /\ invalidLine' = 0
  /\ shown' = None
  /\ UNCHANGED <<hostVars, mapper, lineCount, backParse, windowVars, ringVars, job>>

(* remapLRS(recreate): a new ring at line 0, or the old one with regions   *)
(* that are to be parsed again.                                            *)
Mutant_remapLRS(recreate) ==
  /\ invalidLine' = invalidLine
  /\ UNCHANGED <<firstLine, ring>>
remapLRS(recreate) ==
  /\ invalidLine' = 0
  /\ firstLine' = IF recreate THEN 0 ELSE firstLine
  /\ ring' = IF recreate THEN EmptyRing(lrSize) ELSE ring

SetRegionMapper(m) ==
  /\ Idle /\ changes < MaxChanges
  /\ changes' = changes + 1
  /\ mapper' = m
  /\ remapLRS(FALSE)
  /\ shown' = None
  /\ UNCHANGED <<hostVars, grammar, lineCount, backParse, windowVars, lrSize, pred, job>>

SetRegionCompact ==
  /\ Idle /\ changes < MaxChanges
  /\ changes' = changes + 1
  /\ remapLRS(TRUE)
  /\ shown' = None
  /\ UNCHANGED <<hostVars, grammar, mapper, lineCount, backParse, windowVars, lrSize,
                 pred, job>>

-----------------------------------------------------------------------------
(* The parse() call in progress.                                           *)

(* One line: its regions go to the ring, and in update mode the cache      *)
(* learns the blocks it leaves open.                                       *)
ParseLine ==
  LET next == Scan[grammar][<<job.state, text[job.line]>>]
  IN /\ ~Idle /\ job.line < job.stop
     /\ ring' = RingAfter(job.line, job.state)
     /\ job' = [job EXCEPT !.line = @ + 1, !.state = next]
     /\ pred' = IF job.mode = "update" THEN [pred EXCEPT ![job.line + 1] = next] ELSE pred
     /\ UNCHANGED <<hostVars, changes, grammar, mapper, lineCount, invalidLine, backParse,
                    windowVars, firstLine, lrSize, shown>>

(* What parse() returns: the last line it coloured.                        *)
Mutant_stopLine(stop) == stop
MutantLow_stopLine(stop) == stop - 2
stopLine(stop) == stop - 1

(* parse() is over.  In update mode the blocks still open end, for the     *)
(* cache, at line stop, and nothing is kept below it.                      *)
EndParse ==
  /\ ~Idle /\ job.line = job.stop
  /\ IF job.mode = "update"
     THEN /\ pred' = [l \in LineStarts |-> IF l <= job.stop THEN pred[l] ELSE Root]
          /\ invalidLine' = stopLine(job.stop) + 1
     ELSE UNCHANGED <<pred, invalidLine>>
  /\ shown' = Returned(job.asked, LineRegionsOf(job.asked))
  /\ job' = NoJob
  /\ UNCHANGED <<hostVars, changes, grammar, mapper, lineCount, backParse, windowVars, ringVars>>

-----------------------------------------------------------------------------
(* The host's edits.                                                       *)

Edit(kind, at) ==
  /\ Idle /\ unannounced = Announced /\ changes < MaxChanges
  /\ changes' = changes + 1
  /\ unannounced' = [edit |-> kind, at |-> at]
  /\ shown' = None
  /\ UNCHANGED <<grammar, mapper, lineCount, invalidLine, backParse, windowVars, ringVars,
                 pred, job>>

ReplaceLine(l, c) ==
  /\ l < docLines
  /\ text' = [text EXCEPT ![l] = c]
  /\ UNCHANGED docLines
  /\ Edit("line", l)

InsertLine(l, c) ==
  /\ l <= docLines /\ docLines < MaxLines
  /\ text' = [i \in Lines |-> IF i < l THEN text[i] ELSE IF i = l THEN c ELSE text[i - 1]]
  /\ docLines' = docLines + 1
  /\ Edit("text", l)

DeleteLine(l) ==
  /\ l < docLines /\ docLines > 1
  /\ text' = [i \in Lines |-> IF i < l \/ i = MaxLines - 1 THEN text[i] ELSE text[i + 1]]
  /\ docLines' = docLines - 1
  /\ Edit("text", l)

-----------------------------------------------------------------------------
Init ==
  /\ text \in FirstTexts /\ docLines \in 1 .. MaxLines
  /\ unannounced = Announced /\ changes = 0
  /\ grammar = NoGrammar /\ mapper \in Mappers
  /\ lineCount = 0 /\ invalidLine = 0 /\ backParse = -1
  /\ wStart = 0 /\ wSize = DefaultWindow
  /\ lrSize = regionBufferLines(DefaultWindow)
  /\ firstLine = 0 /\ ring = EmptyRing(regionBufferLines(DefaultWindow))
  /\ pred = [l \in LineStarts |-> Root]
  /\ job = NoJob /\ shown = None

Host ==
  \/ \E l \in Lines, c \in Contents : ReplaceLine(l, c) \/ InsertLine(l, c)
  \/ \E l \in Lines : DeleteLine(l)
Announce ==
  \/ \E l \in Lines : ModifyEvent(l) \/ ModifyLineEvent(l)
  \/ \E n \in LineStarts : LineCountEvent(n)
Configure ==
  \/ \E g \in Grammars \cup {NoGrammar} : SetFileType(g)
  \/ \E m \in Mappers : SetRegionMapper(m)
  \/ SetRegionCompact
  \/ \E n \in BackParses : SetBackParse(n)
View ==
  \/ \E s \in Lines, n \in WindowSizes : VisibleTextEvent(s, n)
  \/ \E l \in Asked : GetLineRegions(l) \/ Validate(l, TRUE)
  \/ \E l \in -1 .. MaxLines : Validate(l, FALSE)
  \/ IdleJob
Parser == ParseLine \/ EndParse

Next == Host \/ Announce \/ Configure \/ View \/ Parser

Spec == Init /\ [][Next]_vars

(* A host that reports its edits and, given the chance again and again,    *)
(* calls idleJob; a parse runs to its end.                                 *)
FairSpec == Spec /\ WF_vars(Announce) /\ WF_vars(Parser) /\ SF_vars(IdleJob)

-----------------------------------------------------------------------------
(* What the caches must say.                                               *)

(* Every variable has its type.                                            *)
TypeOK ==
  /\ text \in [Lines -> Contents] /\ docLines \in 1 .. MaxLines
  /\ unannounced \in Edits /\ changes \in 0 .. MaxChanges
  /\ grammar \in Grammars \cup {NoGrammar} /\ mapper \in Mappers
  /\ lineCount \in LineStarts /\ invalidLine \in LineStarts
  /\ backParse \in BackParses \cup {-1}
  /\ wStart \in LineStarts /\ wSize \in WindowSizes \cup {DefaultWindow}
  /\ lrSize \in Nat \ {0} /\ firstLine \in Nat
  /\ ring \in [0 .. lrSize - 1 -> Regions \cup {None}]
  /\ pred \in [LineStarts -> States]
  /\ job \in Jobs
  /\ shown \in [line : -1 .. MaxLines, regions : Regions \cup {None}] \cup {None}

(* The stack with which a parse of the whole text enters line l, and what  *)
(* it would colour the line with.                                          *)
TrueState[l \in LineStarts] ==
  IF l = 0 THEN Root ELSE Scan[grammar][<<TrueState[l - 1], text[l - 1]>>]

Fresh(l) == Colored(l, TrueState[l])

(* The cache predicts the stack after line l from the one before it.       *)
Predicted(l) == pred[l + 1] = Scan[grammar][<<pred[l], text[l]>>]

(* The lines the editor takes for valid and the host does not know to be   *)
(* changed: below invalidLine and above the unannounced edit.              *)
Known == Smaller(invalidLine, unannounced.at)

(* The parse cache is right for every line the editor takes for valid:     *)
(* what it predicts is what a parse from the top of the text finds         *)
(* (validate, modifyEvent, modifyLineEvent, setFileType, tryParseLine).    *)
CacheCoherent ==
  grammar # NoGrammar =>
    pred[0] = Root /\ \A l \in Lines : l < Known => Predicted(l)

(* The coloured lines of the cover that lie in the valid part of the text  *)
(* are what the current text, file type and region mapping give, whatever  *)
(* was scrolled, edited and parsed in the background before (for windows   *)
(* of one size: validate does not repaint after a resize).                 *)
RingFresh ==
  (grammar # NoGrammar /\ Idle) =>
    \A l \in firstLine .. firstLine + regionCoverLines(wSize) - 1 :
      l < Known /\ l < lineCount /\ l < docLines => LineRegionsOf(l) = Fresh(l)

(* A visible line asked for is returned as a parse of the whole text       *)
(* colours it, unless the window moved up by one and the line is in the    *)
(* part validate leaves for its next call; null only for backParse.  (For  *)
(* windows of one size, and a host that asks no further than one line      *)
(* below its window: validate parses for the window as it was.)            *)
ShownFresh ==
  (shown # None /\ grammar # NoGrammar /\ wStart <= shown.line
   /\ shown.line < Smaller(wStart + wSize, lineCount)
   /\ (shown.line < invalidLine \/ shown.line <= firstLine + regionWindow(wSize)))
  => \/ shown.regions = Fresh(shown.line)
     \/ shown.regions = None /\ backParse > 0 /\ shown.line - invalidLine > backParse

(* The same without the exceptions: what the header of getLineRegions      *)
(* says, of the lines of the window.                                       *)
VisibleColored ==
  (shown # None /\ grammar # NoGrammar /\ backParse <= 0 /\ wStart <= shown.line
   /\ shown.line < Smaller(wStart + wSize, lineCount))
  => shown.regions = Fresh(shown.line)

(* Looking at the text, and parsing it in the background, never makes less *)
(* of it valid: only an edit or a new configuration does.                  *)
LookingKeepsValid == [][View \/ Parser => invalidLine' >= invalidLine]_vars

(* Edits stop, so the idle calls bring the whole text into the cache, for  *)
(* good, and no parse hangs.                                               *)
CatchesUp == <>[](invalidLine >= lineCount) /\ []<>Idle

-----------------------------------------------------------------------------
(* The editor as an incremental parse: the stacks it knows are those the   *)
(* cache gives for the lines taken for valid.                              *)

KnownLines  == IF grammar = NoGrammar THEN 0 ELSE Known
KnownStacks == [l \in 0 .. KnownLines |-> pred[l]]

Incremental == INSTANCE LineStacks WITH stacks <- KnownStacks

(* The editor's cache is an incremental parse of the host's text: it never *)
(* takes a line for valid that it did not derive from the text as it is,   *)
(* and an edit or a new file type keeps no result it could have changed.   *)
IsIncrementalParse == Incremental!Spec

=============================================================================

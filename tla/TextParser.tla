----------------------------- MODULE TextParser -----------------------------
(***************************************************************************)
(* The coloring loop of the text parser                                    *)
(* (src/colorer/parsers/TextParserImpl.cpp): parse(), colorize() and       *)
(* searchBL() step by step with the C++ call stack (frames), the cache     *)
(* tree they read and rebuild, and tryParseLine on top of them.            *)
(*                                                                         *)
(* A line is a sequence of tokens and a grammar says which tokens start a  *)
(* block where, which end it, and which belong to a regexp that takes the  *)
(* next token too.  Starts and regexps match at gx only, an end anywhere   *)
(* from gx on, as in the code; none matches nothing (zero length).         *)
(*                                                                         *)
(* The client is one that keeps, as BaseEditor does, the number of lines   *)
(* the cache is right for (valid): it parses on from there, reads above,   *)
(* and after an edit of a line tries that line or gives up all below it.   *)
(***************************************************************************)
EXTENDS ParseCache, FiniteSets

CONSTANTS
  MaxLines, Contents,     \* bounds: the lines of the text, what each can be
  MaxEdits,               \* bound: edits in a behaviour
  Tokens,
  Blocks, Top,            \* <block> elements, and the base scheme
  Inside,                 \* Inside[b]: blocks that may start in b
  Starts,                 \* Starts[b]: tokens its start-RE matches
  Ends,                   \* Ends[b][tag]: tokens its end-RE matches
  Tagged,                 \* blocks whose end-RE refers to the start (\y)
  Ahead,                  \* ... to what follows the text the start consumes (\M)
  AtStart,                \* blocks that start where the outer block began (~)
  LowContent,             \* content-priority="low"
  Wide,                   \* tokens of a regexp that takes the next one too
  Untagged,               \* what an end-RE without \y knows of the start
  maxBlockSize, chunkLongLines,
  MaxLevel,               \* MAX_RECURSION_LEVEL
  Breaks,                 \* whether another thread calls breakParse
  Vanishes                \* whether getLine may return null

ASSUME BoundsAssumption ==
  /\ MaxLines \in Nat \ {0} /\ MaxLines < Unended
  /\ MaxEdits \in Nat /\ maxBlockSize \in Nat \ {0} /\ MaxLevel \in Nat
ASSUME TokensAssumption ==
  /\ Contents \subseteq Seq(Tokens) /\ Wide \subseteq Tokens
  /\ Untagged \notin Tokens /\ Top \notin Blocks
ASSUME BlocksAssumption ==
  /\ Tagged \subseteq Blocks /\ Ahead \subseteq Tagged
  /\ AtStart \subseteq Blocks /\ LowContent \subseteq Blocks
  /\ Inside \in [Blocks \cup {Top} -> SUBSET Blocks]
  /\ Starts \in [Blocks -> SUBSET Tokens]
  /\ Ends \in [Blocks -> [Tokens \cup {Untagged} -> SUBSET Tokens]]

ASSUME TopAssumption == Top # Untagged   \* the base scheme, and no tag

VARIABLES
  text, edits,            \* the lines, and how often one was edited
  valid,                  \* invalidLine of the client
  tree,                   \* cache
  call,                   \* the call in progress
  pc, frames,             \* where colorize() is, and its activations
  gx, line, stop, clearLine, endLine, matchend, schemeStart, stackLevel,
  parent, forward,
  filled,                 \* invisibleSchemesFilled
  breakParsing,
  gone,                   \* getLine has returned null
  handler,                \* schemes the region handler is in
  expected, tryStack, tryMismatch

client  == <<text, edits, valid>>
cursor  == <<gx, line, matchend, schemeStart>>
tries   == <<expected, tryStack, tryMismatch>>
vars == <<client, tree, call, pc, frames, cursor, stop, clearLine, endLine, stackLevel,
          parent, forward, filled, breakParsing, gone, handler, tries>>

Lines == 0 .. MaxLines - 1

-----------------------------------------------------------------------------
(* The grammar at one place of a line: str[gx + 1] is the token at gx.     *)

None == [block |-> Top, at |-> 0, span |-> Untagged, tag |-> Untagged]
Levels == [block : Blocks, at : Nat, span : Tokens, tag : Tokens \cup {Untagged}]

Token(str, p) == IF p < Len(str) THEN str[p + 1] ELSE Untagged

(* The level a start at p opens: what of the match the end-RE and          *)
(* sameTryLevel look at.                                                   *)
LevelAt(b, str, p) ==
  [block |-> b, at |-> p, span |-> Token(str, p),
   tag |-> IF b \notin Tagged THEN Untagged ELSE Token(str, IF b \in Ahead THEN p + 1 ELSE p)]

IsEnd(level, token) == level.block # Top /\ token \in Ends[level.block][level.tag]

(* The blocks that can start at p in a block begun at position start.      *)
StartsAt(block, str, p, start) ==
  {b \in Inside[block] : Token(str, p) \in Starts[b] /\ (b \in AtStart => p = start)}

Least(a, b) == IF a < b THEN a ELSE b

-----------------------------------------------------------------------------
(* Activations of colorize(): the level it is in, whether the end of that  *)
(* was found on the line, whether len is cut to it, and what searchBL      *)
(* keeps in locals while it runs.                                          *)

Bottom(level) ==
  [level |-> level, ended |-> FALSE, clipped |-> FALSE, old_line |-> 0,
   ResF |-> Nil, ResP |-> Nil, node |-> Nil, nodeP |-> Nil,
   old_matchend |-> [s |-> 0, e |-> 0], old_schemeStart |-> -1]

Current   == Last(frames)
Caller    == frames[Len(frames) - 1]
str       == text[line]
len       == IF Current.clipped THEN matchend.s ELSE Len(str)
hiLen == Least(matchend.s + maxBlockSize, len)
Idle      == pc = "idle"
Updating  == call.kind = "update"
Trying    == call.kind = "try"
NoCall    == [kind |-> "none", line |-> 0]

WithTop(f) == [frames EXCEPT ![Len(frames)] = f]

(* The head of the loop in parse(): the results below the place the parse  *)
(* goes on from are dropped, and colorize() is called for the parent.      *)
Trimmed(T, p, f, update) ==
  IF ~update THEN T ELSE IF f = Nil THEN dropChildren(T, p) ELSE dropNext(T, f)

Enter(T, p, f, update) ==
  /\ tree' = Trimmed(T, p, f, update)
  /\ parent' = p /\ forward' = f
  /\ frames' = <<Bottom(T[p].level)>>
  /\ stackLevel' = 1
  /\ pc' = "line"

(* parse(from, num, mode), up to its first call of colorize(). *)
parse(T, kind, from, num) ==
  LET s == IF kind = "off" THEN [found |-> RootId, forward |-> Nil, tree |-> T]
           ELSE searchLine(T, from)
  IN /\ call' = [kind |-> kind, line |-> from]
     /\ line' = from /\ stop' = from + num /\ gx' = 0
     /\ clearLine' = -1 /\ endLine' = from
     /\ schemeStart' = -1 /\ matchend' = [s |-> 0, e |-> 0]
     /\ filled' = FALSE /\ breakParsing' = FALSE /\ gone' = FALSE
     /\ handler' = <<>>
     /\ Enter(s.tree, s.found, s.forward, kind = "update")

-----------------------------------------------------------------------------
(* The client's calls.                                                     *)

Parse(kind, from, num) ==
  /\ Idle
  /\ from + num <= MaxLines
  /\ \/ kind = "update" /\ from = valid
     \/ kind = "read" /\ from <= valid
     \/ kind = "off" /\ from = 0
  /\ parse(tree, kind, from, num)
  /\ UNCHANGED <<client, tries>>

EditLine(l, c) ==
  /\ Idle /\ edits < MaxEdits
  /\ text' = [text EXCEPT ![l] = c]
  /\ edits' = edits + 1

(* modifyEvent: all from the line on is to be parsed again.                *)
ModifyLine(l, c) ==
  /\ EditLine(l, c)
  /\ valid' = Least(valid, l)
  /\ UNCHANGED <<tree, call, pc, frames, cursor, stop, clearLine, endLine, stackLevel,
                 parent, forward, filled, breakParsing, gone, handler, tries>>

(* tryParseLine: what the cache has for the next line, then a parse of the *)
(* line that keeps count of the blocks it leaves open.                     *)
TryParseLine(l, c) ==
  /\ EditLine(l, c)
  /\ l < valid
  /\ LET next == searchLine(tree, l + 1)
         here == searchLine(next.tree, l)
     IN /\ expected' = OpenLevels(tree, next.found)
        /\ tryStack' = OpenLevels(tree, here.found)
        /\ parse(here.tree, "try", l, 1)
  /\ tryMismatch' = FALSE
  /\ UNCHANGED valid

(* Another thread: parse() resets the flag when it begins.                 *)
BreakParse ==
  /\ Breaks /\ ~Idle
  /\ breakParsing' = TRUE
  /\ UNCHANGED <<client, tree, call, pc, frames, cursor, stop, clearLine, endLine, stackLevel,
                 parent, forward, filled, gone, handler, tries>>

-----------------------------------------------------------------------------
(* colorize().                                                             *)

(* A return from it, which its caller goes on from (pc "return").          *)
Leave == pc' = "return" /\ stackLevel' = stackLevel - 1

OutOfLines ==
  /\ pc = "line" /\ line >= stop
  /\ Leave
  /\ UNCHANGED <<client, tree, call, frames, cursor, stop, clearLine, endLine, parent, forward,
                 filled, breakParsing, gone, handler, tries>>

(* getLine returns null: the host has no such line any more, and will not  *)
(* have it for the rest of this parse.                                     *)
NullLine ==
  /\ pc = "line" /\ line < stop /\ clearLine # line
  /\ Vanishes
  /\ gone' = TRUE
  /\ clearLine' = -1 /\ endLine' = line
  /\ Leave
  /\ UNCHANGED <<client, tree, call, frames, cursor, stop, parent, forward, filled, breakParsing,
                 handler, tries>>

(* The schemes around the place a parse goes on from.                      *)
BlocksOf(levels) == [i \in DOMAIN levels |-> levels[i].block]
Mutant_fillInvisibleSchemes(n) == IF n = RootId THEN <<>> ELSE <<tree[n].level.block>>
fillInvisibleSchemes(n) == BlocksOf(OpenLevels(tree, n))

(* One turn of the loop, on a line not seen yet or from the middle of one: *)
(* how far the content goes at most, as the end-RE is found or not.        *)
StartLine ==
  LET level == Current.level
      ends  == {p \in gx .. Len(str) - 1 : IsEnd(level, Token(str, p))}
      at    == CHOOSE p \in ends : \A q \in ends : p <= q
      bound == Least(gx + maxBlockSize, Len(str))
  IN /\ pc = "line" /\ line < stop
     /\ clearLine = line \/ ~gone
     /\ clearLine' = line /\ endLine' = line
     /\ filled' = TRUE
     /\ handler' = IF filled THEN handler ELSE fillInvisibleSchemes(parent)
     /\ matchend' = IF ends = {} THEN [s |-> bound, e |-> bound] ELSE [s |-> at, e |-> at + 1]
     /\ frames' = WithTop([Current EXCEPT !.ended = ends # {},
                                          !.clipped = level.block \in LowContent])
     /\ pc' = "content"
     /\ UNCHANGED <<client, tree, call, gx, line, schemeStart, stop, stackLevel, parent, forward,
                    breakParsing, gone, tries>>

MutantLoop_MoreOfLine == chunkLongLines
MoreOfLine == chunkLongLines /\ gx < len

(* The turn of the loop is over: the block ends, the next window of a long *)
(* line or the next line follows.  A break leaves line at stop.            *)
EndLine(at) ==
  IF Current.ended
  THEN /\ schemeStart' = -1
       /\ IF Trying /\ Len(frames) = 1 /\ Current.level.block # Top
          THEN /\ tryMismatch' = (tryMismatch \/ tryStack = <<>>)
               /\ tryStack' = IF tryStack = <<>> THEN <<>> ELSE Front(tryStack)
          ELSE UNCHANGED <<tryStack, tryMismatch>>
       /\ line' = at
       /\ Leave
       /\ UNCHANGED gx
  ELSE /\ pc' = "line"
       /\ IF MoreOfLine
          THEN line' = at /\ UNCHANGED <<gx, schemeStart>>
          ELSE line' = at + 1 /\ gx' = 0 /\ schemeStart' = -1
       /\ UNCHANGED <<stackLevel, tryStack, tryMismatch>>

ContentOver ==
  /\ pc = "content" /\ gx > matchend.s
  /\ EndLine(line)
  /\ UNCHANGED <<client, tree, call, frames, matchend, stop, clearLine, endLine, parent, forward,
                 filled, breakParsing, gone, handler, expected>>

Broken ==
  /\ pc = "content" /\ gx <= matchend.s /\ breakParsing
  /\ EndLine(stop)
  /\ UNCHANGED <<client, tree, call, frames, matchend, stop, clearLine, endLine, parent, forward,
                 filled, breakParsing, gone, handler, expected>>

Searching == pc = "content" /\ gx <= matchend.s /\ ~breakParsing

(* searchBL, up to its call of colorize(): with the cache being updated a  *)
(* node is made for the block.  Too deep, that call comes back at once.    *)
MatchBlock ==
  LET found == StartsAt(Current.level.block, str, gx, schemeStart)
      b     == CHOOSE x \in found : TRUE
      level == LevelAt(b, str, gx)
      id    == FreeId(tree)
      top   == IF forward # Nil /\ parent = Nil THEN tree[forward].parent ELSE parent
  IN /\ Searching /\ gx < hiLen /\ found # {}
     /\ gx' = gx + 1 /\ schemeStart' = gx + 1
     /\ handler' = Append(handler, b)
     /\ tryStack' = IF Trying THEN Append(tryStack, level) ELSE tryStack
     /\ IF Updating
        THEN /\ tree' = Appended(tree, top, forward, id, NewNode(top, line + 1, level))
             /\ parent' = id /\ forward' = Nil
        ELSE UNCHANGED <<tree, parent, forward>>
     /\ frames' = Append(WithTop([Current EXCEPT !.clipped = FALSE]),
                         [Bottom(level) EXCEPT !.old_line = line,
                            !.ResF = forward, !.ResP = parent,
                            !.node = IF Updating THEN id ELSE Nil,
                            !.nodeP = IF Updating THEN top ELSE Nil,
                            !.old_matchend = matchend, !.old_schemeStart = schemeStart])
     /\ IF stackLevel > MaxLevel
        THEN pc' = "return" /\ UNCHANGED stackLevel
        ELSE pc' = "line" /\ stackLevel' = stackLevel + 1
     /\ UNCHANGED <<client, call, line, matchend, stop, clearLine, endLine, filled, breakParsing,
                    gone, expected, tryMismatch>>

(* searchRE, for a regexp that takes this token and the next: past the end *)
(* of the block that end is looked for again.                              *)
MatchRegexp ==
  /\ Searching /\ gx + 1 < hiLen
  /\ StartsAt(Current.level.block, str, gx, schemeStart) = {}
  /\ Token(str, gx) \in Wide
  /\ gx' = gx + 2
  /\ pc' = IF matchend.s < gx' THEN "line" ELSE "content"
  /\ frames' = WithTop([Current EXCEPT !.clipped = FALSE])
  /\ UNCHANGED <<client, tree, call, line, matchend, schemeStart, stop, clearLine, endLine,
                 stackLevel, parent, forward, filled, breakParsing, gone, handler, tries>>

MatchNothing ==
  /\ Searching
  /\ gx < hiLen => StartsAt(Current.level.block, str, gx, schemeStart) = {}
  /\ gx + 1 < hiLen => Token(str, gx) \notin Wide
  /\ gx' = gx + 1
  /\ frames' = WithTop([Current EXCEPT !.clipped = FALSE])
  /\ UNCHANGED <<client, tree, call, pc, line, matchend, schemeStart, stop, clearLine, endLine,
                 stackLevel, parent, forward, filled, breakParsing, gone, handler, tries>>

(* leaveScheme, for the block whose colorize() has returned.               *)
LeaveScheme == IF line < stop THEN Front(handler) ELSE handler

(* A block that is over, or left open at the end of the range.             *)
Mutant_Closed(T, n) == [T EXCEPT ![n].eline = line - 1]
Closed(T, n) == [T EXCEPT ![n].eline = line]

(* The levels tryParseLine counts, when a block is over: one that began on *)
(* an earlier line is counted where its end is found.                      *)
Mutant_TryLeft(oneLine) == tryStack
TryLeft(oneLine) ==
  IF Trying /\ oneLine /\ tryStack # <<>> THEN Front(tryStack) ELSE tryStack

(* searchBL after colorize(): a block within a line leaves the tree again, *)
(* and one that took nothing (too deep, at the end of the window) counts   *)
(* as no match.                                                            *)
BlockReturns ==
  LET f       == Current
      oneLine == f.old_line = line
      nothing == oneLine /\ matchend.e = f.level.at
  IN /\ pc = "return" /\ Len(frames) > 1
     /\ handler' = LeaveScheme
     /\ tryStack' = TryLeft(oneLine)
     /\ gx' = IF nothing THEN matchend.e + 1 ELSE matchend.e
     /\ matchend' = f.old_matchend /\ schemeStart' = f.old_schemeStart
     /\ IF ~Updating THEN UNCHANGED <<tree, parent, forward>>
        ELSE IF oneLine
        THEN /\ tree' = IF f.ResF # Nil THEN dropNext(tree, f.ResF) ELSE dropChildren(tree, f.ResP)
             /\ forward' = f.ResF /\ parent' = f.ResP
        ELSE /\ tree' = Closed(tree, f.node)
             /\ forward' = f.node /\ parent' = f.nodeP
     /\ frames' = Front(frames)
     /\ pc' = IF ~oneLine \/ (~nothing /\ f.old_matchend.s < gx') THEN "line" ELSE "content"
     /\ UNCHANGED <<client, call, line, stop, clearLine, endLine, stackLevel, filled, breakParsing,
                    gone, expected, tryMismatch>>

(* parse() after colorize(): the block it went on in ends, or is left open *)
(* at the end of the range, and the one around it follows.                 *)
ParentReturns ==
  LET ended == IF Updating THEN Closed(tree, parent) ELSE tree
  IN /\ pc = "return" /\ Len(frames) = 1 /\ parent # RootId
     /\ handler' = LeaveScheme
     /\ gx' = matchend.e
     /\ Enter(ended, tree[parent].parent, parent, Updating)
     /\ UNCHANGED <<client, call, line, matchend, schemeStart, stop, clearLine, endLine, filled,
                    breakParsing, gone, tries>>

(* sameTryLevel: the schemes, where and for a block with \y on what text   *)
(* its start matched.                                                      *)
Mutant_sameTryLevel(a, b) == a.block = b.block
sameTryLevel(a, b) ==
  /\ a.block = b.block
  /\ a.block \in Tagged => a.span = b.span
  /\ a.at = b.at

Mutant_Unchanged ==
  /\ ~tryMismatch
  /\ \A i \in DOMAIN expected \cap DOMAIN tryStack : sameTryLevel(tryStack[i], expected[i])
Unchanged ==
  /\ ~tryMismatch
  /\ Len(tryStack) = Len(expected)
  /\ \A i \in DOMAIN expected : sameTryLevel(tryStack[i], expected[i])

Mutant_FirstInvalid == endLine + 2
FirstInvalid == endLine + 1

(* parse() returns endLine, and the client knows what is valid.            *)
ParseReturns ==
  /\ pc = "return" /\ Len(frames) = 1 /\ parent = RootId
  /\ valid' = IF Updating THEN FirstInvalid
              ELSE IF Trying /\ ~Unchanged THEN call.line ELSE valid
  /\ pc' = "idle" /\ call' = NoCall
  /\ frames' = <<>> /\ parent' = Nil /\ forward' = Nil /\ stackLevel' = 0
  /\ gx' = 0 /\ line' = 0 /\ stop' = 0 /\ clearLine' = -1 /\ endLine' = 0
  /\ schemeStart' = -1 /\ matchend' = [s |-> 0, e |-> 0]
  /\ filled' = FALSE /\ breakParsing' = FALSE /\ gone' = FALSE /\ handler' = <<>>
  /\ expected' = <<>> /\ tryStack' = <<>> /\ tryMismatch' = FALSE
  /\ UNCHANGED <<text, edits, tree>>

-----------------------------------------------------------------------------
Init ==
  /\ text \in [Lines -> Contents] /\ edits = 0 /\ valid = 0
  /\ tree = InitTree(None)
  /\ call = NoCall /\ pc = "idle" /\ frames = <<>>
  /\ gx = 0 /\ line = 0 /\ stop = 0 /\ clearLine = -1 /\ endLine = 0
  /\ matchend = [s |-> 0, e |-> 0] /\ schemeStart = -1 /\ stackLevel = 0
  /\ parent = Nil /\ forward = Nil
  /\ filled = FALSE /\ breakParsing = FALSE /\ gone = FALSE
  /\ handler = <<>> /\ expected = <<>> /\ tryStack = <<>> /\ tryMismatch = FALSE

Client ==
  \/ \E kind \in {"update", "read", "off"}, from \in Lines, num \in 1 .. MaxLines :
       Parse(kind, from, num)
  \/ \E l \in Lines, c \in Contents : ModifyLine(l, c) \/ TryParseLine(l, c)

Parser ==
  \/ OutOfLines \/ NullLine \/ StartLine
  \/ ContentOver \/ Broken
  \/ MatchBlock \/ MatchRegexp \/ MatchNothing
  \/ BlockReturns \/ ParentReturns \/ ParseReturns

Next == Client \/ BreakParse \/ Parser

Spec     == Init /\ [][Next]_vars
FairSpec == Spec /\ WF_vars(Parser)   \* the thread that called parse() runs on
-----------------------------------------------------------------------------
(* What a line does, by the meaning of the grammar: token by token, with   *)
(* the levels open and whether the next token is spoken for.  A start and  *)
(* a regexp go before an end, and what a regexp takes cannot end a block.  *)

Opened(level, start) == [level |-> level, start |-> start]
Innermost(open) == IF open = <<>> THEN Opened(None, -1) ELSE Last(open)

AfterToken(st, s, p) ==
  LET in    == Innermost(st.open)
      found == StartsAt(in.level.block, s, p, in.start)
  IN IF st.taken THEN [st EXCEPT !.taken = FALSE]
     ELSE IF found # {}
     THEN [st EXCEPT !.open = Append(@, Opened(LevelAt(CHOOSE b \in found : TRUE, s, p), p + 1))]
     ELSE IF Token(s, p) \in Wide /\ p + 1 < Len(s) THEN [st EXCEPT !.taken = TRUE]
     ELSE IF IsEnd(in.level, Token(s, p)) THEN [st EXCEPT !.open = Front(@)]
     ELSE st

(* The levels open at place p of line s, entered with levels open.         *)
ScanTo(levels, s, p) ==
  LET scan[q \in 0 .. Len(s)] ==
        IF q = 0 THEN [open |-> [i \in DOMAIN levels |-> Opened(levels[i], -1)], taken |-> FALSE]
        ELSE AfterToken(scan[q - 1], s, q - 1)
      open == scan[p].open
  IN [i \in DOMAIN open |-> open[i].level]

ScanLine(levels, s) == ScanTo(levels, s, Len(s))

TrueLevels[l \in 0 .. MaxLines] ==
  IF l = 0 THEN <<>> ELSE ScanLine(TrueLevels[l - 1], text[l - 1])

(* What of the levels the text below depends on.                           *)
Meaning(levels) ==
  [i \in DOMAIN levels |-> [block |-> levels[i].block, tag |-> levels[i].tag]]

CachedLevels(l) == OpenLevels(tree, searchLine(tree, l).found)

(* The lines the client takes for parsed, above one that is being tried.   *)
Known == IF Trying THEN Least(valid, call.line) ELSE valid

-----------------------------------------------------------------------------
(* Properties.                                                             *)

(* Every variable has its type.                                            *)
TypeOK ==
  /\ text \in [Lines -> Contents] /\ edits \in 0 .. MaxEdits
  /\ valid \in 0 .. MaxLines
  /\ \A n \in DOMAIN tree :
       /\ tree[n].parent \in DOMAIN tree \cup {Nil} /\ tree[n].sline \in 0 .. MaxLines
       /\ tree[n].eline \in 0 .. MaxLines + 1 \cup {Unended}
       /\ tree[n].level \in Levels \cup {None}
  /\ call \in [kind : {"none", "update", "read", "off", "try"}, line : Lines]
  /\ pc \in {"idle", "line", "content", "return"}
  /\ \A i \in DOMAIN frames : frames[i].level \in Levels \cup {None}
  /\ gx \in Nat /\ line \in 0 .. MaxLines + 1 /\ stop \in 0 .. MaxLines
  /\ clearLine \in -1 .. MaxLines /\ endLine \in 0 .. MaxLines
  /\ parent \in DOMAIN tree \cup {Nil} /\ forward \in DOMAIN tree \cup {Nil}
  /\ filled \in BOOLEAN /\ breakParsing \in BOOLEAN /\ gone \in BOOLEAN
  /\ stackLevel \in 0 .. MaxLevel + 1
  /\ handler \in Seq(Blocks)
  /\ tryStack \in Seq(Levels) /\ expected \in Seq(Levels) /\ tryMismatch \in BOOLEAN

(* No node is lost or freed while something still refers to it: the kids,  *)
(* the parents and the search cursors of the tree, and the nodes the call  *)
(* in progress stands on (dropNext, dropChildren, searchBL).               *)
NothingDangles ==
  /\ Linked(tree)
  /\ \A i \in DOMAIN frames :
       {frames[i].ResF, frames[i].ResP, frames[i].node, frames[i].nodeP} \subseteq DOMAIN tree \cup {Nil}

(* Between calls siblings are in order and do not overlap, so a search     *)
(* finds the deepest block over a line from wherever its cursors stand:    *)
(* what the header says of searchLine.                                     *)
CacheOrdered == Idle => Ordered(tree) /\ \A l \in Lines : FindsDeepest(tree, l)

(* For every line the client takes for parsed the tree has the blocks that *)
(* are open at its start, with all their ends depend on: however the text  *)
(* was cut into calls, read, edited and tried since, and also while a call *)
(* is rebuilding what lies below.                                          *)
CacheTrue ==
  \A l \in 0 .. Known : Meaning(CachedLevels(l)) = Meaning(TrueLevels[l])

(* At every place of every line, in whatever mode and from whatever line   *)
(* it is parsed, the region handler is in the schemes that are open there. *)
HandlerInScheme ==
  (pc = "content" /\ gx <= matchend.s) =>
    handler = BlocksOf(ScanTo(TrueLevels[line], str, gx))

(* A parse that comes to a line it need not learn about is in the schemes  *)
(* the tree has for the line: the results do not depend on the calls they  *)
(* were got by.                                                            *)
RereadAgrees ==
  (pc = "line" /\ call.kind = "read" /\ filled /\ clearLine # line /\ line < stop /\ line <= valid)
  => handler = BlocksOf(CachedLevels(line))

(* What the content of a content-priority="low" block takes ends before    *)
(* the block does.                                                         *)
LowContentInBlock ==
  \A i \in DOMAIN frames :
    (i = Len(frames) /\ pc = "line" /\ clearLine = line /\ ~gone
       /\ frames[i].level.block \in LowContent /\ frames[i].ended)
    => gx <= matchend.s

(* An edit that leaves the blocks below as they were is seen to: the text  *)
(* below is not given up.                                                  *)
TryAccepts ==
  [][(ParseReturns /\ Trying
      /\ [i \in DOMAIN expected |-> [expected[i] EXCEPT !.tag = Untagged]]
         = [i \in DOMAIN TrueLevels[call.line + 1] |->
              [TrueLevels[call.line + 1][i] EXCEPT !.tag = Untagged]])
     => valid' = valid]_vars

(* Every call comes to an end.                                             *)
ParseEnds == []<>Idle

-----------------------------------------------------------------------------
(* The parser as an incremental parse.                                     *)

Stacks == Seq([block : Blocks, tag : Tokens \cup {Untagged}])
AsLevels(stack) ==
  [i \in DOMAIN stack |-> [None EXCEPT !.block = stack[i].block, !.tag = stack[i].tag]]

(* The blocks open after a line, and those the cache has for the lines     *)
(* known.                                                                  *)
AfterLine ==
  [g \in {Top} |-> [e \in Stacks \X Contents |-> Meaning(ScanLine(AsLevels(e[1]), e[2]))]]
KnownStacks == [l \in 0 .. Known |-> Meaning(CachedLevels(l))]

Incremental ==
  INSTANCE LineStacks WITH
    grammar <- Top, Grammars <- {Top}, NoGrammar <- Untagged, States <- Stacks, Root <- <<>>,
    Scan <- AfterLine, stacks <- KnownStacks

(* parse() and tryParseLine keep the cache an incremental parse of the     *)
(* text: results are learnt for lines below the known ones, each from the  *)
(* line before, and given up where the text changed.                       *)
IsIncrementalParse == Incremental!Spec
=============================================================================

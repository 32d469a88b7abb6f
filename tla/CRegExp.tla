------------------------------- MODULE CRegExp ------------------------------
(***************************************************************************)
(* The matcher of regular expressions (CRegExp, src/colorer/cregexp): one  *)
(* object that is given expressions by setRE and lines by parse.           *)
(*                                                                         *)
(* lowParse walks the tree and backtracks with a stack of its own.  What   *)
(* it knows of a loop - how often it must and may still go round, where    *)
(* the last round began - it keeps in the node, not on the stack, so that  *)
(* going back to a place does not bring back what the node held there.     *)
(*                                                                         *)
(* Positions are the code's: from 0, str[t + 1] is the character at t.     *)
(***************************************************************************)
EXTENDS RegExpFacts

CONSTANTS
  Patterns,     \* the expressions given to setRE: [source, parses], the calls made on it
  Back,         \* what \y refers to: [str, s, e, ns, ne, names]
  StepLimit     \* parseStepLimit

ASSUME LimitAssumption == StepLimit \in Nat \ {0}

VARIABLES
  self,         \* what was compiled: the tree, its nodes by path, the facts
  reg,          \* the nodes' s (where a group began), param0, param1, oldParse
  call,         \* the arguments of parse: [str, pos, eol, soscheme, moves, masked]
  phase,        \* "idle", "search" (parseRE), "match" (lowParse), "done"
  pos,          \* the offset parseRE has come to
  low,          \* the locals of lowParse: [re, toParse, leftenter, action]
  stack,        \* RegExpStack up to count_elem
  matches, startChange, endChange,
  steps,        \* parseSteps
  found         \* what parse returned

object == <<self, call>>
inMatch == <<matches, startChange, endChange>>
vars == <<self, reg, call, phase, pos, low, stack, matches, startChange, endChange,
          steps, found>>

-----------------------------------------------------------------------------
(* What setRE makes of an expression.  A failed one leaves no facts.       *)
Compile(p) ==
  LET flags == Patterns[p].source.flags
      tree == setRELow(Patterns[p].source, [set |-> TRUE, names |-> Back.names])
  IN [source |-> p, err |-> tree.err, flags |-> flags, chain |-> tree.chain,
      groups |-> tree.done.groups, names |-> tree.done.names, nodes |-> Nodes(tree.chain),
      facts |-> IF tree.err = "EOK" THEN optimize(tree.chain, flags) ELSE NoFacts]

Unset == [source |-> 0, err |-> "EERROR", flags |-> {}, chain |-> <<>>, groups |-> 0,
          names |-> <<>>, nodes |-> <<>>, facts |-> NoFacts]

Facts == self.facts
Flag(f) == f \in self.flags

Groups == 0 .. MATCHES_NUM - 1
NamedGroups == 0 .. NAMED_MATCHES_NUM - 1
NoMatches == [s |-> [g \in Groups |-> -1], e |-> [g \in Groups |-> -1],
              ns |-> [g \in NamedGroups |-> -1], ne |-> [g \in NamedGroups |-> -1]]

NoReg == [s |-> 0, param0 |-> 0, param1 |-> 0, oldParse |-> 0]
NoCall == [str |-> <<>>, pos |-> 0, eol |-> 0, soscheme |-> 0, moves |-> FALSE, masked |-> FALSE]
Null == <<>>
AtRoot(t) == [re |-> <<1>>, toParse |-> t, leftenter |-> TRUE, action |-> "None"]

Init ==
  /\ self = Unset /\ reg = <<>> /\ call = NoCall
  /\ phase = "idle" /\ pos = 0 /\ low = AtRoot(0) /\ stack = <<>>
  /\ matches = NoMatches /\ startChange = FALSE /\ endChange = FALSE
  /\ steps = 0 /\ found = FALSE

setRE(p) ==
  /\ phase = "idle"
  /\ self' = Compile(p)
  /\ reg' = [path \in DOMAIN self'.nodes |-> NoReg]
  /\ startChange' = FALSE /\ endChange' = FALSE
  /\ UNCHANGED <<call, phase, pos, low, stack, matches, steps, found>>

-----------------------------------------------------------------------------
(* Characters of the line.                                                 *)
end == call.eol
At(t) == call.str[t + 1]
Line == ToSet(call.str)
matchChars(one, another) == one \in Same(another, Flag("i"))

IsWordAt(t) == t \in 0 .. end - 1 /\ At(t) \in WordChars
isWordBoundary(t) == IsWordAt(t) # (t > 0 /\ At(t - 1) \in WordChars)

Fails == -1

(* Where a meta symbol ends that begins at t, Fails if it does not match.  *)
checkMetaSymbol(meta, t) ==
  LET When(holds) == IF holds THEN t ELSE Fails IN
  CASE meta \in OneCharMetas ->
         IF t < end /\ At(t) \in MetaClass(meta, Flag("s")) THEN t + 1 ELSE Fails
    [] meta = "SoL" -> When(t = 0 \/ (Flag("m") /\ At(t - 1) \in LineBreaks))
    [] meta = "EoL" -> When(t = end \/ (Flag("m") /\ t \in 1 .. end - 1 /\ At(t - 1) \in LineBreaks))
    [] meta = "WBound" -> When(isWordBoundary(t))
    [] meta = "NWBound" -> When(~isWordBoundary(t))
    [] meta = "PreNW" -> When(t = 0 \/ t >= end \/ At(t - 1) \notin Letters)
    [] meta = "SoScheme" -> When(call.soscheme = t)

(* Where the text from .. to - 1 of src ends when it stands at t as well.  *)
matchCopiedRange(src, from, to, t, icase) ==
  CASE from < 0 \/ to < 0 \/ from >= to -> t
    [] t + (to - from) > end -> Fails
    [] \E k \in 0 .. to - from - 1 : src[from + k + 1] \notin Same(At(t + k), icase) -> Fails
    [] OTHER -> t + (to - from)

(* A group of this match, that must have matched.                          *)
BackBracket(count, s, e, g, t) ==
  IF g >= count \/ s[g] = -1 \/ e[g] = -1 THEN Fails
  ELSE matchCopiedRange(call.str, s[g], e[g], t, FALSE)

(* A group of the match of another expression.  Only \Y{name} fails when   *)
(* that one has not matched.                                               *)
BackTrace(op, g, t) ==
  CASE op = "BkTrace" -> matchCopiedRange(Back.str, Back.s[g], Back.e[g], t, FALSE)
    [] op = "BkTraceN" -> matchCopiedRange(Back.str, Back.s[g], Back.e[g], t, TRUE)
    [] op = "BkTraceName" -> matchCopiedRange(Back.str, Back.ns[g], Back.ne[g], t, FALSE)
    [] op = "BkTraceNName" ->
         IF Len(Back.names) <= g \/ Back.ns[g] = -1 \/ Back.ne[g] = -1 THEN Fails
         ELSE matchCopiedRange(Back.str, Back.ns[g], Back.ne[g], t, TRUE)

Atoms == {"Empty", "Symb", "MetaSymb", "Word", "Enum", "BkBrack", "BkBrackName",
          "BkTrace", "BkTraceN", "BkTraceName", "BkTraceNName"}

AtomEnd(n, t) ==
  CASE n.op = "Empty" -> t
    [] n.op = "Symb" -> IF t < end /\ matchChars(At(t), n.v) THEN t + 1 ELSE Fails
    [] n.op = "Enum" -> IF t < end /\ At(t) \in n.v THEN t + 1 ELSE Fails
    [] n.op = "Word" ->
         IF /\ t + Len(n.v) <= end
            /\ \A k \in DOMAIN n.v : matchChars(At(t + k - 1), n.v[k])
         THEN t + Len(n.v) ELSE Fails
    [] n.op = "MetaSymb" -> checkMetaSymbol(n.v, t)
    [] n.op = "BkBrack" -> BackBracket(self.groups, matches.s, matches.e, n.v, t)
    [] n.op = "BkBrackName" -> BackBracket(Len(self.names), matches.ns, matches.ne, n.v, t)
    [] OTHER -> BackTrace(n.op, n.v, t)

-----------------------------------------------------------------------------
(* parse: what can be told without the matcher, then one place to begin    *)
(* after the other.                                                        *)
ReturnWith(result) == phase' = "done" /\ found' = result

MaskRejects(t) == t < end /\ At(t) \in Ascii \ Facts.firstMask

quickCheck(n, t) ==
  CASE n.op \in {"Symb", "Word"} ->
         t < end /\ matchChars(At(t), IF n.op = "Word" THEN n.v[1] ELSE n.v)
    [] n.op = "Enum" -> t < end /\ At(t) \in n.v
    [] n.op = "MetaSymb" /\ n.v \notin {"Start", "End"} -> checkMetaSymbol(n.v, t) # Fails
    [] OTHER -> TRUE

(* No match begins at t by its first character.                            *)
CannotBegin(t) ==
  \/ Facts.maskUseful /\ (t >= end \/ MaskRejects(t))
  \/ Facts.firstNode # NoNode /\ ~quickCheck(Facts.firstNode, t)

WrongStart(pos0, soscheme) ==
  \/ Facts.startAnchor = "LineStart" /\ pos0 # 0
  \/ Facts.startAnchor = "SchemeStart" /\ pos0 # soscheme

Lacks(line) == \E set \in Facts.required : set \cap line = {}

(* What TextParser asks before it calls parse.                             *)
canStartWith(c) ==
  LET n == Facts.firstNode IN
  CASE Facts.maskUseful /\ c \in Ascii -> c \in Facts.firstMask
    [] n.op = "Symb" -> matchChars(c, n.v)
    [] n.op = "Word" -> matchChars(c, n.v[1])
    [] n.op = "Enum" -> c \in n.v
    [] n.op = "MetaSymb" /\ n.v \in OneCharMetas -> c \in MetaClass(n.v, Flag("s"))
    [] OTHER -> TRUE

mayMatch(pos0, eol, soscheme, moves, line) ==
  /\ ~WrongStart(pos0, soscheme)
  /\ ~(Facts.endAnchor /\ Facts.maxLen # Unbounded /\ ~moves /\ eol - pos0 > Facts.maxLen)
  /\ ~Lacks(line)

(* matches and the locals are new in each call; the object is not.  Only   *)
(* TextParser gives it the mask of the line's characters.                  *)
parse(args) ==
  /\ phase \in {"idle", "done"} /\ self # Unset
  /\ call' = args /\ phase' = "begin"
  /\ found' = FALSE /\ pos' = 0 /\ low' = AtRoot(0) /\ matches' = NoMatches
  /\ UNCHANGED <<self, reg, stack, steps, startChange, endChange>>

parseRE ==
  /\ phase = "begin"
  /\ startChange' = FALSE /\ endChange' = FALSE /\ stack' = <<>> /\ steps' = 0
  /\ LET start == IF /\ Facts.endAnchor /\ Facts.maxLen # Unbounded /\ call.moves
                     /\ Facts.startAnchor = "None" /\ end - Facts.maxLen > call.pos
                  THEN end - Facts.maxLen ELSE call.pos
         useless == \/ self.err # "EOK"
                    \/ call.masked /\ Lacks(Line)
                    \/ WrongStart(call.pos, call.soscheme)
                    \/ Facts.endAnchor /\ Facts.maxLen # Unbounded /\ end - start > Facts.maxLen
                    \/ ~call.moves /\ CannotBegin(start)
     IN IF useless THEN ReturnWith(FALSE) /\ UNCHANGED <<pos, matches>>
        ELSE pos' = start /\ matches' = NoMatches /\ phase' = "search" /\ UNCHANGED found
  /\ UNCHANGED object /\ UNCHANGED <<reg, low>>

(* The next place, if there is one.                                        *)
NextPlace ==
  IF call.moves /\ Facts.startAnchor = "None" /\ pos + 1 <= end
  THEN phase' = "search" /\ pos' = pos + 1 /\ UNCHANGED found
  ELSE ReturnWith(FALSE) /\ UNCHANGED pos

TryPlace ==
  /\ phase = "search"
  /\ IF call.moves /\ CannotBegin(pos) THEN NextPlace /\ UNCHANGED low /\ UNCHANGED inMatch
     ELSE /\ phase' = "match" /\ low' = AtRoot(pos)
          /\ matches' = NoMatches /\ startChange' = FALSE /\ endChange' = FALSE
          /\ UNCHANGED <<pos, found>>
  /\ UNCHANGED object /\ UNCHANGED <<reg, stack, steps>>

-----------------------------------------------------------------------------
(* The stack.  An element says where to go on and what to do there, when   *)
(* what was begun after it succeeds and when it fails.                     *)
NodeAt(path) == self.nodes[path]
NextOf(path) == [path EXCEPT ![Len(path)] = @ + 1]
HasNext(path) == NextOf(path) \in DOMAIN self.nodes
ParamOf(path) == Append(path, 1)
LastOf(path) ==
  CHOOSE p \in DOMAIN self.nodes : /\ Len(p) = Len(path) /\ Front(p) = Front(path)
                                    /\ p[Len(p)] >= path[Len(path)] /\ ~HasNext(p)

Place(re, t, leftenter) == [re |-> re, toParse |-> t, leftenter |-> leftenter, action |-> "None"]
Into(path, t) == Place(ParamOf(path), t, TRUE)
Onward(path, t) ==
  IF HasNext(path) THEN Place(NextOf(path), t, TRUE) ELSE Place(Front(path), t, FALSE)

check_stack(result) ==
  IF stack = <<>>
  THEN low' = [low EXCEPT !.action = IF result THEN "True" ELSE "False"] /\ UNCHANGED stack
  ELSE /\ low' = [Last(stack).back EXCEPT !.action = IF result THEN Last(stack).ifTrue
                                                     ELSE Last(stack).ifFalse]
       /\ stack' = Front(stack)

insert_stack(ifTrue, ifFalse, place) ==
  /\ stack' = Append(stack, [back |-> [low EXCEPT !.action = "None"],
                             ifTrue |-> ifTrue, ifFalse |-> ifFalse])
  /\ low' = place

Goto(place) == low' = place /\ UNCHANGED stack

-----------------------------------------------------------------------------
(* lowParse, a turn of its inner loop at a time.                           *)
Turn(action) ==
  /\ phase = "match" /\ steps < StepLimit /\ low.action = action
  /\ steps' = steps + 1
  /\ UNCHANGED object /\ UNCHANGED pos

Visit(ops) == Turn("None") /\ low.re # Null /\ NodeAt(low.re).op \in ops /\ UNCHANGED <<phase, found>>

Here == NodeAt(low.re)
Held == reg[low.re]

EnterBrackets ==
  /\ Visit({"Brackets", "NamedBrackets"}) /\ low.leftenter
  /\ reg' = [reg EXCEPT ![low.re].s = low.toParse]
  /\ Goto(Into(low.re, low.toParse))
  /\ UNCHANGED inMatch

(* A group may seem to end before it began: \m and \M move group 0, and     *)
(* where a group began is not brought back when a longer round is undone.  *)
LeaveBrackets ==
  /\ Visit({"Brackets", "NamedBrackets"}) /\ ~low.leftenter
  /\ LET g == Here.v
         whole == Here.op = "Brackets" /\ g = 0
         e == IF whole /\ endChange THEN matches.e[0] ELSE low.toParse
         began == IF whole /\ startChange THEN matches.s[0] ELSE Held.s
         s == IF e < began THEN e ELSE began
     IN matches' = CASE g = NoGroup -> matches
                     [] Here.op = "Brackets" -> [matches EXCEPT !.s[g] = s, !.e[g] = e]
                     [] OTHER -> [matches EXCEPT !.ns[g] = s, !.ne[g] = e]
  /\ Goto(Onward(low.re, low.toParse))
  /\ UNCHANGED <<reg, startChange, endChange>>

MatchAtom ==
  /\ Visit(Atoms) /\ ~(Here.op = "MetaSymb" /\ Here.v \in {"Start", "End"})
  /\ LET t == AtomEnd(Here, low.toParse)
     IN IF t = Fails THEN check_stack(FALSE) ELSE Goto(Onward(low.re, t))
  /\ UNCHANGED reg /\ UNCHANGED inMatch

MoveStart ==        \* \m
  /\ Visit({"MetaSymb"}) /\ Here.v = "Start"
  /\ matches' = [matches EXCEPT !.s[0] = low.toParse] /\ startChange' = TRUE
  /\ Goto(Onward(low.re, low.toParse))
  /\ UNCHANGED <<reg, endChange>>

MoveEnd ==          \* \M
  /\ Visit({"MetaSymb"}) /\ Here.v = "End"
  /\ matches' = [matches EXCEPT !.e[0] = low.toParse] /\ endChange' = TRUE
  /\ Goto(Onward(low.re, low.toParse))
  /\ UNCHANGED <<reg, startChange>>

LookAround ==
  /\ Visit(LookArounds)
  /\ LET from == low.toParse - (IF Here.op \in {"Behind", "NBehind"} THEN Here.v ELSE 0)
         wanted == Here.op \in {"Ahead", "Behind"}
     IN CASE ~low.leftenter -> check_stack(TRUE)
          [] low.leftenter /\ from < 0 ->
               IF wanted THEN check_stack(FALSE) ELSE Goto(Onward(low.re, low.toParse))
          [] OTHER -> insert_stack(IF wanted THEN "Break" ELSE "False",
                                   IF wanted THEN "False" ELSE "Break", Into(low.re, from))
  /\ UNCHANGED reg /\ UNCHANGED inMatch

Alternative ==
  /\ Visit({"Or"})
  /\ CASE ~low.leftenter -> Goto(Onward(LastOf(low.re), low.toParse))
       [] low.leftenter /\ low.toParse < end
            /\ BranchSkipped(Here, At(low.toParse), self.flags) -> Goto(Onward(low.re, low.toParse))
       [] OTHER -> insert_stack("True", "Break", Into(low.re, low.toParse))
  /\ UNCHANGED reg /\ UNCHANGED inMatch

(* Not reset when the loop is entered; reset at every round.               *)
Mutant_AtLoop ==
  IF low.leftenter THEN [Held EXCEPT !.param0 = Here.lo, !.param1 = Here.hi - Here.lo] ELSE Held
MutantFree_AtLoop ==
  IF low.leftenter THEN [Held EXCEPT !.param0 = Here.lo, !.param1 = Here.hi - Here.lo, !.oldParse = -1]
  ELSE [Held EXCEPT !.oldParse = -1]

(* What a loop holds when it is come to, from the left or from a round.    *)
AtLoop ==
  IF low.leftenter
  THEN [Held EXCEPT !.param0 = Here.lo, !.oldParse = -1,
                    !.param1 = IF Here.hi = Unbounded THEN @ ELSE Here.hi - Here.lo]
  ELSE Held

(* {s,} and {s,}?: a round that took nothing is the last.                  *)
OpenLoop ==
  /\ Visit({"RangeN", "NGRangeN"})
  /\ LET at == AtLoop
         round == [at EXCEPT !.oldParse = low.toParse]
     IN CASE at.param0 = 0 /\ at.oldParse = low.toParse ->
               reg' = [reg EXCEPT ![low.re] = at] /\ Goto(Onward(low.re, low.toParse))
          [] at.param0 > 0 ->
               /\ reg' = [reg EXCEPT ![low.re] = [round EXCEPT !.param0 = @ - 1]]
               /\ Goto(Into(low.re, low.toParse))
          [] OTHER ->
               /\ reg' = [reg EXCEPT ![low.re] = round]
               /\ IF Here.op = "RangeN"
                  THEN insert_stack("True", "RangeN_step2", Into(low.re, low.toParse))
                  ELSE insert_stack("True", "NGRangeN_step2", Onward(low.re, low.toParse))
  /\ UNCHANGED inMatch

(* {s,e} and {s,e}?                                                        *)
BoundedLoop ==
  /\ Visit({"RangeNM", "NGRangeNM"})
  /\ LET at == AtLoop
     IN CASE at.param0 > 0 ->
               /\ reg' = [reg EXCEPT ![low.re] = [at EXCEPT !.param0 = @ - 1]]
               /\ Goto(Into(low.re, low.toParse))
          [] at.param0 = 0 /\ at.param1 = 0 ->
               /\ reg' = [reg EXCEPT ![low.re] = at]
               /\ insert_stack("True", "False", Onward(low.re, low.toParse))
          [] OTHER ->
               /\ reg' = [reg EXCEPT ![low.re] = [at EXCEPT !.param1 = @ - 1]]
               /\ IF Here.op = "RangeNM"
                  THEN insert_stack("True", "RangeNM_step2", Into(low.re, low.toParse))
                  ELSE insert_stack("True", "NGRangeNM_step2", Onward(low.re, low.toParse))
  /\ UNCHANGED inMatch

-----------------------------------------------------------------------------
(* What an element of the stack asks for.                                  *)
Unwind ==
  /\ \E result \in BOOLEAN :
       /\ Turn(IF result THEN "True" ELSE "False") /\ stack # <<>>
       /\ check_stack(result)
  /\ UNCHANGED <<phase, found, reg>> /\ UNCHANGED inMatch

(* With nothing on the stack that is what lowParse returns.                *)
Matched ==
  /\ Turn("True") /\ stack = <<>>
  /\ ReturnWith(TRUE)
  /\ UNCHANGED <<reg, low, stack>> /\ UNCHANGED inMatch

NotMatched ==
  /\ phase = "match" /\ steps < StepLimit /\ low.action = "False" /\ stack = <<>>
  /\ steps' = steps + 1
  /\ NextPlace
  /\ UNCHANGED object /\ UNCHANGED <<reg, low, stack>> /\ UNCHANGED inMatch

GoOn ==             \* rea_Break
  /\ Turn("Break")
  /\ Goto(Onward(low.re, low.toParse))
  /\ UNCHANGED <<phase, found, reg>> /\ UNCHANGED inMatch

(* The second way out of a loop, its first having failed.                  *)
LeaveLoop ==
  /\ \/ Turn("RangeN_step2") /\ insert_stack("True", "False", Onward(low.re, low.toParse))
     \/ Turn("RangeNM_step2") /\ insert_stack("True", "RangeNM_step3", Onward(low.re, low.toParse))
  /\ UNCHANGED <<phase, found, reg>> /\ UNCHANGED inMatch

AnotherRound ==
  /\ \/ /\ Turn("NGRangeN_step2")
        /\ reg' = [reg EXCEPT ![low.re].param0 = IF @ > 0 THEN @ - 1 ELSE @]
        /\ Goto(Into(low.re, low.toParse))
     \/ /\ Turn("NGRangeNM_step2") /\ UNCHANGED reg
        /\ insert_stack("True", "NGRangeNM_step3", Into(low.re, low.toParse))
  /\ UNCHANGED <<phase, found>> /\ UNCHANGED inMatch

GiveRoundBack ==
  /\ \E action \in {"RangeNM_step3", "NGRangeNM_step3"} : Turn(action)
  /\ reg' = [reg EXCEPT ![low.re].param1 = @ + 1]
  /\ check_stack(FALSE)
  /\ UNCHANGED <<phase, found>> /\ UNCHANGED inMatch

(* Past the root: everything has matched.                                  *)
PastRoot ==
  /\ phase = "match" /\ low.re = Null /\ low.action = "None"
  /\ check_stack(TRUE)
  /\ UNCHANGED object /\ UNCHANGED <<reg, phase, pos, steps, found>> /\ UNCHANGED inMatch

Exceeded ==
  /\ phase = "match" /\ steps = StepLimit /\ ~(low.re = Null /\ low.action = "None")
  /\ steps' = steps + 1 /\ ReturnWith(FALSE)
  /\ UNCHANGED object /\ UNCHANGED <<reg, pos, low, stack>> /\ UNCHANGED inMatch

stepBudgetExceeded == steps > StepLimit

lowParse ==
  \/ EnterBrackets \/ LeaveBrackets \/ MatchAtom \/ MoveStart \/ MoveEnd \/ LookAround
  \/ Alternative \/ OpenLoop \/ BoundedLoop \/ Unwind \/ Matched \/ NotMatched \/ GoOn
  \/ LeaveLoop \/ AnotherRound \/ GiveRoundBack \/ PastRoot \/ Exceeded

Next ==
  \/ \E p \in DOMAIN Patterns : self = Unset /\ setRE(p)
  \/ self # Unset /\ \E args \in Patterns[self.source].parses : parse(args)
  \/ parseRE \/ TryPlace \/ lowParse

Spec == Init /\ [][Next]_vars /\ WF_vars(parseRE \/ TryPlace \/ lowParse)
=============================================================================

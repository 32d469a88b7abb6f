---------------------------- MODULE RegExpFacts -----------------------------
(***************************************************************************)
(* What CRegExp finds out about a tree when it is compiled (optimize,      *)
(* src/colorer/cregexp/cregexp.cpp), to tell places apart where a match    *)
(* cannot begin without running the matcher.  A mask is a set of ASCII     *)
(* characters.                                                             *)
(***************************************************************************)
EXTENDS RegExpTree, Characters, FiniteSets

CONSTANT MAX_REQUIRED_SETS

Useful(mask) == mask # Ascii

-----------------------------------------------------------------------------
(* The first characters of a match (analyzeFirstChars), and whether it may *)
(* begin with something that takes none.                                   *)
FirstChars(mask, nullable) == [mask |-> mask \cap Ascii, nullable |-> nullable]

(* Under i the other case of an ASCII letter is added; a character that is *)
(* not ASCII adds nothing.                                                 *)
Mutant_addFirstChar(c, ignoreCase) == {c} \cap Ascii      \* in the case it is written
addFirstChar(c, ignoreCase) ==
  IF c \notin Ascii THEN {} ELSE {c} \cup (Same(c, ignoreCase) \cap Ascii)

RECURSIVE firstCharsForNode(_, _, _), analyzeFirstChars(_, _, _)

firstCharsForNode(chain, i, flags) ==
  LET n == chain[i]
      inner == analyzeFirstChars(n.arg, 1, flags)
  IN CASE n.op = "Symb" -> FirstChars(addFirstChar(n.v, "i" \in flags), FALSE)
       [] n.op = "Word" -> FirstChars(addFirstChar(n.v[1], "i" \in flags), FALSE)
       [] n.op = "Enum" -> FirstChars(n.v, FALSE)
       [] n.op = "MetaSymb" ->
            IF n.v \in OneCharMetas THEN FirstChars(MetaClass(n.v, "s" \in flags), FALSE)
            ELSE FirstChars({}, TRUE)
       [] n.op \in {"Brackets", "NamedBrackets"} -> inner
       [] n.op = "Or" ->
            LET right == analyzeFirstChars(chain, i + 1, flags)
            IN FirstChars(inner.mask \cup right.mask, inner.nullable \/ right.nullable)
       [] n.op \in Quantifiers -> FirstChars(inner.mask, n.lo = 0 \/ inner.nullable)
       [] n.op \in LookArounds \cup {"Empty"} -> FirstChars({}, TRUE)
       [] OTHER -> FirstChars(Ascii, FALSE)         \* \N \p \y

analyzeFirstChars(chain, i, flags) ==
  IF i > Len(chain) THEN FirstChars({}, TRUE)
  ELSE LET current == firstCharsForNode(chain, i, flags)
           rest == analyzeFirstChars(chain, i + 1, flags)
       IN IF chain[i].op = "Or" \/ ~current.nullable THEN current
          ELSE FirstChars(current.mask \cup rest.mask, rest.nullable)

(* The left side of | is not tried at a character its mask lacks           *)
(* (analyzeBranchFirstChars).  One that begins with something of no width  *)
(* is always tried: what it does to group 0 stays done.                    *)
RECURSIVE LeadingNullable(_, _)
LeadingNullable(chain, flags) ==
  IF chain[1].op \in {"Brackets", "NamedBrackets"} THEN LeadingNullable(chain[1].arg, flags)
  ELSE firstCharsForNode(chain, 1, flags).nullable

BranchSkipped(node, c, flags) ==
  LET first == analyzeFirstChars(node.arg, 1, flags)
  IN /\ ~LeadingNullable(node.arg, flags) /\ ~first.nullable /\ Useful(first.mask)
     /\ c \in Ascii \ first.mask

-----------------------------------------------------------------------------
(* The first node that takes a character, past those that take none, if it *)
(* can be told (optimize).                                                 *)
NoNode == ReEmpty

RECURSIVE FirstNode(_, _, _)
FirstNode(chain, i, found) ==
  IF i > Len(chain) THEN found
  ELSE LET n == chain[i]
       IN CASE n.op = "Brackets" -> FirstNode(n.arg, 1, found)
            [] n.op \in LookArounds -> FirstNode(chain, i + 1, found)
            [] n.op = "MetaSymb" /\ n.v \in ZeroWidthMetas -> FirstNode(chain, i + 1, n)
            [] n.op \in {"MetaSymb", "Symb", "Word", "Enum"} -> n
            [] OTHER -> found

(* Brackets at the front hide no anchor, a | or an operator does.          *)
RECURSIVE Leading(_)
Leading(chain) ==
  IF chain[1].op \in {"Brackets", "NamedBrackets"} THEN Leading(chain[1].arg) ELSE chain[1]

StartAnchor(chain, flags) ==
  LET n == Leading(chain)
  IN CASE n.op = "MetaSymb" /\ n.v = "SoL" /\ "m" \notin flags -> "LineStart"
       [] n.op = "MetaSymb" /\ n.v = "SoScheme" -> "SchemeStart"
       [] OTHER -> "None"

RECURSIVE Trailing(_)
Trailing(chain) ==
  LET last == chain[Len(chain)]
  IN CASE \E i \in DOMAIN chain : chain[i].op = "Or" -> ReEmpty
       [] last.op \in {"Brackets", "NamedBrackets"} -> Trailing(last.arg)
       [] OTHER -> last

EndAnchor(chain, flags) ==
  "m" \notin flags /\ Trailing(chain).op = "MetaSymb" /\ Trailing(chain).v = "EoL"

-----------------------------------------------------------------------------
(* The most characters a match can take, Unbounded if there is no most     *)
(* (analyzeMaxLen).                                                        *)
Plus(a, b) == IF a = Unbounded \/ b = Unbounded THEN Unbounded ELSE a + b
Longer(a, b) == IF a = Unbounded \/ b = Unbounded THEN Unbounded ELSE IF a > b THEN a ELSE b

RECURSIVE maxLenOfNode(_), maxLenOfChain(_, _)
maxLenOfNode(n) ==
  CASE n.op \in {"Symb", "Enum"} -> 1
    [] n.op = "Word" -> Len(n.v)
    [] n.op = "MetaSymb" -> IF n.v \in OneCharMetas THEN 1 ELSE 0
    [] n.op \in {"Brackets", "NamedBrackets"} -> maxLenOfChain(n.arg, 1)
    [] n.op \in {"RangeNM", "NGRangeNM"} ->
         LET inner == maxLenOfChain(n.arg, 1)
         IN IF inner = Unbounded THEN Unbounded ELSE n.hi * inner
    [] n.op \in LookArounds \cup {"Empty"} -> 0
    [] OTHER -> Unbounded

maxLenOfChain(chain, i) ==
  CASE i > Len(chain) -> 0
    [] chain[i].op = "Or" -> Longer(maxLenOfChain(chain[i].arg, 1), maxLenOfChain(chain, i + 1))
    [] OTHER -> Plus(maxLenOfNode(chain[i]), maxLenOfChain(chain, i + 1))

-----------------------------------------------------------------------------
(* Sets of characters the line must have one of (analyzeRequiredChars).    *)
(* Only the MAX_REQUIRED_SETS smallest are kept.                           *)
MostSelective(sets) ==
  LET sorted == SortSeq(sets, LAMBDA a, b : Cardinality(a) < Cardinality(b))
  IN IF Len(sets) <= MAX_REQUIRED_SETS THEN sorted ELSE SubSeq(sorted, 1, MAX_REQUIRED_SETS)

(* Under i a letter requires nothing: its other case may not be ASCII.     *)
addRequiredChar(c, ignoreCase) ==
  IF c \notin Ascii \/ (ignoreCase /\ c \in Letters) THEN <<>> ELSE <<{c}>>

Pairs(left, right) ==
  FlattenSeq([i \in DOMAIN left |-> [j \in DOMAIN right |-> left[i] \cup right[j]]])

RECURSIVE requiredCharsForNode(_, _), requiredCharsForChain(_, _, _)
requiredCharsForNode(n, flags) ==
  CASE n.op = "Symb" -> addRequiredChar(n.v, "i" \in flags)
    [] n.op = "Word" -> FlattenSeq([k \in DOMAIN n.v |-> addRequiredChar(n.v[k], "i" \in flags)])
    [] n.op \in {"Brackets", "NamedBrackets", "Ahead", "Behind"} ->
         requiredCharsForChain(n.arg, 1, flags)
    [] n.op \in Quantifiers /\ n.lo > 0 -> requiredCharsForChain(n.arg, 1, flags)
    [] OTHER -> <<>>

requiredCharsForChain(chain, i, flags) ==
  CASE i > Len(chain) -> <<>>
    [] chain[i].op = "Or" ->
         LET pairs == Pairs(requiredCharsForChain(chain[i].arg, 1, flags),
                            requiredCharsForChain(chain, i + 1, flags))
         IN IF Len(pairs) > MAX_REQUIRED_SETS THEN MostSelective(pairs) ELSE pairs
    [] OTHER -> requiredCharsForNode(chain[i], flags) \o requiredCharsForChain(chain, i + 1, flags)

(* Equal sets are kept once; all of them count, so which are kept first of *)
(* equal size does not matter to what is rejected but by the limit.        *)
requiredChars(chain, flags) ==
  ToSet(MostSelective(SetToSeq(ToSet(requiredCharsForChain(chain, 1, flags)))))

-----------------------------------------------------------------------------
(* What optimize leaves in the CRegExp.                                    *)
optimize(chain, flags) ==
  LET first == analyzeFirstChars(chain, 1, flags) IN
  [firstNode    |-> FirstNode(chain, 1, NoNode),
   firstMask    |-> first.mask,
   maskUseful   |-> ~first.nullable /\ Useful(first.mask),
   startAnchor  |-> StartAnchor(chain, flags),
   endAnchor    |-> EndAnchor(chain, flags),
   maxLen       |-> maxLenOfChain(chain, 1),
   required     |-> requiredChars(chain, flags)]

NoFacts ==
  [firstNode |-> NoNode, firstMask |-> {}, maskUseful |-> FALSE, startAnchor |-> "None",
   endAnchor |-> FALSE, maxLen |-> Unbounded, required |-> {}]
=============================================================================

----------------------------- MODULE ClassParser ----------------------------
(***************************************************************************)
(* createCharClass: a class of an expression read into a set, by the ICU   *)
(* build (strings/icu/UStr.cpp) and by the legacy one                      *)
(* (strings/legacy/CharacterClass.cpp) side by side. Both read the same    *)
(* text with the same branches; they differ in the sets they keep and in   *)
(* how a branch changes them. A step reads one item of the class.          *)
(***************************************************************************)
EXTENDS CharacterClass

CONSTANTS
  LowerOf, UpperOf, TitleOf,  \* of a character: its other cases
  Literals,               \* the characters written in a class
  Names,                  \* the names written in braces
  MaxItems, MaxDepth      \* bounds: items of a class, classes inside classes

VARIABLES
  frames,   \* the calls of createCharClass, the innermost last
  items,    \* items read so far (a bound)
  made      \* what the expression got: a class of each build, or EENUM
vars == <<frames, items, made>>

Uses      == {"whole", "add", "subtract", "intersect"}
Metas     == {"d", "D", "w", "W", "s", "S", "l", "u"}
BAD_WCHAR == -1

(* The ranges the legacy build takes for others: one given the wrong way   *)
(* round, and one of which a page holds no more than the first bits of one *)
(* word: addRange sets all bits of it.                                     *)
OddRange(s, e) ==
  LET first == IF s \div PageSize = e \div PageSize THEN s ELSE (e \div PageSize) * PageSize
  IN  e < s \/ (first % WIDTH = 0 /\ first \div WIDTH = e \div WIDTH /\ e % WIDTH # MASK)

(* A call: what its result is for, [^, ignore_case, the character a range  *)
(* may start at, whether an ICU name failed (ec), and cc of both builds.   *)
(* differs: ghost, it has read what the builds are known to take           *)
(* differently.                                                            *)
Frame(use, inverse, fold) ==
  [use |-> use, inverse |-> inverse, ignore_case |-> fold, prev_char |-> BAD_WCHAR,
   ec |-> FALSE, icu |-> NoChars, legacy |-> clear, differs |-> FALSE]

None  == [err |-> "none", icu |-> NoChars, legacy |-> clear, differs |-> FALSE]
EENUM == [None EXCEPT !.err = "EENUM"]

Init == frames = <<>> /\ items = 0 /\ made = None

Cc == Last(frames)
Becomes(f) == frames' = ReplaceAt(frames, Len(frames), f)
Reads ==
  /\ frames # <<>> /\ items < MaxItems
  /\ items' = items + 1
  /\ UNCHANGED made

(* setStructs meets a class.                                               *)
createCharClass ==
  /\ frames = <<>>
  /\ \E inverse, fold \in BOOLEAN : frames' = <<Frame("whole", inverse, fold)>>
  /\ items' = 0 /\ made' = None

-----------------------------------------------------------------------------
(* A character, or one escaped: with its other cases when case is ignored. *)
Cases(c) == IF Cc.ignore_case THEN {c, LowerOf[c], UpperOf[c], TitleOf[c]} ELSE {c}
WithChars(cc, cs) ==
  [p \in Pages |-> FoldSet(LAMBDA c, ba : setBit(ba, c), cc[p], CharsOfPage(cs, p))]

Literal(c) ==
  /\ Reads
  /\ Becomes([Cc EXCEPT !.prev_char = c, !.icu = addAll(@, Cases(c)),
                        !.legacy = WithChars(@, Cases(c))])

(* \x with digits that are none: it adds nothing and ends no range; the    *)
(* digits are read as characters.                                          *)
BadEscape ==
  /\ Reads
  /\ Becomes([Cc EXCEPT !.prev_char = BAD_WCHAR])

(* -c after a character. The character the range starts at stays: another  *)
(* -c goes on from it. After anything else - is a character (Literal).     *)
RangeTo(c) ==
  /\ Reads
  /\ Cc.prev_char # BAD_WCHAR
  /\ Becomes([Cc EXCEPT !.icu = addSpan(@, Cc.prev_char, c),
                        !.legacy = addPages(@, Cc.prev_char, c),
                        !.differs = @ \/ OddRange(Cc.prev_char, c)])

(* {name}: of the legacy build's own names ALL forgets nothing but         *)
(* UNASSIGNED forgets what the class held; ICU knows all but ALL. In a     *)
(* call in which one name failed ICU makes no more sets from names.        *)
Named(f, cs) == IF f.ec THEN {} ELSE cs
Meant(name) ==
  CASE name = <<"ASSIGNED">>   -> Assigned
    [] name = <<"UNASSIGNED">> -> Code \ Assigned
    [] OTHER                   -> InCategory(name)
CategoryOfLegacy(name, cc) ==
  CASE name = <<"ALL">>        -> fill
    [] name = <<"ASSIGNED">>   -> addCategory(cc, <<>>)
    [] name = <<"UNASSIGNED">> -> clearClass(fill, addCategory(clear, <<>>))
    [] OTHER                   -> addCategory(cc, name)
Category(name) ==
  LET ec == Cc.ec \/ Meant(name) = {}
  IN  /\ Reads
      /\ Becomes([Cc EXCEPT !.ec = ec, !.icu = IF ec THEN @ ELSE addAll(@, Meant(name)),
                            !.legacy = CategoryOfLegacy(name, @), !.prev_char = BAD_WCHAR,
                            !.differs = @ \/ ec \/ Meant(name) \ Assigned # {}])

(* {}: nothing.                                                            *)
NoCategory == Reads /\ Becomes([Cc EXCEPT !.prev_char = BAD_WCHAR])

L  == <<"L">>
Nd == <<"N", "d">>
Z  == <<"Z">>
Cased(meta) ==
  {<<"L", meta>>} \cup IF Cc.ignore_case THEN {<<"L", "l">>, <<"L", "u">>} ELSE {}
Sets(names) == UNION {Named(Cc, InCategory(n)) : n \in names}

(* The ICU build takes the controls, or _, from cc and not from the set of *)
(* the others it has just added: cc loses its own too.                     *)
MetaOfIcu(meta, cc) ==
  CASE meta = "d" -> addAll(cc, Sets({Nd}))
    [] meta = "D" -> addAll(cc, Code \ Sets({Nd}))
    [] meta = "w" -> addAll(addAll(addAll(cc, Sets({L})), Sets({Nd})), {Underscore})
    [] meta = "W" -> removeAll(addAll(cc, Code \ Sets({Nd, L})), {Underscore})
    [] meta = "s" -> addAll(addAll(cc, Sets({Z})), Controls)
    [] meta = "S" -> removeAll(addAll(cc, Code \ Sets({Z})), Controls)
    [] OTHER      -> addAll(cc, Sets(Cased(meta)))

Without(cc, cs) ==
  [p \in Pages |-> FoldSet(LAMBDA c, ba : clearBit(ba, c), cc[p], CharsOfPage(cs, p))]
MetaOfLegacy(meta, cc) ==
  CASE meta = "d" -> addCategory(cc, Nd)
    [] meta = "D" -> addClass(cc, clearCategory(fill, Nd))
    [] meta = "w" -> addChar(addCategory(addCategory(cc, L), Nd), Underscore)
    [] meta = "W" -> addClass(cc, clearChar(clearCategory(clearCategory(fill, L), Nd), Underscore))
    [] meta = "s" -> WithChars(addCategory(cc, Z), Controls)
    [] meta = "S" -> addClass(cc, Without(clearCategory(fill, Z), Controls))
    [] OTHER      -> FoldSet(LAMBDA n, acc : addCategory(acc, n), cc, Cased(meta))

Meta(meta) ==
  /\ Reads
  /\ Becomes([Cc EXCEPT !.icu = MetaOfIcu(meta, @), !.legacy = MetaOfLegacy(meta, @),
                        !.prev_char = BAD_WCHAR, !.differs = @ \/ Cc.ec])

-----------------------------------------------------------------------------
(* A class in the class: [ adds it, -[ subtracts, &&[ intersects. Only one *)
(* that is added ignores case.                                             *)
Nested ==
  /\ Reads
  /\ Len(frames) < MaxDepth
  /\ \E use \in Uses \ {"whole"}, inverse \in BOOLEAN :
       frames' = Append(frames, Frame(use, inverse, use = "add" /\ Cc.ignore_case))

(* The class at its ]: turned round by [^, and frozen.                     *)
ReadyIcu(f)    == freeze(IF f.inverse THEN complement(f.icu) ELSE f.icu)
ReadyLegacy(f) == IF f.inverse THEN clearClass(fill, f.legacy) ELSE f.legacy

(* What the class around it becomes.                                       *)
NestedOfIcu(use, cc, chars) ==
  CASE use = "add"       -> addAll(cc, chars)
    [] use = "subtract"  -> removeAll(cc, chars)
    [] use = "intersect" -> retainAll(cc, chars)
NestedOfLegacy(use, cc, pages) ==
  CASE use = "add"       -> addClass(cc, pages)
    [] use = "subtract"  -> clearClass(cc, pages)
    [] use = "intersect" -> intersectClass(cc, pages)

EndNested ==
  /\ Len(frames) > 1
  /\ LET outer == Last(Front(frames))
     IN  frames' = Append(Front(Front(frames)),
           [outer EXCEPT !.icu = NestedOfIcu(Cc.use, @, ReadyIcu(Cc).set),
                         !.legacy = NestedOfLegacy(Cc.use, @, ReadyLegacy(Cc)),
                         !.prev_char = BAD_WCHAR, !.differs = @ \/ Cc.differs])
  /\ UNCHANGED <<items, made>>

End ==
  /\ Len(frames) = 1
  /\ made' = [err |-> "none", icu |-> ReadyIcu(Cc), legacy |-> ReadyLegacy(Cc), differs |-> Cc.differs]
  /\ frames' = <<>>
  /\ UNCHANGED items

(* The text ends, a name in braces is not closed, or a range ends at a bad *)
(* escape: every call returns nothing, and setStructs reports EENUM.       *)
Broken ==
  /\ frames # <<>>
  /\ frames' = <<>> /\ made' = EENUM
  /\ UNCHANGED items

Next ==
  \/ createCharClass
  \/ \E c \in Literals : Literal(c) \/ RangeTo(c)
  \/ \E name \in Names : Category(name)
  \/ \E meta \in Metas : Meta(meta)
  \/ BadEscape \/ NoCategory
  \/ Nested \/ EndNested \/ End \/ Broken

Spec == Init /\ [][Next]_vars

-----------------------------------------------------------------------------
Held(pages)   == {c \in Code : inClass(pages, c)}
Apart(cs, ds) == (cs \ ds) \cup (ds \ cs)

(* The two builds read a class alike, whatever classes are added to it,    *)
(* taken from it or met with it at any depth: the pages hold the characters*)
(* of the ICU set, but for the controls and _, which \S and \W take from    *)
(* the ICU one (UStr.cpp:118, 128), and for what Frame calls differs.      *)
BuildsAgree ==
  /\ \A i \in DOMAIN frames :
       ~frames[i].differs =>
         Apart(frames[i].icu.set, Held(frames[i].legacy)) \subseteq Controls \cup {Underscore}
  /\ ~made.differs =>
       Apart({c \in Code : contains(made.icu, c)}, Held(made.legacy)) \subseteq Controls \cup {Underscore}

(* What a meta symbol stands for outside of a class.                       *)
Alone(meta, whitespace) ==
  CASE meta = "d" -> {c \in Code : isDigit(c)}
    [] meta = "D" -> {c \in Code : ~isDigit(c)}
    [] meta = "w" -> {c \in Code : isLetterOrDigitOrUnderscore(c)}
    [] meta = "W" -> {c \in Code : ~isLetterOrDigitOrUnderscore(c)}
    [] meta = "s" -> whitespace
    [] meta = "S" -> Code \ whitespace
    [] meta = "l" -> {c \in Code : isLowerCase(c)}
    [] meta = "u" -> {c \in Code : isUpperCase(c)}

(* A meta symbol adds to a class what it matches outside of one            *)
(* (CRegExp::checkMetaSymbol), unless case is ignored: to the legacy pages *)
(* just that, to the ICU set all but the vertical tab, the controls and _. *)
MetaInClass ==
  [][\A meta \in Metas :
       Meta(meta) /\ ~Cc.ignore_case =>
         /\ Held(Cc'.legacy)
              = Held(Cc.legacy) \cup Alone(meta, {c \in Code : isWhitespaceLegacy(c)})
         /\ ~Cc.ec => Apart(Cc'.icu.set, Cc.icu.set \cup Alone(meta, {c \in Code : isWhitespace(c)}))
                        \subseteq Controls \cup {Underscore, VerticalTab}]_vars
=============================================================================

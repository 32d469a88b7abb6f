--------------------------- MODULE CharacterClass ---------------------------
(***************************************************************************)
(* Sets of characters as the two builds of the library keep them.          *)
(*                                                                         *)
(*   legacy (strings/legacy/CharacterClass.cpp): the bit arrays of all     *)
(*     pages of the sixteen-bit characters, with tables of categories;     *)
(*   ICU (strings/icu/CharacterClass.h): a set of ICU's, beside it the     *)
(*     mask of its ASCII part that contains() reads once it is ready.      *)
(***************************************************************************)
EXTENDS BitArray, SequencesExt

CONSTANTS PAGES,        \* pages of characters (256)
          CategoryOf,   \* of a character: the two letters of its category
          Ascii,
          Underscore,
          Controls,     \* \t \n \r \f
          VerticalTab

Pages == 0 .. PAGES - 1
Code  == 0 .. PAGES * PageSize - 1

(* Cn: a character not assigned.                                           *)
Unassigned == <<"C", "n">>
Assigned   == {c \in Code : CategoryOf[c] # Unassigned}

(* A category is named by its two letters, or by the first of several; the *)
(* empty name is all of them. The legacy tables have none for Cn.          *)
InCategory(name)  == {c \in Code : IsPrefix(name, CategoryOf[c])}

(* class Character: what \d, \w, \s, \l and \u ask outside of a class. Only *)
(* ICU's isWhitespace knows the vertical tab.                              *)
isDigit(c)  == CategoryOf[c] = <<"N", "d">>
isLetter(c) == IsPrefix(<<"L">>, CategoryOf[c])
isLetterOrDigitOrUnderscore(c) == isLetter(c) \/ isDigit(c) \/ c = Underscore
isLowerCase(c) == CategoryOf[c] = <<"L", "l">>
isUpperCase(c) == CategoryOf[c] = <<"L", "u">>
isWhitespaceLegacy(c) == c \in Controls \/ IsPrefix(<<"Z">>, CategoryOf[c])
isWhitespace(c) == isWhitespaceLegacy(c) \/ c = VerticalTab

CharsOfPage(cs, p) == {c % PageSize : c \in {d \in cs : d \div PageSize = p}}

-----------------------------------------------------------------------------
(* legacy *)
clear == [p \in Pages |-> clearAll]
fill  == [p \in Pages |-> setAll]

inClass(cc, c)   == getBit(cc[c \div PageSize], c % PageSize)
addChar(cc, c)   == [cc EXCEPT ![c \div PageSize] = setBit(@, c % PageSize)]
clearChar(cc, c) == [cc EXCEPT ![c \div PageSize] = clearBit(@, c % PageSize)]

(* Every page of the range from its first character, or from s, to its     *)
(* last, or to e: none when e is on a page before that of s.               *)
addPages(cc, s, e) ==
  [p \in Pages |->
     IF p \notin s \div PageSize .. e \div PageSize THEN cc[p]
     ELSE addRange(cc[p], IF p = s \div PageSize THEN s % PageSize ELSE 0,
                          IF p = e \div PageSize THEN e % PageSize ELSE PageSize - 1)]

(* Pages without a character of the category are not touched.              *)
addCategory(cc, name) ==
  [p \in Pages |->
     LET bits == CharsOfPage(InCategory(name) \cap Assigned, p)
     IN  IF bits = {} THEN cc[p] ELSE addBits(cc[p], bits)]
clearCategory(cc, name) ==
  [p \in Pages |->
     LET bits == CharsOfPage(InCategory(name) \cap Assigned, p)
     IN  IF bits = {} THEN cc[p] ELSE clearBits(cc[p], bits)]

addClass(cc, other)       == [p \in Pages |-> addBitArray(cc[p], other[p])]
clearClass(cc, other)     == [p \in Pages |-> clearBitArray(cc[p], other[p])]
intersectClass(cc, other) == [p \in Pages |-> intersectBitArray(cc[p], other[p])]

-----------------------------------------------------------------------------
(* ICU *)
NoChars == [set |-> {}, asciiMask |-> {}, asciiReady |-> FALSE]

Changed(cc, set)  == [cc EXCEPT !.set = set, !.asciiReady = FALSE]
addAll(cc, cs)    == Changed(cc, cc.set \cup cs)
removeAll(cc, cs) == Changed(cc, cc.set \ cs)
retainAll(cc, cs) == Changed(cc, cc.set \cap cs)
complement(cc)    == Changed(cc, Code \ cc.set)

(* A range given the wrong way round is empty.                             *)
addSpan(cc, s, e) == addAll(cc, s .. e)

freeze(cc) == [cc EXCEPT !.asciiMask = cc.set \cap Ascii, !.asciiReady = TRUE]
contains(cc, c) ==
  IF c \in Ascii THEN c \in IF cc.asciiReady THEN cc.asciiMask ELSE cc.set
  ELSE c \in cc.set
=============================================================================

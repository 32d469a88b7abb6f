------------------------------ MODULE Keywords ------------------------------
(***************************************************************************)
(* Keyword lists (src/colorer/parsers/KeywordList.cpp), how the library    *)
(* joins adjacent ones (mergeKeywordNodes in HrcLibraryImpl.cpp), and the  *)
(* search in one (searchKW in TextParserImpl.cpp).                         *)
(*                                                                         *)
(* A character is its code.  Indexes are the code's plus one; 0 is -1.     *)
(***************************************************************************)
EXTENDS Integers, Sequences, SequencesExt

CONSTANTS Chars,
          Ascii,                \* the codes below 128
          Letters,              \* isLetterOrDigitOrUnderscore
          LowerCase             \* LowerCase[ch]

ASSUME CharsAssumption ==
  /\ Chars \subseteq Nat /\ Ascii \subseteq Chars /\ Letters \subseteq Chars
  /\ LowerCase \in [Chars -> Chars]

(* A KeywordInfo is [keyword, region, isSymbol]; a list is sorted.         *)

Less(a, b) ==
  \/ IsStrictPrefix(a, b)
  \/ \E i \in 1 .. Len(a) : /\ i <= Len(b) /\ a[i] < b[i]
                            /\ SubSeq(a, 1, i - 1) = SubSeq(b, 1, i - 1)

SymbolOrder(a, b) == ~a.isSymbol /\ b.isSymbol

(* The order of sortList; regions are ordered by their addresses.          *)
SortOrder(a, b) ==
  \/ Less(a.keyword, b.keyword)
  \/ /\ a.keyword = b.keyword
     /\ a.region < b.region \/ (a.region = b.region /\ SymbolOrder(a, b))

sortList(infos) == SetToSortSeq(infos, SortOrder)

(* mergeKeywordNodes: the lists one after the other, sorted by keyword and *)
(* kind keeping that order, and of equal ones the first.                   *)
MergeOrder(a, b) ==
  Less(a.keyword, b.keyword) \/ (a.keyword = b.keyword /\ SymbolOrder(a, b))

mergeKeywordNodes(lists) ==
  LET all == FlattenSeq(lists)
      Same(i, j) == all[i].keyword = all[j].keyword /\ all[i].isSymbol = all[j].isSymbol
  IN SetToSortSeq({all[i] : i \in {j \in DOMAIN all : \A k \in 1 .. j - 1 : ~Same(k, j)}},
                  MergeOrder)

-----------------------------------------------------------------------------
(* substrIndex *)

indexOfShorter(list, i) ==
  LET shorter == {ii \in 1 .. i - 1 : IsStrictPrefix(list[ii].keyword, list[i].keyword)} IN
  IF shorter = {} THEN 0 ELSE Max(shorter)

Beginning(list, ch) == {i \in DOMAIN list : list[i].keyword[1] = ch}

firstChar(list) == {list[i].keyword[1] : i \in DOMAIN list}

minKeywordLength(list) == Min({Len(list[i].keyword) : i \in DOMAIN list})

-----------------------------------------------------------------------------
(* searchKW: the entry found at position gx of line, 0 if none.  A node is *)
(* [kwList, matchCase, worddiv]; worddiv = {} is no class of its own.      *)

Cased(node, line) == IF node.matchCase THEN line ELSE [i \in DOMAIN line |-> LowerCase[line[i]]]

(* Whether the character at p may stand beside a word. *)
Divides(node, line, p) ==
  IF node.worddiv = {} THEN line[p + 1] \notin Letters ELSE line[p + 1] \in node.worddiv

WordAt(node, line, gx, lowlen, length) ==
  /\ gx > 0 => Divides(node, line, gx - 1)
  /\ gx + length < lowlen => Divides(node, line, gx + length)

searchKW(node, text, gx, lowlen) ==
  LET list == node.kwList
      line == Cased(node, text)
      left_bad == gx > 0 /\ ~Divides(node, line, gx - 1)
      slice == IF line[gx + 1] \in Ascii THEN Beginning(list, line[gx + 1]) ELSE DOMAIN list
      Part(pos) == SubSeq(line, gx + 1, IF gx + Len(list[pos].keyword) < lowlen
                                        THEN gx + Len(list[pos].keyword) ELSE lowlen)
      Fits(pos) == /\ Part(pos) = list[pos].keyword
                   /\ list[pos].isSymbol \/ WordAt(node, line, gx, lowlen, Len(list[pos].keyword))
      Search[left \in 1 .. Len(list), right \in 1 .. Len(list) + 1] ==
        LET pos == left + (right - left) \div 2 IN
        CASE right - left = 1 /\ Fits(pos) -> pos
          [] right - left = 1 /\ ~Fits(pos) ->
               LET shorter == indexOfShorter(list, pos) IN
               IF shorter = 0 THEN 0 ELSE Search[shorter, shorter + 1]
          [] right - left > 1 /\ Less(Part(pos), list[pos].keyword) -> Search[left, pos]
          [] OTHER -> Search[pos, right]
  IN IF \/ list = <<>>
        \/ gx + minKeywordLength(list) > lowlen
        \/ left_bad /\ \A i \in DOMAIN list : ~list[i].isSymbol
        \/ line[gx + 1] \notin firstChar(list)
     THEN 0
     ELSE Search[Min(slice), Max(slice) + 1]

-----------------------------------------------------------------------------
(* What it stands for: the longest entry that is there.                    *)

Present(node, text, gx, lowlen) ==
  LET line == Cased(node, text) IN
  {i \in DOMAIN node.kwList :
     LET word == node.kwList[i].keyword IN
     /\ gx + Len(word) <= lowlen
     /\ SubSeq(line, gx + 1, gx + Len(word)) = word
     /\ node.kwList[i].isSymbol \/ WordAt(node, line, gx, lowlen, Len(word))}

Longest(node, text, gx, lowlen) ==
  LET present == Present(node, text, gx, lowlen) IN
  IF present = {} THEN 0
  ELSE CHOOSE i \in present :
         \A j \in present : Len(node.kwList[j].keyword) <= Len(node.kwList[i].keyword)
=============================================================================

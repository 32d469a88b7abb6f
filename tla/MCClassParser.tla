--------------------------- MODULE MCClassParser ----------------------------
(* ClassParser on sixteen characters: two pages of two words of four bits. *)
EXTENDS ClassParser

(* A letter per category: t tab, v vertical tab, _ ; 1; space; a b e; A B  *)
(* E; the title case digraph with its two letters; one not assigned.       *)
MCCategoryOf ==
  LET of(a, b) == <<a, b>>
  IN  [c \in 0 .. 15 |->
        CASE c \in {0, 1}       -> of("C", "c")
          [] c = 2              -> of("P", "c")
          [] c = 3              -> of("N", "d")
          [] c \in {4, 5, 9, 13} -> of("L", "l")
          [] c \in {6, 7, 8, 11} -> of("L", "u")
          [] c = 12             -> of("L", "t")
          [] c = 10             -> of("Z", "s")
          [] c \in {14, 15}     -> of("C", "n")]
(* 4 a, 5 b, 9 e with 6 A, 7 B, 8 E; 11 DZ, 12 Dz, 13 dz.                  *)
Pairs == {<<4, 6>>, <<5, 7>>, <<9, 8>>, <<13, 11>>}
MCLowerOf == [c \in 0 .. 15 |-> IF c = 12 THEN 13
                                ELSE IF \E p \in Pairs : p[2] = c THEN (CHOOSE p \in Pairs : p[2] = c)[1] ELSE c]
MCUpperOf == [c \in 0 .. 15 |-> IF c = 12 THEN 11
                                ELSE IF \E p \in Pairs : p[1] = c THEN (CHOOSE p \in Pairs : p[1] = c)[2] ELSE c]
MCTitleOf == [c \in 0 .. 15 |-> IF c \in {11, 13} THEN 12 ELSE MCUpperOf[c]]

MCNames == {<<"L">>, <<"L", "u">>, <<"Z", "s">>, <<"C">>, <<"X">>,
            <<"ALL">>, <<"ASSIGNED">>, <<"UNASSIGNED">>}

-----------------------------------------------------------------------------
(* A range adds the characters from its first to its last: not so in the   *)
(* legacy build, which takes the whole of a word it starts (BitArray.h:37, *)
(* "Sets bit range"; BitArray.cpp:59).                                     *)
RangeIsRange ==
  [][\A c \in Literals :
       RangeTo(c) /\ Cc.prev_char <= c =>
         Held(Cc'.legacy) = Held(Cc.legacy) \cup (Cc.prev_char .. c)]_vars

(* An item adds to the class: not so \S and \W of the ICU build, which take *)
(* away controls or _ that the class holds from an item before ([\s\S]).   *)
MetaOnlyAdds ==
  [][\A meta \in Metas : Meta(meta) => Cc.icu.set \subseteq Cc'.icu.set]_vars
=============================================================================

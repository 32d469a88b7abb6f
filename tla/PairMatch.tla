------------------------------ MODULE PairMatch ------------------------------
(***************************************************************************)
(* PairMatch (src/colorer/editor/PairMatch.h) and the walk of searchPair   *)
(* over the regions of one line, from one of them or from an end of the    *)
(* line, until the pairs among them balance.                               *)
(***************************************************************************)
EXTENDS Integers, SequencesExt

NoMatch == -1      \* eline of a PairMatch without an end
Pairs   == {"pairStart", "pairEnd"}

NewPairMatch(lineNo, at, topPosition) ==
  [sline |-> lineNo, sat |-> at, topPosition |-> topPosition,
   pairBalance |-> IF topPosition THEN 1 ELSE -1, eline |-> NoMatch, eat |-> 0]

Weight(region) ==
  IF region = "pairStart" THEN 1 ELSE IF region = "pairEnd" THEN -1 ELSE 0

(* The regions after place at, or before it: the next line is entered at   *)
(* place 0, the one above behind its last region.                          *)
Onward(pm, regions, at) ==
  IF pm.pairBalance > 0
  THEN [i \in 1 .. Len(regions) - at |-> at + i]
  ELSE [i \in 1 .. at - 1 |-> at - i]
Edge(pm, regions) == IF pm.pairBalance > 0 THEN 0 ELSE Len(regions) + 1

(* One region is passed, unless the search is over.                        *)
Mutant_Pass(pm, lno, regions, i) == [pm EXCEPT !.pairBalance = 0, !.eline = lno, !.eat = i]
Pass(pm, lno, regions, i) ==
  LET balance == pm.pairBalance + Weight(regions[i])
  IN IF pm.pairBalance = 0 THEN pm
     ELSE IF balance = 0 THEN [pm EXCEPT !.pairBalance = 0, !.eline = lno, !.eat = i]
     ELSE [pm EXCEPT !.pairBalance = balance]

Walk(pm, lno, regions, at) ==
  FoldLeft(LAMBDA m, i : Pass(m, lno, regions, i), pm, Onward(pm, regions, at))

NextLine(pm, lno) == IF pm.pairBalance > 0 THEN lno + 1 ELSE lno - 1
=============================================================================

---------------------------- MODULE RegExpMeaning ---------------------------
(***************************************************************************)
(* What a regular expression means: the ways it can match at a place, the  *)
(* preferred one first.  There is no stack here and nothing is remembered  *)
(* between two ways: a way is where the match has come to, its groups, and *)
(* where \m and \M have moved its start and its end.                       *)
(***************************************************************************)
EXTENDS CRegExp

NotMoved == -1
FirstWay(t) == [at |-> t, m |-> matches, start |-> NotMoved, stop |-> NotMoved]

Then(ways, Op(_)) == FlattenSeq([k \in DOMAIN ways |-> Op(ways[k])])

RECURSIVE Ways(_, _, _), WaysOfNode(_, _), OpenRounds(_, _, _, _), BoundedRounds(_, _, _, _)

(* From the i-th node of a chain to its end.  | is between all of its left *)
(* side and all that is after it.                                          *)
Ways(chain, i, w) ==
  CASE i > Len(chain) -> <<w>>
    [] chain[i].op = "Or" -> Ways(chain[i].arg, 1, w) \o Ways(chain, i + 1, w)
    [] OTHER -> Then(WaysOfNode(chain[i], w), LAMBDA u : Ways(chain, i + 1, u))

(* A loop goes round as often as it can, or as it must if lazy; a round    *)
(* that took nothing is its last.                                          *)
Ordered(lazy, more, enough) == IF lazy THEN enough \o more ELSE more \o enough

OpenRounds(n, k, last, w) ==
  IF k = 0 /\ w.at = last THEN <<w>>
  ELSE LET more == Then(Ways(n.arg, 1, w),
                        LAMBDA u : OpenRounds(n, IF k > 0 THEN k - 1 ELSE 0, w.at, u))
       IN IF k > 0 THEN more ELSE Ordered(n.op = "NGRangeN", more, <<w>>)

BoundedRounds(n, k, extra, w) ==
  LET Round(k2, extra2) == Then(Ways(n.arg, 1, w), LAMBDA u : BoundedRounds(n, k2, extra2, u))
  IN CASE k > 0 -> Round(k - 1, extra)
       [] k = 0 /\ extra = 0 -> <<w>>
       [] OTHER -> Ordered(n.op = "NGRangeNM", Round(0, extra - 1), <<w>>)

Grouped(n, from, w) ==
  CASE n.v = NoGroup \/ (n.op = "Brackets" /\ n.v = 0) -> w
    [] n.op = "Brackets" -> [w EXCEPT !.m.s[n.v] = from, !.m.e[n.v] = w.at]
    [] OTHER -> [w EXCEPT !.m.ns[n.v] = from, !.m.ne[n.v] = w.at]

EndOfAtom(n, w) ==
  CASE n.op = "BkBrack" -> BackBracket(self.groups, w.m.s, w.m.e, n.v, w.at)
    [] n.op = "BkBrackName" -> BackBracket(Len(self.names), w.m.ns, w.m.ne, n.v, w.at)
    [] OTHER -> AtomEnd(n, w.at)

WaysOfNode(n, w) ==
  LET Keep(holds) == IF holds THEN <<w>> ELSE <<>>
      Looked(ways) == IF ways = <<>> THEN <<>> ELSE <<[Head(ways) EXCEPT !.at = w.at]>>
      Before == [w EXCEPT !.at = @ - n.v]
  IN CASE n.op \in {"Brackets", "NamedBrackets"} ->
            Then(Ways(n.arg, 1, w), LAMBDA u : <<Grouped(n, w.at, u)>>)
       [] n.op \in {"RangeN", "NGRangeN"} -> OpenRounds(n, n.lo, -1, w)
       [] n.op \in {"RangeNM", "NGRangeNM"} -> BoundedRounds(n, n.lo, n.hi - n.lo, w)
       [] n.op = "Ahead" -> Looked(Ways(n.arg, 1, w))
       [] n.op = "NAhead" -> Keep(Ways(n.arg, 1, w) = <<>>)
       [] n.op = "Behind" -> IF w.at < n.v THEN <<>> ELSE Looked(Ways(n.arg, 1, Before))
       [] n.op = "NBehind" -> Keep(w.at < n.v \/ Ways(n.arg, 1, Before) = <<>>)
       [] n.op = "MetaSymb" /\ n.v = "Start" -> <<[w EXCEPT !.start = w.at]>>
       [] n.op = "MetaSymb" /\ n.v = "End" -> <<[w EXCEPT !.stop = w.at]>>
       [] OTHER -> LET t == EndOfAtom(n, w) IN IF t = Fails THEN <<>> ELSE <<[w EXCEPT !.at = t]>>

-----------------------------------------------------------------------------
(* The match parse should find: the preferred one at the first place that  *)
(* has one.                                                                *)
WaysAt(t) == Ways(self.chain, 1, [FirstWay(t) EXCEPT !.m = NoMatches])
Places == IF call.moves THEN call.pos .. end ELSE {call.pos}

(* Group 0 of a way that began at t.                                       *)
Whole(t, w) ==
  LET e == IF w.stop = NotMoved THEN w.at ELSE w.stop
      s == IF w.start = NotMoved THEN t ELSE w.start
  IN <<IF e < s THEN e ELSE s, e>>

NoMatch == <<>>
Meant ==
  LET Has(t) == WaysAt(t) # <<>> IN
  IF self.err # "EOK" \/ ~(\E t \in Places : Has(t)) THEN NoMatch
  ELSE LET t == CHOOSE t \in Places : Has(t) /\ \A u \in Places : Has(u) => t <= u
       IN Whole(t, Head(WaysAt(t)))
-----------------------------------------------------------------------------
(* How much there is to look at to find all these ways: the nodes come to, *)
(* each as often as a way comes to it.  A round that took nothing is not   *)
(* followed by another, so this is finite, but it may be a great deal:     *)
(* loops in one another, alternatives that take the same text in a loop,   *)
(* loops one after the other that may share a text.                        *)
Total(ways, Cost(_)) == MapThenSumSet(LAMBDA k : Cost(ways[k]), DOMAIN ways)

RECURSIVE Visits(_, _, _), VisitsInNode(_, _), VisitsInRounds(_, _, _, _)

Visits(chain, i, w) ==
  CASE i > Len(chain) -> 1
    [] chain[i].op = "Or" -> 1 + Visits(chain[i].arg, 1, w) + Visits(chain, i + 1, w)
    [] OTHER -> 1 + VisitsInNode(chain[i], w)
                + Total(WaysOfNode(chain[i], w), LAMBDA u : Visits(chain, i + 1, u))

(* The k-th round comes of the rounds a loop may make, `last` is where the *)
(* one before it began.                                                    *)
VisitsInRounds(n, k, last, w) ==
  IF IF n.hi = Unbounded THEN k > n.lo /\ w.at = last ELSE k > n.hi THEN 1
  ELSE 1 + Visits(n.arg, 1, w)
         + Total(Ways(n.arg, 1, w), LAMBDA u : VisitsInRounds(n, k + 1, w.at, u))

VisitsInNode(n, w) ==
  CASE n.op \in {"Brackets", "NamedBrackets", "Ahead", "NAhead"} -> Visits(n.arg, 1, w)
    [] n.op \in {"Behind", "NBehind"} ->
         IF w.at < n.v THEN 0 ELSE Visits(n.arg, 1, [w EXCEPT !.at = @ - n.v])
    [] n.op \in Quantifiers -> VisitsInRounds(n, 1, -1, w)
    [] OTHER -> 0

(* parse goes through the places up to the first that has a match.         *)
VisitsMeant ==
  LET Tried == {t \in Places : \A u \in Places : u < t => WaysAt(u) = <<>>}
  IN MapThenSumSet(LAMBDA t : Visits(self.chain, 1, [FirstWay(t) EXCEPT !.m = NoMatches]), Tried)
=============================================================================

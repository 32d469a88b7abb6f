----------------------------- MODULE MCCRegExp ------------------------------
(* CRegExp on small expressions: each with the calls of parse made on it.  *)
EXTENDS RegExpMeaning

(* K is the Kelvin sign: not ASCII, but its lower case is the ASCII k.     *)
MCChars == {"a", "b", "B", "c", "1", " ", "k", "K", "nl"}
MCAscii == MCChars \ {"K"}
MCLetters == {"a", "b", "B", "c", "k", "K"}
MCDigits == {"1"}
MCSpaces == {" ", "nl"}
MCUppers == {"B", "K"}
MCLowers == {"a", "b", "c", "k"}
MCLineBreaks == {"nl"}
MCLowerCase == [c \in MCChars |-> IF c = "B" THEN "b" ELSE IF c = "K" THEN "k" ELSE c]

A == Symb("a")
B == Symb("b")
C == Symb("c")
K == Symb("K")
Dot == Meta("AnyChr")
SoL == Meta("SoL")
EoL == Meta("EoL")
Star == Repeat(0, Unbounded, FALSE)
Plus1 == Repeat(1, Unbounded, FALSE)
Maybe == Repeat(0, 1, FALSE)
LazyStar == Repeat(0, Unbounded, TRUE)
LazyMaybe == Repeat(0, 1, TRUE)

(* Calls: every place and end of a text; at one place, or searching on.    *)
CallOf(text, from, to, scheme, moving) ==
  [str |-> text, pos |-> from, eol |-> to, soscheme |-> scheme, moves |-> moving, masked |-> TRUE]
Searches(texts) == {CallOf(x, 0, Len(x), 0, TRUE) : x \in texts}
Unmasked(calls) == {[c EXCEPT !.masked = FALSE] : c \in calls}
Everywhere(texts) ==
  UNION {{CallOf(x, p, e, 0, m) : p \in 0 .. Len(x), e \in {Len(x), Len(x) - 1}, m \in BOOLEAN} : x \in texts}
InScheme(texts) ==
  UNION {{CallOf(x, p, Len(x), o, m) : o \in 0 .. p, m \in BOOLEAN} :
           p \in 0 .. 3, x \in {t \in texts : Len(t) = 3}}

P(expr, flags, parses) ==
  [source |-> Expression(TRUE, flags, expr), parses |-> {c \in parses : c.pos <= c.eol}]

aab == <<"a", "a", "b">>
aba == <<"a", "b", "a">>
abc == <<"a", "b", "c">>
bab == <<"b", "a", "b">>

(* Texts with many ways to be tried; the last as in test_cregexp.cpp.      *)
Crowd(ending) == <<"a", "a", "a", "a", "a">> \o ending
Crowds ==
  Searches({Crowd(<<"b", "a", "c">>), Crowd(<<"a", "c", "b">>)}) \cup Unmasked(Searches({Crowd(<<"c">>)}))

MCPatterns == <<
  P(<<A, B, Or, A, Star, EoL>>, {}, Everywhere({aab, aba})),
  P(<<Open, A, Or, A, B, Close, Star, Dot, LazyMaybe, C>>, {}, Searches({abc, aab})),
  P(<<Open, A, Plus1, Close, Open, A, Or, B, Close, EoL>>, {}, Everywhere({aab, aba})),
  P(<<SoL, Dot, LazyStar, B>>, {}, Everywhere({aab, aba})),
  P(<<A, Repeat(1, 2, FALSE), B>>, {}, Everywhere({aab, bab})),
  P(<<A, Repeat(1, 2, TRUE), Dot>>, {}, Everywhere({aab, bab})),
  P(<<A, Repeat(2, Unbounded, FALSE), Dot, Maybe, B>>, {}, Searches({aab, <<"a", "a", "a">>})),
  P(<<Open, Dot, Close, Dot, BkBrack(1)>>, {}, Searches({aba, aab})),
  P(<<OpenName("n"), A, Close, B, BkBrackName("n")>>, {}, Searches({aba, aab})),
  P(<<A, B, Look("Ahead", 0), Dot, LazyMaybe, B>>, {}, Searches({aab, aba})),
  P(<<Dot, B, Look("NAhead", 0), A>>, {}, Searches({aab, aba})),
  P(<<A, Look("Behind", 1), B>>, {}, Everywhere({aab, bab})),
  P(<<A, Look("NBehind", 1), B, EoL>>, {}, Everywhere({aab, bab})),
  P(<<Meta("SoScheme"), Dot, B>>, {}, InScheme({aab, bab})),
  P(<<A, Meta("Start"), B, Meta("End"), Dot>>, {}, Searches({aba, aab})),
  P(<<Meta("End"), A, Meta("Start"), B>>, {}, Searches({bab, aab})),
  P(<<Open, Meta("Start"), C, Or, A, Close, B>>, {}, Searches({aab, bab})),
  P(<<B, B>>, {"i"}, Everywhere({<<"a", "B", "b">>, aab})),
  P(<<Dot, K>>, {"i"}, Searches({<<"a", "k">>, <<"k", "K">>})),
  P(<<Dot, B>>, {}, Searches({<<"a", "nl", "b">>, aab})),
  P(<<Dot, B>>, {"s"}, Searches({<<"a", "nl", "b">>})),
  P(<<SoL, A, EoL>>, {"m"}, Searches({<<"b", "nl", "a">>, <<"a", "nl", "b">>})),
  P(<<Meta("WBound"), Meta("WordSymb"), Plus1, Meta("WBound"), Maybe>>, {}, Everywhere({<<"a", " ", "b">>})),
  P(<<Meta("PreNW"), Enum({"a", "1"}), Meta("NWBound")>>, {}, Everywhere({<<"a", "1", "a">>, aab})),
  P(<<BkTrace("BkTrace", 1), B, Or, BkTraceName("BkTraceName", "n")>>, {}, Everywhere({aab})),
  P(<<Blank, A, Blank, B, Or>>, {"x"}, Searches({aab, <<"b">>})),
  P(<<OpenPlain, A, Or, B, C, Close, Plus1, Or, C, C>>, {}, Searches({abc, <<"c", "c">>})),
  P(<<Open, A, Maybe, B, Or, EoL, Close, C, LazyStar>>, {}, Searches({aab, <<"c", "b">>})),
  P(<<OpenPlain, Meta("WBound"), Close, Star, A>>, {}, Everywhere({aab, bab})),
  P(<<Open, A, Plus1, Close, Plus1, B>>, {}, Searches({aab}) \cup Crowds),
  P(<<Open, A, Or, A, A, Close, Plus1, B>>, {}, Crowds),
  P(<<A, Star, A, Star, A, Star, B>>, {}, Crowds),
  P(<<Open, A, Or, B, Close, Star, C>>, {}, Crowds),
  P(<<A, Open, B>>, {}, Searches({aab})),
  P(<<Star, A>>, {}, Searches({aab})) >>

MCBack == [str |-> <<"b", "a", "a">>, s |-> [g \in 0 .. 2 |-> IF g = 0 THEN 0 ELSE IF g = 1 THEN 1 ELSE -1],
           e |-> [g \in 0 .. 2 |-> IF g < 2 THEN 3 ELSE -1],
           ns |-> [g \in 0 .. 1 |-> IF g = 0 THEN 2 ELSE -1],
           ne |-> [g \in 0 .. 1 |-> IF g = 0 THEN 3 ELSE -1],
           names |-> <<"n">>]
-----------------------------------------------------------------------------
(* parse finds the match the expression means - the same text, moved by \m *)
(* and \M, or none - whatever it skipped by the facts of optimize and      *)
(* whatever an earlier call left in the nodes (parseRE, lowParse).         *)
AgreesWithMeaning ==
  phase = "done" /\ ~stepBudgetExceeded =>
    (IF found THEN <<matches.s[0], matches.e[0]>> ELSE NoMatch) = Meant

(* The parser may ask mayMatch and canStartWith first and not call parse:  *)
(* neither ever says no where there is a match (cregexp.h, TextParser).    *)
PrefiltersSound ==
  phase = "begin" /\ self.err = "EOK" =>
    /\ Meant # NoMatch => mayMatch(call.pos, end, call.soscheme, call.moves, Line)
    /\ call.pos < end /\ WaysAt(call.pos) # <<>> => canStartWith(At(call.pos))

(* The budget is for expressions that have very many ways to be tried, and *)
(* is not used up otherwise: not by going round over nothing, not by what  *)
(* an earlier call left in the nodes or in the counter.  A parse takes at  *)
(* most StepsPerVisit turns of lowParse for each node that some way of the *)
(* expression comes to; when the budget is exceeded there is no match      *)
(* (parseStepLimit, cregexp.h).                                            *)
StepsPerVisit == 2
BudgetSpared ==
  phase = "done" =>
    /\ steps <= StepsPerVisit * VisitsMeant
    /\ stepBudgetExceeded => ~found

(* Looping over something that may take nothing.                           *)
MCLoopPatterns == <<
  P(<<Open, Open, B, Close, Maybe, Close, Star, Dot>>, {}, {CallOf(<<"b">>, 0, 1, 0, FALSE)}) >>
=============================================================================

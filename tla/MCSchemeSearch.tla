--------------------------- MODULE MCSchemeSearch ---------------------------
(***************************************************************************)
(* Small grammars and texts for the search of SchemeSearch.                *)
(***************************************************************************)
EXTENDS SchemeSearch

a == 1  b == 2  A == 3  plus == 4  left == 5  right == 6  lt == 7  ya == 8

AllChars == 1 .. 8
AsciiChars == 1 .. 7
LetterChars == {a, b, A, ya}
Lowered == [ch \in AllChars |-> IF ch = A THEN a ELSE ch]

RE(region, starts, length) ==
  [type |-> "re", region |-> region, starts |-> starts, length |-> length, low |-> FALSE]
LowRE(region, starts) == [RE(region, starts, 1) EXCEPT !.low = TRUE]
Block(region, scheme) ==
  [type |-> "block", region |-> region, starts |-> {left}, ends |-> {right}, low |-> FALSE,
   scheme |-> scheme]
Inherit(scheme, entries) == [type |-> "inherit", scheme |-> scheme, entries |-> entries]
Virtual(virt, subst) == [virt |-> virt, subst |-> subst]
Word(region, word) == [keyword |-> word, region |-> region, isSymbol |-> FALSE]
Symb(region, word) == [keyword |-> word, region |-> region, isSymbol |-> TRUE]
KW(infos, matchCase) ==
  [type |-> "keywords", kwList |-> sortList(infos), matchCase |-> matchCase, worddiv |-> {}]

-----------------------------------------------------------------------------
(* Three file types, each embedding the one before: attr of html is        *)
(* replaced in jsp by jattr, and in page, which inherits jsp, jattr by     *)
(* pattr.  The inherit of attr in html is inlined until jsp is loaded.     *)
WebTypes == {"html", "jsp", "page"}
WebSchemes == {"html", "attr", "body", "jsp", "jattr", "page", "pattr"}
WebTypeOf == [html |-> "html", attr |-> "html", body |-> "html", jsp |-> "jsp", jattr |-> "jsp",
              page |-> "page", pattr |-> "page"]
WebNeeds == [html |-> {"html"}, jsp |-> {"html", "jsp"}, page |-> WebTypes]
WebNodes ==
  [html  |-> <<RE("mark", {a}, 0),
               KW({Word("kwA", <<a>>), Word("kwAA", <<a, a>>)}, FALSE),
               Inherit("attr", <<>>), [Block("value", "attr") EXCEPT !.starts = {plus}],
               [Block("tag", "body") EXCEPT !.starts = {lt}], LowRE("low", {ya})>>,
   attr  |-> <<KW({Word("kwAB", <<a, b>>), Symb("bplus", <<b, plus>>)}, FALSE), RE("ab", {b}, 1)>>,
   body  |-> <<Inherit("attr", <<>>), RE("bya", {ya}, 1)>>,
   jsp   |-> <<Inherit("html", <<Virtual("attr", "jattr")>>), RE("ya", {ya}, 1)>>,
   jattr |-> <<RE("jb", {b}, 1), Block("jtag", "html"), Inherit(NoScheme, <<>>)>>,
   page  |-> <<Inherit("jsp", <<Virtual("jattr", "pattr")>>)>>,
   pattr |-> <<RE("pb", {b}, 1), Block("ptag", "jsp"), Inherit("attr", <<>>)>>]
WebContents ==
  {<<left>>, <<lt, b>>, <<b, right, b>>, <<plus, b, left>>, <<right, lt, ya, right>>,
   <<a, a, plus>>, <<A, b, ya>>, <<A, plus, b>>}

(* In a block whose references to x become y, two schemes one and two are  *)
(* each put in the place of the other.                                     *)
SwapSchemes == {"x", "y", "one", "two", "pair", "inner", "body", "outer"}
SwapTypes == {"t"}
SwapTypeOf == [s \in SwapSchemes |-> "t"]
SwapNeeds == [t |-> {"t"}]
SwapNodes ==
  [x     |-> <<RE("x", {b}, 1)>>,
   y     |-> <<RE("y", {b}, 1)>>,
   one   |-> <<RE("one", {a}, 1)>>,
   two   |-> <<RE("two", {a}, 1)>>,
   pair  |-> <<Block("one", "one"), RE("pair", {plus}, 1)>>,
   inner |-> <<Inherit("pair", <<Virtual("one", "two"), Virtual("two", "one")>>),
               Inherit("x", <<>>)>>,
   body  |-> <<Block("body", "inner")>>,
   outer |-> <<Inherit("body", <<Virtual("x", "y")>>)>>]
SwapContents == {<<left, b>>, <<left, a, right>>, <<b, right>>}

(* Two keyword lists side by side, the word of one a part of the other's.  *)
ListSchemes == {"main", "tail", "other"}
ListTypes == {"t", "u"}
ListTypeOf == [main |-> "t", tail |-> "t", other |-> "u"]
ListNeeds == [t |-> {"t"}, u |-> {"t", "u"}]
ListNodes ==
  [main  |-> <<KW({Symb("plus", <<plus>>)}, TRUE), Inherit("tail", <<>>)>>,
   tail  |-> <<KW({Symb("plusplus", <<plus, plus>>)}, TRUE), Block("block", "main")>>,
   other |-> <<Inherit("main", <<Virtual("tail", "other")>>)>>]
ListContents == {<<plus, plus>>, <<left>>, <<plus, right>>}
=============================================================================

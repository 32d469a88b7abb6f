----------------------------- MODULE RegExpTree -----------------------------
(***************************************************************************)
(* The compiler of regular expressions (CRegExp::setRELow and setStructs,  *)
(* src/colorer/cregexp/cregexp.cpp): from an expression to a tree.         *)
(*                                                                         *)
(* An expression is a sequence of tokens; a token is what one turn of the  *)
(* loop of setStructs reads, e.g. "a", "\d", "{2,}?", "(?:", "?#1".  The   *)
(* list of nodes that next and prev link in the code is a sequence here,   *)
(* a chain; the list un.param leads to is the node's arg.                  *)
(***************************************************************************)
EXTENDS Integers, Sequences, SequencesExt

CONSTANTS MATCHES_NUM, NAMED_MATCHES_NUM    \* groups a match has room for

NoGroup == -1
Unbounded == -1

Node(op, v, lo, hi, arg) == [op |-> op, v |-> v, lo |-> lo, hi |-> hi, arg |-> arg]
Atom(op, v) == Node(op, v, 0, 0, <<>>)
ReEmpty == Atom("Empty", "")

Quantifiers == {"RangeN", "RangeNM", "NGRangeN", "NGRangeNM"}
LookArounds == {"Ahead", "NAhead", "Behind", "NBehind"}
BlockOps == Quantifiers \cup LookArounds \cup {"Or"}    \* ReBlockOps .. ReSymbolOps

-----------------------------------------------------------------------------
(* Tokens.                                                                 *)
Tok(t, v) == [t |-> t, v |-> v]
Symb(c) == Tok("node", Atom("Symb", c))
Meta(m) == Tok("node", Atom("MetaSymb", m))
Enum(class) == Tok("node", Atom("Enum", class))
BkBrack(n) == Tok("node", Atom("BkBrack", n))
BkBrackName(name) == Tok("name", name)
BkTrace(op, n) == Tok("node", Atom(op, n))    \* \y \Y with a number
BkTraceName(op, name) == Tok("trace", [op |-> op, name |-> name])
Look(op, n) == Tok("node", Node(op, n, 0, 0, <<>>))
Or == Tok("node", Atom("Or", ""))
Open == Tok("(", "")                \* a capturing group
OpenPlain == Tok("(?:", "")
OpenName(name) == Tok("(?{", name)
Close == Tok(")", "")
Broken(error) == Tok("broken", error)   \* an unclosed [ or {, a lone ] or }, \ at the end
Blank == Tok("blank", "")

(* {s,e}, with its shorthands * + ? and the lazy forms.  Neither a minimum *)
(* nor a maximum below it can be missing.                                  *)
Repeat(s, e, lazy) ==
  IF e # Unbounded /\ e < s THEN Broken("EOP")
  ELSE Tok("node", Node(IF e = Unbounded THEN IF lazy THEN "NGRangeN" ELSE "RangeN"
                        ELSE IF lazy THEN "NGRangeNM" ELSE "RangeNM", "", s, e, <<>>))

-----------------------------------------------------------------------------
(* Symbols that follow each other become a word.  The one an operator      *)
(* comes after stays a symbol, for the operator to take: | is such an      *)
(* operator.                                                               *)
MakeWords(chain) ==
  LET IsSymb(i) == i \in DOMAIN chain /\ chain[i].op = "Symb"
      Ends(i) == CHOOSE k \in i .. Len(chain) + 1 :
                   ~IsSymb(k) /\ \A l \in i .. k - 1 : IsSymb(l)
      Size(i) == LET k == Ends(i)
                 IN (k - i) - (IF k <= Len(chain) /\ chain[k].op \in BlockOps THEN 1 ELSE 0)
      Words[i \in 1 .. Len(chain) + 1] ==
        CASE i > Len(chain) -> <<>>
          [] IsSymb(i) /\ Size(i) > 1 ->
               <<Atom("Word", [k \in 1 .. Size(i) |-> chain[i + k - 1].v])>> \o Words[i + Size(i)]
          [] OTHER -> <<chain[i]>> \o Words[i + 1]
  IN Words[1]

(* An alternative with nothing in it is an empty node.                     *)
AddEmpty(chain) ==
  LET Before(i) == IF i = 1 THEN <<ReEmpty>> ELSE <<>>
      After(i) == IF i = Len(chain) \/ chain[i + 1].op \in BlockOps THEN <<ReEmpty>> ELSE <<>>
  IN FoldLeftDomain(LAMBDA out, i : out \o (IF chain[i].op # "Or" THEN <<chain[i]>>
                                            ELSE Before(i) \o <<chain[i]>> \o After(i)),
                    <<>>, chain)

(* An operator takes the node before it into its arg, | every node back to *)
(* the one before.  FALSE for an operator with nothing before it.          *)
TakesFrom(out, op) ==
  IF op # "Or" THEN Len(out)
  ELSE 1 + FoldLeftDomain(LAMBDA last, i : IF out[i].op = "Or" THEN i ELSE last, 0, out)

GenerateOps(chain) ==
  FoldLeft(LAMBDA r, n :
             IF n.op \notin BlockOps THEN [r EXCEPT !.out = Append(@, n)]
             ELSE IF ~r.ok \/ r.out = <<>> THEN [r EXCEPT !.ok = FALSE]
             ELSE LET from == TakesFrom(r.out, n.op) IN
                  [r EXCEPT !.out = Append(SubSeq(r.out, 1, from - 1),
                                           [n EXCEPT !.arg = SubSeq(r.out, from, Len(r.out))])],
           [ok |-> TRUE, out |-> <<>>], chain)

-----------------------------------------------------------------------------
(* setStructs from the i-th token up to the bracket that closes, which is  *)
(* at, or to the end.  done says what the expression has so far: its       *)
(* groups, and the names of its named ones; and back the names \y{} may    *)
(* use, those of the expression set by setBackRE.                          *)
NoBackRE == [set |-> FALSE, names |-> <<>>]

Result(err, chain, at, done) == [err |-> err, chain |-> chain, at |-> at, done |-> done]
Failed(err, at, done) == Result(err, <<>>, at, done)

Structured(chain, at, done) ==
  LET made == GenerateOps(AddEmpty(MakeWords(chain)))
  IN IF made.ok THEN Result("EOK", made.out, at, done) ELSE Failed("EOP", at, done)

(* What a name stands for, the last of equal ones never.                   *)
BracketNo(names, name) == SelectInSeq(names, LAMBDA n : n = name) - 1

GroupNode(token, done) ==
  CASE token.t = "(" ->
         [node |-> Node("Brackets", IF done.groups < MATCHES_NUM THEN done.groups ELSE NoGroup,
                        0, 0, <<>>),
          done |-> [done EXCEPT !.groups = IF @ < MATCHES_NUM THEN @ + 1 ELSE @]]
    [] token.t = "(?:" \/ token.v = "" ->
         [node |-> Node("NamedBrackets", NoGroup, 0, 0, <<>>), done |-> done]
    [] OTHER ->
         LET room == Len(done.names) < NAMED_MATCHES_NUM IN
         [node |-> Node("NamedBrackets", IF room THEN Len(done.names) ELSE NoGroup, 0, 0, <<>>),
          done |-> [done EXCEPT !.names = IF room THEN Append(@, token.v) ELSE @]]

(* With extend a blank is skipped; one that comes first leaves the empty   *)
(* node the chain began with.                                              *)
RECURSIVE setStructs(_, _, _, _), NextToken(_, _, _, _, _)
NextToken(expr, extend, i, chain, done) ==
  IF i > Len(expr) \/ expr[i].t = ")"
  THEN Structured(IF chain = <<>> THEN <<ReEmpty>> ELSE chain, i, done)
  ELSE LET token == expr[i]
           Continue(node, rest) == NextToken(expr, extend, i + 1, Append(chain, node), rest)
       IN CASE token.t = "node" -> Continue(token.v, done)
            [] token.t = "blank" ->
                 IF extend
                 THEN NextToken(expr, extend, i + 1, IF chain = <<>> THEN <<ReEmpty>> ELSE chain, done)
                 ELSE Continue(Atom("Symb", " "), done)
            [] token.t = "broken" -> Failed(token.v, i, done)
            [] token.t = "name" ->
                 IF BracketNo(done.names, token.v) = -1 THEN Failed("ESYNTAX", i, done)
                 ELSE Continue(Atom("BkBrackName", BracketNo(done.names, token.v)), done)
            [] token.t = "trace" ->
                 LET no == BracketNo(done.back.names, token.v.name) IN
                 CASE ~done.back.set -> Failed("EERROR", i, done)
                   [] no = -1 -> Failed("ESYNTAX", i, done)
                   [] OTHER -> Continue(Atom(token.v.op, no), done)
            [] OTHER ->
                 LET group == GroupNode(token, done)
                     inner == setStructs(expr, extend, i + 1, group.done)
                 IN CASE inner.err # "EOK" -> inner
                      [] inner.at > Len(expr) -> Failed("EBRACKETS", i, inner.done)
                      [] OTHER -> NextToken(expr, extend, inner.at + 1,
                                            Append(chain, [group.node EXCEPT !.arg = inner.chain]),
                                            inner.done)

setStructs(expr, extend, from, done) == NextToken(expr, extend, from, <<>>, done)

(* An expression with its slashes and modifiers.  Group 0 is the whole.    *)
Expression(slashes, flags, expr) == [slashes |-> slashes, flags |-> flags, expr |-> expr]

setRELow(source, back) ==
  LET done == [groups |-> 1, names |-> <<>>, back |-> back] IN
  IF ~source.slashes THEN Failed("ESYNTAX", 0, done)
  ELSE LET body == setStructs(source.expr, "x" \in source.flags, 1, done)
       IN CASE body.err # "EOK" -> body
            [] body.at <= Len(source.expr) -> Failed("EBRACKETS", body.at, body.done)
            [] OTHER -> [body EXCEPT !.chain = <<Node("Brackets", 0, 0, 0, body.chain)>>]

(* The nodes of a tree, each at the path that leads to it.                 *)
RECURSIVE NodesOf(_, _)
NodesOf(chain, above) ==
  UNION {{<<Append(above, i), chain[i]>>} \cup NodesOf(chain[i].arg, Append(above, i)) :
           i \in DOMAIN chain}
Nodes(chain) ==
  FoldSet(LAMBDA n, all : n[1] :> n[2] @@ all, <<>>, NodesOf(chain, <<>>))
=============================================================================

------------------------------- MODULE VTList -------------------------------
(***************************************************************************)
(* The list of substitution tables in force while a text is parsed         *)
(* (VTList, src/colorer/parsers/TextParserHelpers.cpp).  Each <inherit>    *)
(* with <virtual> entries puts its table on the list while its scheme is   *)
(* searched.  A reference that is replaced hides the tables from the       *)
(* outermost one that took part on: the tables stay on the list, past      *)
(* last, until the reference is left.                                      *)
(*                                                                         *)
(* Indexes are the code's plus one: last = 0 is last_index = -1.           *)
(***************************************************************************)
EXTENDS Integers, Sequences

CONSTANTS Schemes,
          NoScheme              \* a reference updateLinks could not resolve

ASSUME NoSchemeAssumption == NoScheme \notin Schemes

Entries == [virt : Schemes \cup {NoScheme}, subst : Schemes \cup {NoScheme}]

Node(table) == [vlist |-> table, shadow_last |-> 0]

VTLists == {v \in [nodes : Seq([vlist : Seq(Entries), shadow_last : Nat]), last : Nat] :
              v.last <= Len(v.nodes)}

Empty == [nodes |-> <<>>, last |-> 0]

(* The tables in force, the innermost one last. *)
Visible(v) == [i \in 1 .. v.last |-> v.nodes[i].vlist]

-----------------------------------------------------------------------------
Inserted(s, i, e) ==
  [k \in 1 .. Len(s) + 1 |-> IF k < i THEN s[k] ELSE IF k = i THEN e ELSE s[k - 1]]
Erased(s, i) ==
  [k \in 1 .. Len(s) - 1 |-> IF k < i THEN s[k] ELSE s[k + 1]]

Pushes(table) == table # <<>>

push(v, table) ==
  IF Pushes(table)
  THEN [nodes |-> Inserted(v.nodes, v.last + 1, Node(table)), last |-> v.last + 1]
  ELSE v

pop(v) ==
  IF v.last = 0 THEN v ELSE [nodes |-> Erased(v.nodes, v.last), last |-> v.last - 1]

-----------------------------------------------------------------------------
(* What a table makes of a reference: its entries are tried in order, each *)
(* on what the ones before it left.                                        *)
Rewritten(table, scheme) ==
  LET Through[k \in 0 .. Len(table)] ==
        IF k = 0 THEN [scheme |-> scheme, used |-> FALSE]
        ELSE LET before == Through[k - 1] IN
             IF before.scheme = table[k].virt /\ table[k].subst # NoScheme
             THEN [scheme |-> table[k].subst, used |-> TRUE]
             ELSE before
  IN Through[Len(table)]

(* The walk of pushvirt from the innermost table out: the scheme it has    *)
(* come to when the tables after the i-th are done, and whether the i-th   *)
(* then replaces that.                                                     *)
After(v, scheme) ==
  LET Reached[i \in 0 .. v.last] ==
        IF i = v.last THEN scheme ELSE Rewritten(v.nodes[i + 1].vlist, Reached[i + 1]).scheme
  IN Reached

Replaces(v, scheme, i) == Rewritten(v.nodes[i].vlist, After(v, scheme)[i]).used

(* curvl, the last table of the walk that does *)
IsOutermost(v, scheme, i) ==
  Replaces(v, scheme, i) /\ \A j \in 1 .. i - 1 : ~Replaces(v, scheme, j)

(* The tables from the i-th on are hidden; it knows how far they reach.    *)
Hidden(v, i) == [nodes |-> [v.nodes EXCEPT ![i].shadow_last = v.last], last |-> i - 1]

(* The scheme put for the reference, NoScheme if none is.                  *)
pushvirt(v, scheme) ==
  IF \E i \in 1 .. v.last : IsOutermost(v, scheme, i)
  THEN [scheme |-> After(v, scheme)[0],
        vt |-> Hidden(v, CHOOSE i \in 1 .. v.last : IsOutermost(v, scheme, i))]
  ELSE [scheme |-> NoScheme, vt |-> v]

popvirt(v) ==
  LET that == v.last + 1 IN
  [nodes |-> [v.nodes EXCEPT ![that].shadow_last = 0], last |-> v.nodes[that].shadow_last]

-----------------------------------------------------------------------------
(* What a multi-line block keeps for a parse that resumes inside it, and   *)
(* the list such a parse starts with.  No table is kept as a null pointer, *)
(* here <<>>.                                                              *)
store(v) == Visible(v)

restore(v, saved) ==
  IF v.last # 0 \/ saved = <<>> THEN v
  ELSE LET nodes == v.nodes \o [i \in 1 .. Len(saved) |-> Node(saved[i])] IN
       [nodes |-> nodes, last |-> Len(nodes)]
=============================================================================

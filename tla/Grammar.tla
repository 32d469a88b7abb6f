------------------------------- MODULE Grammar ------------------------------
(***************************************************************************)
(* File types, their schemes and the nodes of a scheme, as loaded from HRC *)
(* (SchemeNode.h), and what the HRC reference says a search in a scheme    *)
(* finds: the nodes are tried in HRC order and the first match wins.       *)
(*                                                                         *)
(* A node is one of                                                        *)
(*   [type |-> "re", region, starts, length, low]                          *)
(*   [type |-> "block", region, starts, ends, low, scheme]                 *)
(*   [type |-> "keywords", kwList, matchCase, worddiv]                     *)
(*   [type |-> "inherit", scheme, entries]                                 *)
(* A regexp is the set of characters it starts at and how many it takes, a *)
(* start or an end takes one.  low is priority="low".                      *)
(***************************************************************************)
EXTENDS VTList, Keywords

CONSTANTS Types, TypeOf,        \* file types, and the type of each scheme
          Needs,                \* Needs[t]: what loading t loads
          Nodes                 \* Nodes[scheme]: SchemeImpl::nodes

References(node) ==
  CASE node.type = "block" -> {node.scheme}
    [] node.type = "inherit" ->
         {node.scheme} \cup UNION {{node.entries[i].virt, node.entries[i].subst} :
                                     i \in DOMAIN node.entries}
    [] OTHER -> {}

ASSUME TypesAssumption ==
  /\ TypeOf \in [Schemes -> Types]
  /\ DOMAIN Nodes = Schemes
  /\ \A t \in Types : t \in Needs[t] /\ \A u \in Needs[t] : Needs[u] \subseteq Needs[t]
  /\ \A s \in Schemes : \A i \in DOMAIN Nodes[s] :
       \A r \in References(Nodes[s][i]) \ {NoScheme} : TypeOf[r] \in Needs[TypeOf[s]]

SchemesOf(types) == {s \in Schemes : TypeOf[s] \in types}

-----------------------------------------------------------------------------
(* One place of a line: the text, the position, and lowlen, where the end  *)
(* of the block first matches.                                             *)

Place(text, gx, ends) ==
  LET stops == {p \in gx .. Len(text) - 1 : text[p + 1] \in ends} IN
  [text |-> text, gx |-> gx, char |-> text[gx + 1],
   lowlen |-> IF stops = {} THEN Len(text) ELSE Min(stops)]

Matches(node, at) == at.char \in node.starts /\ (node.low => at.gx < at.lowlen)

Nothing == [kind |-> "nothing"]

FoundRE(node, at) == [kind |-> "re", region |-> node.region, to |-> at.gx + node.length]

FoundKW(node, i, at) ==
  [kind |-> "re", region |-> node.kwList[i].region, to |-> at.gx + Len(node.kwList[i].keyword)]

FoundBlock(node, scheme, env) ==
  [kind |-> "block", block |-> node, scheme |-> scheme, env |-> env]

-----------------------------------------------------------------------------
(* What a reference stands for where the tables of env are in force (the   *)
(* innermost last), and the tables in force inside it.                     *)
RECURSIVE Resolve(_, _)
Resolve(env, scheme) ==
  IF env = <<>> THEN [scheme |-> scheme, env |-> env, replaced |-> FALSE]
  ELSE LET here == Rewritten(Last(env), scheme)
           outer == Resolve(Front(env), here.scheme)
       IN CASE outer.replaced -> outer
            [] ~outer.replaced /\ here.used ->
                 [scheme |-> here.scheme, env |-> Front(env), replaced |-> TRUE]
            [] OTHER -> [scheme |-> scheme, env |-> env, replaced |-> FALSE]

(* The first match in HRC order. *)
RECURSIVE FirstMatch(_, _, _, _)
FirstMatch(nodes, env, at, i) ==
  IF i > Len(nodes) THEN Nothing
  ELSE LET node == nodes[i]
           found ==
             CASE node.type = "re" /\ Matches(node, at) /\ node.length > 0 -> FoundRE(node, at)
               [] node.type = "keywords" ->
                    LET kw == Longest(node, at.text, at.gx, at.lowlen) IN
                    IF kw = 0 THEN Nothing ELSE FoundKW(node, kw, at)
               [] node.type = "block" /\ Matches(node, at) /\ node.scheme # NoScheme ->
                    LET to == Resolve(env, node.scheme) IN FoundBlock(node, to.scheme, to.env)
               [] node.type = "inherit" /\ node.scheme # NoScheme ->
                    LET to == Resolve(env, node.scheme) IN
                    IF to.replaced THEN FirstMatch(Nodes[to.scheme], to.env, at, 1)
                    ELSE FirstMatch(Nodes[node.scheme],
                                    IF Pushes(node.entries) THEN Append(env, node.entries)
                                    ELSE env, at, 1)
               [] OTHER -> Nothing
       IN IF found # Nothing THEN found ELSE FirstMatch(nodes, env, at, i + 1)

Search(scheme, env, at) == FirstMatch(Nodes[scheme], env, at, 1)
=============================================================================

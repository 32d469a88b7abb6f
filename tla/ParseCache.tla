----------------------------- MODULE ParseCache -----------------------------
(***************************************************************************)
(* The cache tree of the text parser (ParseCache in                        *)
(* src/colorer/parsers/TextParserHelpers.cpp): one node for every block    *)
(* that spans lines, its children in the order of the text.                *)
(*                                                                         *)
(* A tree is a function from the nodes allocated to records: the sibling   *)
(* list behind children, next and prev is the sequence kids, and cursor is *)
(* search_child, the child the last search of that list came to.  The      *)
(* operators are the functions of the class, tree in and tree out; a node  *)
(* freed leaves the domain, a node leaked stays in it without a place in   *)
(* the kids of its parent.                                                 *)
(***************************************************************************)
EXTENDS Integers, FiniteSets, SequencesExt

Nil    == -1               \* a null ParseCache*
RootId == 0
Unended == 2147483647      \* eline of a block not yet closed (0x7FFFFFFF)

NewNode(parent, sline, level) ==
  [parent |-> parent, kids |-> <<>>, cursor |-> Nil,
   sline |-> sline, eline |-> Unended, level |-> level]

(* initCache: the node of the base scheme. *)
InitTree(level) == [n \in {RootId} |-> NewNode(Nil, 0, level)]

FreeId(T)   == CHOOSE i \in 1 .. Cardinality(DOMAIN T) + 1 :
                 i \notin DOMAIN T /\ \A j \in 1 .. i - 1 : j \in DOMAIN T
Place(T, k) == CHOOSE i \in DOMAIN T[T[k].parent].kids : T[T[k].parent].kids[i] = k

-----------------------------------------------------------------------------
(* The sibling of the last one to start at or before line ln, looked for   *)
(* from sibling number i on.                                               *)
rightmostAtOrBefore(T, kids, i, ln) ==
  LET Past(j) == T[kids[j]].sline > ln
  IN CHOOSE j \in i .. Len(kids) :
       /\ j < Len(kids) => Past(j + 1)
       /\ \A m \in i + 1 .. j : ~Past(m)

Mutant_Candidate(T, n, ln) ==
  LET kids == T[n].kids
  IN kids[rightmostAtOrBefore(T, kids, IF T[n].cursor = Nil THEN 1 ELSE Place(T, T[n].cursor), ln)]
(* Which child of node n a search for line ln comes to: from the cursor    *)
(* forwards, to the one before it, or from the head of the list.           *)
Candidate(T, n, ln) ==
  LET kids == T[n].kids
      here == IF T[n].cursor = Nil THEN 1 ELSE Place(T, T[n].cursor)
  IN kids[IF T[kids[here]].sline <= ln THEN rightmostAtOrBefore(T, kids, here, ln)
          ELSE IF here > 1 /\ T[kids[here - 1]].sline <= ln THEN here - 1
          ELSE rightmostAtOrBefore(T, kids, 1, ln)]

Covers(T, n, ln) == T[n].sline <= ln /\ ln <= T[n].eline

(* searchLine from the root: the nodes a search for line ln goes through,  *)
(* down to the one it returns, and the last child of that one to end       *)
(* before the line.  Every list searched remembers where the search went.  *)
SearchPath(T, ln) ==
  LET go[n \in DOMAIN T] ==
        <<n>> \o IF T[n].kids # <<>> /\ Covers(T, Candidate(T, n, ln), ln)
                 THEN go[Candidate(T, n, ln)] ELSE <<>>
  IN go[RootId]

searchLine(T, ln) ==
  LET path  == SearchPath(T, ln)
      found == Last(path)
      cand  == IF T[found].kids = <<>> THEN Nil ELSE Candidate(T, found, ln)
  IN [found   |-> found,
      forward |-> IF cand # Nil /\ T[cand].sline <= ln THEN cand ELSE Nil,
      tree    |-> [n \in DOMAIN T |->
                     IF n \in ToSet(path) /\ T[n].kids # <<>>
                     THEN [T[n] EXCEPT !.cursor = Candidate(T, n, ln)] ELSE T[n]]]

-----------------------------------------------------------------------------
(* Nodes with their children, for the destructor.                          *)
WithBelow(T, ids) ==
  LET under[n \in DOMAIN T] == n \in ids \/ (n # RootId /\ under[T[n].parent])
  IN {n \in DOMAIN T : under[n]}

Without(T, ids) == [n \in DOMAIN T \ WithBelow(T, ids) |-> T[n]]

Mutant_dropChildren(T, n) == [Without(T, ToSet(T[n].kids)) EXCEPT ![n].kids = <<>>]
dropChildren(T, n) ==
  [Without(T, ToSet(T[n].kids)) EXCEPT ![n].kids = <<>>, ![n].cursor = Nil]

(* The siblings after node f are deleted from the last on, each moving a   *)
(* cursor that stands on it to the one before: f at the end.               *)
dropNext(T, f) ==
  LET p    == T[f].parent
      gone == {T[p].kids[i] : i \in Place(T, f) + 1 .. Len(T[p].kids)}
  IN [Without(T, gone) EXCEPT ![p].kids = SubSeq(@, 1, Place(T, f)),
                              ![p].cursor = IF @ \in gone THEN f ELSE @]

(* A new node becomes the next of node f, or with no f the children of     *)
(* node p: what that pointer held before is no longer in the tree.         *)
Appended(T, p, f, id, node) ==
  LET before == IF f = Nil THEN <<>> ELSE SubSeq(T[p].kids, 1, Place(T, f))
  IN [n \in DOMAIN T \cup {id} |->
        IF n = id THEN node
        ELSE IF n = p THEN [T[p] EXCEPT !.kids = Append(before, id)] ELSE T[n]]

(* collectOpenLevels: the levels open in node n, from the outermost.       *)
OpenLevels(T, n) ==
  LET open[m \in DOMAIN T] ==
        IF m = RootId THEN <<>> ELSE Append(open[T[m].parent], T[m].level)
  IN open[n]

-----------------------------------------------------------------------------
(* What must hold of a tree.                                               *)

(* Every node is where its parent has it, and every cursor is on a child.  *)
Linked(T) ==
  \A n \in DOMAIN T :
    /\ n # RootId => T[n].parent \in DOMAIN T /\ n \in ToSet(T[T[n].parent].kids)
    /\ \A i \in DOMAIN T[n].kids :
         T[n].kids[i] \in DOMAIN T /\ T[T[n].kids[i]].parent = n
    /\ T[n].cursor \in ToSet(T[n].kids) \cup {Nil}

(* Siblings are in order and do not overlap, children lie in their parent. *)
Ordered(T) ==
  \A n \in DOMAIN T : LET kids == T[n].kids IN
    /\ \A i \in DOMAIN kids :
         /\ T[kids[i]].sline <= T[kids[i]].eline
         /\ T[n].sline <= T[kids[i]].sline /\ T[kids[i]].eline <= T[n].eline
    /\ \A i \in 1 .. Len(kids) - 1 : T[kids[i]].eline < T[kids[i + 1]].sline

(* A search finds the one node that is the deepest to cover the line,      *)
(* wherever the cursors stand.                                             *)
FindsDeepest(T, ln) ==
  LET found == searchLine(T, ln).found
  IN \A n \in DOMAIN T : Covers(T, n, ln) =>
       Len(OpenLevels(T, n)) < Len(OpenLevels(T, found)) \/ n = found
=============================================================================

------------------------- MODULE TextParser_proofs --------------------------
(***************************************************************************)
(* Type correctness of the coloring loop, that nothing dangles, and the    *)
(* order of its cache: Spec => []TypeOK, Spec => []NothingDangles and Spec *)
(* => []CacheOrdered, for every grammar, text and bound.                   *)
(*                                                                         *)
(* The invariant is IInv. Neither property is inductive: that dropNext and *)
(* dropChildren free no node an activation of colorize() stands on holds   *)
(* because, while the cache is rebuilt, the activations stand along the    *)
(* right edge of the tree, each on the last child of the one before        *)
(* (Spine), and that edge is all the code ever cuts.                       *)
(***************************************************************************)
EXTENDS TextParser, ParseCache_proofs

(* A sequence with a length has elements.                                  *)
LEMMA NotEmpty == ASSUME NEW s, Len(s) # 0 PROVE s # <<>>
OBVIOUS

(* A sequence with one element replaced.                                   *)
LEMMA SetAt ==
  ASSUME NEW S, NEW s \in Seq(S), NEW k \in 1 .. Len(s), NEW x \in S
  PROVE  LET t == [s EXCEPT ![k] = x] IN
         t \in Seq(S) /\ Len(t) = Len(s) /\ \A i \in 1 .. Len(s) : t[i] = IF i = k THEN x ELSE s[i]
<1>1. Len(s) \in Nat /\ s \in [1 .. Len(s) -> S]
  OBVIOUS
<1>. DEFINE t == [s EXCEPT ![k] = x]
<1>2. t \in [1 .. Len(s) -> S] /\ \A i \in 1 .. Len(s) : t[i] = IF i = k THEN x ELSE s[i]
  BY <1>1
<1>. HIDE DEF t
<1>3. t \in Seq(S) /\ Len(t) = Len(s)
  BY <1>1, <1>2
<1>. QED
  BY <1>2, <1>3 DEF t

(* The levels of nodes and activations.                                    *)
AllLevels == Levels \cup {None}

(* What matchend can be.                                                   *)
Spans == [s : Nat, e : Nat]

(* What an activation of colorize() can be.                                *)
Frames ==
  [level : AllLevels, ended : BOOLEAN, clipped : BOOLEAN, old_line : 0 .. MaxLines + 1,
   ResF : Nat \cup {Nil}, ResP : Nat \cup {Nil}, node : Nat \cup {Nil}, nodeP : Nat \cup {Nil},
   old_matchend : Spans, old_schemeStart : Nat \cup {-1}]

(* Every variable has its type: TypeOK, with the lengths of lines and what *)
(* TypeOK leaves to NothingDangles.                                        *)
Typed ==
  /\ text \in [Lines -> Contents] /\ edits \in 0 .. MaxEdits
  /\ valid \in 0 .. MaxLines
  /\ call \in [kind : {"none", "update", "read", "off", "try"}, line : Lines]
  /\ pc \in {"idle", "line", "content", "return"}
  /\ frames \in Seq(Frames)
  /\ gx \in Nat /\ line \in 0 .. MaxLines + 1 /\ stop \in 0 .. MaxLines
  /\ clearLine \in -1 .. MaxLines /\ endLine \in Lines
  /\ matchend \in Spans /\ schemeStart \in Nat \cup {-1}
  /\ filled \in BOOLEAN /\ breakParsing \in BOOLEAN /\ gone \in BOOLEAN
  /\ handler \in Seq(Blocks)
  /\ tryStack \in Seq(Levels) /\ expected \in Seq(Levels) /\ tryMismatch \in BOOLEAN

(* How deep the calls are at each place of the loop, and that a block      *)
(* entered on a line of the range is left on one.                          *)
Control ==
  /\ pc = "idle" <=> frames = <<>>
  /\ stackLevel = IF pc = "return" THEN Len(frames) - 1 ELSE Len(frames)
  /\ stackLevel \in 0 .. MaxLevel + 1
  /\ pc = "content" => line < stop
  /\ \A i \in 2 .. Len(frames) : frames[i].old_line < stop

(* The lines of a node are lines of the text.                              *)
LineOf(T, n) == T[n].sline \in 0 .. MaxLines /\ T[n].eline \in 0 .. MaxLines + 1 \cup {Unended}

(* The cache is a tree, with lines of the text and levels of the grammar.  *)
GoodTree(T) ==
  /\ IsTree(T, AllLevels)
  /\ \A n \in DOMAIN T : LineOf(T, n)
  /\ \A n \in DOMAIN T \ {RootId} : T[n].level \in Levels

(* f is the last child of node p, and with f nil p has none. *)
EndsIn(T, p, f) ==
  IF f = Nil THEN T[p].kids = <<>>
  ELSE T[p].kids # <<>> /\ T[p].kids[Len(T[p].kids)] = f

(* The node of an activation is the last child, after the one before it. *)
Hangs(T, f) ==
  /\ f.ResP = f.nodeP /\ f.nodeP \in DOMAIN T /\ f.node \in DOMAIN T
  /\ EndsIn(T, f.nodeP, f.node)
  /\ IF f.ResF = Nil THEN Len(T[f.nodeP].kids) = 1
     ELSE Len(T[f.nodeP].kids) > 1 /\ T[f.nodeP].kids[Len(T[f.nodeP].kids) - 1] = f.ResF

(* While the cache is rebuilt: the parse stands at the end of the list of  *)
(* parent, and each activation above the first holds the last child of the *)
(* node that the one before it made.                                       *)
Spine(T, fs, p, f) ==
  /\ EndsIn(T, p, f)
  /\ fs[1].ResF = Nil /\ fs[1].ResP = Nil /\ fs[1].node = Nil /\ fs[1].nodeP = Nil
  /\ \A i \in 2 .. Len(fs) :
       /\ Hangs(T, fs[i])
       /\ i > 2 => fs[i].nodeP = fs[i - 1].node
       /\ \A j \in i .. Len(fs) : fs[i].nodeP # fs[j].node
  /\ Len(fs) > 1 => p = fs[Len(fs)].node

(* What the activations hold are nodes of the tree.                        *)
Held(T, fs) ==
  \A i \in DOMAIN fs :
    {fs[i].ResF, fs[i].ResP, fs[i].node, fs[i].nodeP} \subseteq DOMAIN T \cup {Nil}

(* What the call in progress stands on is in the tree, on its right edge   *)
(* if it rebuilds the tree.                                                *)
Standing ==
  /\ pc # "idle" => parent \in DOMAIN tree
  /\ pc = "idle" => parent = Nil
  /\ forward \in DOMAIN tree \cup {Nil}
  /\ Held(tree, frames)
  /\ pc # "idle" /\ Updating => Spine(tree, frames, parent, forward)

(* The inductive invariant.                                                *)
IInv == Typed /\ Control /\ GoodTree(tree) /\ Standing

(* It is stronger than what the runs check.                                *)
LEMMA Imply == IInv => TypeOK /\ NothingDangles
<1>. SUFFICES ASSUME IInv PROVE TypeOK /\ NothingDangles
  OBVIOUS
<1>1. \A n \in DOMAIN tree :
       /\ tree[n].parent \in DOMAIN tree \cup {Nil} /\ tree[n].sline \in 0 .. MaxLines
       /\ tree[n].eline \in 0 .. MaxLines + 1 \cup {Unended}
       /\ tree[n].level \in Levels \cup {None}
  <2>1. \A n \in DOMAIN tree : tree[n].parent \in DOMAIN tree \cup {Nil}
    BY DEF IInv, GoodTree, IsTree, Linked
  <2>2. \A n \in DOMAIN tree : tree[n] \in Nodes(AllLevels)
    BY DEF IInv, GoodTree, IsTree
  <2>3. \A n \in DOMAIN tree : tree[n].level \in Levels \cup {None}
    BY <2>2 DEF Nodes, AllLevels
  <2>. QED
    BY <2>1, <2>3 DEF IInv, GoodTree, LineOf
<1>2. \A i \in DOMAIN frames : frames[i].level \in Levels \cup {None}
  <2>1. \A i \in DOMAIN frames : frames[i] \in Frames
    BY DEF IInv, Typed
  <2>. QED
    BY <2>1 DEF Frames, AllLevels
<1>3. endLine \in 0 .. MaxLines
  BY BoundsAssumption DEF IInv, Typed, Lines
<1>4. parent \in DOMAIN tree \cup {Nil} /\ forward \in DOMAIN tree \cup {Nil}
  BY DEF IInv, Standing
<1>5. TypeOK
  BY <1>1, <1>2, <1>3, <1>4 DEF IInv, Typed, Control, TypeOK
<1>6. NothingDangles
  BY DEF IInv, Standing, Held, GoodTree, IsTree, NothingDangles
<1>. QED
  BY <1>5, <1>6

(* The base scheme has a level too.                                        *)
LEMMA NoneIsLevel == None \in AllLevels
BY DEF AllLevels

(* The invariant holds at first.                                           *)
LEMMA InitIInv == Init => IInv
<1>. SUFFICES ASSUME Init PROVE IInv
  OBVIOUS
<1>1. MaxLines \in Nat \ {0} /\ MaxEdits \in Nat /\ MaxLevel \in Nat
  BY BoundsAssumption
<1>2. Typed
  <2>1. NoCall \in [kind : {"none", "update", "read", "off", "try"}, line : Lines]
    BY <1>1 DEF NoCall, Lines
  <2>2. <<>> \in Seq(Frames) /\ <<>> \in Seq(Blocks) /\ <<>> \in Seq(Levels)
    OBVIOUS
  <2>3. 0 \in Lines /\ [s |-> 0, e |-> 0] \in Spans
    BY <1>1 DEF Lines, Spans
  <2>4. 0 \in 0 .. MaxEdits /\ 0 \in 0 .. MaxLines /\ 0 \in 0 .. MaxLines + 1 /\ -1 \in -1 .. MaxLines
    BY <1>1
  <2>5. /\ text \in [Lines -> Contents] /\ edits \in 0 .. MaxEdits /\ valid \in 0 .. MaxLines
        /\ call \in [kind : {"none", "update", "read", "off", "try"}, line : Lines]
        /\ pc \in {"idle", "line", "content", "return"} /\ frames \in Seq(Frames)
    BY <2>1, <2>2, <2>4 DEF Init
  <2>6. /\ gx \in Nat /\ line \in 0 .. MaxLines + 1 /\ stop \in 0 .. MaxLines
        /\ clearLine \in -1 .. MaxLines /\ endLine \in Lines
        /\ matchend \in Spans /\ schemeStart \in Nat \cup {-1}
    BY <2>3, <2>4 DEF Init
  <2>7. /\ filled \in BOOLEAN /\ breakParsing \in BOOLEAN /\ gone \in BOOLEAN
        /\ handler \in Seq(Blocks)
        /\ tryStack \in Seq(Levels) /\ expected \in Seq(Levels) /\ tryMismatch \in BOOLEAN
    BY <2>2 DEF Init
  <2>. QED
    BY <2>5, <2>6, <2>7 DEF Typed
<1>3. Control
  BY <1>1 DEF Init, Control
<1>4. GoodTree(tree)
  <2>1. IsTree(tree, AllLevels) /\ DOMAIN tree = {RootId}
    BY NoneIsLevel, InitTreeIs DEF Init
  <2>2. tree[RootId].sline = 0 /\ tree[RootId].eline = Unended
    BY DEF Init, InitTree, NewNode
  <2>. QED
    BY <1>1, <2>1, <2>2 DEF GoodTree, LineOf
<1>5. Standing
  BY DEF Init, Standing, Held
<1>. QED
  BY <1>2, <1>3, <1>4, <1>5 DEF IInv

(* A new activation has its type and holds no node.                        *)
LEMMA BottomIs ==
  ASSUME NEW level \in AllLevels, BoundsAssumption
  PROVE  /\ Bottom(level) \in Frames /\ Bottom(level).level = level
         /\ Bottom(level).ResF = Nil /\ Bottom(level).ResP = Nil
         /\ Bottom(level).node = Nil /\ Bottom(level).nodeP = Nil
         /\ <<Bottom(level)>> \in Seq(Frames) /\ Len(<<Bottom(level)>>) = 1
         /\ <<Bottom(level)>>[1] = Bottom(level)
<1>1. 0 \in 0 .. MaxLines + 1
  BY DEF BoundsAssumption
<1>2. Bottom(level) \in Frames
  BY <1>1 DEF Bottom, Frames, Spans
<1>3. Bottom(level).level = level /\ Bottom(level).ResF = Nil /\ Bottom(level).ResP = Nil
         /\ Bottom(level).node = Nil /\ Bottom(level).nodeP = Nil
  BY DEF Bottom
<1>. HIDE DEF Bottom
<1>. QED
  BY <1>2, <1>3

(* A tree may be trimmed at node p, after its child f if there is one.     *)
Trims(T, p, f) ==
  GoodTree(T) /\ p \in DOMAIN T /\ (f = Nil \/ (f \in DOMAIN T /\ f # RootId /\ T[f].parent = p))

(* R is T trimmed there: f is the last child now, or p has none, and       *)
(* nothing else has changed.                                               *)
TrimsTo(T, p, f, R) ==
  /\ GoodTree(R) /\ p \in DOMAIN R /\ f \in DOMAIN R \cup {Nil}
  /\ EndsIn(R, p, f)
  /\ DOMAIN R \subseteq DOMAIN T
  /\ \A n \in DOMAIN R : n # p => R[n] = T[n]
  /\ R[p].parent = T[p].parent /\ R[p].sline = T[p].sline /\ R[p].eline = T[p].eline
  /\ \A i \in DOMAIN R[p].kids : i \in DOMAIN T[p].kids /\ R[p].kids[i] = T[p].kids[i]

(* What the results still to be trimmed leave of a tree. *)
LEMMA TrimmedIs ==
  ASSUME NEW T, NEW p, NEW f, Trims(T, p, f), NEW update \in BOOLEAN
  PROVE  LET R == Trimmed(T, p, f, update) IN
         /\ GoodTree(R) /\ p \in DOMAIN R /\ R[p].level = T[p].level
         /\ f \in DOMAIN R \cup {Nil}
         /\ update => TrimsTo(T, p, f, R)
<1>. DEFINE R == Trimmed(T, p, f, update)
<1>t. /\ GoodTree(T) /\ p \in DOMAIN T
      /\ f = Nil \/ (f \in DOMAIN T /\ f # RootId /\ T[f].parent = p)
  BY DEF Trims
<1>0. IsTree(T, AllLevels)
  BY <1>t DEF GoodTree
<1>1. CASE ~update
  BY <1>t, <1>1 DEF Trimmed
<1>2. CASE update /\ f = Nil
  <2>1. R = dropChildren(T, p)
    BY <1>2 DEF Trimmed
  <2>. HIDE DEF R
  <2>2. /\ IsTree(R, AllLevels) /\ DOMAIN R \subseteq DOMAIN T /\ p \in DOMAIN R
        /\ \A n \in DOMAIN R : n # p => R[n] = T[n]
        /\ R[p].kids = <<>>
        /\ R[p].parent = T[p].parent /\ R[p].sline = T[p].sline
        /\ R[p].eline = T[p].eline /\ R[p].level = T[p].level
    BY <1>t, <1>0, <2>1, DropChildrenIs
  <2>3. GoodTree(R)
    BY <1>t, <2>2 DEF GoodTree, LineOf
  <2>4. TrimsTo(T, p, f, R)
    <3>1. DOMAIN R[p].kids = {}
      BY <2>2
    <3>. QED
      BY <1>2, <2>2, <2>3, <3>1 DEF TrimsTo, EndsIn
  <2>. QED
    BY <1>2, <2>2, <2>3, <2>4 DEF R
<1>3. CASE update /\ f # Nil
  <2>1. R = dropNext(T, f)
    BY <1>3 DEF Trimmed
  <2>. DEFINE kids == T[p].kids
  <2>0. f \in DOMAIN T /\ f # RootId /\ T[f].parent = p
    BY <1>t, <1>3
  <2>p. Place(T, f) \in DOMAIN kids /\ kids[Place(T, f)] = f /\ kids \in Seq(Nat)
    BY <1>t, <1>0, <2>0, PlaceFacts DEF IsTree, Nodes
  <2>. HIDE DEF R
  <2>2. /\ IsTree(R, AllLevels) /\ DOMAIN R \subseteq DOMAIN T /\ p \in DOMAIN R /\ f \in DOMAIN R
        /\ \A n \in DOMAIN R : n # p => R[n] = T[n]
        /\ R[p].kids = SubSeq(kids, 1, Place(T, f))
        /\ R[p].parent = T[p].parent /\ R[p].sline = T[p].sline
        /\ R[p].eline = T[p].eline /\ R[p].level = T[p].level
    BY <1>0, <2>0, <2>1, DropNextIs
  <2>3. GoodTree(R)
    BY <1>t, <2>2 DEF GoodTree, LineOf
  <2>4. EndsIn(R, p, f)
    <3>. DEFINE m == Place(T, f)
                few == SubSeq(kids, 1, m)
    <3>1. few # <<>> /\ few[Len(few)] = f
      <4>. HIDE DEF m, kids
      <4>1. m \in 1 .. Len(kids) /\ kids[m] = f /\ kids \in Seq(Nat)
        BY <2>p DEF m
      <4>2. few \in Seq(Nat) /\ Len(few) = m /\ few[m] = kids[m]
        BY <4>1
      <4>. QED
        BY <4>1, <4>2
    <3>2. R[p].kids = few
      BY <2>2
    <3>. HIDE DEF few
    <3>. QED
      BY <1>3, <3>1, <3>2 DEF EndsIn
  <2>6. \A i \in DOMAIN R[p].kids : i \in DOMAIN kids /\ R[p].kids[i] = kids[i]
    <3>. DEFINE m == Place(T, f)
    <3>1. m \in 1 .. Len(kids) /\ kids \in Seq(Nat) /\ R[p].kids = SubSeq(kids, 1, m)
      BY <2>p, <2>2
    <3>. HIDE DEF m, kids
    <3>. QED
      BY <3>1
  <2>5. TrimsTo(T, p, f, R)
    BY <2>2, <2>3, <2>4, <2>6 DEF TrimsTo
  <2>. QED
    BY <1>3, <2>2, <2>3, <2>5 DEF R
<1>. QED
  BY <1>1, <1>2, <1>3

(* The same, where the cache is updated.                                   *)
LEMMA TrimIs ==
  ASSUME NEW T, NEW p, NEW f, Trims(T, p, f)
  PROVE  TrimsTo(T, p, f, Trimmed(T, p, f, TRUE))
<1>. DEFINE u == TRUE
<1>1. u \in BOOLEAN /\ u
  OBVIOUS
<1>. HIDE DEF u
<1>2. TrimsTo(T, p, f, Trimmed(T, p, f, u))
  BY <1>1, TrimmedIs
<1>. QED
  BY <1>2 DEF u

(* parse() calls colorize() for a node, with the results below it dropped  *)
(* (the head of its loop).                                                 *)
LEMMA EnterIs ==
  ASSUME BoundsAssumption, NEW T, GoodTree(T), NEW p \in DOMAIN T, NEW f,
         f = Nil \/ (f \in DOMAIN T /\ f # RootId /\ T[f].parent = p),
         NEW update \in BOOLEAN, Enter(T, p, f, update)
  PROVE  /\ GoodTree(tree') /\ frames' \in Seq(Frames) /\ Len(frames') = 1
         /\ parent' \in DOMAIN tree' /\ forward' \in DOMAIN tree' \cup {Nil}
         /\ Held(tree', frames')
         /\ update => Spine(tree', frames', parent', forward')
         /\ stackLevel' = 1 /\ pc' = "line"
<1>1. /\ GoodTree(tree') /\ p \in DOMAIN tree' /\ f \in DOMAIN tree' \cup {Nil}
      /\ update => EndsIn(tree', p, f)
  <2>1. Trims(T, p, f)
    BY DEF Trims
  <2>2. tree' = Trimmed(T, p, f, update)
    BY DEF Enter
  <2>3. /\ GoodTree(tree') /\ p \in DOMAIN tree' /\ f \in DOMAIN tree' \cup {Nil}
        /\ update => TrimsTo(T, p, f, tree')
    BY <2>1, <2>2, TrimmedIs
  <2>. QED
    BY <2>3 DEF TrimsTo
<1>2. T[p].level \in AllLevels
  BY DEF GoodTree, IsTree, Nodes
<1>3. /\ frames' = <<Bottom(T[p].level)>> /\ parent' = p /\ forward' = f
      /\ stackLevel' = 1 /\ pc' = "line"
  BY DEF Enter
<1>4. /\ frames' \in Seq(Frames) /\ Len(frames') = 1
      /\ frames'[1].ResF = Nil /\ frames'[1].ResP = Nil
      /\ frames'[1].node = Nil /\ frames'[1].nodeP = Nil
  BY <1>2, <1>3, BottomIs
<1>5. Held(tree', frames')
  BY <1>4 DEF Held
<1>6. update => Spine(tree', frames', parent', forward')
  BY <1>1, <1>3, <1>4 DEF Spine
<1>. QED
  BY <1>1, <1>3, <1>4, <1>5, <1>6

(* A search leaves a good tree and comes to nodes of it.                   *)
LEMMA SearchGood ==
  ASSUME BoundsAssumption, NEW T, GoodTree(T), NEW ln \in Nat
  PROVE  LET s == searchLine(T, ln) IN
         /\ GoodTree(s.tree) /\ DOMAIN s.tree = DOMAIN T
         /\ s.found \in DOMAIN s.tree
         /\ s.forward = Nil \/ (/\ s.forward \in DOMAIN s.tree /\ s.forward # RootId
                                /\ s.tree[s.forward].parent = s.found)
<1>. DEFINE s == searchLine(T, ln)
<1>1. /\ IsTree(s.tree, AllLevels)
      /\ DOMAIN s.tree = DOMAIN T
      /\ \A n \in DOMAIN T :
           /\ s.tree[n].parent = T[n].parent /\ s.tree[n].kids = T[n].kids
           /\ s.tree[n].sline = T[n].sline /\ s.tree[n].eline = T[n].eline
           /\ s.tree[n].level = T[n].level
      /\ s.found \in DOMAIN T
      /\ s.forward # Nil =>
           /\ s.forward \in DOMAIN T /\ s.forward # RootId
           /\ T[s.forward].parent = s.found
  BY SearchIs DEF GoodTree
<1>. HIDE DEF s
<1>2. GoodTree(s.tree)
  BY <1>1 DEF GoodTree, LineOf
<1>3. s.forward # Nil => s.tree[s.forward].parent = s.found
  BY <1>1
<1>. QED
  BY <1>1, <1>2, <1>3 DEF s

(* The variables a call of parse() leaves to its caller.                   *)
ClientTyped ==
  /\ text \in [Lines -> Contents] /\ edits \in 0 .. MaxEdits
  /\ valid \in 0 .. MaxLines
  /\ tryStack \in Seq(Levels) /\ expected \in Seq(Levels) /\ tryMismatch \in BOOLEAN

(* parse() up to its first call of colorize().                             *)
LEMMA ParseIs ==
  ASSUME BoundsAssumption, ClientTyped', NEW T, GoodTree(T),
         NEW kind \in {"update", "read", "off", "try"},
         NEW from \in Lines, NEW num \in Nat \ {0}, from + num <= MaxLines,
         parse(T, kind, from, num)
  PROVE  IInv'
<1>0. MaxLines \in Nat \ {0} /\ MaxLevel \in Nat /\ from \in Nat /\ from < MaxLines
  BY DEF BoundsAssumption, Lines
<1>. DEFINE s == IF kind = "off" THEN [found |-> RootId, forward |-> Nil, tree |-> T]
                 ELSE searchLine(T, from)
<1>1. /\ GoodTree(s.tree) /\ s.found \in DOMAIN s.tree
      /\ s.forward = Nil \/ (/\ s.forward \in DOMAIN s.tree /\ s.forward # RootId
                             /\ s.tree[s.forward].parent = s.found)
  <2>1. CASE kind = "off"
    <3>1. s.tree = T /\ s.found = RootId /\ s.forward = Nil
      BY <2>1
    <3>2. RootId \in DOMAIN T
      BY DEF GoodTree, IsTree
    <3>. HIDE DEF s
    <3>. QED
      BY <3>1, <3>2
  <2>2. CASE kind # "off"
    <3>1. s = searchLine(T, from)
      BY <2>2
    <3>. HIDE DEF s
    <3>. QED
      BY <1>0, <3>1, SearchGood
  <2>. QED
    BY <2>1, <2>2
<1>2. /\ call' = [kind |-> kind, line |-> from]
      /\ line' = from /\ stop' = from + num /\ gx' = 0
      /\ clearLine' = -1 /\ endLine' = from
      /\ schemeStart' = -1 /\ matchend' = [s |-> 0, e |-> 0]
      /\ filled' = FALSE /\ breakParsing' = FALSE /\ gone' = FALSE
      /\ handler' = <<>>
      /\ Enter(s.tree, s.found, s.forward, kind = "update")
  BY DEF parse
<1>. DEFINE T2 == s.tree  p2 == s.found  f2 == s.forward  u2 == kind = "update"
<1>3. /\ GoodTree(tree') /\ frames' \in Seq(Frames) /\ Len(frames') = 1
      /\ parent' \in DOMAIN tree' /\ forward' \in DOMAIN tree' \cup {Nil}
      /\ Held(tree', frames')
      /\ kind = "update" => Spine(tree', frames', parent', forward')
      /\ stackLevel' = 1 /\ pc' = "line"
  <2>1. /\ GoodTree(T2) /\ p2 \in DOMAIN T2 /\ u2 \in BOOLEAN
        /\ f2 = Nil \/ (f2 \in DOMAIN T2 /\ f2 # RootId /\ T2[f2].parent = p2)
        /\ Enter(T2, p2, f2, u2)
    BY <1>1, <1>2
  <2>2. u2 <=> kind = "update"
    OBVIOUS
  <2>. HIDE DEF T2, p2, f2, u2
  <2>. QED
    BY <2>1, <2>2, EnterIs
<1>. HIDE DEF s
<1>4. Typed'
  <2>1. [kind |-> kind, line |-> from] \in [kind : {"none", "update", "read", "off", "try"}, line : Lines]
    OBVIOUS
  <2>2. from \in 0 .. MaxLines + 1 /\ from + num \in 0 .. MaxLines /\ 0 \in Nat
        /\ -1 \in -1 .. MaxLines /\ -1 \in Nat \cup {-1} /\ <<>> \in Seq(Blocks)
        /\ [s |-> 0, e |-> 0] \in Spans
    BY <1>0 DEF Spans
  <2>3. /\ line' \in 0 .. MaxLines + 1 /\ stop' \in 0 .. MaxLines /\ gx' \in Nat
        /\ clearLine' \in -1 .. MaxLines /\ endLine' \in Lines
        /\ schemeStart' \in Nat \cup {-1} /\ matchend' \in Spans
        /\ filled' \in BOOLEAN /\ breakParsing' \in BOOLEAN /\ gone' \in BOOLEAN
        /\ handler' \in Seq(Blocks)
    BY <1>2, <2>2
  <2>4. /\ call' \in [kind : {"none", "update", "read", "off", "try"}, line : Lines]
        /\ pc' \in {"idle", "line", "content", "return"} /\ frames' \in Seq(Frames)
    BY <1>2, <1>3, <2>1
  <2>. QED
    BY <2>3, <2>4 DEF Typed, ClientTyped
<1>5. Control'
  <2>1. frames' # <<>>
    <3>1. Len(frames') # 0
      BY <1>3
    <3>. QED
      BY <3>1, NotEmpty
  <2>. QED
    BY <1>0, <1>3, <2>1 DEF Control
<1>6. Standing'
  <2>1. Updating' <=> kind = "update"
    BY <1>2 DEF Updating
  <2>. QED
    BY <1>3, <2>1 DEF Standing
<1>. QED
  BY <1>3, <1>4, <1>5, <1>6 DEF IInv

(* The step of a call of parse().                                          *)
LEMMA ParseStep ==
  ASSUME BoundsAssumption, IInv,
         NEW kind \in {"update", "read", "off"}, NEW from \in Lines, NEW num \in 1 .. MaxLines,
         Parse(kind, from, num)
  PROVE  IInv'
<1>1. /\ parse(tree, kind, from, num) /\ from + num <= MaxLines
      /\ UNCHANGED <<text, edits, valid, expected, tryStack, tryMismatch>>
  BY DEF Parse, client, tries
<1>2. ClientTyped'
  BY <1>1 DEF IInv, Typed, ClientTyped
<1>3. GoodTree(tree) /\ num \in Nat \ {0}
  BY DEF IInv, BoundsAssumption
<1>. QED
  BY <1>1, <1>2, <1>3, ParseIs

(* The levels open in a node are levels of the grammar.                    *)
LEMMA OpenLevelsGood ==
  ASSUME NEW T, GoodTree(T), NEW n \in DOMAIN T
  PROVE  OpenLevels(T, n) \in Seq(Levels)
BY OpenLevelsOf DEF GoodTree

(* The step of a call of tryParseLine().                                   *)
LEMMA TryParseStep ==
  ASSUME BoundsAssumption, IInv, NEW l \in Lines, NEW c \in Contents, TryParseLine(l, c)
  PROVE  IInv'
<1>0. MaxLines \in Nat \ {0} /\ l \in Nat /\ l + 1 \in Nat /\ l + 1 <= MaxLines /\ MaxEdits \in Nat
  BY DEF BoundsAssumption, Lines
<1>. DEFINE next == searchLine(tree, l + 1)
            here == searchLine(next.tree, l)
<1>1. /\ expected' = OpenLevels(tree, next.found)
      /\ tryStack' = OpenLevels(tree, here.found)
      /\ parse(here.tree, "try", l, 1)
      /\ tryMismatch' = FALSE /\ valid' = valid
      /\ text' = [text EXCEPT ![l] = c] /\ edits' = edits + 1 /\ edits < MaxEdits
  BY DEF TryParseLine, EditLine
<1>2. GoodTree(tree)
  BY DEF IInv
<1>3. GoodTree(next.tree) /\ DOMAIN next.tree = DOMAIN tree /\ next.found \in DOMAIN tree
  <2>1. GoodTree(next.tree) /\ DOMAIN next.tree = DOMAIN tree /\ next.found \in DOMAIN next.tree
    BY <1>0, <1>2, SearchGood
  <2>. HIDE DEF next
  <2>. QED
    BY <2>1
<1>. HIDE DEF next
<1>4. GoodTree(here.tree) /\ here.found \in DOMAIN tree
  <2>1. GoodTree(here.tree) /\ DOMAIN here.tree = DOMAIN next.tree /\ here.found \in DOMAIN here.tree
    BY <1>0, <1>3, SearchGood
  <2>. HIDE DEF here
  <2>. QED
    BY <2>1, <1>3
<1>. HIDE DEF here
<1>5. expected' \in Seq(Levels) /\ tryStack' \in Seq(Levels)
  BY <1>1, <1>2, <1>3, <1>4, OpenLevelsGood
<1>6. ClientTyped'
  <2>1. text' \in [Lines -> Contents] /\ edits' \in 0 .. MaxEdits /\ valid' \in 0 .. MaxLines
    BY <1>0, <1>1 DEF IInv, Typed
  <2>. QED
    BY <1>1, <1>5, <2>1 DEF ClientTyped
<1>. QED
  BY <1>0, <1>1, <1>4, <1>6, ParseIs

(* The step of an edit the client gives all below up for.                  *)
LEMMA ModifyStep ==
  ASSUME BoundsAssumption, IInv, NEW l \in Lines, NEW c \in Contents, ModifyLine(l, c)
  PROVE  IInv'
<1>0. MaxLines \in Nat \ {0} /\ l \in 0 .. MaxLines /\ MaxEdits \in Nat
  BY DEF BoundsAssumption, Lines
<1>1. /\ text' = [text EXCEPT ![l] = c] /\ edits' = edits + 1 /\ edits < MaxEdits
      /\ valid' = Least(valid, l)
      /\ UNCHANGED <<tree, call, pc, frames, gx, line, matchend, schemeStart, stop, clearLine, endLine,
                     stackLevel, parent, forward, filled, breakParsing, gone, handler,
                     expected, tryStack, tryMismatch>>
  BY DEF ModifyLine, EditLine, cursor, tries
<1>2. valid' \in 0 .. MaxLines /\ edits' \in 0 .. MaxEdits /\ text' \in [Lines -> Contents]
  BY <1>0, <1>1 DEF IInv, Typed, Least
<1>3. Typed'
  BY <1>1, <1>2 DEF IInv, Typed
<1>4. Control'
  BY <1>1 DEF IInv, Control
<1>5. Standing'
  BY <1>1 DEF IInv, Standing, Updating
<1>. QED
  BY <1>1, <1>3, <1>4, <1>5 DEF IInv

(* During a call there is an activation.                                   *)
LEMMA TopFrame ==
  ASSUME IInv, pc # "idle"
  PROVE  /\ Len(frames) \in Nat \ {0} /\ Current \in Frames /\ Current = frames[Len(frames)]
         /\ frames \in Seq(Frames) /\ frames # <<>>
<1>1. frames \in Seq(Frames) /\ frames # <<>>
  BY DEF IInv, Typed, Control
<1>2. Len(frames) \in Nat \ {0} /\ frames[Len(frames)] \in Frames
  BY <1>1
<1>. QED
  BY <1>1, <1>2 DEF Current, Last

(* Activations that hold the same nodes.                                   *)
SameNodes(fs, gs) ==
  /\ gs \in Seq(Frames) /\ Len(gs) = Len(fs)
  /\ \A i \in DOMAIN fs :
       /\ gs[i].ResF = fs[i].ResF /\ gs[i].ResP = fs[i].ResP
       /\ gs[i].node = fs[i].node /\ gs[i].nodeP = fs[i].nodeP
       /\ gs[i].old_line = fs[i].old_line

(* A step after which all activations hold what they held.                 *)
SameHolds == SameNodes(frames, frames')

(* The loop of an activation changes what it found on the line, never the  *)
(* nodes it holds.                                                         *)
LEMMA FlagsOnly ==
  ASSUME IInv, pc # "idle", NEW ended \in BOOLEAN, NEW clipped \in BOOLEAN
  PROVE  SameNodes(frames, WithTop([Current EXCEPT !.ended = ended, !.clipped = clipped]))
<1>. DEFINE k == Len(frames)
            top == [Current EXCEPT !.ended = ended, !.clipped = clipped]
            gs == [frames EXCEPT ![k] = top]
<1>1. k \in Nat \ {0} /\ Current \in Frames /\ Current = frames[k]
      /\ frames \in Seq(Frames) /\ frames # <<>>
  BY TopFrame
<1>2. /\ top \in Frames
      /\ top.ResF = Current.ResF /\ top.ResP = Current.ResP
      /\ top.node = Current.node /\ top.nodeP = Current.nodeP /\ top.old_line = Current.old_line
  BY <1>1 DEF Frames
<1>. HIDE DEF top
<1>3. WithTop(top) = gs
  BY DEF WithTop
<1>4. /\ gs \in Seq(Frames) /\ Len(gs) = k
      /\ \A i \in 1 .. k : gs[i] = IF i = k THEN top ELSE frames[i]
  BY <1>1, <1>2, SetAt
<1>5. DOMAIN frames = 1 .. k
  BY <1>1
<1>. HIDE DEF gs
<1>6. SameNodes(frames, gs)
  BY <1>1, <1>2, <1>4, <1>5 DEF SameNodes
<1>. QED
  BY <1>3, <1>6 DEF top

(* A step that leaves the tree and the nodes held alone.                   *)
LEMMA StandStill ==
  ASSUME IInv, pc # "idle", pc' # "idle", SameHolds,
         UNCHANGED <<tree, parent, forward, call>>
  PROVE  GoodTree(tree') /\ Standing'
<1>1. DOMAIN frames' = DOMAIN frames /\ Len(frames') = Len(frames) /\ Len(frames) \in Nat \ {0}
      /\ DOMAIN frames = 1 .. Len(frames)
  BY TopFrame DEF SameHolds, SameNodes
<1>2. Held(tree', frames')
  BY <1>1 DEF IInv, Standing, Held, SameHolds, SameNodes
<1>3. ASSUME Updating PROVE Spine(tree', frames', parent', forward')
  <2>1. Spine(tree, frames, parent, forward)
    BY <1>3 DEF IInv, Standing
  <2>2. \A i \in 2 .. Len(frames) : Hangs(tree', frames'[i])
    <3>1. SUFFICES ASSUME NEW i \in 2 .. Len(frames) PROVE Hangs(tree', frames'[i])
      OBVIOUS
    <3>2. Hangs(tree, frames[i]) /\ i \in DOMAIN frames
      BY <1>1, <2>1 DEF Spine
    <3>. QED
      BY <3>2 DEF Hangs, SameHolds, SameNodes
  <2>3. \A i \in 2 .. Len(frames) :
          /\ i > 2 => frames'[i].nodeP = frames'[i - 1].node
          /\ \A j \in i .. Len(frames) : frames'[i].nodeP # frames'[j].node
    <3>1. SUFFICES ASSUME NEW i \in 2 .. Len(frames)
            PROVE  /\ i > 2 => frames'[i].nodeP = frames'[i - 1].node
                   /\ \A j \in i .. Len(frames) : frames'[i].nodeP # frames'[j].node
      OBVIOUS
    <3>2. /\ i > 2 => frames[i].nodeP = frames[i - 1].node
          /\ \A j \in i .. Len(frames) : frames[i].nodeP # frames[j].node
      BY <2>1 DEF Spine
    <3>3. i \in DOMAIN frames /\ i - 1 \in DOMAIN frames /\ \A j \in i .. Len(frames) : j \in DOMAIN frames
      BY <1>1
    <3>. QED
      BY <3>2, <3>3 DEF SameHolds, SameNodes
  <2>4. Len(frames) > 1 => parent = frames'[Len(frames)].node
    <3>1. Len(frames) \in DOMAIN frames
      BY <1>1
    <3>. QED
      BY <2>1, <3>1 DEF Spine, SameHolds, SameNodes
  <2>5. /\ frames'[1].ResF = Nil /\ frames'[1].ResP = Nil
        /\ frames'[1].node = Nil /\ frames'[1].nodeP = Nil
    BY <1>1, <2>1 DEF Spine, SameHolds, SameNodes
  <2>. QED
    BY <1>1, <2>1, <2>2, <2>3, <2>4, <2>5 DEF Spine
<1>4. Standing'
  BY <1>2, <1>3 DEF IInv, Standing, Updating
<1>. QED
  BY <1>4 DEF IInv

(* No change is such a step.                                               *)
LEMMA SameFrames == ASSUME IInv, UNCHANGED frames PROVE SameHolds
BY DEF IInv, Typed, SameHolds, SameNodes

(* A step of the loop that neither calls nor goes back. *)
LEMMA LoopStep ==
  ASSUME IInv, pc # "idle", pc' # "idle", Typed', SameHolds,
         UNCHANGED <<tree, parent, forward, call, stop>>,
         pc' = "content" => line' < stop,
         stackLevel' = IF pc' = "return" THEN Len(frames) - 1 ELSE Len(frames),
         stackLevel' \in 0 .. MaxLevel + 1
  PROVE  IInv'
<1>1. GoodTree(tree') /\ Standing'
  BY StandStill
<1>2. Len(frames') = Len(frames) /\ Len(frames) \in Nat \ {0}
  BY TopFrame DEF SameHolds, SameNodes
<1>3. frames' # <<>>
  <2>1. Len(frames') # 0
    BY <1>2
  <2>. QED
    BY <2>1, NotEmpty
<1>4. \A i \in 2 .. Len(frames') : frames'[i].old_line < stop'
  <2>1. \A i \in 2 .. Len(frames) : i \in DOMAIN frames
    BY TopFrame
  <2>. QED
    BY <1>2, <2>1 DEF IInv, Control, SameHolds, SameNodes
<1>5. Control'
  BY <1>2, <1>3, <1>4 DEF Control
<1>. QED
  BY <1>1, <1>5 DEF IInv

(* The step of breakParse().                                               *)
LEMMA BreakStep == ASSUME IInv, BreakParse PROVE IInv'
<1>1. /\ pc # "idle" /\ breakParsing' = TRUE
      /\ UNCHANGED <<text, edits, valid, tree, call, pc, frames, gx, line, matchend, schemeStart, stop,
                     clearLine, endLine, stackLevel, parent, forward, filled, gone, handler,
                     expected, tryStack, tryMismatch>>
  BY DEF BreakParse, Idle, client, cursor, tries
<1>2. Typed'
  BY <1>1 DEF IInv, Typed
<1>3. Control'
  BY <1>1 DEF IInv, Control
<1>4. Standing'
  BY <1>1 DEF IInv, Standing, Updating
<1>. QED
  BY <1>1, <1>2, <1>3, <1>4 DEF IInv

(* The step at the end of the range.                                       *)
LEMMA OutOfLinesStep == ASSUME BoundsAssumption, IInv, OutOfLines PROVE IInv'
<1>1. /\ pc = "line" /\ pc' = "return" /\ stackLevel' = stackLevel - 1
      /\ UNCHANGED <<text, edits, valid, tree, call, frames, gx, line, matchend, schemeStart, stop,
                     clearLine, endLine, parent, forward, filled, breakParsing, gone, handler,
                     expected, tryStack, tryMismatch>>
  BY DEF OutOfLines, Leave, client, cursor, tries
<1>2. Typed'
  BY <1>1 DEF IInv, Typed
<1>3. stackLevel' = Len(frames) - 1 /\ stackLevel' \in 0 .. MaxLevel + 1
  BY <1>1, TopFrame DEF IInv, Control, BoundsAssumption
<1>. QED
  BY <1>1, <1>2, <1>3, SameFrames, LoopStep

(* The step when getLine returns null.                                     *)
LEMMA NullLineStep == ASSUME BoundsAssumption, IInv, NullLine PROVE IInv'
<1>1. /\ pc = "line" /\ pc' = "return" /\ stackLevel' = stackLevel - 1
      /\ line < stop /\ gone' = TRUE /\ clearLine' = -1 /\ endLine' = line
      /\ UNCHANGED <<text, edits, valid, tree, call, frames, gx, line, matchend, schemeStart, stop,
                     parent, forward, filled, breakParsing, handler,
                     expected, tryStack, tryMismatch>>
  BY DEF NullLine, Leave, client, cursor, tries
<1>2. -1 \in -1 .. MaxLines /\ line \in Lines
  BY <1>1 DEF BoundsAssumption, IInv, Typed, Lines
<1>3. Typed'
  BY <1>1, <1>2 DEF IInv, Typed
<1>4. stackLevel' = Len(frames) - 1 /\ stackLevel' \in 0 .. MaxLevel + 1
  BY <1>1, TopFrame DEF IInv, Control, BoundsAssumption
<1>. QED
  BY <1>1, <1>3, <1>4, SameFrames, LoopStep

(* The line being parsed is a sequence of tokens. *)
LEMMA StrIs ==
  ASSUME BoundsAssumption, TokensAssumption, IInv, line < stop
  PROVE  line \in Lines /\ str \in Seq(Tokens) /\ Len(str) \in Nat
<1>1. line \in Lines
  BY DEF BoundsAssumption, IInv, Typed, Lines
<1>2. str \in Contents
  BY <1>1 DEF IInv, Typed, str
<1>. QED
  BY <1>1, <1>2 DEF TokensAssumption

(* The schemes around a node (fillInvisibleSchemes) are blocks.            *)
LEMMA SchemesAround ==
  ASSUME NEW T, GoodTree(T), NEW n \in DOMAIN T
  PROVE  BlocksOf(OpenLevels(T, n)) \in Seq(Blocks)
<1>. DEFINE o == OpenLevels(T, n)
<1>1. o \in Seq(Levels)
  BY OpenLevelsGood
<1>. HIDE DEF o
<1>2. Len(o) \in Nat /\ DOMAIN o = 1 .. Len(o) /\ \A i \in 1 .. Len(o) : o[i].block \in Blocks
  <2>1. Len(o) \in Nat /\ DOMAIN o = 1 .. Len(o) /\ \A i \in 1 .. Len(o) : o[i] \in Levels
    BY <1>1
  <2>2. \A v \in Levels : v.block \in Blocks
    BY DEF Levels
  <2>. QED
    BY <2>1, <2>2
<1>3. BlocksOf(o) \in [1 .. Len(o) -> Blocks]
  BY <1>2 DEF BlocksOf
<1>4. BlocksOf(o) \in Seq(Blocks)
  BY <1>2, <1>3
<1>. QED
  BY <1>4 DEF o

(* The step that begins a turn of the loop.                                *)
LEMMA StartLineStep == ASSUME BoundsAssumption, TokensAssumption, IInv, StartLine PROVE IInv'
<1>. DEFINE ends  == {p \in gx .. Len(str) - 1 : IsEnd(Current.level, Token(str, p))}
            at    == CHOOSE p \in ends : \A q \in ends : p <= q
            bound == Least(gx + maxBlockSize, Len(str))
            ended == ends # {}
            clipped == Current.level.block \in LowContent
<1>1. /\ pc = "line" /\ line < stop /\ pc' = "content"
      /\ clearLine' = line /\ endLine' = line /\ filled' = TRUE
      /\ handler' = IF filled THEN handler ELSE fillInvisibleSchemes(parent)
      /\ matchend' = IF ends = {} THEN [s |-> bound, e |-> bound] ELSE [s |-> at, e |-> at + 1]
      /\ frames' = WithTop([Current EXCEPT !.ended = ended, !.clipped = clipped])
      /\ UNCHANGED <<text, edits, valid, tree, call, gx, line, schemeStart, stop, stackLevel,
                     parent, forward, breakParsing, gone, expected, tryStack, tryMismatch>>
  BY DEF StartLine, client, tries
<1>2. line \in Lines /\ Len(str) \in Nat
  BY <1>1, StrIs
<1>3. matchend' \in Spans
  <2>1. bound \in Nat
    BY <1>2 DEF Least, BoundsAssumption, IInv, Typed
  <2>2. ends \subseteq Nat
    BY <1>2 DEF IInv, Typed
  <2>3. ends # {} => at \in Nat
    <3>. HIDE DEF ends
    <3>1. ends # {} => \E p \in ends : \A q \in ends : p <= q
      BY <2>2, LeastNat
    <3>. QED
      BY <2>2, <3>1
  <2>. HIDE DEF at, bound, ends
  <2>. QED
    BY <1>1, <2>1, <2>3 DEF Spans
<1>4. SameHolds
  <2>1. ended \in BOOLEAN /\ clipped \in BOOLEAN
    OBVIOUS
  <2>. HIDE DEF ended, clipped
  <2>. QED
    BY <1>1, <2>1, FlagsOnly DEF SameHolds
<1>5. handler' \in Seq(Blocks)
  <2>1. GoodTree(tree) /\ parent \in DOMAIN tree /\ handler \in Seq(Blocks)
    BY <1>1 DEF IInv, Standing, Typed
  <2>. QED
    BY <1>1, <2>1, SchemesAround DEF fillInvisibleSchemes
<1>. HIDE DEF ends, at, bound, ended, clipped
<1>6. clearLine' \in -1 .. MaxLines
  BY <1>1, <1>2 DEF Lines, BoundsAssumption
<1>7. Typed'
  BY <1>1, <1>2, <1>3, <1>4, <1>5, <1>6 DEF IInv, Typed, SameHolds, SameNodes
<1>8. stackLevel' = Len(frames) /\ stackLevel' \in 0 .. MaxLevel + 1
  BY <1>1 DEF IInv, Control
<1>. QED
  BY <1>1, <1>4, <1>7, <1>8, LoopStep

(* One level less.                                                         *)
LEMMA FrontLevels ==
  ASSUME NEW S, NEW s \in Seq(S)
  PROVE  (IF s = <<>> THEN <<>> ELSE Front(s)) \in Seq(S)
<1>1. ASSUME s # <<>> PROVE Front(s) \in Seq(S)
  BY <1>1 DEF Front
<1>. QED
  BY <1>1

(* The end of a turn of the loop. *)
LEMMA EndLineStep ==
  ASSUME BoundsAssumption, IInv, pc = "content", NEW at \in 0 .. MaxLines, EndLine(at),
         UNCHANGED <<text, edits, valid, tree, call, frames, matchend, stop, clearLine, endLine,
                     parent, forward, filled, breakParsing, gone, handler, expected>>
  PROVE  IInv'
<1>1. /\ pc' \in {"return", "line"}
      /\ line' \in {at, at + 1} /\ gx' \in {gx, 0} /\ schemeStart' \in {schemeStart, -1}
      /\ tryStack' \in {tryStack, IF tryStack = <<>> THEN <<>> ELSE Front(tryStack)}
      /\ tryMismatch' \in {tryMismatch, tryMismatch \/ tryStack = <<>>}
      /\ stackLevel' = IF pc' = "return" THEN stackLevel - 1 ELSE stackLevel
  BY DEF EndLine, Leave
<1>2. tryStack' \in Seq(Levels)
  BY <1>1, FrontLevels DEF IInv, Typed
<1>3. gx' \in Nat /\ schemeStart' \in Nat \cup {-1} /\ line' \in 0 .. MaxLines + 1
  BY <1>1 DEF IInv, Typed, BoundsAssumption
<1>4. tryMismatch' \in BOOLEAN
  BY <1>1 DEF IInv, Typed
<1>5. Typed'
  BY <1>1, <1>2, <1>3, <1>4 DEF IInv, Typed
<1>6. /\ stackLevel' = IF pc' = "return" THEN Len(frames) - 1 ELSE Len(frames)
      /\ stackLevel' \in 0 .. MaxLevel + 1
  BY <1>1, TopFrame DEF IInv, Control, BoundsAssumption
<1>. QED
  BY <1>1, <1>5, <1>6, SameFrames, LoopStep

(* The step past the content of a line.                                    *)
LEMMA ContentOverStep == ASSUME BoundsAssumption, IInv, ContentOver PROVE IInv'
<1>1. /\ pc = "content" /\ EndLine(line)
      /\ UNCHANGED <<text, edits, valid, tree, call, frames, matchend, stop, clearLine, endLine,
                     parent, forward, filled, breakParsing, gone, handler, expected>>
  BY DEF ContentOver, client
<1>2. line \in 0 .. MaxLines
  BY <1>1 DEF IInv, Typed, Control, BoundsAssumption
<1>. QED
  BY <1>1, <1>2, EndLineStep

(* The step after breakParse().                                            *)
LEMMA BrokenStep == ASSUME BoundsAssumption, IInv, Broken PROVE IInv'
<1>1. /\ pc = "content" /\ EndLine(stop)
      /\ UNCHANGED <<text, edits, valid, tree, call, frames, matchend, stop, clearLine, endLine,
                     parent, forward, filled, breakParsing, gone, handler, expected>>
  BY DEF Broken, client
<1>2. stop \in 0 .. MaxLines
  BY DEF IInv, Typed
<1>. QED
  BY <1>1, <1>2, EndLineStep

(* What matches within a line gives the content its full length again. *)
LEMMA UnclippedIs ==
  ASSUME IInv, pc # "idle"
  PROVE  SameNodes(frames, WithTop([Current EXCEPT !.clipped = FALSE]))
<1>. DEFINE ended == Current.ended  clipped == FALSE
<1>1. Current \in Frames
  BY TopFrame
<1>2. ended \in BOOLEAN /\ clipped \in BOOLEAN
      /\ [Current EXCEPT !.clipped = FALSE] = [Current EXCEPT !.ended = ended, !.clipped = clipped]
  BY <1>1 DEF Frames
<1>. HIDE DEF ended, clipped
<1>. QED
  BY <1>2, FlagsOnly

(* The steps over a regexp and over one token.                             *)
LEMMA MatchWithinStep ==
  ASSUME BoundsAssumption, IInv, MatchRegexp \/ MatchNothing
  PROVE  IInv'
<1>1. /\ pc = "content" /\ pc' \in {"content", "line"} /\ gx' \in {gx + 1, gx + 2}
      /\ frames' = WithTop([Current EXCEPT !.clipped = FALSE])
      /\ UNCHANGED <<text, edits, valid, tree, call, line, matchend, schemeStart, stop, clearLine,
                     endLine, stackLevel, parent, forward, filled, breakParsing, gone, handler,
                     expected, tryStack, tryMismatch>>
  BY DEF MatchRegexp, MatchNothing, Searching, client, tries
<1>2. SameHolds
  BY <1>1, UnclippedIs DEF SameHolds
<1>3. gx' \in Nat
  <2>1. gx \in Nat
    BY DEF IInv, Typed
  <2>. QED
    BY <1>1, <2>1
<1>4. Typed'
  BY <1>1, <1>2, <1>3 DEF IInv, Typed, SameHolds, SameNodes
<1>5. /\ stackLevel' = Len(frames) /\ stackLevel' \in 0 .. MaxLevel + 1
      /\ line' < stop
  BY <1>1 DEF IInv, Control
<1>. QED
  BY <1>1, <1>2, <1>4, <1>5, LoopStep

(* One activation more.                                                    *)
LEMMA AppendFrame ==
  ASSUME NEW S, NEW s \in Seq(S), NEW x \in S
  PROVE  LET t == Append(s, x) IN
         /\ t \in Seq(S) /\ Len(t) = Len(s) + 1 /\ t[Len(s) + 1] = x
         /\ \A i \in 1 .. Len(s) : t[i] = s[i]
OBVIOUS

(* One activation less.                                                    *)
LEMMA FrontFrame ==
  ASSUME NEW S, NEW s \in Seq(S), Len(s) > 0
  PROVE  LET t == Front(s) IN
         /\ t \in Seq(S) /\ Len(t) = Len(s) - 1
         /\ \A i \in 1 .. Len(s) - 1 : t[i] = s[i]
<1>. DEFINE m == Len(s) - 1
            t == SubSeq(s, 1, m)
<1>1. m \in Nat /\ m <= Len(s) /\ Front(s) = t
  BY DEF Front
<1>. HIDE DEF m
<1>2. t \in Seq(S) /\ Len(t) = m /\ \A i \in 1 .. m : t[i] = s[i]
  BY <1>1
<1>. QED
  BY <1>1, <1>2 DEF m

(* The last child is in its place. *)
LEMMA EndsAt ==
  ASSUME NEW T, GoodTree(T), NEW p \in DOMAIN T, NEW f, f # Nil, EndsIn(T, p, f)
  PROVE  /\ f \in DOMAIN T /\ f # RootId /\ T[f].parent = p /\ Place(T, f) = Len(T[p].kids)
         /\ Len(T[p].kids) \in Nat \ {0} /\ T[p].kids \in Seq(DOMAIN T)
         /\ T[p].kids[Len(T[p].kids)] = f
<1>1. T[p].kids \in Seq(Nat) /\ T[p].kids # <<>> /\ T[p].kids[Len(T[p].kids)] = f
  BY DEF GoodTree, IsTree, Nodes, EndsIn
<1>2. Len(T[p].kids) \in Nat \ {0} /\ Len(T[p].kids) \in DOMAIN T[p].kids
  BY <1>1
<1>3. IsTree(T, AllLevels)
  BY DEF GoodTree
<1>. DEFINE i == Len(T[p].kids)
<1>. HIDE DEF i
<1>4. i \in DOMAIN T[p].kids
  BY <1>2 DEF i
<1>5. /\ T[p].kids \in Seq(DOMAIN T)
      /\ T[p].kids[i] \in DOMAIN T /\ T[T[p].kids[i]].parent = p
      /\ T[p].kids[i] # RootId
      /\ Place(T, T[p].kids[i]) = i
  BY <1>3, <1>4, KidFacts
<1>. QED
  BY <1>1, <1>2, <1>5 DEF i

(* R is T with the node id added as the last child of p. *)
Grown(T, p, f, id, ln, R) ==
  /\ GoodTree(T) /\ GoodTree(R) /\ p \in DOMAIN T /\ EndsIn(T, p, f)
  /\ id \notin DOMAIN T /\ id # Nil /\ DOMAIN R = DOMAIN T \cup {id}
  /\ \A n \in DOMAIN T : n # p => R[n].kids = T[n].kids
  /\ R[p].kids = Append(T[p].kids, id)
  /\ \A n \in DOMAIN T :
       R[n].parent = T[n].parent /\ R[n].sline = T[n].sline /\ R[n].eline = T[n].eline
  /\ R[id].kids = <<>> /\ R[id].parent = p /\ R[id].sline = ln /\ R[id].eline = Unended

(* The tree with the node for a block.                                     *)
LEMMA AppendedGood ==
  ASSUME BoundsAssumption, NEW T, GoodTree(T), NEW p \in DOMAIN T, NEW f, EndsIn(T, p, f),
         NEW level \in Levels, NEW ln \in 0 .. MaxLines
  PROVE  Grown(T, p, f, FreeId(T), ln, Appended(T, p, f, FreeId(T), NewNode(p, ln, level)))
<1>. DEFINE id == FreeId(T)
            node == NewNode(p, ln, level)
            R == Appended(T, p, f, id, node)
<1>1. IsTree(T, AllLevels) /\ IsFiniteSet(DOMAIN T) /\ DOMAIN T \subseteq Nat
  BY DEF GoodTree, IsTree
<1>2. id \in Nat /\ id \notin DOMAIN T
  BY <1>1, FreeIdIsFree
<1>. HIDE DEF id
<1>3. AtEnd(T, p, f)
  BY EndsAt DEF EndsIn, AtEnd
<1>4. level \in AllLevels /\ ln \in Nat
  BY DEF AllLevels, BoundsAssumption
<1>5. /\ IsTree(R, AllLevels)
      /\ DOMAIN R = DOMAIN T \cup {id}
      /\ \A n \in DOMAIN T : n # p => R[n] = T[n]
      /\ R[p].kids = Append(T[p].kids, id)
      /\ R[p].parent = T[p].parent /\ R[p].sline = T[p].sline
      /\ R[p].eline = T[p].eline /\ R[p].level = T[p].level
      /\ R[id] = node
  <2>1. MayAppend(AllLevels, T, p, f, id, ln, level)
    BY <1>1, <1>2, <1>3, <1>4 DEF MayAppend
  <2>2. HasNew(AllLevels, T, p, id, node, R)
    BY <2>1, AppendedIs
  <2>. HIDE DEF node, R
  <2>. QED
    BY <2>2 DEF HasNew
<1>6. node.sline = ln /\ node.eline = Unended /\ node.level = level /\ node.kids = <<>>
      /\ node.parent = p
  BY DEF NewNode
<1>. HIDE DEF R, node
<1>7. \A n \in DOMAIN R : LineOf(R, n)
  <2>1. LineOf(R, id)
    BY <1>5, <1>6 DEF LineOf
  <2>2. \A n \in DOMAIN T : LineOf(R, n)
    BY <1>5 DEF LineOf, GoodTree
  <2>. QED
    BY <1>5, <2>1, <2>2
<1>8. \A n \in DOMAIN R \ {RootId} : R[n].level \in Levels
  BY <1>5, <1>6 DEF GoodTree
<1>9. GoodTree(R)
  BY <1>5, <1>7, <1>8 DEF GoodTree
<1>10. Grown(T, p, f, id, ln, R)
  <2>1. id # Nil
    BY <1>2 DEF Nil
  <2>2. \A n \in DOMAIN T : n # p => R[n].kids = T[n].kids
    BY <1>5
  <2>3. \A n \in DOMAIN T :
          R[n].parent = T[n].parent /\ R[n].sline = T[n].sline /\ R[n].eline = T[n].eline
    BY <1>5
  <2>. QED
    BY <1>2, <1>5, <1>6, <1>9, <2>1, <2>2, <2>3 DEF Grown
<1>. QED
  BY <1>10 DEF id, R, node

(* That node lengthens the right edge: the new activation stands on it.    *)
LEMMA PushSpine ==
  ASSUME NEW T, NEW fs \in Seq(Frames), Len(fs) > 0, NEW p, NEW f, Spine(T, fs, p, f),
         NEW gs, SameNodes(fs, gs), NEW id, NEW ln, NEW R, Grown(T, p, f, id, ln, R),
         NEW fr \in Frames, fr.ResF = f, fr.ResP = p, fr.node = id, fr.nodeP = p
  PROVE  Spine(R, Append(gs, fr), id, Nil)
<1>. DEFINE k == Len(fs)
            hs == Append(gs, fr)
<1>1. k \in Nat \ {0} /\ gs \in Seq(Frames) /\ Len(gs) = k /\ DOMAIN fs = 1 .. k
  BY DEF SameNodes
<1>2. Len(hs) = k + 1 /\ hs[k + 1] = fr /\ \A i \in 1 .. k : hs[i] = gs[i]
  BY <1>1, AppendFrame
<1>. HIDE DEF hs
<1>3. \A i \in 1 .. k : /\ hs[i].ResF = fs[i].ResF /\ hs[i].ResP = fs[i].ResP
                        /\ hs[i].node = fs[i].node /\ hs[i].nodeP = fs[i].nodeP
  BY <1>1, <1>2 DEF SameNodes
<1>4. EndsIn(R, id, Nil)
  BY DEF EndsIn, Grown
<1>5. ASSUME NEW i \in 2 .. k PROVE Hangs(R, hs[i]) /\ fs[i].nodeP \in DOMAIN T
  <2>1. Hangs(T, fs[i]) /\ fs[i].nodeP # fs[k].node /\ p = fs[k].node /\ i \in 1 .. k
    BY <1>1 DEF Spine
  <2>2. /\ fs[i].nodeP \in DOMAIN T /\ fs[i].node \in DOMAIN T
        /\ R[fs[i].nodeP].kids = T[fs[i].nodeP].kids /\ DOMAIN T \subseteq DOMAIN R
    BY <2>1 DEF Hangs, Grown
  <2>. QED
    BY <1>3, <2>1, <2>2 DEF Hangs, EndsIn
<1>6. Hangs(R, fr)
  <2>1. T[p].kids \in Seq(Nat) /\ R[p].kids = Append(T[p].kids, id) /\ p \in DOMAIN R /\ id \in DOMAIN R
    BY DEF Grown, GoodTree, IsTree, Nodes
  <2>. DEFINE q == T[p].kids
              r == R[p].kids
  <2>2. q \in Seq(Nat) /\ r = Append(q, id)
    BY <2>1
  <2>3. IF f = Nil THEN q = <<>> ELSE q # <<>> /\ q[Len(q)] = f
    BY DEF Grown, EndsIn
  <2>. HIDE DEF q, r
  <2>4. Len(q) \in Nat /\ Len(r) = Len(q) + 1 /\ r[Len(r)] = id /\ r # <<>>
    BY <2>2
  <2>5. IF f = Nil THEN Len(r) = 1 ELSE Len(r) > 1 /\ r[Len(r) - 1] = f
    BY <2>2, <2>3, <2>4
  <2>6. id # Nil
    BY DEF Grown
  <2>. QED
    BY <2>1, <2>4, <2>5, <2>6 DEF Hangs, EndsIn, r
<1>7. \A i \in 2 .. k + 1 : Hangs(R, hs[i])
  <2>1. SUFFICES ASSUME NEW i \in 2 .. k + 1 PROVE Hangs(R, hs[i])
    OBVIOUS
  <2>2. i = k + 1 \/ i \in 2 .. k
    BY <1>1
  <2>. QED
    BY <1>2, <1>5, <1>6, <2>2
<1>8. \A i \in 2 .. k + 1 : i > 2 => hs[i].nodeP = hs[i - 1].node
  <2>1. SUFFICES ASSUME NEW i \in 2 .. k + 1, i > 2 PROVE hs[i].nodeP = hs[i - 1].node
    OBVIOUS
  <2>2. CASE i = k + 1
    <3>1. i - 1 = k /\ k \in 1 .. k /\ k > 1
      BY <1>1, <2>1, <2>2
    <3>. QED
      BY <1>2, <1>3, <2>2, <3>1 DEF Spine
  <2>3. CASE i \in 2 .. k
    <3>1. i \in 1 .. k /\ i - 1 \in 1 .. k
      BY <1>1, <2>3, <2>1
    <3>. QED
      BY <1>3, <2>1, <2>3, <3>1 DEF Spine
  <2>. QED
    BY <1>1, <2>2, <2>3
<1>9. \A i \in 2 .. k + 1 : \A j \in i .. k + 1 : hs[i].nodeP # hs[j].node
  <2>1. SUFFICES ASSUME NEW i \in 2 .. k + 1, NEW j \in i .. k + 1 PROVE hs[i].nodeP # hs[j].node
    OBVIOUS
  <2>2. CASE j = k + 1
    <3>1. hs[j].node = id /\ id \notin DOMAIN T
      BY <1>2, <2>2 DEF Grown
    <3>2. hs[i].nodeP \in DOMAIN T
      <4>1. CASE i = k + 1
        BY <1>2, <4>1 DEF Grown
      <4>2. CASE i \in 2 .. k
        BY <1>1, <1>3, <1>5, <4>2
      <4>. QED
        BY <1>1, <4>1, <4>2
    <3>. QED
      BY <3>1, <3>2
  <2>3. CASE j \in i .. k
    <3>1. i \in 2 .. k /\ i \in 1 .. k /\ j \in 1 .. k
      BY <1>1, <2>3
    <3>. QED
      BY <1>3, <2>3, <3>1 DEF Spine
  <2>. QED
    BY <1>1, <2>2, <2>3
<1>10. hs[1].ResF = Nil /\ hs[1].ResP = Nil /\ hs[1].node = Nil /\ hs[1].nodeP = Nil
  BY <1>1, <1>3 DEF Spine
<1>11. Spine(R, hs, id, Nil)
  <2>. DEFINE m == k + 1
  <2>1. Len(hs) = m /\ hs[m].node = id
    BY <1>2
  <2>. HIDE DEF m
  <2>. QED
    BY <1>4, <1>7, <1>8, <1>9, <1>10, <2>1 DEF Spine, m
<1>. QED
  BY <1>11 DEF hs

(* The token at a place of a line.                                         *)
LEMMA TokenIs ==
  ASSUME NEW S, NEW s \in Seq(S), NEW p \in Nat
  PROVE  Token(s, p) \in S \cup {Untagged}
BY DEF Token

(* The level a start opens is that of a block. *)
LEMMA LevelAtIs ==
  ASSUME TokensAssumption, NEW s \in Seq(Tokens), NEW p \in Nat, NEW b \in Blocks,
         Token(s, p) \in Tokens
  PROVE  LevelAt(b, s, p) \in Levels
<1>1. p + 1 \in Nat /\ Token(s, p + 1) \in Tokens \cup {Untagged}
  BY TokenIs
<1>. QED
  BY <1>1 DEF LevelAt, Levels

(* The call for a block: an activation more, which keeps what it is to put *)
(* back.                                                                   *)
Deeper ==
  LET k == Len(frames)  fr == frames'[k + 1] IN
  /\ Len(frames') = k + 1
  /\ fr.old_line = line /\ fr.ResF = forward /\ fr.ResP = parent
  /\ Updating => fr.node = parent' /\ fr.nodeP = parent
  /\ ~Updating => fr.node = Nil /\ fr.nodeP = Nil
  /\ \A i \in 1 .. k :
       /\ frames'[i].ResF = frames[i].ResF /\ frames'[i].ResP = frames[i].ResP
       /\ frames'[i].node = frames[i].node /\ frames'[i].nodeP = frames[i].nodeP
       /\ frames'[i].old_line = frames[i].old_line

(* What a block that starts does: the calls are one deeper, and with the   *)
(* cache updated the tree has grown by the node for it.                    *)
LEMMA MatchBlockIs ==
  ASSUME BoundsAssumption, TokensAssumption, BlocksAssumption, IInv, MatchBlock
  PROVE  /\ pc = "content" /\ pc' \in {"return", "line"} /\ line < stop
         /\ UNCHANGED <<call, line, stop>>
         /\ stackLevel' = IF pc' = "return" THEN Len(frames) ELSE Len(frames) + 1
         /\ stackLevel' \in 0 .. MaxLevel + 1
         /\ Typed'
         /\ Deeper
         /\ Updating => Grown(tree, parent, forward, parent', line + 1, tree') /\ forward' = Nil
         /\ ~Updating => UNCHANGED <<tree, parent, forward>>
<1>. DEFINE found == StartsAt(Current.level.block, str, gx, schemeStart)
            b     == CHOOSE x \in found : TRUE
            level == LevelAt(b, str, gx)
            id    == FreeId(tree)
            top   == IF forward # Nil /\ parent = Nil THEN tree[forward].parent ELSE parent
            mid   == WithTop([Current EXCEPT !.clipped = FALSE])
            fr    == [Bottom(level) EXCEPT !.old_line = line,
                            !.ResF = forward, !.ResP = parent,
                            !.node = IF Updating THEN id ELSE Nil,
                            !.nodeP = IF Updating THEN top ELSE Nil,
                            !.old_matchend = matchend, !.old_schemeStart = schemeStart]
            R     == Appended(tree, top, forward, id, NewNode(top, line + 1, level))
<1>1. /\ pc = "content" /\ found # {} /\ gx' = gx + 1 /\ schemeStart' = gx + 1
      /\ handler' = Append(handler, b)
      /\ tryStack' = IF Trying THEN Append(tryStack, level) ELSE tryStack
      /\ IF Updating THEN tree' = R /\ parent' = id /\ forward' = Nil
         ELSE UNCHANGED <<tree, parent, forward>>
      /\ frames' = Append(mid, fr)
      /\ IF stackLevel > MaxLevel THEN pc' = "return" /\ UNCHANGED stackLevel
         ELSE pc' = "line" /\ stackLevel' = stackLevel + 1
      /\ UNCHANGED <<text, edits, valid, call, line, matchend, stop, clearLine, endLine, filled,
                     breakParsing, gone, expected, tryMismatch>>
  BY DEF MatchBlock, Searching, client
<1>2. line < stop /\ line \in Lines /\ str \in Seq(Tokens) /\ gx \in Nat
  BY <1>1, StrIs DEF IInv, Control, Typed
<1>3. parent \in DOMAIN tree /\ forward \in DOMAIN tree \cup {Nil} /\ GoodTree(tree)
      /\ DOMAIN tree \subseteq Nat /\ top = parent
  <2>1. parent \in DOMAIN tree /\ forward \in DOMAIN tree \cup {Nil} /\ GoodTree(tree)
        /\ DOMAIN tree \subseteq Nat
    BY <1>1 DEF IInv, Standing, GoodTree, IsTree
  <2>2. parent # Nil
    BY <2>1 DEF Nil
  <2>. QED
    BY <2>1, <2>2
<1>4. b \in Blocks /\ level \in Levels
  <2>1. Current.level \in AllLevels
    BY <1>1, TopFrame DEF Frames
  <2>2. Current.level.block \in Blocks \cup {Top}
    BY <2>1 DEF AllLevels, Levels, None
  <2>3. b \in found
    BY <1>1
  <2>4. b \in Inside[Current.level.block] /\ Token(str, gx) \in Starts[b]
    <3>. HIDE DEF b
    <3>. QED
      BY <2>3 DEF StartsAt
  <2>. HIDE DEF b, found
  <2>5. b \in Blocks
    BY <2>2, <2>4 DEF BlocksAssumption
  <2>6. Token(str, gx) \in Tokens
    BY <2>4, <2>5 DEF BlocksAssumption
  <2>. QED
    BY <1>2, <2>5, <2>6, LevelAtIs
<1>. HIDE DEF found, b
<1>5. id \in Nat /\ id \notin DOMAIN tree
  BY <1>3, FreeIdIsFree DEF GoodTree, IsTree
<1>6. SameNodes(frames, mid) /\ Len(frames) \in Nat \ {0} /\ frames \in Seq(Frames)
  BY <1>1, UnclippedIs, TopFrame
<1>7. /\ fr \in Frames /\ fr.old_line = line /\ fr.ResF = forward /\ fr.ResP = parent
      /\ fr.node = IF Updating THEN id ELSE Nil
      /\ fr.nodeP = IF Updating THEN parent ELSE Nil
  <2>1. Bottom(level) \in Frames
    BY <1>4, BottomIs DEF AllLevels
  <2>2. /\ line \in 0 .. MaxLines + 1 /\ forward \in Nat \cup {Nil} /\ parent \in Nat \cup {Nil}
        /\ (IF Updating THEN id ELSE Nil) \in Nat \cup {Nil}
        /\ (IF Updating THEN top ELSE Nil) \in Nat \cup {Nil}
        /\ matchend \in Spans /\ schemeStart \in Nat \cup {-1}
    BY <1>3, <1>5 DEF IInv, Typed
  <2>. DEFINE bot == Bottom(level)
              n1 == IF Updating THEN id ELSE Nil
              n2 == IF Updating THEN top ELSE Nil
  <2>3. /\ bot \in Frames /\ n1 \in Nat \cup {Nil} /\ n2 \in Nat \cup {Nil}
        /\ fr = [bot EXCEPT !.old_line = line, !.ResF = forward, !.ResP = parent,
                    !.node = n1, !.nodeP = n2,
                    !.old_matchend = matchend, !.old_schemeStart = schemeStart]
    BY <2>1, <2>2
  <2>4. n1 = IF Updating THEN id ELSE Nil
    OBVIOUS
  <2>5. n2 = IF Updating THEN parent ELSE Nil
    BY <1>3
  <2>. HIDE DEF id, top, level, fr, bot, n1, n2
  <2>6. fr \in Frames
    BY <2>2, <2>3 DEF Frames
  <2>7. fr.old_line = line /\ fr.ResF = forward /\ fr.ResP = parent /\ fr.node = n1 /\ fr.nodeP = n2
    BY <2>2, <2>3 DEF Frames
  <2>. QED
    BY <2>4, <2>5, <2>6, <2>7
<1>. HIDE DEF mid, fr, id, top, level, R
<1>8. /\ frames' \in Seq(Frames) /\ Len(frames') = Len(frames) + 1 /\ frames'[Len(frames) + 1] = fr
      /\ \A i \in 1 .. Len(frames) : frames'[i] = mid[i]
      /\ mid \in Seq(Frames) /\ Len(mid) = Len(frames) /\ DOMAIN frames = 1 .. Len(frames)
  <2>1. mid \in Seq(Frames) /\ Len(mid) = Len(frames)
    BY <1>6 DEF SameNodes
  <2>. QED
    BY <1>1, <1>6, <1>7, <2>1, AppendFrame
<1>9. Typed'
  <2>1. /\ gx' \in Nat /\ schemeStart' \in Nat \cup {-1}
    BY <1>1, <1>2
  <2>2. handler' \in Seq(Blocks) /\ tryStack' \in Seq(Levels)
    BY <1>1, <1>4, AppendFrame DEF IInv, Typed
  <2>. QED
    BY <1>1, <1>8, <2>1, <2>2 DEF IInv, Typed
<1>10. /\ pc' \in {"return", "line"}
       /\ stackLevel' = IF pc' = "return" THEN Len(frames) ELSE Len(frames) + 1
       /\ stackLevel' \in 0 .. MaxLevel + 1
  <2>1. stackLevel = Len(frames) /\ stackLevel \in 0 .. MaxLevel + 1
    BY <1>1 DEF IInv, Control
  <2>. QED
    BY <1>1, <1>6, <2>1 DEF BoundsAssumption
<1>11. Deeper
  <2>1. Updating => id = parent'
    BY <1>1
  <2>. QED
    BY <1>6, <1>7, <1>8, <2>1 DEF Deeper, SameNodes
<1>12. ASSUME Updating
       PROVE  Grown(tree, parent, forward, parent', line + 1, tree') /\ forward' = Nil
  <2>1. Spine(tree, frames, parent, forward)
    BY <1>1, <1>12 DEF IInv, Standing
  <2>2. line + 1 \in 0 .. MaxLines
    BY <1>2 DEF Lines, BoundsAssumption
  <2>3. EndsIn(tree, parent, forward)
    BY <2>1 DEF Spine
  <2>. DEFINE ln == line + 1
  <2>4. Grown(tree, parent, forward, id, ln, R)
    <3>1. R = Appended(tree, parent, forward, FreeId(tree), NewNode(parent, ln, level))
      BY <1>3 DEF id, R
    <3>. HIDE DEF ln
    <3>. QED
      BY <1>3, <1>4, <2>2, <2>3, <3>1, AppendedGood DEF id, ln
  <2>. QED
    BY <1>1, <1>12, <2>4
<1>. QED
  BY <1>1, <1>2, <1>9, <1>10, <1>11, <1>12

(* The step at the start of a block.                                       *)
LEMMA MatchBlockStep ==
  ASSUME BoundsAssumption, TokensAssumption, BlocksAssumption, IInv, MatchBlock
  PROVE  IInv'
<1>. DEFINE k == Len(frames)
            fr == frames'[k + 1]
            mid == [i \in 1 .. k |-> frames'[i]]
<1>1. /\ pc = "content" /\ pc' \in {"return", "line"} /\ line < stop
      /\ UNCHANGED <<call, line, stop>>
      /\ stackLevel' = IF pc' = "return" THEN Len(frames) ELSE Len(frames) + 1
      /\ stackLevel' \in 0 .. MaxLevel + 1
      /\ Typed'
      /\ Deeper
      /\ Updating => Grown(tree, parent, forward, parent', line + 1, tree') /\ forward' = Nil
      /\ ~Updating => UNCHANGED <<tree, parent, forward>>
  BY MatchBlockIs
<1>2. k \in Nat \ {0} /\ frames \in Seq(Frames) /\ frames' \in Seq(Frames) /\ DOMAIN frames = 1 .. k
  BY <1>1, TopFrame DEF Typed
<1>3. /\ Len(frames') = k + 1 /\ fr \in Frames
      /\ fr.old_line = line /\ fr.ResF = forward /\ fr.ResP = parent
      /\ Updating => fr.node = parent' /\ fr.nodeP = parent
      /\ ~Updating => fr.node = Nil /\ fr.nodeP = Nil
      /\ \A i \in 1 .. k :
           /\ frames'[i].ResF = frames[i].ResF /\ frames'[i].ResP = frames[i].ResP
           /\ frames'[i].node = frames[i].node /\ frames'[i].nodeP = frames[i].nodeP
           /\ frames'[i].old_line = frames[i].old_line
  <2>1. Len(frames') = k + 1 /\ k + 1 \in 1 .. Len(frames')
    BY <1>1, <1>2 DEF Deeper
  <2>2. fr \in Frames
    BY <1>2, <2>1
  <2>. QED
    BY <1>1, <2>1, <2>2 DEF Deeper
<1>4. mid \in Seq(Frames) /\ Len(mid) = k /\ SameNodes(frames, mid) /\ frames' = Append(mid, fr)
  <2>1. \A i \in 1 .. k : frames'[i] \in Frames
    BY <1>2, <1>3
  <2>2. mid \in Seq(Frames) /\ Len(mid) = k
    BY <1>2, <2>1
  <2>3. SameNodes(frames, mid)
    BY <1>2, <1>3, <2>2 DEF SameNodes
  <2>4. frames' = Append(mid, fr)
    <3>. DEFINE ap == Append(mid, fr)
    <3>1. ap \in Seq(Frames) /\ Len(ap) = k + 1 /\ ap[k + 1] = fr /\ \A i \in 1 .. k : ap[i] = mid[i]
      BY <1>3, <2>2, AppendFrame
    <3>2. \A i \in 1 .. k + 1 : frames'[i] = ap[i]
      BY <1>2, <3>1
    <3>. HIDE DEF ap
    <3>3. frames' = ap
      BY <1>2, <1>3, <3>1, <3>2
    <3>. QED
      BY <3>3 DEF ap
  <2>. QED
    BY <2>2, <2>3, <2>4
<1>5. parent \in DOMAIN tree /\ forward \in DOMAIN tree \cup {Nil} /\ GoodTree(tree)
      /\ Held(tree, frames) /\ (Updating => Spine(tree, frames, parent, forward))
  BY <1>1 DEF IInv, Standing
<1>. HIDE DEF fr, mid
<1>10. Control'
  <2>1. frames' # <<>>
    <3>1. Len(frames') # 0
      BY <1>2, <1>3
    <3>. QED
      BY <3>1, NotEmpty
  <2>2. \A i \in 2 .. Len(frames') : frames'[i].old_line < stop'
    <3>1. SUFFICES ASSUME NEW i \in 2 .. k + 1 PROVE frames'[i].old_line < stop
      BY <1>1, <1>3
    <3>2. CASE i = k + 1
      BY <1>1, <1>3, <3>2 DEF fr
    <3>3. CASE i \in 2 .. k
      <4>1. i \in 1 .. k /\ frames'[i].old_line = frames[i].old_line
        BY <1>3, <3>3
      <4>. QED
        BY <3>3, <4>1 DEF IInv, Control
    <3>. QED
      BY <1>2, <3>2, <3>3
  <2>3. /\ stackLevel' = IF pc' = "return" THEN Len(frames') - 1 ELSE Len(frames')
    BY <1>1, <1>2, <1>3
  <2>. QED
    BY <1>1, <2>1, <2>2, <2>3 DEF Control
<1>11. Held(tree', frames')
  <2>1. DOMAIN tree \subseteq DOMAIN tree' /\ (Updating => parent' \in DOMAIN tree')
    BY <1>1 DEF Grown
  <2>2. \A i \in 1 .. k :
          {frames[i].ResF, frames[i].ResP, frames[i].node, frames[i].nodeP} \subseteq DOMAIN tree \cup {Nil}
    BY <1>2, <1>5 DEF Held
  <2>3. {fr.ResF, fr.ResP, fr.node, fr.nodeP} \subseteq DOMAIN tree' \cup {Nil}
    BY <1>3, <1>5, <2>1
  <2>4. DOMAIN frames' = 1 .. k + 1 /\ \A i \in 1 .. k + 1 : i \in 1 .. k \/ i = k + 1
    BY <1>2, <1>3
  <2>. QED
    BY <1>3, <2>1, <2>2, <2>3, <2>4 DEF Held, fr
<1>12. CASE ~Updating
  BY <1>1, <1>5, <1>10, <1>11, <1>12 DEF IInv, Standing, Updating
<1>13. CASE Updating
  <2>. DEFINE ln == line + 1
  <2>1. Grown(tree, parent, forward, parent', ln, tree') /\ forward' = Nil
    BY <1>1, <1>13
  <2>2. Spine(tree, frames, parent, forward) /\ Len(frames) > 0
    BY <1>2, <1>5, <1>13
  <2>3. fr \in Frames /\ fr.ResF = forward /\ fr.ResP = parent /\ fr.node = parent' /\ fr.nodeP = parent
    BY <1>3, <1>13
  <2>. DEFINE id == parent'
              R == tree'
  <2>4. Grown(tree, parent, forward, id, ln, R) /\ fr.node = id
    BY <2>1, <2>3
  <2>. HIDE DEF ln, id, R
  <2>5. Spine(R, Append(mid, fr), id, Nil)
    BY <1>2, <1>4, <2>2, <2>3, <2>4, PushSpine
  <2>6. Spine(tree', frames', parent', forward')
    BY <1>4, <2>1, <2>5 DEF id, R
  <2>7. GoodTree(tree') /\ parent' \in DOMAIN tree'
    BY <2>1 DEF Grown
  <2>8. Standing'
    BY <1>1, <1>11, <2>1, <2>6, <2>7 DEF Standing
  <2>. QED
    BY <1>1, <1>10, <2>7, <2>8 DEF IInv
<1>. QED
  BY <1>12, <1>13

(* The children of a node on the spine are nodes still. *)
LEMMA HangsHeld ==
  ASSUME NEW T, GoodTree(T), NEW fr \in Frames, Hangs(T, fr)
  PROVE  /\ {fr.ResF, fr.ResP, fr.node, fr.nodeP} \subseteq DOMAIN T \cup {Nil}
         /\ fr.ResF = Nil \/ (/\ fr.ResF \in DOMAIN T /\ fr.ResF # RootId
                              /\ T[fr.ResF].parent = fr.nodeP)
         /\ fr.node # RootId /\ T[fr.node].parent = fr.nodeP
<1>. DEFINE p == fr.nodeP
            kids == T[p].kids
<1>1. p \in DOMAIN T /\ fr.node \in DOMAIN T /\ fr.ResP = p /\ EndsIn(T, p, fr.node)
      /\ IF fr.ResF = Nil THEN Len(kids) = 1 ELSE Len(kids) > 1 /\ kids[Len(kids) - 1] = fr.ResF
  BY DEF Hangs
<1>2. fr.node # Nil
  BY <1>1 DEF GoodTree, IsTree, Nil
<1>. DEFINE nd == fr.node
<1>3. /\ nd # RootId /\ T[nd].parent = p /\ Len(kids) \in Nat \ {0} /\ kids \in Seq(DOMAIN T)
  <2>. HIDE DEF p, nd
  <2>. QED
    BY <1>1, <1>2, EndsAt DEF p, nd
<1>4. IsTree(T, AllLevels)
  BY DEF GoodTree
<1>5. ASSUME fr.ResF # Nil
      PROVE  fr.ResF \in DOMAIN T /\ fr.ResF # RootId /\ T[fr.ResF].parent = p
  <2>. DEFINE i == Len(kids) - 1
  <2>1. i \in DOMAIN T[p].kids
    BY <1>1, <1>3, <1>5
  <2>2. kids[i] = fr.ResF
    BY <1>1, <1>5
  <2>. HIDE DEF i, p
  <2>3. /\ T[p].kids[i] \in DOMAIN T /\ T[T[p].kids[i]].parent = p
        /\ T[p].kids[i] # RootId
    BY <1>1, <1>4, <2>1, KidFacts DEF p
  <2>. QED
    BY <2>2, <2>3
<1>. QED
  BY <1>1, <1>3, <1>5

(* R has the nodes below the last of fs on as T has them. *)
Keeps(T, fs, R) ==
  /\ GoodTree(R)
  /\ \A i \in 2 .. Len(fs) - 1 :
       fs[i].nodeP \in DOMAIN R /\ R[fs[i].nodeP].kids = T[fs[i].nodeP].kids

(* The activations around the last one still stand on the right edge, if   *)
(* their nodes are as they were.                                           *)
LEMMA PopRest ==
  ASSUME NEW T, GoodTree(T), NEW fs \in Seq(Frames), Len(fs) > 1,
         NEW p, NEW f, Spine(T, fs, p, f), NEW R, Keeps(T, fs, R),
         NEW g, EndsIn(R, fs[Len(fs)].nodeP, g)
  PROVE  /\ Spine(R, Front(fs), fs[Len(fs)].nodeP, g)
         /\ Held(R, Front(fs))
<1>. DEFINE k == Len(fs) - 1
            hs == Front(fs)
            q == fs[Len(fs)].nodeP
<1>1. k \in Nat \ {0} /\ Len(hs) = k /\ hs \in Seq(Frames) /\ Len(fs) = k + 1
      /\ \A i \in 1 .. k : hs[i] = fs[i]
  BY FrontFrame
<1>2. /\ \A i \in 2 .. k + 1 :
           /\ Hangs(T, fs[i])
           /\ i > 2 => fs[i].nodeP = fs[i - 1].node
           /\ \A j \in i .. k + 1 : fs[i].nodeP # fs[j].node
      /\ fs[1].ResF = Nil /\ fs[1].ResP = Nil /\ fs[1].node = Nil /\ fs[1].nodeP = Nil
  BY <1>1 DEF Spine
<1>3. GoodTree(R) /\ \A i \in 2 .. k : fs[i].nodeP \in DOMAIN R /\ R[fs[i].nodeP].kids = T[fs[i].nodeP].kids
  BY DEF Keeps
<1>4. EndsIn(R, q, g) /\ fs[k + 1].nodeP = q
  BY <1>1
<1>. HIDE DEF k, hs, q
<1>5. ASSUME NEW i \in 2 .. k PROVE Hangs(R, hs[i]) /\ hs[i] \in Frames
  <2>1. i \in 2 .. k + 1 /\ i \in 1 .. k
    BY <1>1
  <2>2. Hangs(T, fs[i]) /\ hs[i] = fs[i] /\ hs[i] \in Frames
    BY <1>1, <1>2, <2>1
  <2>3. fs[i].nodeP \in DOMAIN R /\ R[fs[i].nodeP].kids = T[fs[i].nodeP].kids
    BY <1>3
  <2>. DEFINE n == fs[i].nodeP  d == fs[i].node
  <2>4. d # Nil /\ n \in DOMAIN R
    BY <2>2, <2>3 DEF Hangs, GoodTree, IsTree, Nil
  <2>5. EndsIn(R, n, d)
    BY <2>2, <2>3 DEF Hangs, EndsIn
  <2>6. d \in DOMAIN R
    <3>. HIDE DEF n, d
    <3>. QED
      BY <1>3, <2>4, <2>5, EndsAt
  <2>. QED
    BY <2>2, <2>3, <2>5, <2>6 DEF Hangs
<1>6. \A i \in 2 .. k :
         /\ i > 2 => hs[i].nodeP = hs[i - 1].node
         /\ \A j \in i .. k : hs[i].nodeP # hs[j].node
  <2>1. SUFFICES ASSUME NEW i \in 2 .. k
          PROVE  /\ i > 2 => hs[i].nodeP = hs[i - 1].node
                 /\ \A j \in i .. k : hs[i].nodeP # hs[j].node
    OBVIOUS
  <2>2. hs[i] = fs[i] /\ (i > 2 => hs[i - 1] = fs[i - 1]) /\ \A j \in i .. k : hs[j] = fs[j]
    BY <1>1
  <2>3. i \in 2 .. k + 1 /\ \A j \in i .. k : j \in i .. k + 1
    BY <1>1
  <2>. QED
    BY <1>2, <2>2, <2>3
<1>7. hs[1].ResF = Nil /\ hs[1].ResP = Nil /\ hs[1].node = Nil /\ hs[1].nodeP = Nil
  BY <1>1, <1>2
<1>8. k > 1 => q = hs[k].node
  <2>1. SUFFICES ASSUME k > 1 PROVE q = hs[k].node
    OBVIOUS
  <2>2. k + 1 \in 2 .. k + 1 /\ k + 1 > 2 /\ (k + 1) - 1 = k /\ k \in 1 .. k
    BY <1>1, <2>1
  <2>3. fs[k + 1].nodeP = fs[k].node
    BY <1>2, <2>2
  <2>. QED
    BY <1>1, <1>4, <2>2, <2>3
<1>9. Spine(R, hs, q, g)
  BY <1>1, <1>4, <1>5, <1>6, <1>7, <1>8 DEF Spine
<1>10. Held(R, hs)
  <2>1. \A i \in 2 .. k : {hs[i].ResF, hs[i].ResP, hs[i].node, hs[i].nodeP} \subseteq DOMAIN R \cup {Nil}
    BY <1>3, <1>5, HangsHeld
  <2>2. DOMAIN hs = 1 .. k /\ \A i \in 1 .. k : i = 1 \/ i \in 2 .. k
    BY <1>1
  <2>. QED
    BY <1>7, <2>1, <2>2 DEF Held
<1>. QED
  BY <1>9, <1>10 DEF hs, q

(* R has nodes of T, with the same parents.                                *)
SameParents(T, R) ==
  GoodTree(R) /\ \A n \in DOMAIN R : n \in DOMAIN T /\ R[n].parent = T[n].parent

(* The nodes the activations around stand on outlive the last one.         *)
LEMMA Survive ==
  ASSUME NEW T, GoodTree(T), NEW fs \in Seq(Frames), Len(fs) > 1,
         NEW p, NEW f, Spine(T, fs, p, f), NEW R, SameParents(T, R), fs[Len(fs)].nodeP \in DOMAIN R
  PROVE  \A i \in 2 .. Len(fs) : fs[i].nodeP \in DOMAIN R
<1>. DEFINE k == Len(fs)
            S == {m \in Nat : m <= k - 2 => fs[k - m].nodeP \in DOMAIN R}
<1>1. k \in Nat /\ k > 1
  OBVIOUS
<1>2. \A i \in 2 .. k : Hangs(T, fs[i]) /\ (i > 2 => fs[i].nodeP = fs[i - 1].node) /\ fs[i] \in Frames
  BY <1>1 DEF Spine
<1>3. \A i \in 2 .. k : fs[i].node # RootId /\ T[fs[i].node].parent = fs[i].nodeP
  BY <1>2, HangsHeld
<1>4. \A n \in DOMAIN R : n # RootId => T[n].parent \in DOMAIN R
  BY DEF SameParents, GoodTree, IsTree, Linked
<1>5. fs[k].nodeP \in DOMAIN R
  OBVIOUS
<1>. HIDE DEF k
<1>6. 0 \in S
  BY <1>1, <1>5
<1>7. ASSUME NEW m \in Nat, m \in S PROVE m + 1 \in S
  <2>1. SUFFICES ASSUME m + 1 <= k - 2 PROVE fs[k - (m + 1)].nodeP \in DOMAIN R
    OBVIOUS
  <2>. DEFINE i == k - m
  <2>2. i \in 2 .. k /\ i > 2 /\ i - 1 \in 2 .. k /\ k - (m + 1) = i - 1
    BY <1>1, <2>1
  <2>3. fs[i].nodeP \in DOMAIN R
    BY <1>1, <1>7, <2>1
  <2>. HIDE DEF i
  <2>4. fs[i].nodeP = fs[i - 1].node
    BY <1>2, <2>2
  <2>5. fs[i - 1].node # RootId /\ T[fs[i - 1].node].parent = fs[i - 1].nodeP
    BY <1>3, <2>2
  <2>. QED
    BY <1>4, <2>2, <2>3, <2>4, <2>5
<1>8. Nat \subseteq S
  <2>. HIDE DEF S
  <2>. QED
    BY <1>6, <1>7, SetInduction
<1>9. ASSUME NEW i \in 2 .. k PROVE fs[i].nodeP \in DOMAIN R
  <2>1. k - i \in Nat /\ k - i <= k - 2 /\ k - (k - i) = i
    BY <1>1
  <2>2. k - i \in S
    BY <1>8, <2>1
  <2>. QED
    BY <2>1, <2>2
<1>. QED
  BY <1>9 DEF k

(* searchBL puts the tree back to what it was for a block within a line.   *)
LEMMA PopWithin ==
  ASSUME NEW T, GoodTree(T), NEW fs \in Seq(Frames), Len(fs) > 1,
         NEW p, NEW f, Spine(T, fs, p, f), NEW fr, fr = fs[Len(fs)],
         NEW R, R = Trimmed(T, fr.nodeP, fr.ResF, TRUE)
  PROVE  /\ GoodTree(R) /\ fr.nodeP \in DOMAIN R /\ fr.ResF \in DOMAIN R \cup {Nil}
         /\ Spine(R, Front(fs), fr.nodeP, fr.ResF)
         /\ Held(R, Front(fs))
<1>. DEFINE k == Len(fs)
            q == fr.nodeP
            g == fr.ResF
<1>1. k \in Nat /\ k > 1 /\ Hangs(T, fr) /\ fr \in Frames
  BY DEF Spine
<1>2. q \in DOMAIN T /\ (g = Nil \/ (g \in DOMAIN T /\ g # RootId /\ T[g].parent = q))
  BY <1>1, HangsHeld DEF Hangs
<1>. HIDE DEF q, g
<1>3. R = Trimmed(T, q, g, TRUE)
  BY DEF q, g
<1>4. /\ GoodTree(R) /\ q \in DOMAIN R /\ g \in DOMAIN R \cup {Nil}
      /\ EndsIn(R, q, g) /\ DOMAIN R \subseteq DOMAIN T
      /\ \A n \in DOMAIN R : n # q => R[n] = T[n]
      /\ R[q].parent = T[q].parent
  <2>1. Trims(T, q, g)
    BY <1>2 DEF Trims
  <2>2. TrimsTo(T, q, g, R)
    BY <1>3, <2>1, TrimIs
  <2>. QED
    BY <2>2 DEF TrimsTo
<1>5. SameParents(T, R)
  <2>1. \A n \in DOMAIN R : n \in DOMAIN T /\ R[n].parent = T[n].parent
    BY <1>4
  <2>. QED
    BY <1>4, <2>1 DEF SameParents
<1>6. \A i \in 2 .. k : fs[i].nodeP \in DOMAIN R
  <2>1. fs[Len(fs)].nodeP \in DOMAIN R
    BY <1>4 DEF q
  <2>. QED
    BY <1>4, <1>5, <2>1, Survive
<1>7. Keeps(T, fs, R)
  <2>1. SUFFICES ASSUME NEW i \in 2 .. k - 1
          PROVE  fs[i].nodeP \in DOMAIN R /\ R[fs[i].nodeP].kids = T[fs[i].nodeP].kids
    BY <1>4 DEF Keeps
  <2>2. i \in 2 .. k /\ k - 1 \in i .. k /\ k \in 2 .. k /\ k > 2
    BY <1>1
  <2>3. fs[i].nodeP # fs[k - 1].node /\ q = fs[k - 1].node
    BY <2>2 DEF Spine, q
  <2>. QED
    BY <1>4, <1>6, <2>2, <2>3
<1>8. EndsIn(R, fs[k].nodeP, g) /\ fs[k].nodeP = q
  BY <1>4 DEF q
<1>9. Spine(R, Front(fs), q, g) /\ Held(R, Front(fs))
  BY <1>7, <1>8, PopRest
<1>. QED
  BY <1>4, <1>9 DEF q, g

(* A tree with a node closed.                                              *)
LEMMA ClosedGood ==
  ASSUME BoundsAssumption, NEW T, GoodTree(T), NEW n \in DOMAIN T, NEW e \in 0 .. MaxLines + 1
  PROVE  LET R == [T EXCEPT ![n].eline = e] IN
         /\ GoodTree(R) /\ DOMAIN R = DOMAIN T
         /\ \A m \in DOMAIN T : R[m].kids = T[m].kids /\ R[m].parent = T[m].parent
<1>. DEFINE R == [T EXCEPT ![n].eline = e]
<1>1. IsTree(T, AllLevels) /\ e \in Nat
  BY DEF GoodTree, BoundsAssumption
<1>2. /\ IsTree(R, AllLevels) /\ DOMAIN R = DOMAIN T
      /\ \A m \in DOMAIN T :
           /\ R[m].parent = T[m].parent /\ R[m].kids = T[m].kids
           /\ R[m].sline = T[m].sline /\ R[m].level = T[m].level
           /\ R[m].eline = IF m = n THEN e ELSE T[m].eline
  BY <1>1, EndedIs
<1>. HIDE DEF R
<1>3. \A m \in DOMAIN R : LineOf(R, m)
  BY <1>2 DEF LineOf, GoodTree
<1>4. GoodTree(R)
  BY <1>2, <1>3 DEF GoodTree
<1>. QED
  BY <1>2, <1>4 DEF R

(* A block that spans lines is closed and stays. *)
LEMMA PopClosed ==
  ASSUME NEW T, GoodTree(T), NEW fs \in Seq(Frames), Len(fs) > 1,
         NEW p, NEW f, Spine(T, fs, p, f), NEW fr, fr = fs[Len(fs)],
         NEW R, GoodTree(R), DOMAIN R = DOMAIN T,
         \A m \in DOMAIN T : R[m].kids = T[m].kids /\ R[m].parent = T[m].parent
  PROVE  /\ fr.nodeP \in DOMAIN R /\ fr.node \in DOMAIN R
         /\ Spine(R, Front(fs), fr.nodeP, fr.node)
         /\ Held(R, Front(fs))
<1>. DEFINE k == Len(fs)
            q == fr.nodeP
            g == fr.node
<1>1. k \in Nat /\ k > 1 /\ \A i \in 2 .. k : Hangs(T, fs[i])
  BY DEF Spine
<1>2. Hangs(T, fr)
  BY <1>1
<1>3. q \in DOMAIN T /\ g \in DOMAIN T /\ EndsIn(T, q, g)
  BY <1>2 DEF Hangs
<1>4. Keeps(T, fs, R)
  <2>1. SUFFICES ASSUME NEW i \in 2 .. k - 1
          PROVE  fs[i].nodeP \in DOMAIN R /\ R[fs[i].nodeP].kids = T[fs[i].nodeP].kids
    BY DEF Keeps
  <2>2. Hangs(T, fs[i])
    BY <1>1
  <2>. QED
    BY <2>2 DEF Hangs
<1>. HIDE DEF q, g
<1>5. EndsIn(R, q, g)
  BY <1>3 DEF EndsIn
<1>6. EndsIn(R, fs[k].nodeP, g) /\ fs[k].nodeP = q
  BY <1>5 DEF q
<1>7. Spine(R, Front(fs), q, g) /\ Held(R, Front(fs))
  BY <1>4, <1>6, PopRest
<1>. QED
  BY <1>3, <1>7 DEF q, g

(* The handler leaves a scheme.                                            *)
LEMMA LeaveSchemeIs == ASSUME IInv PROVE LeaveScheme \in Seq(Blocks)
<1>1. handler \in Seq(Blocks)
  BY DEF IInv, Typed
<1>2. Front(handler) \in Seq(Blocks)
  <2>1. CASE handler # <<>>
    BY <1>1, <2>1 DEF Front
  <2>2. CASE handler = <<>>
    <3>1. Len(handler) - 1 = -1
      BY <2>2
    <3>2. SubSeq(handler, 1, -1) \in Seq(Blocks)
      BY SubSeqProperties
    <3>. QED
      BY <3>1, <3>2 DEF Front
  <2>. QED
    BY <2>1, <2>2
<1>. QED
  BY <1>1, <1>2 DEF LeaveScheme

(* The step back from the colorize() of a block: with or without its node. *)
LEMMA BlockReturnsStep == ASSUME BoundsAssumption, IInv, BlockReturns PROVE IInv'
<1>. DEFINE k == Len(frames)
            fr == Current
            oneLine == fr.old_line = line
            nothing == oneLine /\ matchend.e = fr.level.at
<1>1. /\ pc = "return" /\ k > 1
      /\ handler' = LeaveScheme /\ tryStack' = TryLeft(oneLine)
      /\ gx' = IF nothing THEN matchend.e + 1 ELSE matchend.e
      /\ matchend' = fr.old_matchend /\ schemeStart' = fr.old_schemeStart
      /\ frames' = Front(frames)
      /\ pc' = IF ~oneLine \/ (~nothing /\ fr.old_matchend.s < gx') THEN "line" ELSE "content"
      /\ UNCHANGED <<text, edits, valid, call, line, stop, clearLine, endLine, stackLevel, filled,
                     breakParsing, gone, expected, tryMismatch>>
  BY DEF BlockReturns, client
<1>2. /\ ~Updating => UNCHANGED <<tree, parent, forward>>
      /\ Updating /\ oneLine =>
           /\ tree' = IF fr.ResF # Nil THEN dropNext(tree, fr.ResF) ELSE dropChildren(tree, fr.ResP)
           /\ forward' = fr.ResF /\ parent' = fr.ResP
      /\ Updating /\ ~oneLine =>
           /\ tree' = Closed(tree, fr.node)
           /\ forward' = fr.node /\ parent' = fr.nodeP
  BY DEF BlockReturns
<1>3. k \in Nat \ {0} /\ fr \in Frames /\ fr = frames[k] /\ frames \in Seq(Frames) /\ frames # <<>>
  BY <1>1, TopFrame
<1>4. /\ frames' \in Seq(Frames) /\ Len(frames') = k - 1
      /\ \A i \in 1 .. k - 1 : frames'[i] = frames[i]
  <2>1. Len(frames) > 0
    BY <1>1, <1>3
  <2>. DEFINE t == Front(frames)
  <2>2. t \in Seq(Frames) /\ Len(t) = k - 1 /\ \A i \in 1 .. k - 1 : t[i] = frames[i]
    BY <1>3, <2>1, FrontFrame
  <2>3. frames' = t
    BY <1>1
  <2>. HIDE DEF t
  <2>. QED
    BY <2>2, <2>3
<1>5. Typed'
  <2>1. handler' \in Seq(Blocks)
    BY <1>1, LeaveSchemeIs
  <2>2. tryStack' \in Seq(Levels)
    <3>1. TryLeft(oneLine) \in {tryStack, IF tryStack = <<>> THEN <<>> ELSE Front(tryStack)}
      BY DEF TryLeft
    <3>2. tryStack \in Seq(Levels)
      BY DEF IInv, Typed
    <3>. QED
      BY <1>1, <3>1, <3>2, FrontLevels
  <2>3. matchend' \in Spans /\ schemeStart' \in Nat \cup {-1}
    BY <1>1, <1>3 DEF Frames
  <2>4. gx' \in Nat
    BY <1>1 DEF IInv, Typed, Spans
  <2>5. pc' \in {"idle", "line", "content", "return"}
    BY <1>1
  <2>. QED
    BY <1>1, <1>4, <2>1, <2>2, <2>3, <2>4, <2>5 DEF IInv, Typed
<1>6. Control'
  <2>1. frames' # <<>>
    <3>1. Len(frames') # 0
      BY <1>1, <1>3, <1>4
    <3>. QED
      BY <3>1, NotEmpty
  <2>2. \A i \in 2 .. Len(frames') : frames'[i].old_line < stop'
    <3>1. SUFFICES ASSUME NEW i \in 2 .. k - 1 PROVE frames[i].old_line < stop
      BY <1>1, <1>3, <1>4
    <3>. QED
      BY <1>3 DEF IInv, Control
  <2>3. pc' \in {"line", "content"}
    BY <1>1
  <2>4. pc' = "content" => line' < stop'
    <3>1. k \in 2 .. k
      BY <1>1, <1>3
    <3>2. fr.old_line < stop
      BY <1>3, <3>1 DEF IInv, Control
    <3>. QED
      BY <1>1, <3>2
  <2>5. stackLevel' = Len(frames') /\ stackLevel' \in 0 .. MaxLevel + 1
    BY <1>1, <1>4 DEF IInv, Control
  <2>. QED
    BY <2>1, <2>2, <2>3, <2>4, <2>5 DEF Control
<1>7. GoodTree(tree) /\ parent \in DOMAIN tree /\ forward \in DOMAIN tree \cup {Nil}
      /\ Held(tree, frames) /\ pc' # "idle" /\ call' = call
  BY <1>1 DEF IInv, Standing
<1>8. CASE ~Updating
  <2>1. Held(tree, frames')
    <3>1. DOMAIN frames' = 1 .. k - 1 /\ \A i \in 1 .. k - 1 : i \in DOMAIN frames
      BY <1>3, <1>4
    <3>. QED
      BY <1>4, <1>7, <3>1 DEF Held
  <2>. QED
    BY <1>2, <1>5, <1>6, <1>7, <1>8, <2>1 DEF IInv, Standing, Updating
<1>9. CASE Updating
  <2>0. Spine(tree, frames, parent, forward) /\ Len(frames) > 1
    BY <1>1, <1>9 DEF IInv, Standing
  <2>1. k \in 2 .. k
    BY <1>1, <1>3
  <2>2. Hangs(tree, fr)
    BY <1>3, <2>0, <2>1 DEF Spine
  <2>3. /\ GoodTree(tree') /\ parent' \in DOMAIN tree' /\ forward' \in DOMAIN tree' \cup {Nil}
        /\ Spine(tree', Front(frames), parent', forward') /\ Held(tree', Front(frames))
    <3>1. CASE oneLine
      <4>1. fr.ResP = fr.nodeP
        BY <2>2 DEF Hangs
      <4>2. forward' = fr.ResF /\ parent' = fr.nodeP /\ tree' = Trimmed(tree, fr.nodeP, fr.ResF, TRUE)
        BY <1>2, <1>9, <3>1, <4>1 DEF Trimmed
      <4>. DEFINE R == tree'
      <4>3. R = Trimmed(tree, fr.nodeP, fr.ResF, TRUE)
        BY <4>2
      <4>. HIDE DEF R, fr
      <4>4. /\ GoodTree(R) /\ fr.nodeP \in DOMAIN R /\ fr.ResF \in DOMAIN R \cup {Nil}
            /\ Spine(R, Front(frames), fr.nodeP, fr.ResF) /\ Held(R, Front(frames))
        BY <1>3, <1>7, <2>0, <4>3, PopWithin
      <4>. QED
        BY <4>2, <4>4 DEF R
    <3>2. CASE ~oneLine
      <4>. DEFINE nd == fr.node
                  R == [tree EXCEPT ![nd].eline = line]
      <4>1. forward' = fr.node /\ parent' = fr.nodeP /\ tree' = R
        BY <1>2, <1>9, <3>2 DEF Closed
      <4>2. nd \in DOMAIN tree /\ line \in 0 .. MaxLines + 1
        BY <2>2 DEF Hangs, IInv, Typed
      <4>. HIDE DEF nd
      <4>4. /\ GoodTree(R) /\ DOMAIN R = DOMAIN tree
            /\ \A m \in DOMAIN tree : R[m].kids = tree[m].kids /\ R[m].parent = tree[m].parent
        BY <1>7, <4>2, ClosedGood
      <4>. HIDE DEF fr, R
      <4>5. /\ fr.nodeP \in DOMAIN R /\ fr.node \in DOMAIN R
            /\ Spine(R, Front(frames), fr.nodeP, fr.node) /\ Held(R, Front(frames))
        BY <1>3, <1>7, <2>0, <4>4, PopClosed
      <4>. QED
        BY <4>1, <4>4, <4>5
    <3>. QED
      BY <3>1, <3>2
  <2>4. Standing'
    BY <1>1, <1>7, <2>3 DEF Standing
  <2>. QED
    BY <1>5, <1>6, <2>3, <2>4 DEF IInv
<1>. QED
  BY <1>8, <1>9

(* The step to the block around the one parse() went on in.                *)
LEMMA ParentReturnsStep == ASSUME BoundsAssumption, IInv, ParentReturns PROVE IInv'
<1>. DEFINE ended == IF Updating THEN Closed(tree, parent) ELSE tree
            q == tree[parent].parent
            u == Updating
<1>1. /\ pc = "return" /\ Len(frames) = 1 /\ parent # RootId
      /\ handler' = LeaveScheme /\ gx' = matchend.e
      /\ Enter(ended, q, parent, Updating)
      /\ UNCHANGED <<text, edits, valid, call, line, matchend, schemeStart, stop, clearLine, endLine,
                     filled, breakParsing, gone, expected, tryStack, tryMismatch>>
  BY DEF ParentReturns, client, tries
<1>2. GoodTree(tree) /\ parent \in DOMAIN tree
  BY <1>1 DEF IInv, Standing
<1>3. /\ GoodTree(ended) /\ DOMAIN ended = DOMAIN tree
      /\ \A m \in DOMAIN tree : ended[m].parent = tree[m].parent
  <2>1. CASE ~Updating
    BY <1>2, <2>1
  <2>2. CASE Updating
    <3>. DEFINE R == [tree EXCEPT ![parent].eline = line]
    <3>1. ended = R
      BY <2>2 DEF Closed
    <3>2. line \in 0 .. MaxLines + 1
      BY DEF IInv, Typed
    <3>3. /\ GoodTree(R) /\ DOMAIN R = DOMAIN tree
          /\ \A m \in DOMAIN tree : R[m].kids = tree[m].kids /\ R[m].parent = tree[m].parent
      BY <1>2, <3>2, ClosedGood
    <3>. HIDE DEF R, ended
    <3>. QED
      BY <3>1, <3>3
  <2>. QED
    BY <2>1, <2>2
<1>4. q \in DOMAIN tree /\ ended[parent].parent = q /\ u \in BOOLEAN
  BY <1>1, <1>2, <1>3 DEF GoodTree, IsTree, Linked, Updating
<1>5. Enter(ended, q, parent, u)
  BY <1>1
<1>. HIDE DEF ended, q, u
<1>6. /\ GoodTree(tree') /\ frames' \in Seq(Frames) /\ Len(frames') = 1
      /\ parent' \in DOMAIN tree' /\ forward' \in DOMAIN tree' \cup {Nil}
      /\ Held(tree', frames')
      /\ u => Spine(tree', frames', parent', forward')
      /\ stackLevel' = 1 /\ pc' = "line"
  BY <1>1, <1>2, <1>3, <1>4, <1>5, EnterIs
<1>7. Typed'
  <2>1. handler' \in Seq(Blocks)
    BY <1>1, LeaveSchemeIs
  <2>2. gx' \in Nat
    BY <1>1 DEF IInv, Typed, Spans
  <2>. QED
    BY <1>1, <1>6, <2>1, <2>2 DEF IInv, Typed
<1>8. Control'
  <2>1. frames' # <<>>
    <3>1. Len(frames') # 0
      BY <1>6
    <3>. QED
      BY <3>1, NotEmpty
  <2>. QED
    BY <1>6, <2>1 DEF Control, BoundsAssumption
<1>9. Standing'
  <2>1. Updating' <=> u
    BY <1>1 DEF Updating, u
  <2>. QED
    BY <1>6, <2>1 DEF Standing
<1>. QED
  BY <1>6, <1>7, <1>8, <1>9 DEF IInv

(* The step at the end of parse().                                         *)
LEMMA ParseReturnsStep == ASSUME BoundsAssumption, IInv, ParseReturns PROVE IInv'
<1>1. /\ valid' = IF Updating THEN FirstInvalid
                  ELSE IF Trying /\ ~Unchanged THEN call.line ELSE valid
      /\ pc' = "idle" /\ call' = NoCall
      /\ frames' = <<>> /\ parent' = Nil /\ forward' = Nil /\ stackLevel' = 0
      /\ gx' = 0 /\ line' = 0 /\ stop' = 0 /\ clearLine' = -1 /\ endLine' = 0
      /\ schemeStart' = -1 /\ matchend' = [s |-> 0, e |-> 0]
      /\ filled' = FALSE /\ breakParsing' = FALSE /\ gone' = FALSE /\ handler' = <<>>
      /\ expected' = <<>> /\ tryStack' = <<>> /\ tryMismatch' = FALSE
      /\ UNCHANGED <<text, edits, tree>>
  BY DEF ParseReturns
<1>2. MaxLines \in Nat \ {0} /\ MaxLevel \in Nat
  BY DEF BoundsAssumption
<1>3. valid' \in 0 .. MaxLines
  <2>1. FirstInvalid \in 0 .. MaxLines
    BY <1>2 DEF FirstInvalid, IInv, Typed, Lines
  <2>2. call.line \in 0 .. MaxLines
    BY <1>2 DEF IInv, Typed, Lines
  <2>. QED
    BY <1>1, <2>1, <2>2 DEF IInv, Typed
<1>4. Typed'
  <2>1. NoCall \in [kind : {"none", "update", "read", "off", "try"}, line : Lines]
    BY <1>2 DEF NoCall, Lines
  <2>2. <<>> \in Seq(Frames) /\ <<>> \in Seq(Blocks) /\ <<>> \in Seq(Levels)
    OBVIOUS
  <2>3. 0 \in Lines /\ [s |-> 0, e |-> 0] \in Spans
    BY <1>2 DEF Lines, Spans
  <2>4. 0 \in 0 .. MaxLines /\ 0 \in 0 .. MaxLines + 1 /\ -1 \in -1 .. MaxLines
    BY <1>2
  <2>5. /\ text' \in [Lines -> Contents] /\ edits' \in 0 .. MaxEdits
        /\ call' \in [kind : {"none", "update", "read", "off", "try"}, line : Lines]
        /\ pc' \in {"idle", "line", "content", "return"} /\ frames' \in Seq(Frames)
    BY <1>1, <2>1, <2>2 DEF IInv, Typed
  <2>6. /\ gx' \in Nat /\ line' \in 0 .. MaxLines + 1 /\ stop' \in 0 .. MaxLines
        /\ clearLine' \in -1 .. MaxLines /\ endLine' \in Lines
        /\ matchend' \in Spans /\ schemeStart' \in Nat \cup {-1}
    BY <1>1, <2>3, <2>4
  <2>7. /\ filled' \in BOOLEAN /\ breakParsing' \in BOOLEAN /\ gone' \in BOOLEAN
        /\ handler' \in Seq(Blocks)
        /\ tryStack' \in Seq(Levels) /\ expected' \in Seq(Levels) /\ tryMismatch' \in BOOLEAN
    BY <1>1, <2>2
  <2>. QED
    BY <1>3, <2>5, <2>6, <2>7 DEF Typed
<1>5. Control'
  BY <1>1, <1>2 DEF Control
<1>6. Standing'
  BY <1>1 DEF Standing, Held
<1>7. GoodTree(tree')
  BY <1>1 DEF IInv
<1>. QED
  BY <1>4, <1>5, <1>6, <1>7 DEF IInv

(* Every step keeps the invariant.                                         *)
LEMMA NextIInv == IInv /\ [Next]_vars => IInv'
<1>. SUFFICES ASSUME IInv, [Next]_vars PROVE IInv'
  OBVIOUS
<1>. USE BoundsAssumption, TokensAssumption, BlocksAssumption
<1>1. CASE Client
  BY <1>1, ParseStep, ModifyStep, TryParseStep DEF Client
<1>2. CASE BreakParse
  BY <1>2, BreakStep
<1>3. CASE OutOfLines \/ NullLine \/ StartLine
  BY <1>3, OutOfLinesStep, NullLineStep, StartLineStep
<1>4. CASE ContentOver \/ Broken
  BY <1>4, ContentOverStep, BrokenStep
<1>5. CASE MatchBlock \/ MatchRegexp \/ MatchNothing
  BY <1>5, MatchBlockStep, MatchWithinStep
<1>6. CASE BlockReturns \/ ParentReturns \/ ParseReturns
  BY <1>6, BlockReturnsStep, ParentReturnsStep, ParseReturnsStep
<1>7. CASE UNCHANGED vars
  <2>1. UNCHANGED <<text, edits, valid, tree, call, pc, frames, gx, line, matchend, schemeStart, stop,
                    clearLine, endLine, stackLevel, parent, forward, filled, breakParsing, gone,
                    handler, expected, tryStack, tryMismatch>>
    BY <1>7 DEF vars, client, cursor, tries
  <2>2. Typed'
    BY <2>1 DEF IInv, Typed
  <2>3. Control'
    BY <2>1 DEF IInv, Control
  <2>4. Standing'
    BY <2>1 DEF IInv, Standing, Updating
  <2>. QED
    BY <2>1, <2>2, <2>3, <2>4 DEF IInv
<1>. QED
  BY <1>1, <1>2, <1>3, <1>4, <1>5, <1>6, <1>7 DEF Next, Parser

(* The invariant holds at all times.                                       *)
THEOREM Invariant == Spec => []IInv
BY InitIInv, NextIInv, PTL DEF Spec

(* Every variable has its type, for every grammar, text and bound          *)
(* (TypeOK).                                                               *)
THEOREM TypeCorrect == Spec => []TypeOK
BY Invariant, Imply, PTL

(* No node is freed while the tree or the call in progress refers to it,   *)
(* whatever is parsed, read, tried, broken off or edited (NothingDangles;  *)
(* dropNext, dropChildren, searchBL).                                      *)
THEOREM NoneDangles == Spec => []NothingDangles
BY Invariant, Imply, PTL

-----------------------------------------------------------------------------
(* The order of the cache. Between calls siblings are in the order of the  *)
(* text without overlap, children lie in their parents, and so searchLine  *)
(* comes to the deepest block over a line, wherever the cursors stand      *)
(* (DeepestFound). During a call that rebuilds the cache that is not so:   *)
(* the blocks around the place the parse has come to are reopened, and may *)
(* end before what is being put below them. The invariant OInv says what   *)
(* holds then: all other nodes are in order, what is before the place has  *)
(* ended by the current line, and the place began by then.                 *)

(* The siblings of a tree are in the order of the text and do not overlap. *)
Sorted(T) ==
  \A n \in DOMAIN T : LET kids == T[n].kids IN
    /\ \A i \in DOMAIN kids :
         T[kids[i]].sline <= T[kids[i]].eline /\ T[n].sline <= T[kids[i]].sline
    /\ \A i, j \in DOMAIN kids : i < j => T[kids[i]].eline < T[kids[j]].sline

(* The children of node n end where it does, or before.                    *)
Within(T, n) == \A i \in DOMAIN T[n].kids : T[T[n].kids[i]].eline <= T[n].eline

(* Node p and the nodes around it. *)
Above(T, p) == {n \in DOMAIN T : p \in WithBelow(T, {n})}

(* The lines of a node are numbers.                                        *)
LEMMA LinesAreInts ==
  ASSUME NEW L, NEW T, IsTree(T, L), NEW n \in DOMAIN T
  PROVE  T[n].sline \in Nat /\ T[n].eline \in Nat /\ T[n].kids \in Seq(Nat)
BY DEF IsTree, Nodes

(* The nodes around a node: itself, and those around its parent.           *)
LEMMA AboveIs ==
  ASSUME NEW L, NEW T, IsTree(T, L)
  PROVE  /\ Above(T, RootId) = {RootId}
         /\ \A m \in DOMAIN T \ {RootId} :
              T[m].parent \in DOMAIN T /\ Above(T, m) = {m} \cup Above(T, T[m].parent)
<1>1. \A n \in DOMAIN T \ {RootId} : T[n].parent \in DOMAIN T
  BY DEF IsTree, Linked
<1>2. RootId \in DOMAIN T
  BY DEF IsTree
<1>3. ASSUME NEW n \in DOMAIN T, NEW m \in DOMAIN T
      PROVE  m \in WithBelow(T, {n}) <=> m = n \/ (m # RootId /\ T[m].parent \in WithBelow(T, {n}))
  <2>. DEFINE one == {n}
  <2>1. m \in WithBelow(T, one) <=> m \in one \/ (m # RootId /\ T[m].parent \in WithBelow(T, one))
    <3>. HIDE DEF one
    <3>. QED
      BY <1>1, WithBelowIs
  <2>. QED
    BY <2>1
<1>4. Above(T, RootId) = {RootId}
  BY <1>2, <1>3 DEF Above
<1>5. ASSUME NEW m \in DOMAIN T \ {RootId}
      PROVE  Above(T, m) = {m} \cup Above(T, T[m].parent)
  BY <1>1, <1>3 DEF Above
<1>. QED
  BY <1>1, <1>4, <1>5

(* R is T without some of the last children of its nodes. *)
Pruned(L, T, R) ==
  /\ IsTree(T, L) /\ IsTree(R, L) /\ DOMAIN R \subseteq DOMAIN T
  /\ \A n \in DOMAIN R :
       /\ R[n].parent = T[n].parent /\ R[n].sline = T[n].sline
       /\ \A i \in DOMAIN R[n].kids : i \in DOMAIN T[n].kids /\ R[n].kids[i] = T[n].kids[i]

(* No block of R ends on another line than in T.                           *)
SameEnds(T, R) == \A n \in DOMAIN R : R[n].eline = T[n].eline

(* Pruning leaves the nodes around one.                                    *)
LEMMA PrunedAbove ==
  ASSUME NEW L, NEW T, NEW R, Pruned(L, T, R)
  PROVE  \A m \in DOMAIN R : Above(R, m) = Above(T, m)
<1>1. /\ IsTree(T, L) /\ IsTree(R, L) /\ DOMAIN R \subseteq DOMAIN T
      /\ \A n \in DOMAIN R : R[n].parent = T[n].parent
  BY DEF Pruned
<1>2. PICK d \in Nat : \E rank \in [DOMAIN R -> 0 .. d] :
        \A n \in DOMAIN R \ {RootId} : R[n].parent \in DOMAIN R /\ rank[R[n].parent] < rank[n]
  BY <1>1, RankFacts
<1>3. PICK rank \in [DOMAIN R -> 0 .. d] :
        \A n \in DOMAIN R \ {RootId} : R[n].parent \in DOMAIN R /\ rank[R[n].parent] < rank[n]
  BY <1>2
<1>4. /\ Above(R, RootId) = {RootId} /\ Above(T, RootId) = {RootId}
      /\ \A m \in DOMAIN R \ {RootId} : Above(R, m) = {m} \cup Above(R, R[m].parent)
      /\ \A m \in DOMAIN T \ {RootId} : Above(T, m) = {m} \cup Above(T, T[m].parent)
  BY <1>1, AboveIs
<1>. DEFINE S == {k \in Nat : \A m \in DOMAIN R : rank[m] < k => Above(R, m) = Above(T, m)}
<1>5. 0 \in S
  BY <1>3
<1>6. ASSUME NEW k \in Nat, k \in S PROVE k + 1 \in S
  <2>1. SUFFICES ASSUME NEW m \in DOMAIN R, rank[m] < k + 1 PROVE Above(R, m) = Above(T, m)
    OBVIOUS
  <2>2. CASE m = RootId
    BY <1>4, <2>2
  <2>3. CASE m # RootId
    <3>1. R[m].parent \in DOMAIN R /\ rank[R[m].parent] < k
      BY <1>3, <2>1, <2>3
    <3>2. Above(R, R[m].parent) = Above(T, R[m].parent)
      BY <1>6, <3>1
    <3>3. m \in DOMAIN R \ {RootId} /\ m \in DOMAIN T \ {RootId} /\ R[m].parent = T[m].parent
      BY <1>1, <2>3
    <3>4. Above(R, m) = {m} \cup Above(R, R[m].parent) /\ Above(T, m) = {m} \cup Above(T, T[m].parent)
      BY <1>4, <3>3
    <3>. QED
      BY <3>2, <3>3, <3>4
  <2>. QED
    BY <2>2, <2>3
<1>7. Nat \subseteq S
  <2>. HIDE DEF S
  <2>. QED
    BY <1>5, <1>6, SetInduction
<1>8. ASSUME NEW m \in DOMAIN R PROVE Above(R, m) = Above(T, m)
  <2>1. d + 1 \in S /\ rank[m] < d + 1
    BY <1>3, <1>7
  <2>. QED
    BY <2>1
<1>. QED
  BY <1>8

(* Pruning keeps the order.                                                *)
LEMMA PrunedSorted ==
  ASSUME NEW L, NEW T, NEW R, Pruned(L, T, R), SameEnds(T, R), Sorted(T)
  PROVE  Sorted(R) /\ \A n \in DOMAIN R : Within(T, n) => Within(R, n)
<1>1. ASSUME NEW n \in DOMAIN R
      PROVE  /\ n \in DOMAIN T /\ R[n].sline = T[n].sline /\ R[n].eline = T[n].eline
             /\ \A i \in DOMAIN R[n].kids :
                  /\ i \in DOMAIN T[n].kids /\ R[n].kids[i] = T[n].kids[i]
                  /\ R[R[n].kids[i]].sline = T[T[n].kids[i]].sline
                  /\ R[R[n].kids[i]].eline = T[T[n].kids[i]].eline
  <2>1. \A i \in DOMAIN R[n].kids : R[n].kids[i] \in DOMAIN R
    BY DEF Pruned, IsTree, Linked
  <2>. QED
    BY <2>1 DEF Pruned, SameEnds
<1>2. Sorted(R)
  BY <1>1 DEF Sorted
<1>3. \A n \in DOMAIN R : Within(T, n) => Within(R, n)
  BY <1>1 DEF Within
<1>. QED
  BY <1>2, <1>3

(* R is T pruned, with node p, a last child there, closed at line e. *)
Sheared(L, T, R, p, e) ==
  /\ Pruned(L, T, R) /\ p \in DOMAIN R \ {RootId}
  /\ \A n \in DOMAIN R \ {p} : R[n].eline = T[n].eline
  /\ R[p].eline = e
  /\ EndsIn(R, R[p].parent, p)
  /\ T[p].sline <= e

(* Pruning a tree and closing the last child left keeps the order, and if  *)
(* its children have ended they lie in it.                                 *)
LEMMA ShearedSorted ==
  ASSUME NEW L, NEW T, NEW R, NEW p, NEW e, Sheared(L, T, R, p, e), Sorted(T)
  PROVE  /\ Sorted(R)
         /\ \A n \in DOMAIN R : n # p /\ n # R[p].parent /\ Within(T, n) => Within(R, n)
         /\ (\A i \in DOMAIN T[p].kids : T[T[p].kids[i]].eline <= e) => Within(R, p)
<1>. DEFINE q == R[p].parent
<1>1. /\ IsTree(T, L) /\ IsTree(R, L) /\ p \in DOMAIN R /\ p # RootId /\ p \in DOMAIN T
      /\ R[p].eline = e /\ T[p].sline <= e /\ R[p].sline = T[p].sline
  BY DEF Sheared, Pruned
<1>2. ASSUME NEW n \in DOMAIN R
      PROVE  /\ n \in DOMAIN T /\ R[n].sline = T[n].sline /\ (n # p => R[n].eline = T[n].eline)
             /\ \A i \in DOMAIN R[n].kids :
                  /\ i \in DOMAIN T[n].kids /\ R[n].kids[i] = T[n].kids[i]
                  /\ R[n].kids[i] \in DOMAIN R /\ R[R[n].kids[i]].parent = n
  BY DEF Sheared, Pruned, IsTree, Linked
<1>3. ASSUME NEW n \in DOMAIN R, NEW i \in DOMAIN R[n].kids
      PROVE  /\ R[R[n].kids[i]].sline = T[T[n].kids[i]].sline
             /\ R[n].kids[i] # p => R[R[n].kids[i]].eline = T[T[n].kids[i]].eline
             /\ R[n].kids[i] = p => n = q /\ i = Len(R[q].kids)
  <2>1. ASSUME R[n].kids[i] = p PROVE n = q /\ i = Len(R[q].kids)
    <3>1. n = q
      BY <1>2, <2>1
    <3>2. Place(R, p) = i
      BY <1>1, <2>1, KidFacts
    <3>3. p # Nil /\ q \in DOMAIN R /\ R[q].kids # <<>> /\ R[q].kids[Len(R[q].kids)] = p
          /\ R[q].kids \in Seq(Nat)
      <4>1. p # Nil
        BY <1>1 DEF IsTree, Nil
      <4>2. q \in DOMAIN R
        BY <1>1 DEF IsTree, Linked
      <4>3. EndsIn(R, q, p)
        BY DEF Sheared
      <4>. HIDE DEF q
      <4>4. R[q].kids \in Seq(Nat)
        BY <1>1, <4>2, LinesAreInts
      <4>. QED
        BY <4>1, <4>2, <4>3, <4>4 DEF EndsIn
    <3>. DEFINE m == Len(R[q].kids)
    <3>4. m \in DOMAIN R[q].kids
      BY <3>3
    <3>. HIDE DEF m
    <3>5. Place(R, R[q].kids[m]) = m
      BY <1>1, <3>3, <3>4, KidFacts
    <3>. QED
      BY <3>1, <3>2, <3>3, <3>5 DEF m
  <2>. QED
    BY <1>2, <2>1
<1>. HIDE DEF q
<1>4. ASSUME NEW n \in DOMAIN R
      PROVE  /\ \A i \in DOMAIN R[n].kids :
                  R[R[n].kids[i]].sline <= R[R[n].kids[i]].eline /\ R[n].sline <= R[R[n].kids[i]].sline
             /\ \A i, j \in DOMAIN R[n].kids : i < j => R[R[n].kids[i]].eline < R[R[n].kids[j]].sline
  <2>1. ASSUME NEW i \in DOMAIN R[n].kids
        PROVE  R[R[n].kids[i]].sline <= R[R[n].kids[i]].eline /\ R[n].sline <= R[R[n].kids[i]].sline
    <3>1. /\ n \in DOMAIN T /\ i \in DOMAIN T[n].kids
          /\ T[T[n].kids[i]].sline <= T[T[n].kids[i]].eline /\ T[n].sline <= T[T[n].kids[i]].sline
      BY <1>2 DEF Sorted
    <3>2. R[n].sline <= R[R[n].kids[i]].sline
      BY <1>2, <1>3, <3>1
    <3>3. CASE R[n].kids[i] = p
      BY <1>1, <3>2, <3>3
    <3>4. CASE R[n].kids[i] # p
      BY <1>3, <3>1, <3>2, <3>4
    <3>. QED
      BY <3>3, <3>4
  <2>2. ASSUME NEW i \in DOMAIN R[n].kids, NEW j \in DOMAIN R[n].kids, i < j
        PROVE  R[R[n].kids[i]].eline < R[R[n].kids[j]].sline
    <3>1. /\ n \in DOMAIN T /\ i \in DOMAIN T[n].kids /\ j \in DOMAIN T[n].kids
          /\ T[T[n].kids[i]].eline < T[T[n].kids[j]].sline
      BY <1>2, <2>2 DEF Sorted
    <3>2. j \in 1 .. Len(R[n].kids) /\ i \in Nat
      <4>1. R[n].kids \in Seq(Nat)
        BY <1>1, LinesAreInts
      <4>. QED
        BY <4>1
    <3>3. R[n].kids[i] # p
      BY <1>3, <2>2, <3>2
    <3>. QED
      BY <1>3, <3>1, <3>3
  <2>. QED
    BY <2>1, <2>2
<1>5. Sorted(R)
  BY <1>4 DEF Sorted
<1>6. ASSUME NEW n \in DOMAIN R, n # p, n # q, Within(T, n) PROVE Within(R, n)
  <2>1. \A i \in DOMAIN R[n].kids : R[n].kids[i] # p
    BY <1>3, <1>6
  <2>. QED
    BY <1>2, <1>3, <1>6, <2>1 DEF Within
<1>7. ASSUME \A i \in DOMAIN T[p].kids : T[T[p].kids[i]].eline <= e PROVE Within(R, p)
  <2>1. p # q
    <3>1. PICK d \in Nat : \E rank \in [DOMAIN R -> 0 .. d] :
            \A n \in DOMAIN R \ {RootId} : R[n].parent \in DOMAIN R /\ rank[R[n].parent] < rank[n]
      BY <1>1, RankFacts
    <3>2. PICK rank \in [DOMAIN R -> 0 .. d] :
            \A n \in DOMAIN R \ {RootId} : R[n].parent \in DOMAIN R /\ rank[R[n].parent] < rank[n]
      BY <3>1
    <3>. QED
      BY <1>1, <3>2 DEF q
  <2>2. \A i \in DOMAIN R[p].kids : R[p].kids[i] # p
    BY <1>1, <1>3, <2>1
  <2>. QED
    BY <1>1, <1>2, <1>3, <1>7, <2>2 DEF Within
<1>. QED
  BY <1>5, <1>6, <1>7 DEF q

(* R is T with the node id from line ln on put behind the last child f of p. *)
LEMMA GrownSorted ==
  ASSUME NEW L, NEW T, NEW R, NEW p, NEW f, NEW id, Pruned(L, R, T), SameEnds(R, T), Sorted(T),
         DOMAIN R = DOMAIN T \cup {id}, id \notin DOMAIN T, p \in DOMAIN T,
         R[p].kids = Append(T[p].kids, id), R[id].kids = <<>>,
         \A n \in DOMAIN T : n # p => R[n].kids = T[n].kids,
         R[id].sline <= R[id].eline, T[p].sline <= R[id].sline,
         EndsIn(T, p, f), f = Nil \/ T[f].eline < R[id].sline
  PROVE  Sorted(R) /\ \A n \in DOMAIN T : n # p /\ Within(T, n) => Within(R, n)
<1>. DEFINE kids == T[p].kids
            more == R[p].kids
<1>1. /\ IsTree(T, L) /\ IsTree(R, L) /\ kids \in Seq(Nat)
      /\ \A n \in DOMAIN T : R[n].sline = T[n].sline /\ R[n].eline = T[n].eline
      /\ \A n \in DOMAIN T : T[n].kids \in Seq(DOMAIN T) /\ T[n].sline \in Nat /\ T[n].eline \in Nat
  <2>1. IsTree(T, L) /\ IsTree(R, L)
    BY DEF Pruned
  <2>2. \A n \in DOMAIN T : T[n].kids \in Seq(Nat) /\ T[n].sline \in Nat /\ T[n].eline \in Nat
    BY <2>1, LinesAreInts
  <2>3. \A n \in DOMAIN T : \A i \in DOMAIN T[n].kids : T[n].kids[i] \in DOMAIN T
    BY <2>1 DEF IsTree, Linked
  <2>4. \A n \in DOMAIN T : T[n].kids \in Seq(DOMAIN T)
    <3>1. SUFFICES ASSUME NEW n \in DOMAIN T PROVE T[n].kids \in Seq(DOMAIN T)
      OBVIOUS
    <3>. DEFINE s == T[n].kids
                D == DOMAIN T
    <3>2. s \in Seq(Nat) /\ \A i \in DOMAIN s : s[i] \in D
      BY <2>2, <2>3
    <3>. HIDE DEF s, D
    <3>3. Len(s) \in Nat /\ DOMAIN s = 1 .. Len(s) /\ s = [i \in 1 .. Len(s) |-> s[i]]
      BY <3>2
    <3>4. s \in [1 .. Len(s) -> D]
      BY <3>2, <3>3
    <3>5. s \in Seq(D)
      BY <3>3, <3>4
    <3>. QED
      BY <3>5 DEF s, D
  <2>. QED
    BY <2>1, <2>2, <2>4 DEF Pruned, SameEnds
<1>2. /\ Len(more) = Len(kids) + 1 /\ more[Len(kids) + 1] = id /\ Len(kids) \in Nat
      /\ DOMAIN more = 1 .. Len(kids) + 1 /\ DOMAIN kids = 1 .. Len(kids)
      /\ \A i \in 1 .. Len(kids) : more[i] = kids[i] /\ kids[i] \in DOMAIN T
  <2>1. more = Append(kids, id) /\ kids \in Seq(DOMAIN T)
    BY <1>1
  <2>. HIDE DEF more, kids
  <2>. QED
    BY <2>1
<1>3. R[id].sline \in Nat /\ R[id].eline \in Nat /\ id \in DOMAIN R
  BY <1>1, LinesAreInts
<1>4. \A i \in 1 .. Len(kids) : T[kids[i]].eline < R[id].sline
  <2>1. SUFFICES ASSUME NEW i \in 1 .. Len(kids) PROVE T[kids[i]].eline < R[id].sline
    OBVIOUS
  <2>2. f # Nil /\ kids[Len(kids)] = f
    BY <1>2, <2>1 DEF EndsIn
  <2>3. CASE i = Len(kids)
    BY <2>2, <2>3
  <2>4. CASE i # Len(kids)
    <3>1. i < Len(kids) /\ i \in DOMAIN kids /\ Len(kids) \in DOMAIN kids
      BY <1>2, <2>1, <2>4
    <3>2. T[kids[i]].eline < T[f].sline /\ T[f].sline <= T[f].eline
      BY <2>2, <3>1 DEF Sorted
    <3>3. kids[i] \in DOMAIN T /\ f \in DOMAIN T
      BY <1>2, <2>2, <3>1
    <3>4. T[kids[i]].eline \in Nat /\ T[f].sline \in Nat /\ T[f].eline \in Nat
      BY <1>1, <3>3
    <3>5. T[f].eline < R[id].sline
      BY <2>2
    <3>. HIDE DEF kids
    <3>. QED
      BY <1>3, <3>2, <3>4, <3>5
  <2>. QED
    BY <2>3, <2>4
<1>5. ASSUME NEW n \in DOMAIN R
      PROVE  /\ \A i \in DOMAIN R[n].kids :
                  R[R[n].kids[i]].sline <= R[R[n].kids[i]].eline /\ R[n].sline <= R[R[n].kids[i]].sline
             /\ \A i, j \in DOMAIN R[n].kids : i < j => R[R[n].kids[i]].eline < R[R[n].kids[j]].sline
  <2>1. CASE n = id
    BY <2>1
  <2>2. CASE n \in DOMAIN T /\ n # p
    <3>1. R[n].kids = T[n].kids /\ \A i \in DOMAIN T[n].kids : T[n].kids[i] \in DOMAIN T
      BY <1>1, <2>2
    <3>2. R[n].sline = T[n].sline
          /\ \A i \in DOMAIN T[n].kids : /\ R[T[n].kids[i]].sline = T[T[n].kids[i]].sline
                                        /\ R[T[n].kids[i]].eline = T[T[n].kids[i]].eline
      BY <1>1, <2>2, <3>1
    <3>3. /\ \A i \in DOMAIN T[n].kids :
               T[T[n].kids[i]].sline <= T[T[n].kids[i]].eline /\ T[n].sline <= T[T[n].kids[i]].sline
          /\ \A i, j \in DOMAIN T[n].kids : i < j => T[T[n].kids[i]].eline < T[T[n].kids[j]].sline
      BY <2>2 DEF Sorted
    <3>. QED
      BY <3>1, <3>2, <3>3
  <2>3. CASE n = p
    <3>. HIDE DEF more, kids
    <3>1. /\ \A i \in 1 .. Len(kids) :
               T[kids[i]].sline <= T[kids[i]].eline /\ T[p].sline <= T[kids[i]].sline
          /\ \A i, j \in 1 .. Len(kids) : i < j => T[kids[i]].eline < T[kids[j]].sline
      BY <1>2 DEF Sorted, kids
    <3>2. R[n].kids = more /\ R[n].sline = T[p].sline
      BY <1>1, <2>3 DEF more
    <3>3. \A i \in 1 .. Len(kids) + 1 : i \in 1 .. Len(kids) \/ i = Len(kids) + 1
      BY <1>2
    <3>4. ASSUME NEW i \in 1 .. Len(kids) + 1
          PROVE  R[more[i]].sline <= R[more[i]].eline /\ T[p].sline <= R[more[i]].sline
      <4>1. CASE i = Len(kids) + 1
        BY <1>2, <4>1
      <4>2. CASE i \in 1 .. Len(kids)
        BY <1>1, <1>2, <3>1, <4>2
      <4>. QED
        BY <3>3, <4>1, <4>2
    <3>5. ASSUME NEW i \in 1 .. Len(kids) + 1, NEW j \in 1 .. Len(kids) + 1, i < j
          PROVE  R[more[i]].eline < R[more[j]].sline
      <4>0. i \in 1 .. Len(kids) /\ R[more[i]].eline = T[kids[i]].eline
        BY <1>1, <1>2, <3>5
      <4>1. CASE j = Len(kids) + 1
        BY <1>2, <1>4, <4>0, <4>1 DEF kids
      <4>2. CASE j \in 1 .. Len(kids)
        BY <1>1, <1>2, <3>1, <3>5, <4>0, <4>2
      <4>. QED
        BY <3>3, <4>1, <4>2
    <3>. QED
      BY <1>2, <3>2, <3>4, <3>5
  <2>. QED
    BY <2>1, <2>2, <2>3
<1>6. Sorted(R)
  BY <1>5 DEF Sorted
<1>7. ASSUME NEW n \in DOMAIN T, n # p, Within(T, n) PROVE Within(R, n)
  <2>1. R[n].kids = T[n].kids /\ \A i \in DOMAIN T[n].kids : T[n].kids[i] \in DOMAIN T
    BY <1>1, <1>7
  <2>. QED
    BY <1>1, <1>7, <2>1 DEF Within
<1>. QED
  BY <1>6, <1>7

(* All children of a node end by line e if the last does. *)
LEMMA KidsEnd ==
  ASSUME NEW L, NEW T, IsTree(T, L), Sorted(T), NEW p \in DOMAIN T, NEW f, EndsIn(T, p, f),
         NEW e \in Int, f = Nil \/ T[f].eline <= e
  PROVE  \A i \in DOMAIN T[p].kids : T[T[p].kids[i]].eline <= e
<1>. DEFINE kids == T[p].kids
<1>1. SUFFICES ASSUME NEW i \in DOMAIN kids PROVE T[kids[i]].eline <= e
  OBVIOUS
<1>2. kids \in Seq(Nat) /\ i \in 1 .. Len(kids) /\ Len(kids) \in DOMAIN kids /\ Len(kids) \in Nat
  BY LinesAreInts
<1>3. f # Nil /\ kids[Len(kids)] = f
  BY <1>1, <1>2 DEF EndsIn
<1>4. kids[i] \in DOMAIN T /\ f \in DOMAIN T
  BY <1>2, <1>3 DEF IsTree, Linked
<1>5. T[kids[i]].eline \in Nat /\ T[f].sline \in Nat /\ T[f].eline \in Nat
  BY <1>4, LinesAreInts
<1>6. i < Len(kids) => T[kids[i]].eline < T[f].sline /\ T[f].sline <= T[f].eline
  BY <1>2, <1>3 DEF Sorted
<1>. HIDE DEF kids
<1>. QED
  BY <1>2, <1>3, <1>5, <1>6

-----------------------------------------------------------------------------
(* What a search comes to. *)

(* The child that covers a line is the one the search looks at, wherever   *)
(* the cursor stands.                                                      *)
LEMMA CandidateCovers ==
  ASSUME NEW L, NEW T, IsTree(T, L), Sorted(T), NEW n \in DOMAIN T, NEW ln \in Int,
         NEW j \in DOMAIN T[n].kids, Covers(T, T[n].kids[j], ln)
  PROVE  Candidate(T, n, ln) = T[n].kids[j]
<1>. DEFINE kids == T[n].kids
            here == IF T[n].cursor = Nil THEN 1 ELSE Place(T, T[n].cursor)
            r1 == rightmostAtOrBefore(T, kids, here, ln)
            r2 == rightmostAtOrBefore(T, kids, 1, ln)
<1>1. kids \in Seq(Nat) /\ Len(kids) \in Nat /\ DOMAIN kids = 1 .. Len(kids) /\ j \in 1 .. Len(kids)
  BY LinesAreInts
<1>2. here \in 1 .. Len(kids) /\ 1 \in 1 .. Len(kids)
  <2>1. 1 \in 1 .. Len(kids)
    BY <1>1
  <2>2. CASE T[n].cursor = Nil
    BY <2>1, <2>2
  <2>3. CASE T[n].cursor # Nil
    <3>1. T[n].cursor \in ToSet(kids)
      BY <2>3 DEF IsTree, Linked
    <3>2. PICK i \in DOMAIN kids : T[n].cursor = kids[i]
      BY <3>1 DEF ToSet
    <3>3. Place(T, kids[i]) = i
      BY <3>2, KidFacts
    <3>. QED
      BY <1>1, <2>3, <3>2, <3>3
  <2>. QED
    BY <2>1, <2>2, <2>3
<1>3. \A i \in 1 .. Len(kids) : T[kids[i]].sline \in Nat /\ T[kids[i]].eline \in Nat
  <2>1. \A i \in 1 .. Len(kids) : kids[i] \in DOMAIN T
    BY <1>1 DEF IsTree, Linked
  <2>. QED
    BY <2>1, LinesAreInts
<1>4. /\ \A i \in 1 .. Len(kids) : T[kids[i]].sline <= T[kids[i]].eline
      /\ \A i, k \in 1 .. Len(kids) : i < k => T[kids[i]].eline < T[kids[k]].sline
  BY <1>1 DEF Sorted
<1>5. T[kids[j]].sline <= ln /\ ln <= T[kids[j]].eline
  BY DEF Covers
<1>6. /\ r1 \in here .. Len(kids) /\ (r1 < Len(kids) => T[kids[r1 + 1]].sline > ln)
      /\ \A m \in here + 1 .. r1 : ~(T[kids[m]].sline > ln)
  <2>. HIDE DEF here, kids
  <2>. QED
    BY <1>1, <1>2, Rightmost
<1>7. /\ r2 \in 1 .. Len(kids) /\ (r2 < Len(kids) => T[kids[r2 + 1]].sline > ln)
      /\ \A m \in 1 + 1 .. r2 : ~(T[kids[m]].sline > ln)
  <2>. DEFINE one == 1
  <2>1. one \in 1 .. Len(kids)
    BY <1>2
  <2>. HIDE DEF one, kids
  <2>2. LET r == rightmostAtOrBefore(T, kids, one, ln) IN
        /\ r \in one .. Len(kids) /\ (r < Len(kids) => T[kids[r + 1]].sline > ln)
        /\ \A m \in one + 1 .. r : ~(T[kids[m]].sline > ln)
    BY <1>1, <2>1, Rightmost
  <2>. QED
    BY <2>2 DEF one
<1>8. Candidate(T, n, ln) =
        kids[IF T[kids[here]].sline <= ln THEN r1
             ELSE IF here > 1 /\ T[kids[here - 1]].sline <= ln THEN here - 1 ELSE r2]
  BY DEF Candidate
<1>. DEFINE From(i) == T[kids[i]].sline
            To(i) == T[kids[i]].eline
<1>9. /\ \A i \in 1 .. Len(kids) : From(i) \in Nat /\ To(i) \in Nat /\ From(i) <= To(i)
      /\ \A i, k \in 1 .. Len(kids) : i < k => To(i) < From(k)
      /\ From(j) <= ln /\ ln <= To(j)
  BY <1>3, <1>4, <1>5
<1>10. /\ (r1 < Len(kids) => From(r1 + 1) > ln) /\ \A m \in here + 1 .. r1 : ~(From(m) > ln)
       /\ (r2 < Len(kids) => From(r2 + 1) > ln) /\ \A m \in 1 + 1 .. r2 : ~(From(m) > ln)
  BY <1>6, <1>7
<1>11. Candidate(T, n, ln) = kids[IF From(here) <= ln THEN r1
                                  ELSE IF here > 1 /\ From(here - 1) <= ln THEN here - 1 ELSE r2]
  BY <1>8
<1>. DEFINE size == Len(kids)
<1>12. size \in Nat /\ j \in 1 .. size /\ here \in 1 .. size /\ r1 \in here .. size /\ r2 \in 1 .. size
  BY <1>1, <1>2, <1>6, <1>7
<1>. HIDE DEF From, To, here, r1, r2, kids, size
<1>13. /\ \A i \in 1 .. size : From(i) \in Nat /\ To(i) \in Nat /\ From(i) <= To(i)
       /\ \A i, k \in 1 .. size : i < k => To(i) < From(k)
       /\ From(j) <= ln /\ ln <= To(j)
  BY <1>9 DEF size
<1>14. ASSUME NEW i \in 1 .. size, From(i) <= ln PROVE i <= j
  BY <1>12, <1>13, <1>14
<1>15. ASSUME NEW i \in 1 .. size, From(i) > ln PROVE j < i
  BY <1>12, <1>13, <1>15
<1>16. CASE From(here) <= ln
  <2>1. From(r1) <= ln
    <3>1. r1 = here \/ r1 \in here + 1 .. r1
      BY <1>12
    <3>2. r1 \in 1 .. size
      BY <1>12
    <3>. QED
      BY <1>10, <1>13, <1>16, <3>1, <3>2
  <2>2. r1 <= j
    BY <1>12, <1>14, <2>1
  <2>3. r1 < size => j < r1 + 1
    <3>1. r1 < size => r1 + 1 \in 1 .. size
      BY <1>12
    <3>. QED
      BY <1>10, <1>15, <3>1 DEF size
  <2>4. r1 = j
    BY <1>12, <2>2, <2>3
  <2>. QED
    BY <1>11, <1>16, <2>4 DEF kids
<1>17. CASE ~(From(here) <= ln) /\ here > 1 /\ From(here - 1) <= ln
  <2>1. j < here
    BY <1>12, <1>13, <1>15, <1>17
  <2>2. here - 1 <= j
    <3>1. here - 1 \in 1 .. size
      BY <1>12, <1>17
    <3>. QED
      BY <1>14, <1>17, <3>1
  <2>3. here - 1 = j
    BY <1>12, <2>1, <2>2
  <2>. QED
    BY <1>11, <1>17, <2>3 DEF kids
<1>18. CASE ~(From(here) <= ln) /\ ~(here > 1 /\ From(here - 1) <= ln)
  <2>1. r2 <= j
    <3>1. CASE r2 = 1
      BY <1>12, <3>1
    <3>2. CASE r2 # 1
      <4>1. r2 \in 1 + 1 .. r2 /\ r2 \in 1 .. size
        BY <1>12, <3>2
      <4>2. From(r2) <= ln
        BY <1>10, <1>13, <4>1
      <4>. QED
        BY <1>14, <4>1, <4>2
    <3>. QED
      BY <3>1, <3>2
  <2>2. r2 < size => j < r2 + 1
    <3>1. r2 < size => r2 + 1 \in 1 .. size
      BY <1>12
    <3>. QED
      BY <1>10, <1>15, <3>1 DEF size
  <2>3. r2 = j
    BY <1>12, <2>1, <2>2
  <2>. QED
    BY <1>11, <1>18, <2>3 DEF kids
<1>. QED
  BY <1>16, <1>17, <1>18 DEF kids

(* A search goes through blocks that cover the line, and what it has to    *)
(* its left has ended before.                                              *)
LEMMA SearchTimes ==
  ASSUME NEW L, NEW T, IsTree(T, L), NEW ln \in Nat, T[RootId].sline = 0
  PROVE  LET s == searchLine(T, ln) IN
         /\ T[s.found].sline <= ln
         /\ s.forward # Nil => T[s.forward].eline < ln
<1>. DEFINE path  == SearchPath(T, ln)
            On(n) == T[n].kids # <<>> /\ Covers(T, Candidate(T, n, ln), ln)
            found == path[Len(path)]
            cand  == IF T[found].kids = <<>> THEN Nil ELSE Candidate(T, found, ln)
            fwd   == IF cand # Nil /\ T[cand].sline <= ln THEN cand ELSE Nil
<1>1. /\ path \in Seq(DOMAIN T) /\ Len(path) >= 1 /\ path[1] = RootId
      /\ \A i \in 1 .. Len(path) - 1 : On(path[i]) /\ path[i + 1] = Candidate(T, path[i], ln)
      /\ ~On(path[Len(path)])
  <2>1. ln \in Int
    OBVIOUS
  <2>. QED
    BY <2>1, SearchPathIs
<1>2. searchLine(T, ln).found = found /\ searchLine(T, ln).forward = fwd
  BY DEF searchLine, Last
<1>. HIDE DEF path
<1>3. T[found].sline <= ln
  <2>1. CASE Len(path) = 1
    BY <1>1, <2>1
  <2>2. CASE Len(path) # 1
    <3>. DEFINE i == Len(path) - 1
    <3>1. i \in 1 .. Len(path) - 1 /\ i + 1 = Len(path)
      <4>1. Len(path) \in Nat
        BY <1>1
      <4>2. Len(path) >= 1
        BY <1>1
      <4>. QED
        BY <2>2, <4>1, <4>2
    <3>2. On(path[i]) /\ path[i + 1] = Candidate(T, path[i], ln)
      BY <1>1, <3>1
    <3>. QED
      BY <3>1, <3>2 DEF Covers
  <2>. QED
    BY <2>1, <2>2
<1>4. fwd # Nil => T[fwd].eline < ln
  <2>1. SUFFICES ASSUME fwd # Nil PROVE T[fwd].eline < ln
    OBVIOUS
  <2>2. /\ fwd = cand /\ T[cand].sline <= ln /\ T[found].kids # <<>> /\ cand = Candidate(T, found, ln)
    BY <2>1
  <2>3. ~(T[cand].sline <= ln /\ ln <= T[cand].eline)
    BY <1>1, <2>2 DEF Covers
  <2>4. found \in DOMAIN T
    BY <1>1
  <2>5. cand \in DOMAIN T
    <3>. HIDE DEF found, cand
    <3>1. \E i \in DOMAIN T[found].kids : Candidate(T, found, ln) = T[found].kids[i]
      BY <2>2, <2>4, CandidateIsKid
    <3>2. PICK i \in DOMAIN T[found].kids : Candidate(T, found, ln) = T[found].kids[i]
      BY <3>1
    <3>3. T[found].kids[i] \in DOMAIN T
      BY <2>4, <3>2 DEF IsTree, Linked
    <3>. QED
      BY <2>2, <3>2, <3>3
  <2>6. T[cand].eline \in Nat
    <3>. HIDE DEF cand
    <3>. QED
      BY <2>5, LinesAreInts
  <2>. QED
    BY <2>2, <2>3, <2>6
<1>. QED
  BY <1>2, <1>3, <1>4

(* All in order: what CacheOrdered says of a tree.                         *)
Contained(T) == Sorted(T) /\ \A n \in DOMAIN T : Within(T, n)

(* A block around a line is around it with all blocks around itself. *)
LEMMA ParentCovers ==
  ASSUME NEW L, NEW T, IsTree(T, L), Contained(T), NEW n \in DOMAIN T \ {RootId}, NEW ln \in Int,
         Covers(T, n, ln)
  PROVE  /\ T[n].parent \in DOMAIN T /\ Covers(T, T[n].parent, ln)
         /\ Candidate(T, T[n].parent, ln) = n /\ T[T[n].parent].kids # <<>>
<1>. DEFINE p == T[n].parent
            kids == T[p].kids
            j == Place(T, n)
<1>1. p \in DOMAIN T /\ j \in DOMAIN kids /\ kids[j] = n
  BY PlaceFacts
<1>. HIDE DEF j
<1>2. T[p].sline <= T[n].sline /\ T[n].eline <= T[p].eline
  BY <1>1 DEF Contained, Sorted, Within
<1>3. T[p].sline \in Nat /\ T[n].sline \in Nat /\ T[n].eline \in Nat /\ T[p].eline \in Nat /\ kids \in Seq(Nat)
  BY <1>1, LinesAreInts
<1>4. Covers(T, p, ln)
  BY <1>2, <1>3 DEF Covers
<1>5. Candidate(T, p, ln) = kids[j]
  <2>. HIDE DEF p
  <2>1. j \in DOMAIN T[p].kids /\ Covers(T, T[p].kids[j], ln) /\ Sorted(T)
    BY <1>1 DEF Contained
  <2>. QED
    BY <1>1, <2>1, CandidateCovers
<1>6. kids # <<>>
  BY <1>1, <1>3
<1>. QED
  BY <1>1, <1>4, <1>5, <1>6

(* A search finds the deepest block over the line.                         *)
LEMMA DeepestFound ==
  ASSUME NEW L, NEW T, IsTree(T, L), Contained(T), NEW ln \in Int
  PROVE  FindsDeepest(T, ln)
<1>. DEFINE path  == SearchPath(T, ln)
            On(n) == T[n].kids # <<>> /\ Covers(T, Candidate(T, n, ln), ln)
            size  == Len(path)
<1>1. /\ path \in Seq(DOMAIN T) /\ Len(path) >= 1 /\ path[1] = RootId
      /\ \A i \in 1 .. Len(path) - 1 : On(path[i]) /\ path[i + 1] = Candidate(T, path[i], ln)
      /\ ~On(path[Len(path)])
  BY SearchPathIs
<1>2. searchLine(T, ln).found = path[Len(path)]
  BY DEF searchLine, Last
<1>. HIDE DEF path
<1>3. size \in Nat /\ size >= 1 /\ \A i \in 1 .. size : path[i] \in DOMAIN T
  BY <1>1
<1>4. PICK d \in Nat : \E rank \in [DOMAIN T -> 0 .. d] :
        \A n \in DOMAIN T \ {RootId} : T[n].parent \in DOMAIN T /\ rank[T[n].parent] < rank[n]
  BY RankFacts
<1>5. PICK rank \in [DOMAIN T -> 0 .. d] :
        \A n \in DOMAIN T \ {RootId} : T[n].parent \in DOMAIN T /\ rank[T[n].parent] < rank[n]
  BY <1>4
<1>. DEFINE S == {k \in Nat : \A n \in DOMAIN T :
                    rank[n] < k /\ Covers(T, n, ln) => \E i \in 1 .. size : path[i] = n}
<1>6. 0 \in S
  BY <1>5
<1>7. ASSUME NEW k \in Nat, k \in S PROVE k + 1 \in S
  <2>1. SUFFICES ASSUME NEW n \in DOMAIN T, rank[n] < k + 1, Covers(T, n, ln)
          PROVE \E i \in 1 .. size : path[i] = n
    OBVIOUS
  <2>2. CASE n = RootId
    <3>1. 1 \in 1 .. size /\ path[1] = n
      BY <1>1, <1>3, <2>2
    <3>. QED
      BY <3>1
  <2>3. CASE n # RootId
    <3>. DEFINE p == T[n].parent
    <3>1. p \in DOMAIN T /\ Covers(T, p, ln) /\ Candidate(T, p, ln) = n /\ T[p].kids # <<>>
      BY <2>1, <2>3, ParentCovers
    <3>2. rank[p] < k
      BY <1>5, <2>1, <2>3
    <3>. HIDE DEF p
    <3>3. PICK i \in 1 .. size : path[i] = p
      BY <1>7, <3>1, <3>2
    <3>4. i # size
      BY <1>1, <2>1, <3>1, <3>3
    <3>5. i \in 1 .. Len(path) - 1 /\ i + 1 \in 1 .. size
      BY <1>3, <3>3, <3>4
    <3>6. path[i + 1] = n
      BY <1>1, <3>1, <3>3, <3>5
    <3>. QED
      BY <3>5, <3>6
  <2>. QED
    BY <2>2, <2>3
<1>8. Nat \subseteq S
  <2>. HIDE DEF S
  <2>. QED
    BY <1>6, <1>7, SetInduction
<1>9. \A n \in DOMAIN T : Covers(T, n, ln) => \E i \in 1 .. size : path[i] = n
  <2>1. SUFFICES ASSUME NEW n \in DOMAIN T, Covers(T, n, ln) PROVE \E i \in 1 .. size : path[i] = n
    OBVIOUS
  <2>2. d + 1 \in S /\ rank[n] < d + 1
    BY <1>5, <1>8
  <2>. QED
    BY <2>1, <2>2
<1>10. /\ OpenLevels(T, RootId) = <<>>
       /\ \A n \in DOMAIN T \ {RootId} :
            OpenLevels(T, n) = Append(OpenLevels(T, T[n].parent), T[n].level)
       /\ \A n \in DOMAIN T : OpenLevels(T, n) \in Seq(L)
  <2>1. \A n \in DOMAIN T \ {RootId} : T[n].level \in L
    BY DEF IsTree, Nodes
  <2>. QED
    BY <2>1, OpenLevelsOf
<1>. DEFINE Depth(n) == Len(OpenLevels(T, n))
<1>11. Depth(RootId) = 0 /\ \A n \in DOMAIN T \ {RootId} : Depth(n) = Depth(T[n].parent) + 1
  <2>1. Depth(RootId) = 0
    BY <1>10
  <2>2. ASSUME NEW n \in DOMAIN T \ {RootId} PROVE Depth(n) = Depth(T[n].parent) + 1
    <3>. DEFINE o == OpenLevels(T, T[n].parent)  v == T[n].level
    <3>1. o \in Seq(L) /\ OpenLevels(T, n) = Append(o, v)
      BY <1>5, <1>10
    <3>. HIDE DEF o
    <3>2. Len(Append(o, v)) = Len(o) + 1
      BY <3>1
    <3>. QED
      BY <3>1, <3>2 DEF o
  <2>. QED
    BY <2>1, <2>2
<1>. HIDE DEF Depth
<1>12. \A i \in 1 .. size - 1 : path[i + 1] # RootId /\ T[path[i + 1]].parent = path[i]
  <2>1. SUFFICES ASSUME NEW i \in 1 .. size - 1
          PROVE path[i + 1] # RootId /\ T[path[i + 1]].parent = path[i]
    OBVIOUS
  <2>. DEFINE q == path[i]
  <2>2. T[q].kids # <<>> /\ path[i + 1] = Candidate(T, q, ln) /\ q \in DOMAIN T
    BY <1>1, <1>3
  <2>. HIDE DEF q
  <2>3. \E m \in DOMAIN T[q].kids : Candidate(T, q, ln) = T[q].kids[m]
    BY <2>2, CandidateIsKid
  <2>4. PICK m \in DOMAIN T[q].kids : Candidate(T, q, ln) = T[q].kids[m]
    BY <2>3
  <2>5. T[T[q].kids[m]].parent = q /\ T[q].kids[m] # RootId
    BY <2>2, <2>4, KidFacts
  <2>. QED
    BY <2>2, <2>4, <2>5 DEF q
<1>. DEFINE Q == {k \in Nat : k + 1 <= size => Depth(path[k + 1]) = k}
<1>13. 0 \in Q
  BY <1>1, <1>11
<1>14. ASSUME NEW k \in Nat, k \in Q PROVE k + 1 \in Q
  <2>1. SUFFICES ASSUME (k + 1) + 1 <= size PROVE Depth(path[(k + 1) + 1]) = k + 1
    OBVIOUS
  <2>. DEFINE i == k + 1
  <2>2. i \in 1 .. size - 1 /\ i + 1 \in 1 .. size /\ k + 1 <= size
    BY <1>3, <2>1
  <2>3. path[i + 1] \in DOMAIN T \ {RootId} /\ T[path[i + 1]].parent = path[i]
    BY <1>3, <1>12, <2>2
  <2>4. Depth(path[i]) = k
    BY <1>14, <2>2
  <2>. QED
    BY <1>11, <2>3, <2>4
<1>15. Nat \subseteq Q
  <2>. HIDE DEF Q
  <2>. QED
    BY <1>13, <1>14, SetInduction
<1>16. \A i \in 1 .. size : Depth(path[i]) = i - 1
  <2>1. SUFFICES ASSUME NEW i \in 1 .. size PROVE Depth(path[i]) = i - 1
    OBVIOUS
  <2>2. i - 1 \in Nat /\ (i - 1) + 1 = i /\ i <= size
    BY <1>3
  <2>3. i - 1 \in Q
    BY <1>15, <2>2
  <2>. QED
    BY <2>2, <2>3
<1>17. ASSUME NEW n \in DOMAIN T, Covers(T, n, ln), n # path[size]
       PROVE  Depth(n) < Depth(path[size])
  <2>1. PICK i \in 1 .. size : path[i] = n
    BY <1>9, <1>17
  <2>2. i # size /\ size \in 1 .. size
    BY <1>3, <1>17, <2>1
  <2>. QED
    BY <1>3, <1>16, <2>1, <2>2
<1>. QED
  BY <1>2, <1>17 DEF FindsDeepest, Depth

-----------------------------------------------------------------------------
(* The cache in time: what holds of it at every step.                      *)

(* The base scheme is around the whole text. *)
Rooted(T) == T[RootId].sline = 0 /\ T[RootId].eline = Unended

(* The place in the tree below which the parse in progress has yet to go.  *)
Base(p, fs) == IF Len(fs) = 1 THEN p ELSE fs[2].nodeP

(* While the cache is rebuilt, the nodes around the place reached may end  *)
(* before what they hold; what is before that place has ended, and a block *)
(* entered begins on the line after the one that started it.               *)
Rising(T, p, f, fs, ln) ==
  /\ Sorted(T)
  /\ \A n \in DOMAIN T \ Above(T, p) : Within(T, n)
  /\ f # Nil => T[f].eline <= ln
  /\ \A i \in 2 .. Len(fs) : fs[i].old_line <= ln /\ T[fs[i].node].sline = fs[i].old_line + 1
  /\ T[Base(p, fs)].sline <= ln

(* The inductive invariant, on top of IInv.                                *)
OInv ==
  /\ Rooted(tree)
  /\ (Idle \/ ~Updating) => Contained(tree)
  /\ (~Idle /\ Updating) => Rising(tree, parent, forward, frames, line)

(* It holds at first.                                                      *)
LEMMA InitOInv == Init => OInv
<1>. SUFFICES ASSUME Init PROVE OInv
  OBVIOUS
<1>1. Idle /\ tree = InitTree(None)
  BY DEF Init, Idle
<1>2. /\ DOMAIN tree = {RootId} /\ tree[RootId].kids = <<>>
      /\ tree[RootId].sline = 0 /\ tree[RootId].eline = Unended
  BY <1>1 DEF InitTree, NewNode
<1>3. \A n \in DOMAIN tree : DOMAIN tree[n].kids = {}
  BY <1>2
<1>4. Contained(tree)
  BY <1>3 DEF Contained, Sorted, Within
<1>. QED
  BY <1>1, <1>2, <1>4 DEF OInv, Rooted

(* A tree trimmed at node p is pruned. *)
LEMMA TrimsPrune ==
  ASSUME NEW T, NEW p, NEW f, NEW R, GoodTree(T), TrimsTo(T, p, f, R)
  PROVE  Pruned(AllLevels, T, R) /\ SameEnds(T, R)
<1>1. IsTree(T, AllLevels) /\ IsTree(R, AllLevels) /\ DOMAIN R \subseteq DOMAIN T
  BY DEF TrimsTo, GoodTree
<1>2. ASSUME NEW n \in DOMAIN R
      PROVE  /\ R[n].parent = T[n].parent /\ R[n].sline = T[n].sline /\ R[n].eline = T[n].eline
             /\ \A i \in DOMAIN R[n].kids : i \in DOMAIN T[n].kids /\ R[n].kids[i] = T[n].kids[i]
  <2>1. CASE n = p
    BY <2>1 DEF TrimsTo
  <2>2. CASE n # p
    BY <2>2 DEF TrimsTo
  <2>. QED
    BY <2>1, <2>2
<1>. QED
  BY <1>1, <1>2 DEF Pruned, SameEnds

(* Pruning a tree in order leaves one.                                     *)
LEMMA PrunedContained ==
  ASSUME NEW L, NEW T, NEW R, Pruned(L, T, R), SameEnds(T, R), Contained(T)
  PROVE  Contained(R)
<1>1. Sorted(T) /\ \A n \in DOMAIN R : n \in DOMAIN T /\ Within(T, n)
  BY DEF Contained, Pruned
<1>2. Sorted(R) /\ \A n \in DOMAIN R : Within(T, n) => Within(R, n)
  BY <1>1, PrunedSorted
<1>. QED
  BY <1>1, <1>2 DEF Contained

(* Pruning leaves the base scheme around the text.                         *)
LEMMA PrunedRooted ==
  ASSUME NEW L, NEW T, NEW R, Pruned(L, T, R), SameEnds(T, R), Rooted(T)
  PROVE  Rooted(R)
BY DEF Pruned, SameEnds, Rooted, IsTree

(* T is a tree at rest. *)
Rested(T) == GoodTree(T) /\ Contained(T) /\ Rooted(T)

(* A search leaves a tree at rest as it is.                                *)
LEMMA SearchRested ==
  ASSUME NEW T, Rested(T), NEW ln \in Nat
  PROVE  Rested(searchLine(T, ln).tree)
<1>. DEFINE R == searchLine(T, ln).tree
<1>0. IsTree(T, AllLevels) /\ ln \in Int
  BY DEF Rested, GoodTree
<1>1. /\ IsTree(R, AllLevels) /\ DOMAIN R = DOMAIN T
      /\ \A n \in DOMAIN T :
           /\ R[n].parent = T[n].parent /\ R[n].kids = T[n].kids
           /\ R[n].sline = T[n].sline /\ R[n].eline = T[n].eline
           /\ R[n].level = T[n].level
  BY <1>0, SearchIs
<1>. HIDE DEF R
<1>2. Pruned(AllLevels, T, R) /\ SameEnds(T, R)
  BY <1>0, <1>1 DEF Pruned, SameEnds
<1>3. GoodTree(R)
  BY <1>1 DEF Rested, GoodTree, LineOf
<1>4. Contained(R) /\ Rooted(R)
  BY <1>2, PrunedContained, PrunedRooted DEF Rested
<1>. QED
  BY <1>3, <1>4 DEF Rested, R

(* Where parse() goes on from: what it keeps to the left has ended before  *)
(* the line, what it goes on in began by then.                             *)
LEMMA EnterUpdate ==
  ASSUME NEW T, Rested(T), NEW p, NEW f, Trims(T, p, f), NEW ln \in Nat,
         T[p].sline <= ln, f # Nil => T[f].eline < ln, Enter(T, p, f, TRUE)
  PROVE  Rooted(tree') /\ Rising(tree', parent', forward', frames', ln)
<1>. DEFINE R == tree'
<1>1. R = Trimmed(T, p, f, TRUE) /\ parent' = p /\ forward' = f /\ frames' = <<Bottom(T[p].level)>>
  BY DEF Enter
<1>2. TrimsTo(T, p, f, R) /\ GoodTree(T) /\ Contained(T) /\ Rooted(T)
  BY <1>1, TrimIs DEF Rested
<1>. HIDE DEF R
<1>3. Pruned(AllLevels, T, R) /\ SameEnds(T, R)
  BY <1>2, TrimsPrune
<1>4. Contained(R) /\ Rooted(R)
  BY <1>2, <1>3, PrunedContained, PrunedRooted
<1>5. p \in DOMAIN R /\ R[p].sline <= ln
  BY <1>2 DEF TrimsTo
<1>6. f # Nil => R[f].eline <= ln
  <2>1. SUFFICES ASSUME f # Nil PROVE R[f].eline <= ln
    OBVIOUS
  <2>2. f \in DOMAIN R /\ f \in DOMAIN T
    BY <1>2, <2>1 DEF TrimsTo
  <2>3. R[f].eline = T[f].eline
    BY <1>3, <2>2 DEF SameEnds
  <2>4. T[f].eline \in Nat
    <3>1. IsTree(T, AllLevels)
      BY <1>2 DEF GoodTree
    <3>. QED
      BY <2>2, <3>1, LinesAreInts
  <2>. QED
    BY <2>1, <2>3, <2>4
<1>7. Len(frames') = 1 /\ 2 .. Len(frames') = {}
  <2>. DEFINE b == Bottom(T[p].level)
  <2>1. frames' = <<b>>
    BY <1>1
  <2>. HIDE DEF b
  <2>. QED
    BY <2>1
<1>8. Rising(R, p, f, frames', ln)
  BY <1>4, <1>5, <1>6, <1>7 DEF Rising, Contained, Base
<1>. QED
  BY <1>1, <1>4, <1>8 DEF R

(* parse() up to its first call of colorize().                             *)
LEMMA ParseTimes ==
  ASSUME BoundsAssumption, NEW T, Rested(T), NEW kind \in {"update", "read", "off", "try"},
         NEW from \in Lines, NEW num, parse(T, kind, from, num)
  PROVE  OInv'
<1>. DEFINE s == IF kind = "off" THEN [found |-> RootId, forward |-> Nil, tree |-> T]
                 ELSE searchLine(T, from)
<1>0. from \in Nat
  BY DEF Lines, BoundsAssumption
<1>1. call' = [kind |-> kind, line |-> from] /\ line' = from
      /\ Enter(s.tree, s.found, s.forward, kind = "update")
  BY DEF parse
<1>2. pc' = "line" /\ tree' = Trimmed(s.tree, s.found, s.forward, kind = "update")
  BY <1>1 DEF Enter
<1>3. Rested(s.tree)
  <2>1. CASE kind = "off"
    BY <2>1
  <2>2. CASE kind # "off"
    BY <1>0, <2>2, SearchRested
  <2>. QED
    BY <2>1, <2>2
<1>4. CASE kind # "update"
  <2>1. tree' = s.tree
    BY <1>2, <1>4 DEF Trimmed
  <2>. HIDE DEF s
  <2>. QED
    BY <1>1, <1>2, <1>3, <1>4, <2>1 DEF OInv, Rested, Updating
<1>5. CASE kind = "update"
  <2>. DEFINE R == searchLine(T, from).tree  p == searchLine(T, from).found
              f == searchLine(T, from).forward
  <2>1. s.tree = R /\ s.found = p /\ s.forward = f
    BY <1>5
  <2>2. /\ R = s.tree /\ GoodTree(R) /\ DOMAIN R = DOMAIN T /\ p \in DOMAIN R
        /\ f = Nil \/ (f \in DOMAIN R /\ f # RootId /\ R[f].parent = p)
    BY <1>0, <2>1, SearchGood DEF Rested
  <2>3. T[p].sline <= from /\ (f # Nil => T[f].eline < from)
    <3>1. IsTree(T, AllLevels) /\ T[RootId].sline = 0
      BY DEF Rested, GoodTree, Rooted
    <3>. QED
      BY <1>0, <3>1, SearchTimes
  <2>4. \A n \in DOMAIN T : R[n].sline = T[n].sline /\ R[n].eline = T[n].eline
    <3>1. IsTree(T, AllLevels) /\ from \in Int
      BY <1>0 DEF Rested, GoodTree
    <3>. QED
      BY <3>1, SearchIs
  <2>5. Enter(R, p, f, TRUE) /\ Rested(R)
    BY <1>1, <1>3, <1>5, <2>1
  <2>. HIDE DEF s, R, p, f
  <2>6. Trims(R, p, f) /\ R[p].sline <= from /\ (f # Nil => R[f].eline < from)
    BY <2>2, <2>3, <2>4 DEF Trims
  <2>7. Rooted(tree') /\ Rising(tree', parent', forward', frames', from)
    BY <1>0, <2>5, <2>6, EnterUpdate
  <2>. QED
    BY <1>1, <1>2, <1>5, <2>7 DEF OInv, Idle, Updating
<1>. QED
  BY <1>4, <1>5

(* The calls and edits of the client.                                      *)
LEMMA ClientTimes == ASSUME BoundsAssumption, IInv, OInv, Client PROVE OInv'
<1>1. ASSUME Idle PROVE Rested(tree)
  BY <1>1 DEF OInv, IInv, Rested
<1>2. ASSUME NEW kind \in {"update", "read", "off"}, NEW from \in Lines, NEW num \in 1 .. MaxLines,
             Parse(kind, from, num)
      PROVE  OInv'
  BY <1>1, <1>2, ParseTimes DEF Parse
<1>3. ASSUME NEW l \in Lines, NEW c \in Contents, ModifyLine(l, c)
      PROVE  OInv'
  <2>1. Idle /\ UNCHANGED <<tree, call, pc, frames, line, parent, forward>>
    BY <1>3 DEF ModifyLine, EditLine, cursor
  <2>. QED
    BY <2>1 DEF OInv, Idle
<1>4. ASSUME NEW l \in Lines, NEW c \in Contents, TryParseLine(l, c)
      PROVE  OInv'
  <2>. DEFINE next == searchLine(tree, l + 1)
              here == searchLine(next.tree, l)
  <2>1. Idle /\ parse(here.tree, "try", l, 1)
    BY <1>4 DEF TryParseLine, EditLine
  <2>2. l \in Nat /\ l + 1 \in Nat
    BY DEF Lines, BoundsAssumption
  <2>3. Rested(next.tree)
    BY <1>1, <2>1, <2>2, SearchRested
  <2>. HIDE DEF next
  <2>4. Rested(here.tree)
    BY <2>2, <2>3, SearchRested
  <2>. HIDE DEF here
  <2>. QED
    BY <2>1, <2>4, ParseTimes
<1>. QED
  BY <1>2, <1>3, <1>4 DEF Client

(* A step of the loop that neither calls nor goes back. *)
LEMMA LoopTimes ==
  ASSUME IInv, OInv, ~Idle, pc' # "idle", SameHolds, UNCHANGED <<tree, parent, forward, call>>,
         line' >= line, line' \in Nat
  PROVE  OInv'
<1>1. Updating' <=> Updating
  BY DEF Updating
<1>2. CASE ~Updating
  BY <1>1, <1>2 DEF OInv, Idle
<1>3. CASE Updating
  <2>1. Rising(tree, parent, forward, frames, line) /\ Rooted(tree)
    BY <1>3 DEF OInv
  <2>2. /\ Len(frames') = Len(frames) /\ Len(frames) \in Nat \ {0} /\ DOMAIN frames = 1 .. Len(frames)
        /\ \A i \in DOMAIN frames :
             /\ frames'[i].node = frames[i].node /\ frames'[i].nodeP = frames[i].nodeP
             /\ frames'[i].old_line = frames[i].old_line
    BY TopFrame DEF SameHolds, SameNodes, Idle
  <2>3. line \in Nat /\ parent \in DOMAIN tree /\ GoodTree(tree)
        /\ (forward # Nil => forward \in DOMAIN tree) /\ frames \in Seq(Frames)
    BY <1>3 DEF IInv, Typed, Standing, Idle
  <2>4. \A n \in DOMAIN tree : tree[n].sline \in Nat /\ tree[n].eline \in Nat
    <3>1. IsTree(tree, AllLevels)
      BY <2>3 DEF GoodTree
    <3>. QED
      BY <3>1, LinesAreInts
  <2>5. forward # Nil => tree[forward].eline <= line'
    BY <2>1, <2>3, <2>4 DEF Rising
  <2>6. ASSUME NEW i \in 2 .. Len(frames)
        PROVE  frames[i].old_line <= line' /\ tree[frames[i].node].sline = frames[i].old_line + 1
    <3>1. frames[i].old_line <= line /\ tree[frames[i].node].sline = frames[i].old_line + 1
      BY <2>1 DEF Rising
    <3>2. frames[i] \in Frames
      BY <2>3
    <3>3. frames[i].old_line \in Nat
      BY <3>2, BoundsAssumption DEF Frames
    <3>. QED
      BY <2>3, <3>1, <3>3
  <2>7. \A i \in 2 .. Len(frames) : i \in DOMAIN frames
    BY <2>2
  <2>8. Base(parent, frames') = Base(parent, frames) /\ Base(parent, frames) \in DOMAIN tree
    <3>1. CASE Len(frames) = 1
      BY <2>2, <2>3, <3>1 DEF Base
    <3>2. CASE Len(frames) # 1
      <4>1. 2 \in 2 .. Len(frames)
        BY <2>2, <3>2
      <4>2. Hangs(tree, frames[2])
        BY <1>3, <4>1 DEF IInv, Standing, Spine, Idle
      <4>. QED
        BY <2>2, <2>7, <3>2, <4>1, <4>2 DEF Base, Hangs
    <3>. QED
      BY <3>1, <3>2
  <2>9. tree[Base(parent, frames')].sline <= line'
    BY <2>1, <2>3, <2>4, <2>8 DEF Rising
  <2>10. Rising(tree, parent, forward, frames', line')
    BY <2>1, <2>2, <2>5, <2>6, <2>7, <2>9 DEF Rising
  <2>. QED
    BY <1>1, <1>3, <2>1, <2>10 DEF OInv, Idle
<1>. QED
  BY <1>2, <1>3

(* The steps of the loop within an activation.                             *)
LEMMA LoopStepsTimed ==
  ASSUME IInv, OInv,
         BreakParse \/ OutOfLines \/ NullLine \/ StartLine \/ ContentOver \/ Broken
           \/ MatchRegexp \/ MatchNothing
  PROVE  OInv'
<1>0. line \in Nat
  BY BoundsAssumption DEF IInv, Typed
<1>1. CASE BreakParse \/ OutOfLines \/ NullLine
  <2>1. /\ pc # "idle" /\ pc' # "idle" /\ UNCHANGED <<tree, parent, forward, call, line, frames>>
    BY <1>1 DEF BreakParse, OutOfLines, NullLine, Leave, Idle, cursor
  <2>. QED
    BY <1>0, <2>1, SameFrames, LoopTimes DEF Idle
<1>2. CASE ContentOver
  <2>1. /\ pc = "content" /\ EndLine(line) /\ UNCHANGED <<tree, parent, forward, call, frames>>
    BY <1>2 DEF ContentOver
  <2>2. pc' # "idle" /\ line' \in {line, line + 1}
    BY <2>1 DEF EndLine, Leave
  <2>3. line' \in Nat /\ line' >= line
    BY <1>0, <2>2
  <2>. QED
    BY <2>1, <2>2, <2>3, SameFrames, LoopTimes DEF Idle
<1>3. CASE Broken
  <2>1. /\ pc = "content" /\ EndLine(stop) /\ UNCHANGED <<tree, parent, forward, call, frames>>
    BY <1>3 DEF Broken
  <2>2. pc' # "idle" /\ line' \in {stop, stop + 1}
    BY <2>1 DEF EndLine, Leave
  <2>3. stop \in Nat /\ line < stop
    BY <2>1, BoundsAssumption DEF IInv, Typed, Control
  <2>4. line' \in Nat /\ line' >= line
    BY <1>0, <2>2, <2>3
  <2>. QED
    BY <2>1, <2>2, <2>4, SameFrames, LoopTimes DEF Idle
<1>4. CASE StartLine
  <2>. DEFINE ended == {p \in gx .. Len(str) - 1 : IsEnd(Current.level, Token(str, p))} # {}
              clipped == Current.level.block \in LowContent
  <2>1. /\ pc = "line" /\ pc' = "content" /\ UNCHANGED <<tree, parent, forward, call, line>>
        /\ frames' = WithTop([Current EXCEPT !.ended = ended, !.clipped = clipped])
    BY <1>4 DEF StartLine
  <2>2. ended \in BOOLEAN /\ clipped \in BOOLEAN
    OBVIOUS
  <2>. HIDE DEF ended, clipped
  <2>3. SameHolds
    BY <2>1, <2>2, FlagsOnly DEF SameHolds
  <2>. QED
    BY <1>0, <2>1, <2>3, LoopTimes DEF Idle
<1>5. CASE MatchRegexp \/ MatchNothing
  <2>1. /\ pc = "content" /\ pc' # "idle" /\ UNCHANGED <<tree, parent, forward, call, line>>
        /\ frames' = WithTop([Current EXCEPT !.clipped = FALSE])
    BY <1>5 DEF MatchRegexp, MatchNothing, Searching
  <2>2. SameHolds
    BY <2>1, UnclippedIs DEF SameHolds
  <2>. QED
    BY <1>0, <2>1, <2>2, LoopTimes DEF Idle
<1>. QED
  BY <1>1, <1>2, <1>3, <1>4, <1>5

(* The node for a block is one more to stand on. *)
LEMMA GrownPruned ==
  ASSUME NEW T, NEW p, NEW f, NEW id, NEW ln, NEW R, Grown(T, p, f, id, ln, R)
  PROVE  Pruned(AllLevels, R, T) /\ SameEnds(R, T)
<1>1. /\ IsTree(T, AllLevels) /\ IsTree(R, AllLevels) /\ DOMAIN T \subseteq DOMAIN R
      /\ \A n \in DOMAIN T :
           R[n].parent = T[n].parent /\ R[n].sline = T[n].sline /\ R[n].eline = T[n].eline
  BY DEF Grown, GoodTree
<1>2. ASSUME NEW n \in DOMAIN T, NEW i \in DOMAIN T[n].kids
      PROVE  i \in DOMAIN R[n].kids /\ T[n].kids[i] = R[n].kids[i]
  <2>1. CASE n # p
    BY <2>1 DEF Grown
  <2>2. CASE n = p
    <3>. DEFINE kids == T[p].kids
    <3>1. kids \in Seq(Nat) /\ i \in DOMAIN kids /\ R[n].kids = Append(kids, id)
      BY <1>1, <2>2, LinesAreInts DEF Grown
    <3>2. i \in DOMAIN Append(kids, id) /\ Append(kids, id)[i] = kids[i]
      <4>. HIDE DEF kids
      <4>. QED
        BY <3>1
    <3>. QED
      BY <2>2, <3>1, <3>2
  <2>. QED
    BY <2>1, <2>2
<1>. QED
  BY <1>1, <1>2 DEF Pruned, SameEnds

(* With the node for a block the tree is in order, but for the nodes       *)
(* around the new one.                                                     *)
LEMMA GrownRises ==
  ASSUME NEW T, NEW p, NEW f, NEW id, NEW R, NEW fs, NEW ln \in Nat,
         Grown(T, p, f, id, ln + 1, R), Rising(T, p, f, fs, ln),
         T[p].sline <= ln + 1, ln + 1 <= Unended
  PROVE  Sorted(R) /\ \A n \in DOMAIN R \ Above(R, id) : Within(R, n)
<1>1. /\ Pruned(AllLevels, R, T) /\ SameEnds(R, T) /\ IsTree(T, AllLevels) /\ IsTree(R, AllLevels)
  <2>. DEFINE n == ln + 1
  <2>1. Grown(T, p, f, id, n, R)
    OBVIOUS
  <2>. HIDE DEF n
  <2>2. Pruned(AllLevels, R, T) /\ SameEnds(R, T)
    BY <2>1, GrownPruned
  <2>. QED
    BY <2>2 DEF Pruned
<1>2. Sorted(T) /\ \A n \in DOMAIN T \ Above(T, p) : Within(T, n)
  BY DEF Rising
<1>3. /\ DOMAIN R = DOMAIN T \cup {id} /\ id \notin DOMAIN T /\ p \in DOMAIN T
      /\ R[p].kids = Append(T[p].kids, id) /\ R[id].kids = <<>>
      /\ \A n \in DOMAIN T : n # p => R[n].kids = T[n].kids
      /\ R[id].sline = ln + 1 /\ R[id].eline = Unended /\ EndsIn(T, p, f) /\ R[id].parent = p
  BY DEF Grown
<1>4. f = Nil \/ T[f].eline < ln + 1
  <2>1. SUFFICES ASSUME f # Nil PROVE T[f].eline < ln + 1
    OBVIOUS
  <2>2. T[f].eline <= ln
    BY <2>1 DEF Rising
  <2>3. f \in DOMAIN T
    BY <2>1, <1>3, EndsAt DEF Grown
  <2>4. T[f].eline \in Nat
    BY <1>1, <2>3, LinesAreInts
  <2>. QED
    BY <2>2, <2>4
<1>5. R[id].sline <= R[id].eline /\ T[p].sline <= R[id].sline /\ (f = Nil \/ T[f].eline < R[id].sline)
  BY <1>3, <1>4
<1>6. Sorted(R) /\ \A n \in DOMAIN T : n # p /\ Within(T, n) => Within(R, n)
  BY <1>1, <1>2, <1>3, <1>5, GrownSorted
<1>7. Above(R, id) = {id} \cup Above(R, p)
  <2>1. id # RootId
    BY <1>1, <1>3 DEF IsTree
  <2>. QED
    BY <1>1, <1>3, <2>1, AboveIs
<1>8. Above(R, p) = Above(T, p)
  BY <1>1, <1>3, PrunedAbove
<1>9. p \in Above(T, p)
  BY <1>1, <1>3, AboveIs
<1>. QED
  BY <1>2, <1>3, <1>6, <1>7, <1>8, <1>9

(* The step at the start of a block, on the line after which its node      *)
(* begins.                                                                 *)
LEMMA MatchBlockTimed ==
  ASSUME IInv, OInv, MatchBlock
  PROVE  OInv'
<1>. DEFINE k == Len(frames)
<1>1. /\ pc = "content" /\ pc' \in {"return", "line"} /\ line < stop
      /\ UNCHANGED <<call, line, stop>> /\ Deeper
      /\ Updating => Grown(tree, parent, forward, parent', line + 1, tree') /\ forward' = Nil
      /\ ~Updating => UNCHANGED <<tree, parent, forward>>
  BY BoundsAssumption, TokensAssumption, BlocksAssumption, MatchBlockIs
<1>2. CASE ~Updating
  BY <1>1, <1>2 DEF OInv, Idle, Updating
<1>3. CASE Updating
  <2>1. Rising(tree, parent, forward, frames, line) /\ Rooted(tree)
        /\ Spine(tree, frames, parent, forward)
    BY <1>1, <1>3 DEF OInv, Idle, IInv, Standing
  <2>2. Grown(tree, parent, forward, parent', line + 1, tree') /\ forward' = Nil
    BY <1>1, <1>3
  <2>3. line \in Nat /\ line + 1 <= Unended
    BY <1>1, BoundsAssumption DEF IInv, Typed, Unended
  <2>4. k \in Nat \ {0}
    BY <1>1, TopFrame
  <2>5. \A i \in 2 .. k : Hangs(tree, frames[i]) /\ frames[i].old_line \in Nat
    <3>1. \A i \in 2 .. k : frames[i] \in Frames
      BY <2>4 DEF IInv, Typed
    <3>. QED
      BY <2>1, <3>1, BoundsAssumption DEF Spine, Frames
  <2>6. tree[parent].sline <= line + 1
    <3>1. CASE k = 1
      <4>1. tree[parent].sline <= line
        BY <2>1, <3>1 DEF Rising, Base
      <4>2. parent \in DOMAIN tree /\ IsTree(tree, AllLevels)
        BY <2>2 DEF Grown, GoodTree
      <4>3. tree[parent].sline \in Nat
        BY <4>2, LinesAreInts
      <4>. QED
        BY <2>3, <4>1, <4>3
    <3>2. CASE k # 1
      <4>0. k > 1 /\ k \in 2 .. k
        <5>. HIDE DEF k
        <5>. QED
          BY <2>4, <3>2
      <4>1. k \in 2 .. k /\ parent = frames[k].node
        BY <2>1, <4>0 DEF Spine
      <4>2. tree[parent].sline = frames[k].old_line + 1 /\ frames[k].old_line <= line
        BY <2>1, <4>1 DEF Rising
      <4>. QED
        BY <2>3, <2>5, <4>1, <4>2
    <3>. QED
      BY <3>1, <3>2
  <2>7. Sorted(tree') /\ \A n \in DOMAIN tree' \ Above(tree', parent') : Within(tree', n)
    <3>. DEFINE T == tree  p == parent  f == forward  id == parent'  R == tree'  ln == line
    <3>1. /\ Grown(T, p, f, id, ln + 1, R) /\ Rising(T, p, f, frames, ln)
          /\ T[p].sline <= ln + 1 /\ ln + 1 <= Unended /\ ln \in Nat
      BY <2>1, <2>2, <2>3, <2>6
    <3>. HIDE DEF T, p, f, id, R, ln
    <3>2. Sorted(R) /\ \A n \in DOMAIN R \ Above(R, id) : Within(R, n)
      BY <3>1, GrownRises
    <3>. QED
      BY <3>2 DEF R, id
  <2>8. /\ Len(frames') = k + 1
        /\ \A i \in 1 .. k :
             /\ frames'[i].node = frames[i].node /\ frames'[i].nodeP = frames[i].nodeP
             /\ frames'[i].old_line = frames[i].old_line
        /\ frames'[k + 1].old_line = line /\ frames'[k + 1].node = parent' /\ frames'[k + 1].nodeP = parent
    BY <1>1, <1>3 DEF Deeper
  <2>9. /\ \A n \in DOMAIN tree : n \in DOMAIN tree' /\ tree'[n].sline = tree[n].sline
                                 /\ tree'[n].eline = tree[n].eline
        /\ tree'[parent'].sline = line + 1
    BY <2>2 DEF Grown
  <2>10. ASSUME NEW i \in 2 .. k + 1
         PROVE  frames'[i].old_line <= line /\ tree'[frames'[i].node].sline = frames'[i].old_line + 1
    <3>1. CASE i = k + 1
      BY <2>3, <2>8, <2>9, <3>1
    <3>2. CASE i # k + 1
      <4>1. i \in 2 .. k /\ i \in 1 .. k
        BY <2>4, <3>2
      <4>2. frames[i].old_line <= line /\ tree[frames[i].node].sline = frames[i].old_line + 1
        BY <2>1, <4>1 DEF Rising
      <4>3. frames[i].node \in DOMAIN tree
        BY <2>5, <4>1 DEF Hangs
      <4>. QED
        BY <2>8, <2>9, <4>1, <4>2, <4>3
    <3>. QED
      BY <3>1, <3>2
  <2>11. tree'[Base(parent', frames')].sline <= line
    <3>1. Base(parent', frames') = frames'[2].nodeP
      <4>1. Len(frames') # 1
        BY <2>4, <2>8
      <4>. QED
        BY <4>1 DEF Base
    <3>2. CASE k = 1
      <4>1. frames'[2].nodeP = parent /\ Base(parent, frames) = parent
        BY <2>8, <3>2 DEF Base
      <4>2. parent \in DOMAIN tree
        BY <2>2 DEF Grown
      <4>. QED
        BY <2>1, <2>9, <3>1, <4>1, <4>2 DEF Rising
    <3>3. CASE k # 1
      <4>1. 2 \in 2 .. k /\ 2 \in 1 .. k
        <5>. HIDE DEF k
        <5>. QED
          BY <2>4, <3>3
      <4>2. frames'[2].nodeP = frames[2].nodeP /\ Base(parent, frames) = frames[2].nodeP
        BY <2>8, <3>3, <4>1 DEF Base
      <4>3. frames[2].nodeP \in DOMAIN tree
        BY <2>5, <4>1 DEF Hangs
      <4>. QED
        BY <2>1, <2>9, <3>1, <4>2, <4>3 DEF Rising
    <3>. QED
      BY <3>2, <3>3
  <2>12. Rising(tree', parent', forward', frames', line)
    BY <2>2, <2>7, <2>8, <2>10, <2>11 DEF Rising
  <2>13. Rooted(tree')
    <3>1. RootId \in DOMAIN tree
      BY <2>2 DEF Grown, GoodTree, IsTree
    <3>. QED
      BY <2>1, <2>9, <3>1 DEF Rooted
  <2>. QED
    BY <1>1, <1>3, <2>12, <2>13 DEF OInv, Idle, Updating
<1>. QED
  BY <1>2, <1>3

(* Trimmed back to what it was, the tree has no node for the block. *)
LEMMA NodeDropped ==
  ASSUME NEW T, GoodTree(T), NEW fr \in Frames, Hangs(T, fr), NEW R, TrimsTo(T, fr.nodeP, fr.ResF, R)
  PROVE  fr.node \notin DOMAIN R
<1>. DEFINE q == fr.nodeP
            g == fr.ResF
            nd == fr.node
            kids == T[q].kids
            few == R[q].kids
            m == Len(kids)
<1>1. SUFFICES ASSUME nd \in DOMAIN R PROVE FALSE
  OBVIOUS
<1>2. /\ q \in DOMAIN T /\ nd \in DOMAIN T /\ nd # RootId /\ T[nd].parent = q /\ nd # Nil
      /\ EndsIn(T, q, nd)
      /\ IF g = Nil THEN m = 1 ELSE m > 1 /\ kids[m - 1] = g
  <2>1. nd \in DOMAIN T => nd # Nil
    BY DEF GoodTree, IsTree, Nil
  <2>2. nd # RootId /\ T[nd].parent = q
    BY HangsHeld
  <2>. QED
    BY <2>1, <2>2 DEF Hangs
<1>3. IsTree(T, AllLevels) /\ IsTree(R, AllLevels) /\ q \in DOMAIN R /\ EndsIn(R, q, g)
      /\ (\A i \in DOMAIN few : i \in DOMAIN kids /\ few[i] = kids[i])
      /\ R[nd].parent = q
  <2>1. R[nd].parent = q
    BY <1>1, <1>2 DEF TrimsTo
  <2>. QED
    BY <2>1 DEF TrimsTo, GoodTree
<1>4. kids \in Seq(Nat) /\ few \in Seq(Nat) /\ kids # <<>> /\ kids[m] = nd
  BY <1>2, <1>3, LinesAreInts DEF EndsIn
<1>5. m \in Nat \ {0} /\ DOMAIN kids = 1 .. m
  BY <1>4
<1>6. \E j \in DOMAIN few : few[j] = nd
  BY <1>1, <1>2, <1>3 DEF IsTree, Linked, ToSet
<1>7. PICK j \in DOMAIN few : few[j] = nd
  BY <1>6
<1>8. \A i \in DOMAIN kids : Place(T, kids[i]) = i
  <2>. HIDE DEF q
  <2>. QED
    BY <1>2, <1>3, KidFacts
<1>9. j = m
  <2>1. j \in DOMAIN kids /\ kids[j] = nd /\ m \in DOMAIN kids
    BY <1>3, <1>5, <1>7
  <2>. HIDE DEF kids, m, nd, few
  <2>. QED
    BY <1>4, <1>8, <2>1
<1>10. few # <<>> /\ Len(few) \in DOMAIN few /\ j <= Len(few)
  <2>. HIDE DEF few
  <2>. QED
    BY <1>4, <1>7
<1>11. g # Nil /\ few[Len(few)] = g
  BY <1>3, <1>10 DEF EndsIn
<1>12. kids[Len(few)] = g /\ Len(few) \in DOMAIN kids
  BY <1>3, <1>10, <1>11
<1>13. m > 1 /\ kids[m - 1] = g
  BY <1>2, <1>11
<1>14. Len(few) = m - 1
  <2>. DEFINE l == Len(few)  h == m - 1
  <2>0. l \in DOMAIN kids /\ kids[l] = g /\ kids[h] = g
    BY <1>12, <1>13
  <2>1. h \in DOMAIN kids
    <3>. HIDE DEF kids, m, g
    <3>. QED
      BY <1>5, <1>13
  <2>. HIDE DEF l, h, kids
  <2>2. l = h
    BY <1>8, <2>0, <2>1
  <2>. QED
    BY <2>2 DEF l, h, kids
<1>. HIDE DEF few, kids, m
<1>. QED
  BY <1>5, <1>9, <1>10, <1>14

(* What is before a block has ended when it begins. *)
LEMMA BeforeEnds ==
  ASSUME NEW T, GoodTree(T), Sorted(T), NEW fr \in Frames, Hangs(T, fr), fr.ResF # Nil
  PROVE  /\ fr.ResF \in DOMAIN T /\ T[fr.ResF].eline \in Nat
         /\ T[fr.ResF].eline < T[fr.node].sline
<1>. DEFINE q == fr.nodeP
            g == fr.ResF
            nd == fr.node
            kids == T[q].kids
            m == Len(kids)
<1>1. q \in DOMAIN T /\ nd \in DOMAIN T /\ EndsIn(T, q, nd) /\ m > 1 /\ kids[m - 1] = g
  BY DEF Hangs
<1>2. IsTree(T, AllLevels) /\ nd # Nil
  BY <1>1 DEF GoodTree, IsTree, Nil
<1>3. kids \in Seq(Nat) /\ kids[m] = nd
  BY <1>1, <1>2, LinesAreInts DEF EndsIn
<1>4. m - 1 \in DOMAIN kids /\ m \in DOMAIN kids /\ m - 1 < m
  <2>. HIDE DEF kids
  <2>. QED
    BY <1>1, <1>3
<1>5. T[kids[m - 1]].eline < T[kids[m]].sline
  BY <1>1, <1>4 DEF Sorted
<1>6. g \in DOMAIN T
  BY HangsHeld
<1>7. T[g].eline \in Nat
  <2>. HIDE DEF g
  <2>. QED
    BY <1>2, <1>6, LinesAreInts
<1>. QED
  BY <1>1, <1>3, <1>5, <1>6, <1>7

(* R has nodes of T, beginning on the same lines.                          *)
SameStarts(T, R) == \A n \in DOMAIN R : n \in DOMAIN T /\ R[n].sline = T[n].sline

(* Back at the activation around, nothing of the others has changed.       *)
LEMMA PopTimes ==
  ASSUME NEW T, NEW fs \in Seq(Frames), Len(fs) > 1, NEW p, NEW f, Spine(T, fs, p, f),
         NEW ln, Rising(T, p, f, fs, ln), NEW R, SameStarts(T, R), Sorted(R),
         NEW g, Spine(R, Front(fs), fs[Len(fs)].nodeP, g), fs[Len(fs)].nodeP \in DOMAIN R,
         \A n \in DOMAIN R \ Above(R, fs[Len(fs)].nodeP) : Within(R, n),
         g # Nil => R[g].eline <= ln
  PROVE  Rising(R, fs[Len(fs)].nodeP, g, Front(fs), ln)
<1>. DEFINE k == Len(fs) - 1
            hs == Front(fs)
            q == fs[Len(fs)].nodeP
<1>1. k \in Nat /\ k >= 1 /\ Len(fs) = k + 1
  OBVIOUS
<1>2. hs \in Seq(Frames) /\ Len(hs) = k /\ \A i \in 1 .. k : hs[i] = fs[i]
  BY FrontFrame
<1>3. Spine(R, hs, q, g)
  OBVIOUS
<1>. HIDE DEF hs, k
<1>4. ASSUME NEW i \in 2 .. k
      PROVE  hs[i].old_line <= ln /\ R[hs[i].node].sline = hs[i].old_line + 1
  <2>1. i \in 1 .. k /\ i \in 2 .. Len(fs)
    BY <1>1
  <2>2. Hangs(R, hs[i])
    BY <1>2, <1>3 DEF Spine
  <2>3. hs[i].node \in DOMAIN R
    BY <2>2 DEF Hangs
  <2>4. fs[i].old_line <= ln /\ T[fs[i].node].sline = fs[i].old_line + 1
    BY <2>1 DEF Rising
  <2>. QED
    BY <1>2, <2>1, <2>3, <2>4 DEF SameStarts
<1>5. Base(q, hs) = fs[2].nodeP /\ fs[2].nodeP \in DOMAIN R
  <2>1. CASE k = 1
    BY <1>1, <1>2, <2>1 DEF Base
  <2>2. CASE k # 1
    <3>1. 2 \in 2 .. k /\ 2 \in 1 .. k
      BY <1>1, <2>2
    <3>2. Hangs(R, hs[2])
      BY <1>2, <1>3, <3>1 DEF Spine
    <3>. QED
      BY <1>2, <2>2, <3>1, <3>2 DEF Base, Hangs
  <2>. QED
    BY <2>1, <2>2
<1>6. R[Base(q, hs)].sline <= ln
  <2>1. Len(fs) # 1
    BY <1>1
  <2>2. T[fs[2].nodeP].sline <= ln
    BY <2>1 DEF Rising, Base
  <2>. QED
    BY <1>5, <2>2 DEF SameStarts
<1>7. Rising(R, q, g, hs, ln)
  BY <1>2, <1>4, <1>6 DEF Rising
<1>. QED
  BY <1>7 DEF q, hs

(* A block within a line: the tree is as it was before. *)
LEMMA WithinTimed ==
  ASSUME NEW T, GoodTree(T), NEW fs \in Seq(Frames), Len(fs) > 1,
         NEW p, NEW f, Spine(T, fs, p, f), NEW ln \in Nat, Rising(T, p, f, fs, ln), Rooted(T),
         NEW fr, fr = fs[Len(fs)], NEW R, TrimsTo(T, fr.nodeP, fr.ResF, R),
         Spine(R, Front(fs), fr.nodeP, fr.ResF)
  PROVE  Rooted(R) /\ Rising(R, fr.nodeP, fr.ResF, Front(fs), ln)
<1>. DEFINE q == fr.nodeP
            g == fr.ResF
            k == Len(fs)
<1>1. fr \in Frames /\ Hangs(T, fr) /\ p = fr.node /\ k \in 2 .. k
      /\ fr.old_line <= ln /\ T[fr.node].sline = fr.old_line + 1 /\ fr.old_line \in Nat
  <2>1. k \in 2 .. k /\ fr \in Frames
    OBVIOUS
  <2>2. fr.old_line \in Nat
    BY <2>1, BoundsAssumption DEF Frames
  <2>. QED
    BY <2>1, <2>2 DEF Spine, Rising
<1>2. TrimsTo(T, q, g, R)
  OBVIOUS
<1>3. Pruned(AllLevels, T, R) /\ SameEnds(T, R)
  BY <1>2, TrimsPrune
<1>4. fr.node \notin DOMAIN R
  BY <1>1, <1>2, NodeDropped
<1>5. Sorted(T) /\ \A n \in DOMAIN T \ Above(T, p) : Within(T, n)
  BY DEF Rising
<1>6. Sorted(R) /\ \A n \in DOMAIN R : Within(T, n) => Within(R, n)
  BY <1>3, <1>5, PrunedSorted
<1>7. q \in DOMAIN R /\ g \in DOMAIN R \cup {Nil} /\ Above(R, q) = Above(T, q)
  <2>1. q \in DOMAIN R /\ g \in DOMAIN R \cup {Nil}
    BY <1>2 DEF TrimsTo
  <2>. HIDE DEF q, g
  <2>. QED
    BY <1>3, <2>1, PrunedAbove
<1>8. Above(T, p) = {p} \cup Above(T, q)
  <2>1. p \in DOMAIN T /\ p # RootId /\ T[p].parent = q /\ IsTree(T, AllLevels)
    BY <1>1, HangsHeld DEF Hangs, GoodTree
  <2>. QED
    BY <2>1, AboveIs
<1>9. \A n \in DOMAIN R \ Above(R, q) : Within(R, n)
  <2>1. SUFFICES ASSUME NEW n \in DOMAIN R \ Above(R, q) PROVE Within(R, n)
    OBVIOUS
  <2>2. n \in DOMAIN T /\ n # p
    BY <1>1, <1>3, <1>4 DEF Pruned
  <2>. QED
    BY <1>5, <1>6, <1>7, <1>8, <2>1, <2>2
<1>10. g # Nil => R[g].eline <= ln
  <2>1. SUFFICES ASSUME g # Nil PROVE R[g].eline <= ln
    OBVIOUS
  <2>2. g \in DOMAIN T /\ T[g].eline \in Nat /\ T[g].eline < T[fr.node].sline
    BY <1>1, <1>5, <2>1, BeforeEnds
  <2>3. R[g].eline = T[g].eline
    BY <1>3, <1>7, <2>1 DEF SameEnds
  <2>. DEFINE x == T[g].eline  o == fr.old_line
  <2>4. x \in Nat /\ x < o + 1 /\ o <= ln /\ o \in Nat
    BY <1>1, <2>2
  <2>. HIDE DEF x, o
  <2>5. x <= ln
    BY <2>4
  <2>. QED
    BY <2>3, <2>5 DEF x
<1>11. SameStarts(T, R)
  BY <1>3 DEF SameStarts, Pruned
<1>12. Spine(R, Front(fs), q, g)
  OBVIOUS
<1>13. Rooted(R)
  BY <1>3, PrunedRooted
<1>14. q = fs[Len(fs)].nodeP
  OBVIOUS
<1>. HIDE DEF q, g
<1>15. Rising(R, fs[Len(fs)].nodeP, g, Front(fs), ln)
  BY <1>6, <1>7, <1>9, <1>10, <1>11, <1>12, <1>14, PopTimes
<1>. QED
  BY <1>13, <1>14, <1>15 DEF q, g

(* A block that is over is around what it holds. *)
LEMMA ClosedRises ==
  ASSUME NEW T, GoodTree(T), NEW p, NEW f, NEW fs, NEW ln \in Nat, Rising(T, p, f, fs, ln),
         EndsIn(T, p, f), NEW R, Sheared(AllLevels, T, R, p, ln)
  PROVE  Sorted(R) /\ \A n \in DOMAIN R \ Above(R, R[p].parent) : Within(R, n)
<1>. DEFINE q == R[p].parent
<1>1. Sorted(T) /\ (\A n \in DOMAIN T \ Above(T, p) : Within(T, n)) /\ (f # Nil => T[f].eline <= ln)
  BY DEF Rising
<1>2. /\ IsTree(T, AllLevels) /\ IsTree(R, AllLevels) /\ Pruned(AllLevels, T, R)
      /\ p \in DOMAIN R /\ p \in DOMAIN T /\ p # RootId /\ T[p].parent = q
      /\ DOMAIN R \subseteq DOMAIN T
  BY DEF Sheared, Pruned
<1>3. q \in DOMAIN R
  BY <1>2 DEF IsTree, Linked
<1>4. \A i \in DOMAIN T[p].kids : T[T[p].kids[i]].eline <= ln
  <2>1. ln \in Int /\ (f = Nil \/ T[f].eline <= ln)
    BY <1>1
  <2>. QED
    BY <1>1, <1>2, <2>1, KidsEnd
<1>5. /\ Sorted(R)
      /\ \A n \in DOMAIN R : n # p /\ n # q /\ Within(T, n) => Within(R, n)
      /\ Within(R, p)
  BY <1>1, <1>4, ShearedSorted
<1>. HIDE DEF q
<1>6. Above(R, q) = Above(T, q) /\ Above(T, p) = {p} \cup Above(T, q) /\ q \in Above(T, q)
  <2>1. Above(R, q) = Above(T, q)
    BY <1>2, <1>3, PrunedAbove
  <2>2. Above(T, p) = {p} \cup Above(T, q)
    BY <1>2, AboveIs
  <2>3. q \in Above(T, q)
    BY <1>2, <1>3, AboveIs
  <2>. QED
    BY <2>1, <2>2, <2>3
<1>7. \A n \in DOMAIN R \ Above(R, q) : Within(R, n)
  <2>1. SUFFICES ASSUME NEW n \in DOMAIN R \ Above(R, q) PROVE Within(R, n)
    OBVIOUS
  <2>2. CASE n = p
    BY <1>5, <2>2
  <2>3. CASE n # p
    <3>1. n \in DOMAIN T \ Above(T, p) /\ n # q
      BY <1>2, <1>6, <2>1, <2>3
    <3>. QED
      BY <1>1, <1>5, <2>3, <3>1
  <2>. QED
    BY <2>2, <2>3
<1>. QED
  BY <1>5, <1>7 DEF q

(* R is T with node n closed at line e. *)
ClosedTo(T, n, e, R) ==
  /\ GoodTree(R) /\ DOMAIN R = DOMAIN T
  /\ \A m \in DOMAIN T :
       /\ R[m].parent = T[m].parent /\ R[m].kids = T[m].kids /\ R[m].sline = T[m].sline
       /\ R[m].eline = IF m = n THEN e ELSE T[m].eline

(* A node closed, and nothing else.                                        *)
LEMMA ClosedIs ==
  ASSUME NEW T, GoodTree(T), NEW n \in DOMAIN T, NEW e \in 0 .. MaxLines + 1
  PROVE  ClosedTo(T, n, e, [T EXCEPT ![n].eline = e])
<1>. DEFINE R == [T EXCEPT ![n].eline = e]
<1>1. IsTree(T, AllLevels) /\ e \in Nat
  BY BoundsAssumption DEF GoodTree
<1>2. \A m \in DOMAIN T :
        /\ R[m].parent = T[m].parent /\ R[m].kids = T[m].kids
        /\ R[m].sline = T[m].sline /\ R[m].level = T[m].level
        /\ R[m].eline = IF m = n THEN e ELSE T[m].eline
  BY <1>1, EndedIs
<1>3. GoodTree(R) /\ DOMAIN R = DOMAIN T
  BY BoundsAssumption, ClosedGood
<1>. HIDE DEF R
<1>4. ClosedTo(T, n, e, R)
  BY <1>2, <1>3 DEF ClosedTo
<1>. QED
  BY <1>4 DEF R

(* A block that spans lines: its node is closed and stays. *)
LEMMA SpanTimed ==
  ASSUME NEW T, GoodTree(T), NEW fs \in Seq(Frames), Len(fs) > 1,
         NEW p, NEW f, Spine(T, fs, p, f), NEW ln \in Nat, Rising(T, p, f, fs, ln), Rooted(T),
         NEW fr, fr = fs[Len(fs)], fr.old_line # ln, NEW R, ClosedTo(T, fr.node, ln, R),
         Spine(R, Front(fs), fr.nodeP, fr.node)
  PROVE  Rooted(R) /\ Rising(R, fr.nodeP, fr.node, Front(fs), ln)
<1>. DEFINE q == fr.nodeP
            k == Len(fs)
<1>1. fr \in Frames /\ Hangs(T, fr) /\ p = fr.node /\ EndsIn(T, p, f)
      /\ fr.old_line <= ln /\ T[fr.node].sline = fr.old_line + 1 /\ fr.old_line \in Nat
  <2>1. k \in 2 .. k /\ fr \in Frames
    OBVIOUS
  <2>2. fr.old_line \in Nat
    BY <2>1, BoundsAssumption DEF Frames
  <2>. QED
    BY <2>1, <2>2 DEF Spine, Rising
<1>2. /\ p \in DOMAIN T /\ p # RootId /\ T[p].parent = q /\ q \in DOMAIN T /\ EndsIn(T, q, p)
      /\ IsTree(T, AllLevels)
  BY <1>1, HangsHeld DEF Hangs, GoodTree
<1>3. /\ IsTree(R, AllLevels) /\ DOMAIN R = DOMAIN T
      /\ \A m \in DOMAIN T :
           /\ R[m].parent = T[m].parent /\ R[m].kids = T[m].kids /\ R[m].sline = T[m].sline
           /\ R[m].eline = IF m = p THEN ln ELSE T[m].eline
  BY <1>1 DEF ClosedTo, GoodTree
<1>4. T[p].sline <= ln
  <2>. DEFINE o == fr.old_line
  <2>1. o \in Nat /\ o <= ln /\ o # ln /\ T[p].sline = o + 1
    BY <1>1
  <2>. HIDE DEF o
  <2>. QED
    BY <2>1
<1>5. Sheared(AllLevels, T, R, p, ln)
  <2>1. Pruned(AllLevels, T, R)
    BY <1>2, <1>3 DEF Pruned
  <2>2. EndsIn(R, R[p].parent, p)
    BY <1>2, <1>3 DEF EndsIn
  <2>. QED
    BY <1>2, <1>3, <1>4, <2>1, <2>2 DEF Sheared
<1>6. Sorted(R) /\ \A n \in DOMAIN R \ Above(R, q) : Within(R, n)
  <2>1. Sorted(R) /\ \A n \in DOMAIN R \ Above(R, R[p].parent) : Within(R, n)
    BY <1>1, <1>5, ClosedRises
  <2>. QED
    BY <1>2, <1>3, <2>1
<1>7. Rooted(R)
  <2>1. RootId \in DOMAIN T
    BY <1>2 DEF IsTree
  <2>. QED
    BY <1>2, <1>3, <2>1 DEF Rooted
<1>8. SameStarts(T, R) /\ R[p].eline <= ln /\ q \in DOMAIN R
  BY <1>2, <1>3 DEF SameStarts
<1>9. q = fs[Len(fs)].nodeP /\ p = fr.node /\ Spine(R, Front(fs), q, p)
  BY <1>1
<1>. HIDE DEF q, k
<1>10. Rising(R, fs[Len(fs)].nodeP, p, Front(fs), ln)
  BY <1>6, <1>8, <1>9, PopTimes
<1>. QED
  BY <1>7, <1>9, <1>10 DEF q

(* The step back from the colorize() of a block.                           *)
LEMMA BlockReturnsTimed ==
  ASSUME IInv, IInv', OInv, BlockReturns
  PROVE  OInv'
<1>. DEFINE fr == Current
            oneLine == fr.old_line = line
<1>1. /\ pc = "return" /\ Len(frames) > 1 /\ pc' # "idle" /\ frames' = Front(frames)
      /\ UNCHANGED <<call, line>>
  BY DEF BlockReturns
<1>2. /\ ~Updating => UNCHANGED <<tree, parent, forward>>
      /\ Updating /\ oneLine =>
           /\ tree' = IF fr.ResF # Nil THEN dropNext(tree, fr.ResF) ELSE dropChildren(tree, fr.ResP)
           /\ forward' = fr.ResF /\ parent' = fr.ResP
      /\ Updating /\ ~oneLine =>
           /\ tree' = Closed(tree, fr.node)
           /\ forward' = fr.node /\ parent' = fr.nodeP
  BY DEF BlockReturns
<1>3. CASE ~Updating
  BY <1>1, <1>2, <1>3 DEF OInv, Idle, Updating
<1>4. CASE Updating
  <2>1. Rising(tree, parent, forward, frames, line) /\ Rooted(tree)
        /\ Spine(tree, frames, parent, forward) /\ GoodTree(tree) /\ line \in 0 .. MaxLines + 1
        /\ frames \in Seq(Frames)
    BY <1>1, <1>4 DEF OInv, Idle, IInv, Standing, Typed
  <2>2. fr = frames[Len(frames)] /\ fr \in Frames /\ line \in Nat
    BY <1>1, <2>1, TopFrame, BoundsAssumption
  <2>3. Hangs(tree, fr)
    <3>. DEFINE k == Len(frames)
    <3>1. k \in 2 .. k /\ fr = frames[k]
      BY <1>1, <2>1, <2>2
    <3>. QED
      BY <2>1, <3>1 DEF Spine
  <2>4. Spine(tree', Front(frames), parent', forward')
    BY <1>1, <1>4 DEF IInv, Standing, Updating
  <2>5. CASE oneLine
    <3>1. forward' = fr.ResF /\ parent' = fr.nodeP /\ tree' = Trimmed(tree, fr.nodeP, fr.ResF, TRUE)
      BY <1>2, <1>4, <2>3, <2>5 DEF Trimmed, Hangs
    <3>. DEFINE R == tree'  q == fr.nodeP  g == fr.ResF
    <3>2. Trims(tree, q, g)
      BY <2>1, <2>2, <2>3, HangsHeld DEF Trims, Hangs
    <3>3. R = Trimmed(tree, q, g, TRUE)
      BY <3>1
    <3>. HIDE DEF R, q, g, fr
    <3>4. TrimsTo(tree, q, g, R)
      BY <3>2, <3>3, TrimIs
    <3>5. Spine(R, Front(frames), q, g)
      BY <2>4, <3>1 DEF R, q, g
    <3>6. Rooted(R) /\ Rising(R, q, g, Front(frames), line)
      BY <1>1, <2>1, <2>2, <3>4, <3>5, WithinTimed DEF q, g
    <3>. QED
      BY <1>1, <1>4, <3>1, <3>6 DEF R, q, g, OInv, Updating, Idle
  <2>6. CASE ~oneLine
    <3>1. forward' = fr.node /\ parent' = fr.nodeP /\ tree' = Closed(tree, fr.node)
      BY <1>2, <1>4, <2>6
    <3>. DEFINE R == tree'  q == fr.nodeP  nd == fr.node
    <3>2. nd \in DOMAIN tree /\ R = [tree EXCEPT ![nd].eline = line] /\ fr.old_line # line
      BY <2>3, <2>6, <3>1 DEF Hangs, Closed
    <3>. HIDE DEF R, q, nd, fr
    <3>4. ClosedTo(tree, nd, line, R)
      BY <2>1, <3>2, ClosedIs
    <3>5. Spine(R, Front(frames), q, nd)
      BY <2>4, <3>1 DEF R, q, nd
    <3>6. Rooted(R) /\ Rising(R, q, nd, Front(frames), line)
      BY <1>1, <2>1, <2>2, <3>2, <3>4, <3>5, SpanTimed DEF q, nd
    <3>. QED
      BY <1>1, <1>4, <3>1, <3>6 DEF R, q, nd, OInv, Updating, Idle
  <2>. QED
    BY <2>5, <2>6
<1>. QED
  BY <1>3, <1>4

(* The block a parse went on in is over: its node is closed, and what the  *)
(* cache had after it is dropped.                                          *)
LEMMA ParentTimed ==
  ASSUME NEW T, GoodTree(T), NEW p \in DOMAIN T \ {RootId}, NEW f, EndsIn(T, p, f),
         NEW fs, Len(fs) = 1, NEW ln \in Nat, Rising(T, p, f, fs, ln), Rooted(T),
         NEW C, ClosedTo(T, p, ln, C), NEW R, TrimsTo(C, T[p].parent, p, R),
         NEW gs, Len(gs) = 1
  PROVE  Rooted(R) /\ Rising(R, T[p].parent, p, gs, ln)
<1>. DEFINE q == T[p].parent
<1>1. IsTree(T, AllLevels) /\ GoodTree(C) /\ DOMAIN C = DOMAIN T
      /\ \A m \in DOMAIN T :
           /\ C[m].parent = T[m].parent /\ C[m].kids = T[m].kids /\ C[m].sline = T[m].sline
           /\ C[m].eline = IF m = p THEN ln ELSE T[m].eline
  BY DEF ClosedTo, GoodTree
<1>2. Pruned(AllLevels, C, R) /\ SameEnds(C, R)
  BY <1>1, TrimsPrune
<1>3. q \in DOMAIN R /\ p \in DOMAIN R /\ EndsIn(R, q, p)
  <2>1. p # Nil
    BY <1>1 DEF IsTree, Nil
  <2>. QED
    BY <2>1 DEF TrimsTo
<1>. HIDE DEF q
<1>4. /\ IsTree(R, AllLevels) /\ DOMAIN R \subseteq DOMAIN T
      /\ \A n \in DOMAIN R :
           /\ R[n].parent = T[n].parent /\ R[n].sline = T[n].sline
           /\ R[n].eline = IF n = p THEN ln ELSE T[n].eline
           /\ \A i \in DOMAIN R[n].kids : i \in DOMAIN T[n].kids /\ R[n].kids[i] = T[n].kids[i]
  BY <1>1, <1>2 DEF Pruned, SameEnds
<1>5. Pruned(AllLevels, T, R)
  BY <1>1, <1>4 DEF Pruned
<1>6. R[p].parent = q /\ T[p].sline <= ln
  BY <1>3, <1>4 DEF Rising, Base, q
<1>7. Sheared(AllLevels, T, R, p, ln)
  BY <1>3, <1>4, <1>5, <1>6 DEF Sheared
<1>8. Sorted(R) /\ \A n \in DOMAIN R \ Above(R, q) : Within(R, n)
  <2>1. Sorted(R) /\ \A n \in DOMAIN R \ Above(R, R[p].parent) : Within(R, n)
    BY <1>7, ClosedRises
  <2>. QED
    BY <1>6, <2>1
<1>9. R[q].sline <= ln
  <2>1. \E i \in DOMAIN T[q].kids : T[q].kids[i] = p
    BY <1>1 DEF q, IsTree, Linked, ToSet
  <2>2. PICK i \in DOMAIN T[q].kids : T[q].kids[i] = p
    BY <2>1
  <2>3. q \in DOMAIN T /\ Sorted(T)
    BY <1>3, <1>4 DEF Rising
  <2>4. T[q].sline <= T[p].sline
    BY <2>2, <2>3 DEF Sorted
  <2>5. T[q].sline \in Nat /\ T[p].sline \in Nat
    BY <1>1, <2>3, LinesAreInts
  <2>. QED
    BY <1>3, <1>4, <1>6, <2>4, <2>5
<1>10. Rooted(R)
  <2>1. RootId \in DOMAIN R /\ RootId # p
    BY <1>4 DEF IsTree
  <2>. QED
    BY <1>4, <2>1 DEF Rooted
<1>11. p # Nil => R[p].eline <= ln
  BY <1>3, <1>4
<1>12. 2 .. Len(gs) = {} /\ Base(q, gs) = q
  BY DEF Base
<1>13. Rising(R, q, p, gs, ln)
  BY <1>8, <1>9, <1>11, <1>12 DEF Rising
<1>. QED
  BY <1>10, <1>13 DEF q

(* The step to the block around the one parse() went on in.                *)
LEMMA ParentReturnsTimed ==
  ASSUME IInv, IInv', OInv, ParentReturns
  PROVE  OInv'
<1>. DEFINE ended == IF Updating THEN Closed(tree, parent) ELSE tree
            q == tree[parent].parent
<1>1. /\ pc = "return" /\ Len(frames) = 1 /\ parent # RootId
      /\ Enter(ended, q, parent, Updating) /\ UNCHANGED <<call, line>>
  BY DEF ParentReturns
<1>2. /\ pc' = "line" /\ parent' = q /\ forward' = parent
      /\ tree' = Trimmed(ended, q, parent, Updating) /\ frames' = <<Bottom(ended[q].level)>>
  BY <1>1 DEF Enter
<1>3. CASE ~Updating
  <2>1. tree' = tree
    BY <1>2, <1>3 DEF Trimmed
  <2>. QED
    BY <1>1, <1>2, <1>3, <2>1 DEF OInv, Idle, Updating
<1>4. CASE Updating
  <2>1. Rising(tree, parent, forward, frames, line) /\ Rooted(tree)
        /\ EndsIn(tree, parent, forward) /\ GoodTree(tree) /\ line \in 0 .. MaxLines + 1
        /\ parent \in DOMAIN tree
    BY <1>1, <1>4 DEF OInv, Idle, IInv, Standing, Typed, Spine
  <2>2. line \in Nat
    BY <2>1, BoundsAssumption
  <2>. DEFINE C == [tree EXCEPT ![parent].eline = line]
              R == tree'
              gs == frames'
  <2>3. R = Trimmed(C, q, parent, TRUE)
    BY <1>2, <1>4 DEF Closed
  <2>4. ClosedTo(tree, parent, line, C)
    BY <2>1, ClosedIs
  <2>5. Len(gs) = 1
    <3>. DEFINE b == Bottom(ended[q].level)
    <3>1. gs = <<b>>
      BY <1>2
    <3>. HIDE DEF b
    <3>. QED
      BY <3>1
  <2>6. Trims(C, q, parent)
    <3>1. GoodTree(C) /\ DOMAIN C = DOMAIN tree /\ C[parent].parent = tree[parent].parent
      BY <2>1, <2>4 DEF ClosedTo
    <3>2. q \in DOMAIN tree
      BY <1>1, <2>1 DEF GoodTree, IsTree, Linked
    <3>. HIDE DEF C
    <3>. QED
      BY <1>1, <2>1, <3>1, <3>2 DEF Trims
  <2>. HIDE DEF C, R, gs, q
  <2>7. TrimsTo(C, q, parent, R)
    BY <2>3, <2>6, TrimIs
  <2>8. Rooted(R) /\ Rising(R, q, parent, gs, line)
    BY <1>1, <2>1, <2>2, <2>4, <2>5, <2>7, ParentTimed DEF q
  <2>. QED
    BY <1>1, <1>2, <1>4, <2>8 DEF R, gs, OInv, Idle, Updating
<1>. QED
  BY <1>3, <1>4

(* The step at the end of parse(): the root is around all that is left.    *)
LEMMA ParseReturnsTimed ==
  ASSUME IInv, OInv, ParseReturns
  PROVE  OInv'
<1>1. /\ pc = "return" /\ Len(frames) = 1 /\ parent = RootId /\ pc' = "idle" /\ tree' = tree
  BY DEF ParseReturns
<1>2. Contained(tree)
  <2>1. CASE ~Updating
    BY <2>1 DEF OInv
  <2>2. CASE Updating
    <3>1. Rising(tree, RootId, forward, frames, line) /\ Rooted(tree)
      BY <1>1, <2>2 DEF OInv, Idle
    <3>2. GoodTree(tree) /\ IsTree(tree, AllLevels)
      BY DEF IInv, GoodTree
    <3>3. Above(tree, RootId) = {RootId} /\ RootId \in DOMAIN tree
      BY <3>2, AboveIs DEF IsTree
    <3>4. Within(tree, RootId)
      <4>1. SUFFICES ASSUME NEW i \in DOMAIN tree[RootId].kids
              PROVE tree[tree[RootId].kids[i]].eline <= Unended
        BY <3>1 DEF Within, Rooted
      <4>2. tree[RootId].kids[i] \in DOMAIN tree
        BY <3>2, <3>3 DEF IsTree, Linked
      <4>3. tree[tree[RootId].kids[i]].eline \in 0 .. MaxLines + 1 \cup {Unended}
        BY <3>2, <4>2 DEF GoodTree, LineOf
      <4>. QED
        BY <4>3, BoundsAssumption DEF Unended
    <3>. QED
      BY <3>1, <3>3, <3>4 DEF Contained, Rising
  <2>. QED
    BY <2>1, <2>2
<1>. QED
  BY <1>1, <1>2 DEF OInv, Idle

(* Every step keeps the invariant.                                         *)
LEMMA NextOInv == IInv /\ IInv' /\ OInv /\ [Next]_vars => OInv'
<1>. SUFFICES ASSUME IInv, IInv', OInv, [Next]_vars PROVE OInv'
  OBVIOUS
<1>1. CASE Client
  BY <1>1, BoundsAssumption, ClientTimes
<1>2. CASE BreakParse \/ OutOfLines \/ NullLine \/ StartLine \/ ContentOver \/ Broken
             \/ MatchRegexp \/ MatchNothing
  BY <1>2, LoopStepsTimed
<1>3. CASE MatchBlock
  BY <1>3, MatchBlockTimed
<1>4. CASE BlockReturns
  BY <1>4, BlockReturnsTimed
<1>5. CASE ParentReturns
  BY <1>5, ParentReturnsTimed
<1>6. CASE ParseReturns
  BY <1>6, ParseReturnsTimed
<1>7. CASE UNCHANGED vars
  <2>1. UNCHANGED <<tree, call, pc, frames, line, parent, forward>>
    BY <1>7 DEF vars, cursor
  <2>. QED
    BY <2>1 DEF OInv, Idle, Updating
<1>. QED
  BY <1>1, <1>2, <1>3, <1>4, <1>5, <1>6, <1>7 DEF Next, Parser

(* The invariant says what CacheOrdered does.                              *)
LEMMA RestedOrdered ==
  ASSUME IInv, OInv
  PROVE  CacheOrdered
<1>. SUFFICES ASSUME Idle PROVE Ordered(tree) /\ \A l \in Lines : FindsDeepest(tree, l)
  BY DEF CacheOrdered
<1>1. Contained(tree) /\ IsTree(tree, AllLevels)
  BY DEF OInv, IInv, GoodTree
<1>2. \A l \in Lines : FindsDeepest(tree, l)
  BY <1>1, DeepestFound DEF Lines
<1>3. Ordered(tree)
  <2>1. SUFFICES ASSUME NEW n \in DOMAIN tree
          PROVE  LET kids == tree[n].kids IN
                 /\ \A i \in DOMAIN kids :
                      /\ tree[kids[i]].sline <= tree[kids[i]].eline
                      /\ tree[n].sline <= tree[kids[i]].sline /\ tree[kids[i]].eline <= tree[n].eline
                 /\ \A i \in 1 .. Len(kids) - 1 : tree[kids[i]].eline < tree[kids[i + 1]].sline
    BY DEF Ordered
  <2>. DEFINE kids == tree[n].kids
  <2>2. kids \in Seq(Nat)
    BY <1>1, LinesAreInts
  <2>3. \A i \in DOMAIN kids :
          /\ tree[kids[i]].sline <= tree[kids[i]].eline
          /\ tree[n].sline <= tree[kids[i]].sline /\ tree[kids[i]].eline <= tree[n].eline
    BY <1>1 DEF Contained, Sorted, Within
  <2>4. \A i \in 1 .. Len(kids) - 1 : i \in DOMAIN kids /\ i + 1 \in DOMAIN kids /\ i < i + 1
    <3>. HIDE DEF kids
    <3>. QED
      BY <2>2
  <2>5. \A i, j \in DOMAIN kids : i < j => tree[kids[i]].eline < tree[kids[j]].sline
    BY <1>1 DEF Contained, Sorted
  <2>. QED
    BY <2>3, <2>4, <2>5
<1>. QED
  BY <1>2, <1>3

(* The invariants hold at all times.                                       *)
THEOREM InvariantInTime == Spec => [](IInv /\ OInv)
<1>1. Init => IInv /\ OInv
  BY InitIInv, InitOInv
<1>2. IInv /\ OInv /\ [Next]_vars => IInv' /\ OInv'
  BY NextIInv, NextOInv
<1>. QED
  BY <1>1, <1>2, PTL DEF Spec

(* Between calls the cache is in order, and a search finds the deepest     *)
(* block over any line, for every grammar, text and bound (CacheOrdered;   *)
(* searchLine).                                                            *)
THEOREM Ordering == Spec => []CacheOrdered
BY InvariantInTime, RestedOrdered, PTL

-----------------------------------------------------------------------------
(* What the text does to the levels open, as the proofs use it.            *)

(* What of a level the text below and sameTryLevel depend on. *)
SigOf(level) == [block |-> level.block, tag |-> level.tag, at |-> level.at]
(* All there may be of that.                                  *)
Sigs == [block : Blocks, tag : Tokens \cup {Untagged}, at : Nat]
(* That of levels one in another.                             *)
Sig(levels) == [i \in DOMAIN levels |-> SigOf(levels[i])]

(* The innermost of the levels open. *)
InnerOf(open) == IF open = <<>> THEN SigOf(None) ELSE open[Len(open)]

(* AfterToken, on what matters of the levels. *)
After(st, s, p) ==
  LET in    == InnerOf(st.open)
      found == StartsAt(in.block, s, p, -1)
  IN IF st.taken THEN [open |-> st.open, taken |-> FALSE]
     ELSE IF found # {}
     THEN [open |-> Append(st.open, SigOf(LevelAt(CHOOSE b \in found : TRUE, s, p))), taken |-> FALSE]
     ELSE IF Token(s, p) \in Wide /\ p + 1 < Len(s) THEN [open |-> st.open, taken |-> TRUE]
     ELSE IF IsEnd(in, Token(s, p)) THEN [open |-> Front(st.open), taken |-> FALSE]
     ELSE [open |-> st.open, taken |-> FALSE]

(* The states at the places of line s, entered with open. *)
Scanned(open, s) ==
  LET scan[q \in 0 .. Len(s)] ==
        IF q = 0 THEN [open |-> open, taken |-> FALSE] ELSE After(scan[q - 1], s, q - 1)
  IN scan

(* The levels open after line s. *)
LineSig(open, s) == Scanned(open, s)[Len(s)].open

(* At place g of the line the levels open are these, and the token there is *)
(* free.                                                                    *)
Reaches(start, s, g, open) ==
  g \in 0 .. Len(s) /\ Scanned(start, s)[g] = [open |-> open, taken |-> FALSE]

(* The levels of a sequence, one by one.                                   *)
LEMMA SigIs ==
  ASSUME NEW levels \in Seq(Levels)
  PROVE  /\ Sig(levels) \in Seq(Sigs) /\ Len(Sig(levels)) = Len(levels)
         /\ \A i \in 1 .. Len(levels) : Sig(levels)[i] = SigOf(levels[i])
         /\ Sig(levels) = <<>> <=> levels = <<>>
<1>1. \A i \in 1 .. Len(levels) : levels[i] \in Levels
  OBVIOUS
<1>2. \A x \in Levels : SigOf(x) \in Sigs
  BY DEF Levels, SigOf, Sigs
<1>3. Len(levels) \in Nat /\ DOMAIN levels = 1 .. Len(levels)
  OBVIOUS
<1>4. Sig(levels) = [i \in 1 .. Len(levels) |-> SigOf(levels[i])]
  BY <1>3 DEF Sig
<1>5. Sig(levels) \in [1 .. Len(levels) -> Sigs]
  BY <1>1, <1>2, <1>4
<1>6. Sig(levels) \in Seq(Sigs)
  BY <1>3, <1>5
<1>7. Len(Sig(levels)) = Len(levels)
  BY <1>3, <1>4, <1>6
<1>8. Sig(levels) = <<>> <=> levels = <<>>
  BY <1>6, <1>7
<1>. QED
  BY <1>4, <1>6, <1>7, <1>8

(* Sequences with the same elements are the same.                          *)
LEMMA SameSeq ==
  ASSUME NEW S, NEW R, NEW s \in Seq(S), NEW t \in Seq(R), Len(s) = Len(t),
         \A i \in 1 .. Len(s) : s[i] = t[i]
  PROVE  s = t
<1>1. s = [i \in 1 .. Len(s) |-> s[i]] /\ t = [i \in 1 .. Len(t) |-> t[i]]
  OBVIOUS
<1>. QED
  BY <1>1

(* One level more.                                                         *)
LEMMA SigAppend ==
  ASSUME NEW levels \in Seq(Levels), NEW x \in Levels
  PROVE  Sig(Append(levels, x)) = Append(Sig(levels), SigOf(x))
<1>. DEFINE more == Append(levels, x)
            sg == Sig(levels)
<1>1. /\ more \in Seq(Levels) /\ Len(more) = Len(levels) + 1 /\ more[Len(levels) + 1] = x
      /\ \A i \in 1 .. Len(levels) : more[i] = levels[i]
  OBVIOUS
<1>2. /\ sg \in Seq(Sigs) /\ Len(sg) = Len(levels)
      /\ \A i \in 1 .. Len(levels) : sg[i] = SigOf(levels[i])
  BY SigIs
<1>3. SigOf(x) \in Sigs
  BY DEF Levels, SigOf, Sigs
<1>. HIDE DEF more, sg
<1>4. /\ Sig(more) \in Seq(Sigs) /\ Len(Sig(more)) = Len(more)
      /\ \A i \in 1 .. Len(more) : Sig(more)[i] = SigOf(more[i])
  BY <1>1, SigIs
<1>. DEFINE t == Append(sg, SigOf(x))
<1>5. /\ t \in Seq(Sigs) /\ Len(t) = Len(levels) + 1 /\ t[Len(levels) + 1] = SigOf(x)
      /\ \A i \in 1 .. Len(levels) : t[i] = SigOf(levels[i])
  BY <1>2, <1>3
<1>. HIDE DEF t
<1>6. \A i \in 1 .. Len(Sig(more)) : Sig(more)[i] = t[i]
  <2>1. SUFFICES ASSUME NEW i \in 1 .. Len(Sig(more)) PROVE Sig(more)[i] = t[i]
    OBVIOUS
  <2>2. Len(levels) \in Nat /\ (i \in 1 .. Len(levels) \/ i = Len(levels) + 1)
    BY <1>1, <1>4, <2>1
  <2>. QED
    BY <1>1, <1>4, <1>5, <2>1, <2>2
<1>7. Sig(more) = t
  BY <1>1, <1>4, <1>5, <1>6, SameSeq
<1>. QED
  BY <1>7 DEF more, t, sg

(* The elements of a sequence but the last.                                *)
LEMMA FrontElements ==
  ASSUME NEW S, NEW s \in Seq(S), s # <<>>
  PROVE  /\ Front(s) \in Seq(S) /\ Len(Front(s)) = Len(s) - 1 /\ Len(s) \in Nat \ {0}
         /\ \A i \in 1 .. Len(s) - 1 : Front(s)[i] = s[i]
         /\ s[Len(s)] \in S
<1>1. Len(s) \in Nat \ {0} /\ Len(s) > 0
  OBVIOUS
<1>2. s[Len(s)] \in S
  BY <1>1
<1>. QED
  BY <1>1, <1>2, FrontFrame

(* One level less.                                                         *)
LEMMA SigFront ==
  ASSUME NEW levels \in Seq(Levels), levels # <<>>
  PROVE  Sig(Front(levels)) = Front(Sig(levels))
<1>. DEFINE few == Front(levels)
            sg == Sig(levels)
<1>1. /\ few \in Seq(Levels) /\ Len(few) = Len(levels) - 1 /\ Len(levels) \in Nat \ {0}
      /\ \A i \in 1 .. Len(levels) - 1 : few[i] = levels[i]
  BY FrontElements
<1>2. /\ sg \in Seq(Sigs) /\ Len(sg) = Len(levels) /\ sg # <<>>
      /\ \A i \in 1 .. Len(levels) : sg[i] = SigOf(levels[i])
  BY SigIs
<1>. HIDE DEF few, sg
<1>3. /\ Front(sg) \in Seq(Sigs) /\ Len(Front(sg)) = Len(sg) - 1
      /\ \A i \in 1 .. Len(sg) - 1 : Front(sg)[i] = sg[i]
  BY <1>2, FrontElements
<1>4. /\ Sig(few) \in Seq(Sigs) /\ Len(Sig(few)) = Len(few)
      /\ \A i \in 1 .. Len(few) : Sig(few)[i] = SigOf(few[i])
  BY <1>1, SigIs
<1>5. \A i \in 1 .. Len(Sig(few)) : Sig(few)[i] = Front(sg)[i]
  BY <1>1, <1>2, <1>3, <1>4
<1>6. Sig(few) = Front(sg)
  BY <1>1, <1>2, <1>3, <1>4, <1>5, SameSeq
<1>. QED
  BY <1>6 DEF few, sg

(* The innermost level.                                                    *)
LEMMA InnerIs ==
  ASSUME NEW levels \in Seq(Levels)
  PROVE  InnerOf(Sig(levels)) = IF levels = <<>> THEN SigOf(None) ELSE SigOf(levels[Len(levels)])
<1>1. /\ Sig(levels) \in Seq(Sigs) /\ Len(Sig(levels)) = Len(levels)
      /\ \A i \in 1 .. Len(levels) : Sig(levels)[i] = SigOf(levels[i])
      /\ Sig(levels) = <<>> <=> levels = <<>>
  BY SigIs
<1>2. levels # <<>> => Len(levels) \in 1 .. Len(levels)
  OBVIOUS
<1>. QED
  BY <1>1, <1>2 DEF InnerOf

(* The function of Scanned is what its definition says.                    *)
LEMMA ScannedIs ==
  ASSUME NEW open, NEW s \in Seq(Tokens)
  PROVE  /\ Scanned(open, s)[0] = [open |-> open, taken |-> FALSE]
         /\ \A p \in 0 .. Len(s) - 1 : Scanned(open, s)[p + 1] = After(Scanned(open, s)[p], s, p)
<1>. DEFINE z == [open |-> open, taken |-> FALSE]
            Table(n, f) == f = [q \in 0 .. n |-> IF q = 0 THEN z ELSE After(f[q - 1], s, q - 1)]
            S == {n \in Nat : \E f : Table(n, f)}
<1>1. 0 \in S
  <2>. DEFINE f == [q \in 0 .. 0 |-> z]
  <2>1. f = [q \in 0 .. 0 |-> IF q = 0 THEN z ELSE After(f[q - 1], s, q - 1)]
    OBVIOUS
  <2>. QED
    BY <2>1
<1>2. ASSUME NEW n \in Nat, n \in S
      PROVE  n + 1 \in S
  <2>1. PICK f : Table(n, f)
    BY <1>2
  <2>. DEFINE last == After(f[n], s, n)
              h == [q \in 0 .. n + 1 |-> IF q = n + 1 THEN last ELSE f[q]]
  <2>2. \A q \in 0 .. n : h[q] = f[q]
    OBVIOUS
  <2>3. \A q \in 0 .. n : f[q] = IF q = 0 THEN z ELSE After(f[q - 1], s, q - 1)
    BY <2>1
  <2>4. h[n + 1] = last
    OBVIOUS
  <2>5. \A q \in 0 .. n + 1 : h[q] = IF q = 0 THEN z ELSE After(h[q - 1], s, q - 1)
    <3>. SUFFICES ASSUME NEW q \in 0 .. n + 1
                  PROVE  h[q] = IF q = 0 THEN z ELSE After(h[q - 1], s, q - 1)
      OBVIOUS
    <3>. HIDE DEF h
    <3>1. CASE q = n + 1
      <4>1. q - 1 = n /\ n \in 0 .. n /\ q # 0
        BY <3>1
      <4>2. h[q - 1] = f[n]
        BY <2>2, <4>1
      <4>. QED
        BY <2>4, <3>1, <4>1, <4>2
    <3>2. CASE q = 0
      <4>1. q \in 0 .. n
        BY <3>2
      <4>. QED
        BY <2>2, <2>3, <3>2, <4>1
    <3>3. CASE q # 0 /\ q # n + 1
      <4>1. q \in 0 .. n /\ q - 1 \in 0 .. n
        BY <3>3
      <4>2. h[q] = f[q] /\ h[q - 1] = f[q - 1]
        BY <2>2, <4>1
      <4>. QED
        BY <2>3, <3>3, <4>1, <4>2
    <3>. QED
      BY <3>1, <3>2, <3>3
  <2>6. h = [q \in 0 .. n + 1 |-> h[q]]
    OBVIOUS
  <2>7. Table(n + 1, h)
    <3>. HIDE DEF h
    <3>. QED
      BY <2>5, <2>6
  <2>8. \E k : Table(n + 1, k)
    <3>. HIDE DEF Table, h
    <3>. QED
      BY <2>7
  <2>9. n + 1 \in Nat
    OBVIOUS
  <2>. HIDE DEF Table
  <2>. QED
    BY <2>8, <2>9
<1>3. Nat \subseteq S
  <2>. HIDE DEF S
  <2>. QED
    BY <1>1, <1>2, SetInduction
<1>4. Len(s) \in Nat
  OBVIOUS
<1>. DEFINE f == Scanned(open, s)
<1>5. f = [q \in 0 .. Len(s) |-> IF q = 0 THEN z ELSE After(f[q - 1], s, q - 1)]
  <2>1. \E h : Table(Len(s), h)
    BY <1>3, <1>4
  <2>2. \E h : h = [q \in 0 .. Len(s) |-> IF q = 0 THEN z ELSE After(h[q - 1], s, q - 1)]
    BY <2>1
  <2>. QED
    BY <2>2 DEF Scanned
<1>. HIDE DEF f
<1>6. f[0] = z
  <2>1. 0 \in 0 .. Len(s)
    BY <1>4
  <2>. QED
    BY <1>5, <2>1
<1>7. ASSUME NEW p \in 0 .. Len(s) - 1 PROVE f[p + 1] = After(f[p], s, p)
  <2>. DEFINE q == p + 1
  <2>1. q \in 0 .. Len(s) /\ q # 0 /\ q - 1 = p
    BY <1>4
  <2>. HIDE DEF q
  <2>2. f[q] = After(f[q - 1], s, q - 1)
    BY <1>5, <2>1
  <2>. QED
    BY <2>1, <2>2 DEF q
<1>. QED
  BY <1>6, <1>7 DEF f

(* The line from its beginning.                                            *)
LEMMA ReachStart ==
  ASSUME NEW open, NEW s \in Seq(Tokens)
  PROVE  Reaches(open, s, 0, open)
<1>1. 0 \in 0 .. Len(s)
  OBVIOUS
<1>. QED
  BY <1>1, ScannedIs DEF Reaches

(* The line to its end.                                                    *)
LEMMA ReachLine ==
  ASSUME NEW start, NEW s \in Seq(Tokens), NEW open, Reaches(start, s, Len(s), open)
  PROVE  LineSig(start, s) = open
BY DEF Reaches, LineSig

(* One token on.                                                           *)
LEMMA ReachNext ==
  ASSUME NEW start, NEW s \in Seq(Tokens), NEW g, NEW open, Reaches(start, s, g, open), g < Len(s)
  PROVE  /\ g + 1 \in 0 .. Len(s) /\ g \in Nat
         /\ Scanned(start, s)[g + 1] = After([open |-> open, taken |-> FALSE], s, g)
<1>1. g \in 0 .. Len(s) - 1 /\ g + 1 \in 0 .. Len(s) /\ g \in Nat
  BY DEF Reaches
<1>. QED
  BY <1>1, ScannedIs DEF Reaches

(* A block starts.                                                         *)
LEMMA ReachBlock ==
  ASSUME NEW start, NEW s \in Seq(Tokens), NEW g, NEW open, Reaches(start, s, g, open), g < Len(s),
         NEW found, found = StartsAt(InnerOf(open).block, s, g, -1), found # {}
  PROVE  Reaches(start, s, g + 1, Append(open, SigOf(LevelAt(CHOOSE b \in found : TRUE, s, g))))
<1>. DEFINE st == [open |-> open, taken |-> FALSE]
<1>1. g + 1 \in 0 .. Len(s) /\ Scanned(start, s)[g + 1] = After(st, s, g)
  BY ReachNext
<1>2. st.open = open /\ st.taken = FALSE
  OBVIOUS
<1>. HIDE DEF st
<1>3. After(st, s, g) = [open |-> Append(open, SigOf(LevelAt(CHOOSE b \in found : TRUE, s, g))), taken |-> FALSE]
  BY <1>2 DEF After
<1>. QED
  BY <1>1, <1>3 DEF Reaches

(* A regexp takes two tokens.                                              *)
LEMMA ReachWide ==
  ASSUME NEW start, NEW s \in Seq(Tokens), NEW g, NEW open, Reaches(start, s, g, open), g + 1 < Len(s),
         StartsAt(InnerOf(open).block, s, g, -1) = {}, Token(s, g) \in Wide
  PROVE  Reaches(start, s, g + 2, open)
<1>1. g \in Nat /\ Len(s) \in Nat
  BY DEF Reaches
<1>2. g \in 0 .. Len(s) - 1 /\ g + 1 \in 0 .. Len(s) - 1 /\ g + 2 \in 0 .. Len(s) /\ (g + 1) + 1 = g + 2 /\ g < Len(s)
  BY <1>1
<1>3. Scanned(start, s)[g + 1] = [open |-> open, taken |-> TRUE]
  <2>1. Scanned(start, s)[g + 1] = After([open |-> open, taken |-> FALSE], s, g)
    BY <1>2, ReachNext
  <2>. QED
    BY <2>1 DEF After
<1>4. Scanned(start, s)[g + 2] = After(Scanned(start, s)[g + 1], s, g + 1)
  <2>. DEFINE h == g + 1
  <2>1. h \in 0 .. Len(s) - 1 /\ h + 1 = g + 2
    BY <1>2
  <2>. HIDE DEF h
  <2>2. Scanned(start, s)[h + 1] = After(Scanned(start, s)[h], s, h)
    BY <2>1, ScannedIs
  <2>. QED
    BY <2>1, <2>2 DEF h
<1>5. Scanned(start, s)[g + 2] = [open |-> open, taken |-> FALSE]
  BY <1>3, <1>4 DEF After
<1>. QED
  BY <1>2, <1>5 DEF Reaches

(* The innermost block ends.                                               *)
LEMMA ReachEnd ==
  ASSUME NEW start, NEW s \in Seq(Tokens), NEW g, NEW open, Reaches(start, s, g, open), g < Len(s),
         StartsAt(InnerOf(open).block, s, g, -1) = {},
         ~(Token(s, g) \in Wide /\ g + 1 < Len(s)), IsEnd(InnerOf(open), Token(s, g))
  PROVE  Reaches(start, s, g + 1, Front(open))
<1>. DEFINE st == [open |-> open, taken |-> FALSE]
<1>1. g + 1 \in 0 .. Len(s) /\ Scanned(start, s)[g + 1] = After(st, s, g)
  BY ReachNext
<1>2. st.open = open /\ st.taken = FALSE
  OBVIOUS
<1>. HIDE DEF st
<1>3. After(st, s, g) = [open |-> Front(open), taken |-> FALSE]
  BY <1>2 DEF After
<1>. QED
  BY <1>1, <1>3 DEF Reaches

(* The token means nothing.                                                *)
LEMMA ReachOver ==
  ASSUME NEW start, NEW s \in Seq(Tokens), NEW g, NEW open, Reaches(start, s, g, open), g < Len(s),
         StartsAt(InnerOf(open).block, s, g, -1) = {},
         ~(Token(s, g) \in Wide /\ g + 1 < Len(s)), ~IsEnd(InnerOf(open), Token(s, g))
  PROVE  Reaches(start, s, g + 1, open)
<1>. DEFINE st == [open |-> open, taken |-> FALSE]
<1>1. g + 1 \in 0 .. Len(s) /\ Scanned(start, s)[g + 1] = After(st, s, g)
  BY ReachNext
<1>2. st.open = open /\ st.taken = FALSE
  OBVIOUS
<1>. HIDE DEF st
<1>3. After(st, s, g) = [open |-> open, taken |-> FALSE]
  BY <1>2 DEF After
<1>. QED
  BY <1>1, <1>3 DEF Reaches

(* Levels with the places their blocks began at, as AfterToken keeps them. *)
Opens == [level : Levels, start : Int]
(* The levels of these.                                                    *)
LevelsOf(open) == [i \in DOMAIN open |-> open[i].level]

(* A state of AfterToken. *)
StateOf(open, taken) == [open |-> open, taken |-> taken]
(* The same for After.    *)
SigState(open, taken) == [open |-> Sig(LevelsOf(open)), taken |-> taken]
(* The states that are the same so. *)
Mirrors(sg, st) ==
  \E open \in Seq(Opens), taken \in BOOLEAN : st = StateOf(open, taken) /\ sg = SigState(open, taken)

(* The levels of such a sequence.                                          *)
LEMMA LevelsOfIs ==
  ASSUME NEW open \in Seq(Opens)
  PROVE  /\ LevelsOf(open) \in Seq(Levels) /\ Len(LevelsOf(open)) = Len(open)
         /\ \A i \in 1 .. Len(open) : LevelsOf(open)[i] = open[i].level
         /\ LevelsOf(open) = <<>> <=> open = <<>>
<1>1. Len(open) \in Nat /\ DOMAIN open = 1 .. Len(open) /\ \A i \in 1 .. Len(open) : open[i] \in Opens
  OBVIOUS
<1>2. LevelsOf(open) = [i \in 1 .. Len(open) |-> open[i].level]
  BY <1>1 DEF LevelsOf
<1>3. \A x \in Opens : x.level \in Levels
  BY DEF Opens
<1>4. LevelsOf(open) \in [1 .. Len(open) -> Levels]
  BY <1>1, <1>2, <1>3
<1>5. LevelsOf(open) \in Seq(Levels)
  BY <1>1, <1>4
<1>6. Len(LevelsOf(open)) = Len(open)
  BY <1>1, <1>2, <1>5
<1>. QED
  BY <1>1, <1>2, <1>5, <1>6

(* One more.                                                               *)
LEMMA LevelsOfAppend ==
  ASSUME NEW open \in Seq(Opens), NEW x \in Opens
  PROVE  LevelsOf(Append(open, x)) = Append(LevelsOf(open), x.level) /\ Append(open, x) \in Seq(Opens)
<1>. DEFINE more == Append(open, x)
            ls == LevelsOf(open)
            v == x.level
            t == Append(ls, v)
<1>1. /\ more \in Seq(Opens) /\ Len(more) = Len(open) + 1 /\ more[Len(open) + 1] = x
      /\ \A i \in 1 .. Len(open) : more[i] = open[i]
  OBVIOUS
<1>2. /\ ls \in Seq(Levels) /\ Len(ls) = Len(open)
      /\ \A i \in 1 .. Len(open) : ls[i] = open[i].level
  BY LevelsOfIs
<1>3. v \in Levels
  BY DEF Opens
<1>. HIDE DEF more, ls, v
<1>4. /\ LevelsOf(more) \in Seq(Levels) /\ Len(LevelsOf(more)) = Len(more)
      /\ \A i \in 1 .. Len(more) : LevelsOf(more)[i] = more[i].level
  BY <1>1, LevelsOfIs
<1>5. /\ t \in Seq(Levels) /\ Len(t) = Len(open) + 1 /\ t[Len(open) + 1] = v
      /\ \A i \in 1 .. Len(open) : t[i] = open[i].level
  BY <1>2, <1>3
<1>. HIDE DEF t
<1>6. \A i \in 1 .. Len(LevelsOf(more)) : LevelsOf(more)[i] = t[i]
  <2>1. SUFFICES ASSUME NEW i \in 1 .. Len(LevelsOf(more)) PROVE LevelsOf(more)[i] = t[i]
    OBVIOUS
  <2>2. Len(open) \in Nat /\ (i \in 1 .. Len(open) \/ i = Len(open) + 1)
    BY <1>1, <1>4, <2>1
  <2>3. more[Len(open) + 1].level = v
    BY <1>1 DEF v
  <2>. QED
    BY <1>1, <1>4, <1>5, <2>1, <2>2, <2>3
<1>7. LevelsOf(more) = t
  BY <1>1, <1>4, <1>5, <1>6, SameSeq
<1>. QED
  BY <1>1, <1>7 DEF more, t, ls, v

(* One less.                                                               *)
LEMMA LevelsOfFront ==
  ASSUME NEW open \in Seq(Opens), open # <<>>
  PROVE  LevelsOf(Front(open)) = Front(LevelsOf(open)) /\ Front(open) \in Seq(Opens)
<1>. DEFINE few == Front(open)
            ls == LevelsOf(open)
<1>1. /\ few \in Seq(Opens) /\ Len(few) = Len(open) - 1 /\ Len(open) \in Nat \ {0}
      /\ \A i \in 1 .. Len(open) - 1 : few[i] = open[i]
  BY FrontElements
<1>2. /\ ls \in Seq(Levels) /\ Len(ls) = Len(open) /\ ls # <<>>
      /\ \A i \in 1 .. Len(open) : ls[i] = open[i].level
  BY LevelsOfIs
<1>. HIDE DEF few, ls
<1>3. /\ Front(ls) \in Seq(Levels) /\ Len(Front(ls)) = Len(ls) - 1
      /\ \A i \in 1 .. Len(ls) - 1 : Front(ls)[i] = ls[i]
  BY <1>2, FrontElements
<1>4. /\ LevelsOf(few) \in Seq(Levels) /\ Len(LevelsOf(few)) = Len(few)
      /\ \A i \in 1 .. Len(few) : LevelsOf(few)[i] = few[i].level
  BY <1>1, LevelsOfIs
<1>5. \A i \in 1 .. Len(LevelsOf(few)) : LevelsOf(few)[i] = Front(ls)[i]
  <2>1. SUFFICES ASSUME NEW i \in 1 .. Len(LevelsOf(few)) PROVE LevelsOf(few)[i] = Front(ls)[i]
    OBVIOUS
  <2>2. i \in 1 .. Len(few) /\ i \in 1 .. Len(open) - 1 /\ i \in 1 .. Len(open) /\ i \in 1 .. Len(ls) - 1
    BY <1>1, <1>2, <1>4, <2>1
  <2>3. few[i] = open[i]
    BY <1>1, <2>2
  <2>. QED
    BY <1>2, <1>3, <1>4, <2>2, <2>3
<1>6. LevelsOf(few) = Front(ls)
  BY <1>1, <1>2, <1>3, <1>4, <1>5, SameSeq
<1>. QED
  BY <1>1, <1>6 DEF few, ls

(* The level of a block that starts.                                       *)
LEMMA StartLevel ==
  ASSUME TokensAssumption, BlocksAssumption, NEW s \in Seq(Tokens), NEW p \in Nat,
         NEW block \in Blocks \cup {Top}, NEW start, NEW b \in StartsAt(block, s, p, start)
  PROVE  /\ LevelAt(b, s, p) \in Levels /\ LevelAt(b, s, p).at = p /\ LevelAt(b, s, p).block = b
         /\ Token(s, p) \in Tokens /\ p < Len(s)
<1>1. b \in Blocks /\ Token(s, p) \in Starts[b] /\ Starts[b] \subseteq Tokens
  BY DEF StartsAt, BlocksAssumption
<1>2. Token(s, p) \in Tokens
  BY <1>1
<1>3. p < Len(s)
  BY <1>2 DEF Token, TokensAssumption
<1>4. LevelAt(b, s, p) \in Levels
  BY <1>1, <1>2, LevelAtIs
<1>5. LevelAt(b, s, p).at = p /\ LevelAt(b, s, p).block = b
  BY DEF LevelAt
<1>. QED
  BY <1>2, <1>3, <1>4, <1>5

(* Without ~ where a block began does not matter.                          *)
LEMMA AnyStart ==
  ASSUME AtStart = {}, NEW block, NEW s, NEW p, NEW x, NEW y
  PROVE  StartsAt(block, s, p, x) = StartsAt(block, s, p, y)
BY DEF StartsAt

(* The innermost level of a state.                                         *)
LEMMA InnermostIs ==
  ASSUME TokensAssumption, BlocksAssumption, NEW open \in Seq(Opens)
  PROVE  LET in == Innermost(open) sg == InnerOf(Sig(LevelsOf(open))) IN
         /\ sg.block = in.level.block /\ sg.tag = in.level.tag
         /\ sg.block \in Blocks \cup {Top}
         /\ sg.block # Top => open # <<>>
<1>1. LevelsOf(open) \in Seq(Levels) /\ (LevelsOf(open) = <<>> <=> open = <<>>)
      /\ Len(LevelsOf(open)) = Len(open)
      /\ \A i \in 1 .. Len(open) : LevelsOf(open)[i] = open[i].level
  BY LevelsOfIs
<1>2. InnerOf(Sig(LevelsOf(open))) =
        IF LevelsOf(open) = <<>> THEN SigOf(None) ELSE SigOf(LevelsOf(open)[Len(LevelsOf(open))])
  BY <1>1, InnerIs
<1>3. CASE open = <<>>
  <2>1. Innermost(open).level = None /\ InnerOf(Sig(LevelsOf(open))) = SigOf(None)
    BY <1>1, <1>2, <1>3 DEF Innermost, Opened
  <2>. QED
    BY <2>1 DEF SigOf, None
<1>4. CASE open # <<>>
  <2>1. Len(open) \in 1 .. Len(open) /\ open[Len(open)] \in Opens
    BY <1>4
  <2>2. Innermost(open) = open[Len(open)]
    BY <1>4 DEF Innermost, Last
  <2>3. InnerOf(Sig(LevelsOf(open))) = SigOf(open[Len(open)].level)
    BY <1>1, <1>2, <1>4, <2>1
  <2>4. open[Len(open)].level \in Levels
    BY <2>1 DEF Opens
  <2>. QED
    BY <1>4, <2>2, <2>3, <2>4 DEF SigOf, Levels
<1>. QED
  BY <1>3, <1>4

(* What AfterToken does to a state.                                        *)
LEMMA AfterTokenOf ==
  ASSUME NEW open, NEW taken \in BOOLEAN, NEW s, NEW p
  PROVE  LET in    == Innermost(open)
             found == StartsAt(in.level.block, s, p, in.start)
             level == LevelAt(CHOOSE b \in found : TRUE, s, p)
         IN AfterToken(StateOf(open, taken), s, p) =
              IF taken THEN StateOf(open, FALSE)
              ELSE IF found # {} THEN StateOf(Append(open, Opened(level, p + 1)), FALSE)
              ELSE IF Token(s, p) \in Wide /\ p + 1 < Len(s) THEN StateOf(open, TRUE)
              ELSE IF IsEnd(in.level, Token(s, p)) THEN StateOf(Front(open), FALSE)
              ELSE StateOf(open, FALSE)
<1>. DEFINE st == StateOf(open, taken)
            in == Innermost(open)
            found == StartsAt(in.level.block, s, p, in.start)
            level == LevelAt(CHOOSE b \in found : TRUE, s, p)
<1>1. st.open = open /\ st.taken = taken
  BY DEF StateOf
<1>2. AfterToken(st, s, p) =
        IF taken THEN StateOf(open, FALSE)
        ELSE IF found # {} THEN StateOf(Append(open, Opened(level, p + 1)), taken)
        ELSE IF Token(s, p) \in Wide /\ p + 1 < Len(s) THEN StateOf(open, TRUE)
        ELSE IF IsEnd(in.level, Token(s, p)) THEN StateOf(Front(open), taken)
        ELSE st
  <2>1. [st EXCEPT !.taken = FALSE] = StateOf(open, FALSE) /\ [st EXCEPT !.taken = TRUE] = StateOf(open, TRUE)
    <3>1. \A z : [StateOf(open, taken) EXCEPT !.taken = z] = StateOf(open, z)
      BY DEF StateOf
    <3>. QED
      BY <3>1
  <2>2. [st EXCEPT !.open = Append(@, Opened(level, p + 1))] = StateOf(Append(open, Opened(level, p + 1)), taken)
    <3>. DEFINE o == Opened(level, p + 1)
    <3>. HIDE DEF o
    <3>1. \A z : [st EXCEPT !.open = z] = StateOf(z, taken)
      BY DEF StateOf
    <3>. HIDE DEF st
    <3>2. [st EXCEPT !.open = Append(@, o)] = [st EXCEPT !.open = Append(st.open, o)]
      OBVIOUS
    <3>3. [st EXCEPT !.open = Append(st.open, o)] = StateOf(Append(st.open, o), taken)
      BY <3>1
    <3>4. [st EXCEPT !.open = Append(@, o)] = StateOf(Append(open, o), taken)
      BY <1>1, <3>2, <3>3
    <3>. QED
      BY <3>4 DEF o
  <2>3. [st EXCEPT !.open = Front(@)] = StateOf(Front(open), taken)
    BY DEF StateOf
  <2>. HIDE DEF st, in
  <2>4. in = Innermost(st.open)
    BY <1>1 DEF in
  <2>. QED
    BY <1>1, <2>1, <2>2, <2>3, <2>4 DEF AfterToken
<1>3. taken \/ (taken = FALSE /\ st = StateOf(open, FALSE))
  OBVIOUS
<1>. HIDE DEF st, in, found, level
<1>4. AfterToken(st, s, p) =
        IF taken THEN StateOf(open, FALSE)
        ELSE IF found # {} THEN StateOf(Append(open, Opened(level, p + 1)), FALSE)
        ELSE IF Token(s, p) \in Wide /\ p + 1 < Len(s) THEN StateOf(open, TRUE)
        ELSE IF IsEnd(in.level, Token(s, p)) THEN StateOf(Front(open), FALSE)
        ELSE StateOf(open, FALSE)
  BY <1>2, <1>3
<1>. QED
  BY <1>4 DEF st, in, found, level

(* AfterToken does to the levels what After does to what matters of them.  *)
LEMMA AfterTokenIs ==
  ASSUME TokensAssumption, BlocksAssumption, AtStart = {}, NEW x, NEW y, Mirrors(x, y),
         NEW s \in Seq(Tokens), NEW p \in Nat
  PROVE  Mirrors(After(x, s, p), AfterToken(y, s, p))
<1>0. PICK open \in Seq(Opens), taken \in BOOLEAN : y = StateOf(open, taken) /\ x = SigState(open, taken)
  BY DEF Mirrors
<1>. SUFFICES \E more \in Seq(Opens), t \in BOOLEAN :
                /\ AfterToken(StateOf(open, taken), s, p) = StateOf(more, t)
                /\ After(SigState(open, taken), s, p) = SigState(more, t)
  BY <1>0 DEF Mirrors
<1>. DEFINE st == StateOf(open, taken)
            sg == SigState(open, taken)
            in == Innermost(open)
            top == InnerOf(Sig(LevelsOf(open)))
            found == StartsAt(in.level.block, s, p, in.start)
            level == LevelAt(CHOOSE b \in found : TRUE, s, p)
<1>1. st.open = open /\ st.taken = taken /\ sg.open = Sig(LevelsOf(open)) /\ sg.taken = taken
  BY DEF StateOf, SigState
<1>2. top.block = in.level.block /\ top.tag = in.level.tag /\ top.block \in Blocks \cup {Top}
      /\ (top.block # Top => open # <<>>)
  BY InnermostIs
<1>3. StartsAt(top.block, s, p, -1) = found
  BY <1>2, AnyStart
<1>4. IsEnd(top, Token(s, p)) = IsEnd(in.level, Token(s, p))
  BY <1>2 DEF IsEnd
<1>6. AfterToken(st, s, p) =
        IF taken THEN StateOf(open, FALSE)
        ELSE IF found # {} THEN StateOf(Append(open, Opened(level, p + 1)), FALSE)
        ELSE IF Token(s, p) \in Wide /\ p + 1 < Len(s) THEN StateOf(open, TRUE)
        ELSE IF IsEnd(in.level, Token(s, p)) THEN StateOf(Front(open), FALSE)
        ELSE StateOf(open, FALSE)
  BY AfterTokenOf
<1>7. After(sg, s, p) =
        IF taken THEN [open |-> Sig(LevelsOf(open)), taken |-> FALSE]
        ELSE IF found # {} THEN [open |-> Append(Sig(LevelsOf(open)), SigOf(level)), taken |-> FALSE]
        ELSE IF Token(s, p) \in Wide /\ p + 1 < Len(s) THEN [open |-> Sig(LevelsOf(open)), taken |-> TRUE]
        ELSE IF IsEnd(top, Token(s, p)) THEN [open |-> Front(Sig(LevelsOf(open))), taken |-> FALSE]
        ELSE [open |-> Sig(LevelsOf(open)), taken |-> FALSE]
  <2>. HIDE DEF sg, in
  <2>. QED
    BY <1>1, <1>3 DEF After
<1>8. LevelsOf(open) \in Seq(Levels) /\ (LevelsOf(open) = <<>> <=> open = <<>>)
  BY LevelsOfIs
<1>. HIDE DEF st, sg, in, top
<1>9. CASE taken
  <2>1. AfterToken(st, s, p) = StateOf(open, FALSE) /\ After(sg, s, p) = SigState(open, FALSE)
    BY <1>6, <1>7, <1>9 DEF SigState
  <2>. QED
    BY <2>1 DEF st, sg
<1>10. CASE ~taken /\ found # {}
  <2>. DEFINE o == Opened(level, p + 1)
  <2>1. (CHOOSE b \in found : TRUE) \in found
    BY <1>10
  <2>2. level \in Levels
    <3>1. PICK b \in found : b = CHOOSE c \in found : TRUE
      BY <2>1
    <3>2. b \in StartsAt(top.block, s, p, -1)
      BY <1>3
    <3>3. LevelAt(b, s, p) \in Levels
      BY <1>2, <3>2, StartLevel
    <3>. QED
      BY <3>1, <3>3
  <2>. HIDE DEF level
  <2>3. o \in Opens /\ o.level = level
    BY <2>2 DEF Opened, Opens
  <2>. HIDE DEF o
  <2>4. LevelsOf(Append(open, o)) = Append(LevelsOf(open), o.level) /\ Append(open, o) \in Seq(Opens)
    BY <2>3, LevelsOfAppend
  <2>5. Sig(Append(LevelsOf(open), level)) = Append(Sig(LevelsOf(open)), SigOf(level))
    BY <1>8, <2>2, SigAppend
  <2>6. AfterToken(st, s, p) = StateOf(Append(open, o), FALSE)
    BY <1>6, <1>10 DEF o
  <2>7. After(sg, s, p) = SigState(Append(open, o), FALSE)
    BY <1>7, <1>10, <2>3, <2>4, <2>5 DEF SigState
  <2>. QED
    BY <2>4, <2>6, <2>7 DEF st, sg
<1>11. CASE ~taken /\ found = {} /\ Token(s, p) \in Wide /\ p + 1 < Len(s)
  <2>1. AfterToken(st, s, p) = StateOf(open, TRUE) /\ After(sg, s, p) = SigState(open, TRUE)
    BY <1>6, <1>7, <1>11 DEF SigState
  <2>. QED
    BY <2>1 DEF st, sg
<1>12. CASE ~taken /\ found = {} /\ ~(Token(s, p) \in Wide /\ p + 1 < Len(s)) /\ IsEnd(top, Token(s, p))
  <2>1. top.block # Top
    BY <1>12 DEF IsEnd
  <2>2. open # <<>>
    BY <1>2, <2>1
  <2>3. LevelsOf(Front(open)) = Front(LevelsOf(open)) /\ Front(open) \in Seq(Opens)
    BY <2>2, LevelsOfFront
  <2>4. Sig(Front(LevelsOf(open))) = Front(Sig(LevelsOf(open)))
    BY <1>8, <2>2, SigFront
  <2>5. AfterToken(st, s, p) = StateOf(Front(open), FALSE)
    BY <1>4, <1>6, <1>12
  <2>6. After(sg, s, p) = SigState(Front(open), FALSE)
    BY <1>7, <1>12, <2>3, <2>4 DEF SigState
  <2>. QED
    BY <2>3, <2>5, <2>6 DEF st, sg
<1>13. CASE ~taken /\ found = {} /\ ~(Token(s, p) \in Wide /\ p + 1 < Len(s)) /\ ~IsEnd(top, Token(s, p))
  <2>1. AfterToken(st, s, p) = StateOf(open, FALSE) /\ After(sg, s, p) = SigState(open, FALSE)
    BY <1>4, <1>6, <1>7, <1>13 DEF SigState, st
  <2>. QED
    BY <2>1 DEF st, sg
<1>. QED
  BY <1>9, <1>10, <1>11, <1>12, <1>13

(* The state ScanTo begins in. *)
Fresh(levels) == StateOf([i \in DOMAIN levels |-> Opened(levels[i], -1)], FALSE)
(* The states it goes through. *)
ScanOf(levels, s) ==
  LET scan[q \in 0 .. Len(s)] ==
        IF q = 0 THEN [open |-> [i \in DOMAIN levels |-> Opened(levels[i], -1)], taken |-> FALSE]
        ELSE AfterToken(scan[q - 1], s, q - 1)
  IN scan

(* They are what the definition says.                                      *)
LEMMA ScanOfIs ==
  ASSUME NEW levels, NEW s \in Seq(Tokens)
  PROVE  /\ \A p : ScanTo(levels, s, p) = LevelsOf(ScanOf(levels, s)[p].open)
         /\ ScanOf(levels, s)[0] = Fresh(levels)
         /\ \A p \in 0 .. Len(s) - 1 : ScanOf(levels, s)[p + 1] = AfterToken(ScanOf(levels, s)[p], s, p)
<1>. DEFINE z == [open |-> [i \in DOMAIN levels |-> Opened(levels[i], -1)], taken |-> FALSE]
            Table(n, f) == f = [q \in 0 .. n |-> IF q = 0 THEN z ELSE AfterToken(f[q - 1], s, q - 1)]
            S == {n \in Nat : \E f : Table(n, f)}
<1>1. 0 \in S
  <2>. DEFINE f == [q \in 0 .. 0 |-> z]
  <2>1. f = [q \in 0 .. 0 |-> IF q = 0 THEN z ELSE AfterToken(f[q - 1], s, q - 1)]
    OBVIOUS
  <2>. QED
    BY <2>1
<1>2. ASSUME NEW n \in Nat, n \in S
      PROVE  n + 1 \in S
  <2>1. PICK f : Table(n, f)
    BY <1>2
  <2>. DEFINE last == AfterToken(f[n], s, n)
              h == [q \in 0 .. n + 1 |-> IF q = n + 1 THEN last ELSE f[q]]
  <2>2. \A q \in 0 .. n : h[q] = f[q]
    OBVIOUS
  <2>3. \A q \in 0 .. n : f[q] = IF q = 0 THEN z ELSE AfterToken(f[q - 1], s, q - 1)
    BY <2>1
  <2>4. h[n + 1] = last
    OBVIOUS
  <2>5. \A q \in 0 .. n + 1 : h[q] = IF q = 0 THEN z ELSE AfterToken(h[q - 1], s, q - 1)
    <3>. SUFFICES ASSUME NEW q \in 0 .. n + 1
                  PROVE  h[q] = IF q = 0 THEN z ELSE AfterToken(h[q - 1], s, q - 1)
      OBVIOUS
    <3>. HIDE DEF h
    <3>1. CASE q = n + 1
      <4>1. q - 1 = n /\ n \in 0 .. n /\ q # 0
        BY <3>1
      <4>2. h[q - 1] = f[n]
        BY <2>2, <4>1
      <4>. QED
        BY <2>4, <3>1, <4>1, <4>2
    <3>2. CASE q = 0
      <4>1. q \in 0 .. n
        BY <3>2
      <4>. QED
        BY <2>2, <2>3, <3>2, <4>1
    <3>3. CASE q # 0 /\ q # n + 1
      <4>1. q \in 0 .. n /\ q - 1 \in 0 .. n
        BY <3>3
      <4>2. h[q] = f[q] /\ h[q - 1] = f[q - 1]
        BY <2>2, <4>1
      <4>. QED
        BY <2>3, <3>3, <4>1, <4>2
    <3>. QED
      BY <3>1, <3>2, <3>3
  <2>6. h = [q \in 0 .. n + 1 |-> h[q]]
    OBVIOUS
  <2>7. Table(n + 1, h)
    <3>. HIDE DEF h
    <3>. QED
      BY <2>5, <2>6
  <2>8. \E k : Table(n + 1, k)
    <3>. HIDE DEF Table, h
    <3>. QED
      BY <2>7
  <2>9. n + 1 \in Nat
    OBVIOUS
  <2>. HIDE DEF Table
  <2>. QED
    BY <2>8, <2>9
<1>3. Nat \subseteq S
  <2>. HIDE DEF S
  <2>. QED
    BY <1>1, <1>2, SetInduction
<1>4. Len(s) \in Nat
  OBVIOUS
<1>5. PICK f : Table(Len(s), f)
  BY <1>3, <1>4
<1>. DEFINE scan == ScanOf(levels, s)
<1>6. scan = [q \in 0 .. Len(s) |-> IF q = 0 THEN z ELSE AfterToken(scan[q - 1], s, q - 1)]
  <2>1. \E h : h = [q \in 0 .. Len(s) |-> IF q = 0 THEN z ELSE AfterToken(h[q - 1], s, q - 1)]
    BY <1>5
  <2>. QED
    BY <2>1 DEF ScanOf
<1>7. \A p : ScanTo(levels, s, p) = LevelsOf(scan[p].open)
  BY DEF ScanTo, ScanOf, LevelsOf
<1>. HIDE DEF scan
<1>8. scan[0] = Fresh(levels)
  <2>1. 0 \in 0 .. Len(s)
    BY <1>4
  <2>2. scan[0] = z
    BY <1>6, <2>1
  <2>. QED
    BY <2>2 DEF Fresh, StateOf
<1>. HIDE DEF z
<1>9. ASSUME NEW p \in 0 .. Len(s) - 1 PROVE scan[p + 1] = AfterToken(scan[p], s, p)
  <2>. DEFINE q == p + 1
  <2>1. q \in 0 .. Len(s) /\ q # 0 /\ q - 1 = p
    BY <1>4
  <2>. HIDE DEF q
  <2>2. scan[q] = AfterToken(scan[q - 1], s, q - 1)
    BY <1>6, <2>1
  <2>. QED
    BY <2>1, <2>2 DEF q
<1>. QED
  BY <1>7, <1>8, <1>9 DEF scan

(* The state it begins in has the levels it is given.                      *)
LEMMA FreshIs ==
  ASSUME NEW levels \in Seq(Levels)
  PROVE  \E open \in Seq(Opens) : Fresh(levels) = StateOf(open, FALSE) /\ LevelsOf(open) = levels
<1>. DEFINE open0 == [i \in DOMAIN levels |-> Opened(levels[i], -1)]
<1>1. /\ Len(levels) \in Nat /\ DOMAIN levels = 1 .. Len(levels)
      /\ \A i \in 1 .. Len(levels) : levels[i] \in Levels
  OBVIOUS
<1>2. \A x \in Levels : Opened(x, -1) \in Opens /\ Opened(x, -1).level = x
  BY DEF Opened, Opens
<1>3. open0 \in [1 .. Len(levels) -> Opens]
  BY <1>1, <1>2
<1>4. open0 \in Seq(Opens) /\ DOMAIN open0 = 1 .. Len(levels)
  BY <1>1, <1>3
<1>5. \A i \in 1 .. Len(levels) : open0[i].level = levels[i]
  BY <1>1, <1>2
<1>6. LevelsOf(open0) = [i \in 1 .. Len(levels) |-> levels[i]]
  BY <1>4, <1>5 DEF LevelsOf
<1>7. LevelsOf(open0) = levels
  BY <1>1, <1>6
<1>. QED
  BY <1>4, <1>7 DEF Fresh

(* ScanTo does to the levels what Scanned does to what matters of them.    *)
LEMMA ScanToIs ==
  ASSUME TokensAssumption, BlocksAssumption, AtStart = {}, NEW levels \in Seq(Levels),
         NEW s \in Seq(Tokens), NEW p \in 0 .. Len(s)
  PROVE  /\ ScanTo(levels, s, p) \in Seq(Levels)
         /\ Sig(ScanTo(levels, s, p)) = Scanned(Sig(levels), s)[p].open
<1>. DEFINE scan == ScanOf(levels, s)
            Q == {n \in Nat : n <= Len(s) => Mirrors(Scanned(Sig(levels), s)[n], scan[n])}
<1>4. Len(s) \in Nat /\ p \in Nat /\ p <= Len(s)
  OBVIOUS
<1>6. /\ scan[0] = Fresh(levels) /\ ScanTo(levels, s, p) = LevelsOf(scan[p].open)
      /\ \A n \in 0 .. Len(s) - 1 : scan[n + 1] = AfterToken(scan[n], s, n)
  BY ScanOfIs
<1>. HIDE DEF scan
<1>8. 0 \in Q
  <2>1. PICK open0 \in Seq(Opens) : Fresh(levels) = StateOf(open0, FALSE) /\ LevelsOf(open0) = levels
    BY FreshIs
  <2>2. Scanned(Sig(levels), s)[0] = SigState(open0, FALSE)
    BY <2>1, ScannedIs DEF SigState
  <2>3. Mirrors(Scanned(Sig(levels), s)[0], scan[0])
    BY <1>6, <2>1, <2>2 DEF Mirrors
  <2>. QED
    BY <2>3
<1>9. ASSUME NEW n \in Nat, n \in Q
      PROVE  n + 1 \in Q
  <2>1. SUFFICES ASSUME n + 1 <= Len(s)
          PROVE Mirrors(Scanned(Sig(levels), s)[n + 1], scan[n + 1])
    OBVIOUS
  <2>2. n \in 0 .. Len(s) - 1 /\ n <= Len(s)
    BY <1>4, <2>1
  <2>3. Mirrors(Scanned(Sig(levels), s)[n], scan[n])
    BY <1>9, <2>2
  <2>. HIDE DEF Q
  <2>4. Mirrors(After(Scanned(Sig(levels), s)[n], s, n), AfterToken(scan[n], s, n))
    BY <2>3, AfterTokenIs
  <2>5. Scanned(Sig(levels), s)[n + 1] = After(Scanned(Sig(levels), s)[n], s, n)
    BY <2>2, ScannedIs
  <2>6. scan[n + 1] = AfterToken(scan[n], s, n)
    BY <1>6, <2>2
  <2>. QED
    BY <2>4, <2>5, <2>6
<1>10. Nat \subseteq Q
  <2>. HIDE DEF Q
  <2>. QED
    BY <1>8, <1>9, SetInduction
<1>11. PICK open \in Seq(Opens), t \in BOOLEAN :
         scan[p] = StateOf(open, t) /\ Scanned(Sig(levels), s)[p] = SigState(open, t)
  <2>1. Mirrors(Scanned(Sig(levels), s)[p], scan[p])
    BY <1>4, <1>10
  <2>. QED
    BY <2>1 DEF Mirrors
<1>12. scan[p].open = open /\ Scanned(Sig(levels), s)[p].open = Sig(LevelsOf(open))
  BY <1>11 DEF StateOf, SigState
<1>. QED
  BY <1>6, <1>12, LevelsOfIs

(* The levels open at the starts of the lines of text tx. *)
TrueFrom(tx) ==
  LET levels[l \in 0 .. MaxLines] == IF l = 0 THEN <<>> ELSE ScanLine(levels[l - 1], tx[l - 1])
  IN levels

(* What matters of them. *)
Stack(tx, l) == Sig(TrueFrom(tx)[l])

(* TrueLevels are those of the text.                                       *)
LEMMA TrueOfText == TrueLevels = TrueFrom(text)
BY DEF TrueLevels, TrueFrom

(* TrueFrom is what its definition says.                                   *)
LEMMA TrueFromIs ==
  ASSUME BoundsAssumption, NEW tx
  PROVE  /\ TrueFrom(tx)[0] = <<>>
         /\ \A l \in Lines : TrueFrom(tx)[l + 1] = ScanLine(TrueFrom(tx)[l], tx[l])
<1>. DEFINE z == <<>>
            Table(n, f) == f = [q \in 0 .. n |-> IF q = 0 THEN z ELSE ScanLine(f[q - 1], tx[q - 1])]
            S == {n \in Nat : \E f : Table(n, f)}
<1>1. 0 \in S
  <2>. DEFINE f == [q \in 0 .. 0 |-> z]
  <2>1. f = [q \in 0 .. 0 |-> IF q = 0 THEN z ELSE ScanLine(f[q - 1], tx[q - 1])]
    OBVIOUS
  <2>. QED
    BY <2>1
<1>2. ASSUME NEW n \in Nat, n \in S
      PROVE  n + 1 \in S
  <2>1. PICK f : Table(n, f)
    BY <1>2
  <2>. DEFINE last == ScanLine(f[n], tx[n])
              h == [q \in 0 .. n + 1 |-> IF q = n + 1 THEN last ELSE f[q]]
  <2>2. \A q \in 0 .. n : h[q] = f[q]
    OBVIOUS
  <2>3. \A q \in 0 .. n : f[q] = IF q = 0 THEN z ELSE ScanLine(f[q - 1], tx[q - 1])
    BY <2>1
  <2>4. h[n + 1] = last
    OBVIOUS
  <2>5. \A q \in 0 .. n + 1 : h[q] = IF q = 0 THEN z ELSE ScanLine(h[q - 1], tx[q - 1])
    <3>. SUFFICES ASSUME NEW q \in 0 .. n + 1
                  PROVE  h[q] = IF q = 0 THEN z ELSE ScanLine(h[q - 1], tx[q - 1])
      OBVIOUS
    <3>. HIDE DEF h
    <3>1. CASE q = n + 1
      <4>1. q - 1 = n /\ n \in 0 .. n /\ q # 0
        BY <3>1
      <4>2. h[q - 1] = f[n]
        BY <2>2, <4>1
      <4>. QED
        BY <2>4, <3>1, <4>1, <4>2
    <3>2. CASE q = 0
      <4>1. q \in 0 .. n
        BY <3>2
      <4>. QED
        BY <2>2, <2>3, <3>2, <4>1
    <3>3. CASE q # 0 /\ q # n + 1
      <4>1. q \in 0 .. n /\ q - 1 \in 0 .. n
        BY <3>3
      <4>2. h[q] = f[q] /\ h[q - 1] = f[q - 1]
        BY <2>2, <4>1
      <4>. QED
        BY <2>3, <3>3, <4>1, <4>2
    <3>. QED
      BY <3>1, <3>2, <3>3
  <2>6. h = [q \in 0 .. n + 1 |-> h[q]]
    OBVIOUS
  <2>7. Table(n + 1, h)
    <3>. HIDE DEF h
    <3>. QED
      BY <2>5, <2>6
  <2>8. \E k : Table(n + 1, k)
    <3>. HIDE DEF Table, h
    <3>. QED
      BY <2>7
  <2>9. n + 1 \in Nat
    OBVIOUS
  <2>. HIDE DEF Table
  <2>. QED
    BY <2>8, <2>9
<1>3. Nat \subseteq S
  <2>. HIDE DEF S
  <2>. QED
    BY <1>1, <1>2, SetInduction
<1>4. MaxLines \in Nat
  BY DEF BoundsAssumption
<1>. DEFINE f == TrueFrom(tx)
<1>5. f = [q \in 0 .. MaxLines |-> IF q = 0 THEN z ELSE ScanLine(f[q - 1], tx[q - 1])]
  <2>1. \E h : Table(MaxLines, h)
    BY <1>3, <1>4
  <2>2. \E h : h = [q \in 0 .. MaxLines |-> IF q = 0 THEN z ELSE ScanLine(h[q - 1], tx[q - 1])]
    BY <2>1
  <2>. QED
    BY <2>2 DEF TrueFrom
<1>. HIDE DEF f
<1>6. f[0] = z
  <2>1. 0 \in 0 .. MaxLines
    BY <1>4
  <2>. QED
    BY <1>5, <2>1
<1>7. ASSUME NEW p \in Lines PROVE f[p + 1] = ScanLine(f[p], tx[p])
  <2>. DEFINE q == p + 1
  <2>1. q \in 0 .. MaxLines /\ q # 0 /\ q - 1 = p
    BY <1>4 DEF Lines
  <2>. HIDE DEF q
  <2>2. f[q] = ScanLine(f[q - 1], tx[q - 1])
    BY <1>5, <2>1
  <2>. QED
    BY <2>1, <2>2 DEF q
<1>. QED
  BY <1>6, <1>7 DEF f

(* The levels at the start of a line follow from those of the line before. *)
LEMMA StackIs ==
  ASSUME BoundsAssumption, TokensAssumption, BlocksAssumption, AtStart = {},
         NEW tx \in [Lines -> Contents]
  PROVE  /\ Stack(tx, 0) = <<>>
         /\ \A l \in Lines : Stack(tx, l + 1) = LineSig(Stack(tx, l), tx[l])
         /\ \A l \in 0 .. MaxLines : TrueFrom(tx)[l] \in Seq(Levels)
<1>. DEFINE f == TrueFrom(tx)
            S == {n \in Nat : n <= MaxLines => f[n] \in Seq(Levels)}
<1>1. f[0] = <<>> /\ \A l \in Lines : f[l + 1] = ScanLine(f[l], tx[l])
  BY TrueFromIs
<1>2. MaxLines \in Nat /\ \A l \in Lines : tx[l] \in Seq(Tokens)
  BY DEF BoundsAssumption, TokensAssumption
<1>3. ASSUME NEW l \in Lines, f[l] \in Seq(Levels)
      PROVE  f[l + 1] \in Seq(Levels) /\ Sig(f[l + 1]) = LineSig(Sig(f[l]), tx[l])
  <2>. DEFINE s == tx[l]
              n == Len(s)
  <2>1. s \in Seq(Tokens) /\ n \in 0 .. Len(s)
    BY <1>2
  <2>2. f[l + 1] = ScanTo(f[l], s, n)
    BY <1>1 DEF ScanLine
  <2>. HIDE DEF n, f
  <2>3. ScanTo(f[l], s, n) \in Seq(Levels) /\ Sig(ScanTo(f[l], s, n)) = Scanned(Sig(f[l]), s)[n].open
    BY <1>3, <2>1, ScanToIs
  <2>. QED
    BY <2>2, <2>3 DEF LineSig, n
<1>. HIDE DEF f
<1>4. 0 \in S
  <2>1. <<>> \in Seq(Levels)
    OBVIOUS
  <2>. QED
    BY <1>1, <2>1
<1>5. ASSUME NEW n \in Nat, n \in S PROVE n + 1 \in S
  <2>1. SUFFICES ASSUME n + 1 <= MaxLines PROVE f[n + 1] \in Seq(Levels)
    OBVIOUS
  <2>2. n \in Lines /\ n <= MaxLines
    BY <1>2, <2>1 DEF Lines
  <2>. QED
    BY <1>3, <1>5, <2>2
<1>6. Nat \subseteq S
  <2>. HIDE DEF S
  <2>. QED
    BY <1>4, <1>5, SetInduction
<1>7. \A l \in 0 .. MaxLines : f[l] \in Seq(Levels)
  BY <1>2, <1>6
<1>8. \A l \in Lines : Sig(f[l + 1]) = LineSig(Sig(f[l]), tx[l])
  <2>1. \A l \in Lines : l \in 0 .. MaxLines
    BY <1>2 DEF Lines
  <2>. QED
    BY <1>3, <1>7, <2>1
<1>9. Sig(f[0]) = <<>>
  <2>1. <<>> \in Seq(Levels)
    OBVIOUS
  <2>. QED
    BY <1>1, <2>1, SigIs
<1>. QED
  BY <1>7, <1>8, <1>9 DEF Stack, f

(* The levels at the start of a line do not depend on the text below.      *)
LEMMA StackAbove ==
  ASSUME BoundsAssumption, TokensAssumption, BlocksAssumption, AtStart = {},
         NEW tx \in [Lines -> Contents], NEW ty \in [Lines -> Contents],
         NEW k \in 0 .. MaxLines, \A l \in 0 .. k - 1 : tx[l] = ty[l]
  PROVE  \A l \in 0 .. k : Stack(tx, l) = Stack(ty, l)
<1>. DEFINE S == {n \in Nat : n <= k => Stack(tx, n) = Stack(ty, n)}
<1>1. MaxLines \in Nat /\ k \in Nat /\ k <= MaxLines
  BY DEF BoundsAssumption
<1>2. Stack(tx, 0) = <<>> /\ Stack(ty, 0) = <<>>
  BY StackIs
<1>3. \A l \in Lines : /\ Stack(tx, l + 1) = LineSig(Stack(tx, l), tx[l])
                       /\ Stack(ty, l + 1) = LineSig(Stack(ty, l), ty[l])
  BY StackIs
<1>4. 0 \in S
  BY <1>2
<1>5. ASSUME NEW n \in Nat, n \in S PROVE n + 1 \in S
  <2>1. SUFFICES ASSUME n + 1 <= k PROVE Stack(tx, n + 1) = Stack(ty, n + 1)
    OBVIOUS
  <2>2. n \in Lines /\ n <= k /\ n \in 0 .. k - 1
    BY <1>1, <2>1 DEF Lines
  <2>3. Stack(tx, n) = Stack(ty, n) /\ tx[n] = ty[n]
    BY <1>5, <2>2
  <2>. QED
    BY <1>3, <2>2, <2>3
<1>6. Nat \subseteq S
  <2>. HIDE DEF S
  <2>. QED
    BY <1>4, <1>5, SetInduction
<1>. QED
  BY <1>1, <1>6

-----------------------------------------------------------------------------
(* Trees: what is above a node, what is dropped, what a search finds.      *)

(* A set with the root and, with a node, its kids has all nodes.           *)
LEMMA TreeInduction ==
  ASSUME NEW L, NEW T, IsTree(T, L), NEW S, RootId \in S,
         \A n \in DOMAIN T \ {RootId} : T[n].parent \in S => n \in S
  PROVE  DOMAIN T \subseteq S
<1>1. PICK d \in Nat : \E rank \in [DOMAIN T -> 0 .. d] :
        \A n \in DOMAIN T \ {RootId} : T[n].parent \in DOMAIN T /\ rank[T[n].parent] < rank[n]
  BY RankFacts
<1>2. PICK rank \in [DOMAIN T -> 0 .. d] :
        \A n \in DOMAIN T \ {RootId} : T[n].parent \in DOMAIN T /\ rank[T[n].parent] < rank[n]
  BY <1>1
<1>. DEFINE Q == {k \in Nat : \A n \in DOMAIN T : rank[n] < k => n \in S}
<1>3. 0 \in Q
  BY <1>2
<1>4. ASSUME NEW k \in Nat, k \in Q PROVE k + 1 \in Q
  <2>1. SUFFICES ASSUME NEW n \in DOMAIN T, rank[n] < k + 1 PROVE n \in S
    OBVIOUS
  <2>2. CASE n = RootId
    BY <2>2
  <2>3. CASE n # RootId
    <3>1. T[n].parent \in DOMAIN T /\ rank[T[n].parent] < k
      BY <1>2, <2>1, <2>3
    <3>2. T[n].parent \in S
      BY <1>4, <3>1
    <3>. QED
      BY <2>3, <3>2
  <2>. QED
    BY <2>2, <2>3
<1>5. Nat \subseteq Q
  <2>. HIDE DEF Q
  <2>. QED
    BY <1>3, <1>4, SetInduction
<1>6. ASSUME NEW n \in DOMAIN T PROVE n \in S
  <2>1. d + 1 \in Q /\ rank[n] < d + 1
    BY <1>2, <1>5
  <2>. QED
    BY <2>1
<1>. QED
  BY <1>6

(* The levels of a good tree.                                              *)
LEMMA GoodLevels ==
  ASSUME NEW T, GoodTree(T)
  PROVE  /\ IsTree(T, AllLevels) /\ RootId \in DOMAIN T
         /\ OpenLevels(T, RootId) = <<>>
         /\ \A n \in DOMAIN T \ {RootId} :
              /\ T[n].parent \in DOMAIN T /\ T[n].level \in Levels
              /\ OpenLevels(T, n) = Append(OpenLevels(T, T[n].parent), T[n].level)
         /\ \A n \in DOMAIN T : OpenLevels(T, n) \in Seq(Levels)
<1>1. IsTree(T, AllLevels) /\ \A n \in DOMAIN T \ {RootId} : T[n].level \in Levels
  BY DEF GoodTree
<1>2. RootId \in DOMAIN T /\ \A n \in DOMAIN T \ {RootId} : T[n].parent \in DOMAIN T
  BY <1>1 DEF IsTree, Linked
<1>. QED
  BY <1>1, <1>2, OpenLevelsOf

(* The same nodes have the same levels around them.                        *)
LEMMA SameLevels ==
  ASSUME NEW T, GoodTree(T), NEW R, GoodTree(R), DOMAIN R \subseteq DOMAIN T,
         \A n \in DOMAIN R : R[n].parent = T[n].parent,
         \A n \in DOMAIN R \ {RootId} : R[n].level = T[n].level
  PROVE  \A n \in DOMAIN R : OpenLevels(R, n) = OpenLevels(T, n)
<1>. DEFINE S == {n \in DOMAIN R : OpenLevels(R, n) = OpenLevels(T, n)}
<1>1. /\ RootId \in DOMAIN R /\ OpenLevels(T, RootId) = <<>> /\ OpenLevels(R, RootId) = <<>>
      /\ \A n \in DOMAIN T \ {RootId} : OpenLevels(T, n) = Append(OpenLevels(T, T[n].parent), T[n].level)
      /\ \A n \in DOMAIN R \ {RootId} : OpenLevels(R, n) = Append(OpenLevels(R, R[n].parent), R[n].level)
      /\ IsTree(R, AllLevels)
  BY GoodLevels
<1>2. RootId \in S
  BY <1>1
<1>3. ASSUME NEW n \in DOMAIN R \ {RootId}, R[n].parent \in S PROVE n \in S
  <2>1. OpenLevels(R, R[n].parent) = OpenLevels(T, R[n].parent)
    BY <1>3
  <2>2. n \in DOMAIN T \ {RootId} /\ R[n].parent = T[n].parent /\ R[n].level = T[n].level
    OBVIOUS
  <2>3. OpenLevels(R, n) = Append(OpenLevels(R, R[n].parent), R[n].level)
    BY <1>1
  <2>4. OpenLevels(T, n) = Append(OpenLevels(T, T[n].parent), T[n].level)
    BY <1>1, <2>2
  <2>. QED
    BY <2>1, <2>2, <2>3, <2>4
<1>4. DOMAIN R \subseteq S
  <2>. HIDE DEF S
  <2>. QED
    BY <1>1, <1>2, <1>3, TreeInduction
<1>. QED
  BY <1>4

(* The innermost level around a node is its own.                           *)
LEMMA InnerLevel ==
  ASSUME NEW T, GoodTree(T), T[RootId].level = None, NEW n \in DOMAIN T
  PROVE  /\ InnerOf(Sig(OpenLevels(T, n))) = SigOf(T[n].level)
         /\ n # RootId => /\ OpenLevels(T, n) # <<>>
                          /\ Front(OpenLevels(T, n)) = OpenLevels(T, T[n].parent)
<1>1. CASE n = RootId
  <2>1. OpenLevels(T, n) = <<>> /\ OpenLevels(T, n) \in Seq(Levels)
    BY <1>1, GoodLevels
  <2>. QED
    BY <1>1, <2>1, InnerIs
<1>2. CASE n # RootId
  <2>. DEFINE up == OpenLevels(T, T[n].parent)  here == OpenLevels(T, n)  x == T[n].level
  <2>1. up \in Seq(Levels) /\ x \in Levels /\ here = Append(up, x)
    BY <1>2, GoodLevels
  <2>. HIDE DEF up, here, x
  <2>2. here \in Seq(Levels) /\ Len(here) = Len(up) + 1 /\ here[Len(up) + 1] = x /\ Len(up) \in Nat
        /\ \A i \in 1 .. Len(up) : here[i] = up[i]
    BY <2>1
  <2>3. here # <<>>
    BY <2>2
  <2>4. InnerOf(Sig(here)) = SigOf(x)
    BY <2>2, <2>3, InnerIs
  <2>5. /\ Front(here) \in Seq(Levels) /\ Len(Front(here)) = Len(here) - 1
        /\ \A i \in 1 .. Len(here) - 1 : Front(here)[i] = here[i]
    BY <2>2, <2>3, FrontElements
  <2>6. Front(here) = up
    BY <2>1, <2>2, <2>5, SameSeq
  <2>. QED
    BY <2>3, <2>4, <2>6 DEF up, here, x
<1>. QED
  BY <1>1, <1>2

(* A node is above itself, and the root above all.                         *)
LEMMA AboveSelf ==
  ASSUME NEW L, NEW T, IsTree(T, L), NEW n \in DOMAIN T
  PROVE  n \in Above(T, n) /\ RootId \in Above(T, n) /\ Above(T, n) \subseteq DOMAIN T
<1>1. RootId \in DOMAIN T /\ \A m \in DOMAIN T \ {RootId} : T[m].parent \in DOMAIN T
  BY DEF IsTree, Linked
<1>2. /\ Above(T, RootId) = {RootId}
      /\ \A m \in DOMAIN T \ {RootId} : Above(T, m) = {m} \cup Above(T, T[m].parent)
  BY AboveIs
<1>. DEFINE S == {m \in DOMAIN T : RootId \in Above(T, m)}
<1>3. RootId \in S
  BY <1>1, <1>2
<1>4. \A m \in DOMAIN T \ {RootId} : T[m].parent \in S => m \in S
  BY <1>1, <1>2
<1>5. DOMAIN T \subseteq S
  <2>. HIDE DEF S
  <2>. QED
    BY <1>3, <1>4, TreeInduction
<1>6. n \in Above(T, n)
  <2>1. CASE n = RootId
    BY <1>2, <2>1
  <2>2. CASE n # RootId
    BY <1>2, <2>2
  <2>. QED
    BY <2>1, <2>2
<1>. QED
  BY <1>5, <1>6 DEF Above

(* What is above a node above another is above that.                       *)
LEMMA AboveTrans ==
  ASSUME NEW L, NEW T, IsTree(T, L), NEW n \in DOMAIN T, NEW p \in Above(T, n)
  PROVE  Above(T, p) \subseteq Above(T, n)
<1>1. RootId \in DOMAIN T
  BY DEF IsTree
<1>2. /\ Above(T, RootId) = {RootId}
      /\ \A m \in DOMAIN T \ {RootId} : Above(T, m) = {m} \cup Above(T, T[m].parent)
  BY AboveIs
<1>. DEFINE S == {m \in DOMAIN T : \A q \in Above(T, m) : Above(T, q) \subseteq Above(T, m)}
<1>3. RootId \in S
  BY <1>1, <1>2
<1>4. ASSUME NEW m \in DOMAIN T \ {RootId}, T[m].parent \in S PROVE m \in S
  <2>1. SUFFICES ASSUME NEW q \in Above(T, m) PROVE Above(T, q) \subseteq Above(T, m)
    OBVIOUS
  <2>2. Above(T, m) = {m} \cup Above(T, T[m].parent)
    BY <1>2
  <2>3. CASE q = m
    BY <2>3
  <2>4. CASE q \in Above(T, T[m].parent)
    BY <1>4, <2>2, <2>4
  <2>. QED
    BY <2>1, <2>2, <2>3, <2>4
<1>5. DOMAIN T \subseteq S
  <2>. HIDE DEF S
  <2>. QED
    BY <1>3, <1>4, TreeInduction
<1>. QED
  BY <1>5

(* A kid is not above its parent.                                          *)
LEMMA KidNotAbove ==
  ASSUME NEW L, NEW T, IsTree(T, L), NEW m \in DOMAIN T \ {RootId}
  PROVE  m \notin Above(T, T[m].parent)
<1>1. PICK d \in Nat : \E rank \in [DOMAIN T -> 0 .. d] :
        \A n \in DOMAIN T \ {RootId} : T[n].parent \in DOMAIN T /\ rank[T[n].parent] < rank[n]
  BY RankFacts
<1>2. PICK rank \in [DOMAIN T -> 0 .. d] :
        \A n \in DOMAIN T \ {RootId} : T[n].parent \in DOMAIN T /\ rank[T[n].parent] < rank[n]
  BY <1>1
<1>3. RootId \in DOMAIN T /\ \A n \in DOMAIN T : rank[n] \in Nat
  BY <1>2 DEF IsTree
<1>4. /\ Above(T, RootId) = {RootId}
      /\ \A n \in DOMAIN T \ {RootId} : Above(T, n) = {n} \cup Above(T, T[n].parent)
      /\ \A n \in DOMAIN T : Above(T, n) \subseteq DOMAIN T
  BY AboveIs, AboveSelf
<1>. DEFINE S == {n \in DOMAIN T : \A a \in Above(T, n) : rank[a] <= rank[n]}
<1>5. RootId \in S
  BY <1>3, <1>4
<1>6. ASSUME NEW n \in DOMAIN T \ {RootId}, T[n].parent \in S PROVE n \in S
  <2>1. SUFFICES ASSUME NEW a \in Above(T, n) PROVE rank[a] <= rank[n]
    OBVIOUS
  <2>2. Above(T, n) = {n} \cup Above(T, T[n].parent) /\ rank[T[n].parent] < rank[n] /\ T[n].parent \in DOMAIN T
    BY <1>2, <1>4
  <2>3. CASE a = n
    BY <1>3, <2>3
  <2>4. CASE a \in Above(T, T[n].parent)
    <3>1. rank[a] <= rank[T[n].parent] /\ a \in DOMAIN T
      BY <1>4, <1>6, <2>2, <2>4
    <3>. QED
      BY <1>3, <2>2, <3>1
  <2>. QED
    BY <2>1, <2>2, <2>3, <2>4
<1>7. DOMAIN T \subseteq S
  <2>. HIDE DEF S
  <2>. QED
    BY <1>5, <1>6, TreeInduction
<1>8. rank[T[m].parent] < rank[m] /\ T[m].parent \in S
  BY <1>2, <1>7
<1>. QED
  BY <1>2, <1>3, <1>8

(* The kids of a node, and nothing else, have it for a parent.             *)
LEMMA KidAt ==
  ASSUME NEW L, NEW T, IsTree(T, L), NEW m \in DOMAIN T \ {RootId}
  PROVE  /\ T[m].parent \in DOMAIN T
         /\ \E i \in DOMAIN T[T[m].parent].kids : T[T[m].parent].kids[i] = m
<1>1. T[m].parent \in DOMAIN T /\ m \in ToSet(T[T[m].parent].kids)
  BY DEF IsTree, Linked
<1>. QED
  BY <1>1 DEF ToSet

(* What a trim leaves: all that is not below a kid dropped.                *)
LEMMA TrimLeaves ==
  ASSUME NEW T, GoodTree(T), NEW p, NEW f, NEW R, TrimsTo(T, p, f, R)
  PROVE  /\ RootId \in DOMAIN R
         /\ \A n \in DOMAIN T \ {RootId} : T[n].parent \in DOMAIN R /\ T[n].parent # p => n \in DOMAIN R
         /\ \A n \in DOMAIN R : R[n].parent = T[n].parent /\ R[n].sline = T[n].sline /\ R[n].eline = T[n].eline
<1>1. IsTree(T, AllLevels) /\ IsTree(R, AllLevels)
  BY DEF GoodTree, TrimsTo
<1>2. RootId \in DOMAIN R
  BY <1>1 DEF IsTree
<1>3. /\ \A n \in DOMAIN R : n # p => R[n] = T[n]
      /\ R[p].parent = T[p].parent /\ R[p].sline = T[p].sline /\ R[p].eline = T[p].eline
  BY DEF TrimsTo
<1>4. ASSUME NEW n \in DOMAIN T \ {RootId}, T[n].parent \in DOMAIN R, T[n].parent # p
      PROVE  n \in DOMAIN R
  <2>. DEFINE q == T[n].parent
  <2>1. PICK i \in DOMAIN T[q].kids : T[q].kids[i] = n
    BY <1>1, KidAt
  <2>2. R[q] = T[q]
    BY <1>3, <1>4
  <2>3. R[q].kids[i] = n /\ i \in DOMAIN R[q].kids
    BY <2>1, <2>2
  <2>4. \A k \in DOMAIN R[q].kids : R[q].kids[k] \in DOMAIN R
    BY <1>1, <1>4 DEF IsTree, Linked
  <2>. QED
    BY <2>3, <2>4
<1>. QED
  BY <1>2, <1>3, <1>4

(* No block begins before the one around it. *)
Begins(T) == \A n \in DOMAIN T \ {RootId} : T[T[n].parent].sline <= T[n].sline

(* So it is when the siblings are in order.                                *)
LEMMA SortedBegins ==
  ASSUME NEW L, NEW T, IsTree(T, L), Sorted(T)
  PROVE  Begins(T)
<1>1. SUFFICES ASSUME NEW n \in DOMAIN T \ {RootId} PROVE T[T[n].parent].sline <= T[n].sline
  BY DEF Begins
<1>2. T[n].parent \in DOMAIN T /\ \E i \in DOMAIN T[T[n].parent].kids : T[T[n].parent].kids[i] = n
  BY KidAt
<1>. QED
  BY <1>2 DEF Sorted

(* What is dropped starts late, when the kids dropped do.                  *)
LEMMA DroppedStart ==
  ASSUME NEW T, GoodTree(T), Begins(T), NEW p, NEW f, NEW R, TrimsTo(T, p, f, R), NEW e \in Int,
         \A k \in DOMAIN T \ {RootId} : T[k].parent = p /\ k \notin DOMAIN R => T[k].sline > e
  PROVE  \A n \in DOMAIN T \ DOMAIN R : T[n].sline > e
<1>1. IsTree(T, AllLevels) /\ p \in DOMAIN R
  BY DEF GoodTree, TrimsTo
<1>2. RootId \in DOMAIN R
      /\ \A n \in DOMAIN T \ {RootId} : T[n].parent \in DOMAIN R /\ T[n].parent # p => n \in DOMAIN R
  BY TrimLeaves
<1>. DEFINE S == DOMAIN R \cup {n \in DOMAIN T : T[n].sline > e}
<1>3. RootId \in S
  BY <1>2
<1>4. ASSUME NEW n \in DOMAIN T \ {RootId}, T[n].parent \in S PROVE n \in S
  <2>. DEFINE q == T[n].parent
  <2>1. CASE q \in DOMAIN R /\ q # p
    BY <1>2, <2>1
  <2>2. CASE q = p
    BY <2>2
  <2>3. CASE q \notin DOMAIN R
    <3>1. q \in DOMAIN T
      BY <1>1, KidAt
    <3>2. T[q].sline <= T[n].sline
      BY DEF Begins
    <3>3. T[q].sline \in Nat /\ T[n].sline \in Nat
      BY <1>1, <3>1, LinesAreInts
    <3>4. T[q].sline > e
      BY <1>4, <2>3
    <3>. QED
      BY <3>2, <3>3, <3>4
  <2>. QED
    BY <2>1, <2>2, <2>3
<1>5. DOMAIN T \subseteq S
  <2>. HIDE DEF S
  <2>. QED
    BY <1>1, <1>3, <1>4, TreeInduction
<1>. QED
  BY <1>5

(* What is below the node after which a trim drops stays.                  *)
LEMMA KeptBelow ==
  ASSUME NEW T, GoodTree(T), NEW p, NEW f \in DOMAIN T \ {RootId}, T[f].parent = p,
         NEW R, TrimsTo(T, p, f, R), f \in DOMAIN R
  PROVE  \A n \in DOMAIN T : f \in Above(T, n) => n \in DOMAIN R
<1>1. IsTree(T, AllLevels)
  BY DEF GoodTree
<1>2. RootId \in DOMAIN R
      /\ \A n \in DOMAIN T \ {RootId} : T[n].parent \in DOMAIN R /\ T[n].parent # p => n \in DOMAIN R
  BY TrimLeaves
<1>3. f \notin Above(T, p)
  BY <1>1, KidNotAbove
<1>4. \A m \in DOMAIN T \ {RootId} : Above(T, m) = {m} \cup Above(T, T[m].parent)
  BY <1>1, AboveIs
<1>. DEFINE S == {n \in DOMAIN T : f \in Above(T, n) => n \in DOMAIN R}
<1>5. RootId \in S
  BY <1>1, <1>2 DEF IsTree
<1>6. ASSUME NEW n \in DOMAIN T \ {RootId}, T[n].parent \in S PROVE n \in S
  <2>1. SUFFICES ASSUME f \in Above(T, n) PROVE n \in DOMAIN R
    OBVIOUS
  <2>2. CASE n = f
    BY <2>2
  <2>3. CASE n # f
    <3>1. f \in Above(T, T[n].parent)
      BY <1>4, <2>1, <2>3
    <3>2. T[n].parent # p /\ T[n].parent \in DOMAIN R
      BY <1>3, <1>6, <3>1
    <3>. QED
      BY <1>2, <3>2
  <2>. QED
    BY <2>2, <2>3
<1>7. DOMAIN T \subseteq S
  <2>. HIDE DEF S
  <2>. QED
    BY <1>1, <1>5, <1>6, TreeInduction
<1>. QED
  BY <1>7

(* The kids a trim drops are those after the last one left.                *)
LEMMA KidsDropped ==
  ASSUME NEW T, GoodTree(T), NEW p, NEW f, NEW R, TrimsTo(T, p, f, R),
         NEW k \in DOMAIN T \ {RootId}, T[k].parent = p, k \notin DOMAIN R
  PROVE  \E i \in DOMAIN T[p].kids :
           /\ T[p].kids[i] = k
           /\ f # Nil => \E j \in DOMAIN T[p].kids : T[p].kids[j] = f /\ j < i
<1>1. /\ IsTree(T, AllLevels) /\ IsTree(R, AllLevels) /\ p \in DOMAIN R /\ GoodTree(R) /\ EndsIn(R, p, f)
      /\ \A i \in DOMAIN R[p].kids : i \in DOMAIN T[p].kids /\ R[p].kids[i] = T[p].kids[i]
      /\ p \in DOMAIN T
  BY DEF GoodTree, TrimsTo
<1>2. PICK i \in DOMAIN T[p].kids : T[p].kids[i] = k
  BY <1>1, KidAt
<1>3. CASE f = Nil
  BY <1>2, <1>3
<1>4. CASE f # Nil
  <2>. DEFINE j == Len(R[p].kids)
  <2>1. R[p].kids \in Seq(Nat) /\ T[p].kids \in Seq(Nat)
    <3>1. IsTree(R, AllLevels) /\ p \in DOMAIN R
      BY <1>1
    <3>2. R[p].kids \in Seq(Nat)
      BY <3>1, LinesAreInts
    <3>3. IsTree(T, AllLevels) /\ p \in DOMAIN T
      BY <1>1
    <3>4. T[p].kids \in Seq(Nat)
      BY <3>3, LinesAreInts
    <3>. QED
      BY <3>2, <3>4
  <2>2. j \in Nat \ {0} /\ R[p].kids[j] = f
    BY <1>1, <1>4, EndsAt
  <2>3. j \in DOMAIN R[p].kids
    BY <2>1, <2>2
  <2>4. j \in DOMAIN T[p].kids /\ T[p].kids[j] = f
    BY <1>1, <2>2, <2>3
  <2>5. i \notin DOMAIN R[p].kids
    <3>1. \A m \in DOMAIN R[p].kids : R[p].kids[m] \in DOMAIN R
      BY <1>1 DEF IsTree, Linked
    <3>. QED
      BY <1>1, <1>2, <3>1
  <2>6. j < i
    BY <2>1, <2>2, <2>5
  <2>. QED
    BY <1>2, <2>4, <2>6
<1>. QED
  BY <1>3, <1>4

(* A search leaves the kids from the candidate on past the line.           *)
LEMMA CandidateLast ==
  ASSUME NEW L, NEW T, IsTree(T, L), Sorted(T), NEW n \in DOMAIN T, NEW ln \in Int, T[n].kids # <<>>
  PROVE  \E r \in DOMAIN T[n].kids :
           /\ Candidate(T, n, ln) = T[n].kids[r]
           /\ \A i \in DOMAIN T[n].kids :
                i > r \/ T[T[n].kids[r]].sline > ln => T[T[n].kids[i]].sline > ln
<1>. DEFINE kids == T[n].kids
            here == IF T[n].cursor = Nil THEN 1 ELSE Place(T, T[n].cursor)
            r1 == rightmostAtOrBefore(T, kids, here, ln)
            r2 == rightmostAtOrBefore(T, kids, 1, ln)
<1>1. kids \in Seq(Nat) /\ Len(kids) \in Nat \ {0} /\ DOMAIN kids = 1 .. Len(kids)
  BY LinesAreInts
<1>2. here \in 1 .. Len(kids) /\ 1 \in 1 .. Len(kids)
  <2>1. 1 \in 1 .. Len(kids)
    BY <1>1
  <2>2. CASE T[n].cursor = Nil
    BY <2>1, <2>2
  <2>3. CASE T[n].cursor # Nil
    <3>1. T[n].cursor \in ToSet(kids)
      BY <2>3 DEF IsTree, Linked
    <3>2. PICK i \in DOMAIN kids : T[n].cursor = kids[i]
      BY <3>1 DEF ToSet
    <3>3. Place(T, kids[i]) = i
      BY <3>2, KidFacts
    <3>. QED
      BY <1>1, <2>3, <3>2, <3>3
  <2>. QED
    BY <2>1, <2>2, <2>3
<1>3. \A i \in 1 .. Len(kids) : T[kids[i]].sline \in Nat /\ T[kids[i]].eline \in Nat
  <2>1. \A i \in 1 .. Len(kids) : kids[i] \in DOMAIN T
    BY <1>1 DEF IsTree, Linked
  <2>. QED
    BY <2>1, LinesAreInts
<1>4. /\ \A i \in 1 .. Len(kids) : T[kids[i]].sline <= T[kids[i]].eline
      /\ \A i, k \in 1 .. Len(kids) : i < k => T[kids[i]].eline < T[kids[k]].sline
  BY <1>1 DEF Sorted
<1>6. /\ r1 \in here .. Len(kids) /\ (r1 < Len(kids) => T[kids[r1 + 1]].sline > ln)
      /\ \A m \in here + 1 .. r1 : ~(T[kids[m]].sline > ln)
  <2>. HIDE DEF here, kids
  <2>. QED
    BY <1>1, <1>2, Rightmost
<1>7. /\ r2 \in 1 .. Len(kids) /\ (r2 < Len(kids) => T[kids[r2 + 1]].sline > ln)
      /\ \A m \in 1 + 1 .. r2 : ~(T[kids[m]].sline > ln)
  <2>. DEFINE one == 1
  <2>1. one \in 1 .. Len(kids)
    BY <1>2
  <2>. HIDE DEF one, kids
  <2>2. LET r == rightmostAtOrBefore(T, kids, one, ln) IN
        /\ r \in one .. Len(kids) /\ (r < Len(kids) => T[kids[r + 1]].sline > ln)
        /\ \A m \in one + 1 .. r : ~(T[kids[m]].sline > ln)
    BY <1>1, <2>1, Rightmost
  <2>. QED
    BY <2>2 DEF one
<1>8. Candidate(T, n, ln) =
        kids[IF T[kids[here]].sline <= ln THEN r1
             ELSE IF here > 1 /\ T[kids[here - 1]].sline <= ln THEN here - 1 ELSE r2]
  BY DEF Candidate
<1>. DEFINE From(i) == T[kids[i]].sline
            size == Len(kids)
<1>9. /\ \A i \in 1 .. Len(kids) : From(i) \in Nat
      /\ \A i, k \in 1 .. Len(kids) : i < k => From(i) < From(k)
  <2>1. \A i \in 1 .. Len(kids) : From(i) \in Nat
    BY <1>3
  <2>2. ASSUME NEW i \in 1 .. Len(kids), NEW k \in 1 .. Len(kids), i < k PROVE From(i) < From(k)
    <3>1. T[kids[i]].sline <= T[kids[i]].eline /\ T[kids[i]].eline < T[kids[k]].sline
      BY <1>4, <2>2
    <3>2. T[kids[i]].sline \in Nat /\ T[kids[i]].eline \in Nat /\ T[kids[k]].sline \in Nat
      BY <1>3
    <3>. QED
      BY <3>1, <3>2
  <2>. QED
    BY <2>1, <2>2
<1>10. /\ (r1 < size => From(r1 + 1) > ln)
       /\ (r2 < size => From(r2 + 1) > ln) /\ \A m \in 2 .. r2 : ~(From(m) > ln)
  BY <1>6, <1>7
<1>11. Candidate(T, n, ln) = kids[IF From(here) <= ln THEN r1
                                  ELSE IF here > 1 /\ From(here - 1) <= ln THEN here - 1 ELSE r2]
  BY <1>8
<1>12. size \in Nat \ {0} /\ here \in 1 .. size /\ r1 \in here .. size /\ r2 \in 1 .. size
  BY <1>1, <1>2, <1>6, <1>7
<1>13. /\ \A i \in 1 .. size : From(i) \in Nat
       /\ \A i, k \in 1 .. size : i < k => From(i) < From(k)
  BY <1>9
<1>14. SUFFICES \E r \in 1 .. size :
         /\ Candidate(T, n, ln) = kids[r]
         /\ \A i \in 1 .. size : i > r \/ From(r) > ln => From(i) > ln
  BY <1>1
<1>. HIDE DEF From, here, r1, r2, kids, size
<1>15. \A a, b \in 1 .. size : a <= b /\ From(a) > ln => From(b) > ln
  <2>1. SUFFICES ASSUME NEW a \in 1 .. size, NEW b \in 1 .. size, a <= b, From(a) > ln PROVE From(b) > ln
    OBVIOUS
  <2>2. a = b \/ a < b
    BY <1>12, <2>1
  <2>3. From(a) \in Nat /\ From(b) \in Nat
    BY <1>13
  <2>4. CASE a < b
    <3>1. From(a) < From(b)
      BY <1>13, <2>4
    <3>. QED
      BY <2>1, <2>3, <3>1
  <2>. QED
    BY <2>1, <2>2, <2>4
<1>16. CASE From(here) <= ln
  <2>1. Candidate(T, n, ln) = kids[r1] /\ r1 \in 1 .. size
    BY <1>11, <1>12, <1>16
  <2>2. \A i \in 1 .. size : i > r1 => From(i) > ln
    <3>1. SUFFICES ASSUME NEW i \in 1 .. size, i > r1 PROVE From(i) > ln
      OBVIOUS
    <3>2. r1 < size /\ r1 + 1 \in 1 .. size /\ r1 + 1 <= i
      BY <1>12, <2>1, <3>1
    <3>. QED
      BY <1>10, <1>15, <3>2
  <2>3. From(r1) > ln => \A i \in 1 .. size : From(i) > ln
    <3>1. SUFFICES ASSUME From(r1) > ln PROVE r1 = here /\ FALSE
      OBVIOUS
    <3>2. r1 # here
      BY <1>12, <1>13, <1>16, <3>1
    <3>3. r1 \in here + 1 .. r1
      BY <1>12, <3>2
    <3>4. ~(From(r1) > ln)
      BY <1>6, <3>3 DEF From
    <3>. QED
      BY <3>1, <3>4
  <2>. QED
    BY <2>1, <2>2, <2>3
<1>17. CASE ~(From(here) <= ln) /\ here > 1 /\ From(here - 1) <= ln
  <2>. DEFINE r == here - 1
  <2>1. Candidate(T, n, ln) = kids[r] /\ r \in 1 .. size /\ From(here) > ln /\ From(here) \in Nat
    BY <1>11, <1>12, <1>13, <1>17
  <2>2. \A i \in 1 .. size : i > r => From(i) > ln
    <3>1. SUFFICES ASSUME NEW i \in 1 .. size, i > r PROVE From(i) > ln
      OBVIOUS
    <3>2. here <= i
      BY <1>12, <3>1
    <3>. QED
      BY <1>12, <1>15, <2>1, <3>2
  <2>3. ~(From(r) > ln)
    BY <1>13, <1>17, <2>1
  <2>. HIDE DEF r
  <2>. QED
    BY <2>1, <2>2, <2>3
<1>18. CASE ~(From(here) <= ln) /\ ~(here > 1 /\ From(here - 1) <= ln)
  <2>1. Candidate(T, n, ln) = kids[r2] /\ r2 \in 1 .. size
    BY <1>11, <1>12, <1>18
  <2>2. \A i \in 1 .. size : i > r2 => From(i) > ln
    <3>1. SUFFICES ASSUME NEW i \in 1 .. size, i > r2 PROVE From(i) > ln
      OBVIOUS
    <3>2. r2 < size /\ r2 + 1 \in 1 .. size /\ r2 + 1 <= i
      BY <1>12, <2>1, <3>1
    <3>. QED
      BY <1>10, <1>15, <3>2
  <2>3. From(r2) > ln => \A i \in 1 .. size : From(i) > ln
    <3>1. SUFFICES ASSUME From(r2) > ln PROVE \A i \in 1 .. size : From(i) > ln
      OBVIOUS
    <3>2. r2 = 1
      <4>1. r2 \notin 2 .. r2
        BY <1>10, <3>1
      <4>. QED
        BY <1>12, <4>1
    <3>3. \A i \in 1 .. size : r2 <= i
      BY <1>12, <3>2
    <3>. QED
      BY <1>15, <2>1, <3>1, <3>3
  <2>. QED
    BY <2>1, <2>2, <2>3
<1>. QED
  BY <1>16, <1>17, <1>18

(* The last block over a line, going down. *)
Tip(T, n, l) ==
  /\ n \in DOMAIN T /\ Covers(T, n, l)
  /\ \A m \in DOMAIN T \ {RootId} : T[m].parent = n => ~Covers(T, m, l)

(* A search finds it, when blocks over the line lie in others over it.     *)
LEMMA TipFound ==
  ASSUME NEW L, NEW T, IsTree(T, L), Sorted(T), NEW ln \in Int,
         \A m \in DOMAIN T \ {RootId} : Covers(T, m, ln) => Covers(T, T[m].parent, ln),
         NEW n, Tip(T, n, ln)
  PROVE  searchLine(T, ln).found = n
<1>. DEFINE path  == SearchPath(T, ln)
            On(q) == T[q].kids # <<>> /\ Covers(T, Candidate(T, q, ln), ln)
            size  == Len(path)
<1>1. /\ path \in Seq(DOMAIN T) /\ Len(path) >= 1 /\ path[1] = RootId
      /\ \A i \in 1 .. Len(path) - 1 : On(path[i]) /\ path[i + 1] = Candidate(T, path[i], ln)
      /\ ~On(path[Len(path)])
  BY SearchPathIs
<1>2. searchLine(T, ln).found = path[size]
  BY DEF searchLine, Last
<1>. HIDE DEF path
<1>3. size \in Nat /\ size >= 1 /\ \A i \in 1 .. size : path[i] \in DOMAIN T
  BY <1>1
<1>. DEFINE S == {m \in DOMAIN T : Covers(T, m, ln) => \E i \in 1 .. size : path[i] = m}
<1>4. RootId \in S
  <2>1. 1 \in 1 .. size /\ path[1] = RootId /\ RootId \in DOMAIN T
    BY <1>1, <1>3 DEF IsTree
  <2>. QED
    BY <2>1
<1>5. ASSUME NEW m \in DOMAIN T \ {RootId}, T[m].parent \in S PROVE m \in S
  <2>1. SUFFICES ASSUME Covers(T, m, ln) PROVE \E i \in 1 .. size : path[i] = m
    OBVIOUS
  <2>. DEFINE p == T[m].parent
  <2>2. p \in DOMAIN T /\ \E i \in DOMAIN T[p].kids : T[p].kids[i] = m
    BY KidAt
  <2>3. Covers(T, p, ln)
    BY <2>1
  <2>4. PICK i \in 1 .. size : path[i] = p
    BY <1>5, <2>2, <2>3
  <2>. HIDE DEF p
  <2>5. PICK j \in DOMAIN T[p].kids : T[p].kids[j] = m
    BY <2>2
  <2>6. Covers(T, T[p].kids[j], ln)
    BY <2>1, <2>5
  <2>7. Candidate(T, p, ln) = T[p].kids[j]
    BY <2>2, <2>6, CandidateCovers
  <2>8. T[p].kids # <<>>
    <3>1. T[p].kids \in Seq(Nat)
      BY <2>2, LinesAreInts
    <3>. QED
      BY <2>5, <3>1
  <2>9. i # size
    BY <1>1, <2>1, <2>4, <2>5, <2>7, <2>8
  <2>10. i \in 1 .. Len(path) - 1 /\ i + 1 \in 1 .. size
    BY <1>3, <2>4, <2>9
  <2>11. path[i + 1] = m
    BY <1>1, <2>4, <2>5, <2>7, <2>10
  <2>. QED
    BY <2>10, <2>11
<1>6. DOMAIN T \subseteq S
  <2>. HIDE DEF S
  <2>. QED
    BY <1>4, <1>5, TreeInduction
<1>7. n \in DOMAIN T /\ Covers(T, n, ln)
      /\ \A m \in DOMAIN T \ {RootId} : T[m].parent = n => ~Covers(T, m, ln)
  BY DEF Tip
<1>8. PICK i \in 1 .. size : path[i] = n
  BY <1>6, <1>7
<1>9. i = size
  <2>1. SUFFICES ASSUME i # size PROVE FALSE
    OBVIOUS
  <2>2. i \in 1 .. Len(path) - 1
    BY <1>3, <1>8, <2>1
  <2>3. T[n].kids # <<>> /\ Covers(T, Candidate(T, n, ln), ln)
    BY <1>1, <1>8, <2>2
  <2>4. \E j \in DOMAIN T[n].kids : Candidate(T, n, ln) = T[n].kids[j]
    BY <1>7, <2>3, CandidateIsKid
  <2>5. PICK j \in DOMAIN T[n].kids : Candidate(T, n, ln) = T[n].kids[j]
    BY <2>4
  <2>6. T[n].kids[j] \in DOMAIN T /\ T[T[n].kids[j]].parent = n /\ T[n].kids[j] # RootId
    BY <1>7, <2>5, KidFacts
  <2>. QED
    BY <1>7, <2>3, <2>5, <2>6
<1>. QED
  BY <1>2, <1>8, <1>9

(* With a block over a line, all blocks around it are over the line.       *)
LEMMA AboveCovers ==
  ASSUME NEW L, NEW T, IsTree(T, L), Contained(T), NEW n \in DOMAIN T, NEW ln \in Int, Covers(T, n, ln)
  PROVE  \A a \in Above(T, n) : Covers(T, a, ln)
<1>1. /\ Above(T, RootId) = {RootId}
      /\ \A m \in DOMAIN T \ {RootId} : Above(T, m) = {m} \cup Above(T, T[m].parent)
      /\ RootId \in DOMAIN T
  BY AboveIs DEF IsTree
<1>. DEFINE S == {m \in DOMAIN T : Covers(T, m, ln) => \A a \in Above(T, m) : Covers(T, a, ln)}
<1>2. RootId \in S
  BY <1>1
<1>3. ASSUME NEW m \in DOMAIN T \ {RootId}, T[m].parent \in S PROVE m \in S
  <2>1. SUFFICES ASSUME Covers(T, m, ln) PROVE \A a \in Above(T, m) : Covers(T, a, ln)
    OBVIOUS
  <2>2. T[m].parent \in DOMAIN T /\ Covers(T, T[m].parent, ln)
    BY <2>1, ParentCovers
  <2>3. Above(T, m) = {m} \cup Above(T, T[m].parent)
    BY <1>1
  <2>4. \A a \in Above(T, T[m].parent) : Covers(T, a, ln)
    BY <1>3, <2>2
  <2>. QED
    BY <2>1, <2>3, <2>4
<1>4. DOMAIN T \subseteq S
  <2>. HIDE DEF S
  <2>. QED
    BY <1>2, <1>3, TreeInduction
<1>. QED
  BY <1>4

(* In a tree at rest a search finds the tip of the line.                   *)
LEMMA FoundTip ==
  ASSUME BoundsAssumption, NEW T, Rested(T), NEW ln \in 0 .. MaxLines
  PROVE  Tip(T, searchLine(T, ln).found, ln)
<1>. DEFINE path  == SearchPath(T, ln)
            On(q) == T[q].kids # <<>> /\ Covers(T, Candidate(T, q, ln), ln)
            found == path[Len(path)]
<1>0. IsTree(T, AllLevels) /\ Contained(T) /\ Sorted(T) /\ Rooted(T) /\ ln \in Int /\ ln \in Nat
      /\ MaxLines \in Nat /\ MaxLines < Unended
  BY DEF Rested, GoodTree, Contained, BoundsAssumption
<1>1. /\ path \in Seq(DOMAIN T) /\ Len(path) >= 1 /\ path[1] = RootId
      /\ \A i \in 1 .. Len(path) - 1 : On(path[i]) /\ path[i + 1] = Candidate(T, path[i], ln)
      /\ ~On(path[Len(path)])
  BY <1>0, SearchPathIs
<1>2. searchLine(T, ln).found = found
  BY DEF searchLine, Last
<1>. HIDE DEF path
<1>3. Covers(T, found, ln)
  <2>1. CASE Len(path) = 1
    <3>1. found = RootId
      BY <1>1, <2>1
    <3>2. T[RootId].sline = 0 /\ T[RootId].eline = Unended
      BY <1>0 DEF Rooted
    <3>. QED
      BY <1>0, <3>1, <3>2 DEF Covers, Unended
  <2>2. CASE Len(path) # 1
    <3>. DEFINE size == Len(path)
                i == size - 1
    <3>01. size \in Nat
      BY <1>1
    <3>02. size >= 1 /\ size # 1
      BY <1>1, <2>2
    <3>1. i \in 1 .. size - 1 /\ i + 1 = size
      <4>. HIDE DEF size
      <4>. QED
        BY <3>01, <3>02
    <3>2. On(path[i]) /\ path[i + 1] = Candidate(T, path[i], ln)
      BY <1>1, <3>1
    <3>. QED
      BY <3>1, <3>2
  <2>. QED
    BY <2>1, <2>2
<1>4. found \in DOMAIN T
  BY <1>1
<1>5. ASSUME NEW m \in DOMAIN T \ {RootId}, T[m].parent = found, Covers(T, m, ln) PROVE FALSE
  <2>1. PICK j \in DOMAIN T[found].kids : T[found].kids[j] = m
    BY <1>0, <1>5, KidAt
  <2>. HIDE DEF found
  <2>2. Covers(T, T[found].kids[j], ln)
    BY <1>5, <2>1
  <2>3. Candidate(T, found, ln) = T[found].kids[j]
    BY <1>0, <1>4, <2>2, CandidateCovers
  <2>4. T[found].kids \in Seq(Nat)
    BY <1>0, <1>4, LinesAreInts
  <2>5. T[found].kids # <<>>
    BY <2>1, <2>4
  <2>. QED
    BY <1>1, <1>5, <2>1, <2>3, <2>5 DEF found
<1>6. Tip(T, found, ln)
  <2>. HIDE DEF found
  <2>. QED
    BY <1>3, <1>4, <1>5 DEF Tip
<1>. QED
  BY <1>2, <1>6

(* What a search says of its candidate.                                    *)
LEMMA ForwardIs ==
  ASSUME NEW T, Rested(T), NEW ln \in Nat, NEW s, s = searchLine(T, ln),
         NEW i \in DOMAIN T[s.found].kids, s.found \in DOMAIN T,
         s.forward # Nil => \E j \in DOMAIN T[s.found].kids : T[s.found].kids[j] = s.forward /\ j < i
  PROVE  T[T[s.found].kids[i]].sline > ln
<1>. DEFINE n == s.found
            cand == IF T[n].kids = <<>> THEN Nil ELSE Candidate(T, n, ln)
<1>0. IsTree(T, AllLevels) /\ Sorted(T) /\ ln \in Int
  BY DEF Rested, GoodTree, Contained
<1>1. s.forward = IF cand # Nil /\ T[cand].sline <= ln THEN cand ELSE Nil
  BY DEF searchLine
<1>. HIDE DEF n
<1>2. n \in DOMAIN T /\ T[n].kids \in Seq(Nat)
  BY <1>0, LinesAreInts DEF n
<1>3. T[n].kids # <<>> /\ i \in DOMAIN T[n].kids
  BY <1>2 DEF n
<1>4. \E r \in DOMAIN T[n].kids :
           /\ Candidate(T, n, ln) = T[n].kids[r]
           /\ \A k \in DOMAIN T[n].kids :
                k > r \/ T[T[n].kids[r]].sline > ln => T[T[n].kids[k]].sline > ln
  BY <1>0, <1>2, <1>3, CandidateLast
<1>5. PICK r \in DOMAIN T[n].kids :
           /\ Candidate(T, n, ln) = T[n].kids[r]
           /\ \A k \in DOMAIN T[n].kids :
                k > r \/ T[T[n].kids[r]].sline > ln => T[T[n].kids[k]].sline > ln
  BY <1>4
<1>6. /\ T[n].kids[r] \in DOMAIN T /\ T[n].kids[r] # RootId /\ Place(T, T[n].kids[r]) = r
      /\ T[n].kids[r] \in Nat
  BY <1>0, <1>2, <1>5, KidFacts
<1>7. T[T[n].kids[r]].sline \in Nat
  BY <1>0, <1>6, LinesAreInts
<1>8. cand = T[n].kids[r] /\ cand # Nil
  BY <1>3, <1>5, <1>6 DEF Nil
<1>9. CASE T[cand].sline <= ln
  <2>1. s.forward = cand /\ s.forward # Nil
    BY <1>1, <1>8, <1>9
  <2>2. PICK j \in DOMAIN T[n].kids : T[n].kids[j] = s.forward /\ j < i
    BY <2>1 DEF n
  <2>3. j = r
    <3>1. Place(T, T[n].kids[j]) = j
      BY <1>0, <1>2, <2>2, KidFacts
    <3>. QED
      BY <1>6, <1>8, <2>1, <2>2, <3>1
  <2>4. i > r
    BY <1>2, <1>3, <1>5, <2>2, <2>3
  <2>. QED
    BY <1>3, <1>5, <2>4 DEF n
<1>10. CASE ~(T[cand].sline <= ln)
  <2>1. T[T[n].kids[r]].sline > ln
    BY <1>7, <1>8, <1>10
  <2>. QED
    BY <1>3, <1>5, <2>1 DEF n
<1>. QED
  BY <1>9, <1>10

(* The tree a search leaves differs in its cursors only.                   *)
LEMMA SearchLeaves ==
  ASSUME BoundsAssumption, NEW T, Rested(T), NEW ln \in Nat
  PROVE  LET R == searchLine(T, ln).tree IN
         /\ Rested(R) /\ GoodTree(R) /\ DOMAIN R = DOMAIN T
         /\ \A n \in DOMAIN T :
              /\ R[n].parent = T[n].parent /\ R[n].kids = T[n].kids /\ R[n].sline = T[n].sline
              /\ R[n].eline = T[n].eline /\ R[n].level = T[n].level
<1>1. IsTree(T, AllLevels) /\ GoodTree(T) /\ ln \in Int
  BY DEF Rested, GoodTree
<1>2. Rested(searchLine(T, ln).tree)
  BY SearchRested
<1>. QED
  BY <1>1, <1>2, SearchIs DEF Rested

(* So what a search finds, and what is open there, is the same after it.   *)
LEMMA SearchSame ==
  ASSUME BoundsAssumption, NEW T, Rested(T), NEW ln \in 0 .. MaxLines, NEW R, Rested(R),
         DOMAIN R = DOMAIN T,
         \A n \in DOMAIN T : /\ R[n].parent = T[n].parent /\ R[n].sline = T[n].sline
                             /\ R[n].eline = T[n].eline /\ R[n].level = T[n].level
  PROVE  /\ searchLine(R, ln).found = searchLine(T, ln).found
         /\ \A n \in DOMAIN T : OpenLevels(R, n) = OpenLevels(T, n)
<1>. DEFINE n == searchLine(T, ln).found
<1>1. Tip(T, n, ln)
  BY FoundTip
<1>. HIDE DEF n
<1>2. Tip(R, n, ln)
  BY <1>1 DEF Tip, Covers
<1>3. IsTree(R, AllLevels) /\ Contained(R) /\ Sorted(R) /\ ln \in Int /\ GoodTree(R) /\ GoodTree(T)
  BY DEF Rested, GoodTree, Contained
<1>4. \A m \in DOMAIN R \ {RootId} : Covers(R, m, ln) => Covers(R, R[m].parent, ln)
  BY <1>3, ParentCovers
<1>5. searchLine(R, ln).found = n
  BY <1>2, <1>3, <1>4, TipFound
<1>6. \A m \in DOMAIN R : OpenLevels(R, m) = OpenLevels(T, m)
  BY <1>3, SameLevels
<1>. QED
  BY <1>5, <1>6 DEF n

(* A trim after a search drops nothing that starts before the line.        *)
LEMMA FoundTrim ==
  ASSUME BoundsAssumption, NEW T, Rested(T), NEW ln \in Nat, NEW s, s = searchLine(T, ln),
         NEW R, TrimsTo(s.tree, s.found, s.forward, R)
  PROVE  \A n \in DOMAIN T \ DOMAIN R : T[n].sline > ln
<1>. DEFINE C == s.tree  p == s.found  f == s.forward
<1>1. /\ Rested(C) /\ GoodTree(C) /\ DOMAIN C = DOMAIN T
      /\ \A n \in DOMAIN T :
           /\ C[n].parent = T[n].parent /\ C[n].kids = T[n].kids /\ C[n].sline = T[n].sline
           /\ C[n].eline = T[n].eline /\ C[n].level = T[n].level
  BY SearchLeaves
<1>2. p \in DOMAIN T
  <2>1. IsTree(T, AllLevels) /\ ln \in Int
    BY DEF Rested, GoodTree
  <2>. QED
    BY <2>1, SearchIs
<1>3. TrimsTo(C, p, f, R)
  OBVIOUS
<1>. HIDE DEF C
<1>4. ASSUME NEW k \in DOMAIN C \ {RootId}, C[k].parent = p, k \notin DOMAIN R
      PROVE  C[k].sline > ln
  <2>1. \E i \in DOMAIN C[p].kids :
           /\ C[p].kids[i] = k
           /\ f # Nil => \E j \in DOMAIN C[p].kids : C[p].kids[j] = f /\ j < i
    <3>. HIDE DEF p, f
    <3>. QED
      BY <1>1, <1>3, <1>4, KidsDropped
  <2>2. C[p].kids = T[p].kids /\ C[k].sline = T[k].sline
    BY <1>1, <1>2, <1>4
  <2>3. PICK i \in DOMAIN T[p].kids :
           /\ T[p].kids[i] = k
           /\ f # Nil => \E j \in DOMAIN T[p].kids : T[p].kids[j] = f /\ j < i
    BY <2>1, <2>2
  <2>4. T[T[p].kids[i]].sline > ln
    BY <1>2, <2>3, ForwardIs
  <2>. QED
    BY <2>2, <2>3, <2>4
<1>5. Begins(C) /\ ln \in Int
  <2>1. Sorted(C) /\ IsTree(C, AllLevels)
    BY <1>1 DEF Rested, Contained, GoodTree
  <2>. QED
    BY <2>1, SortedBegins
<1>6. \A n \in DOMAIN C \ DOMAIN R : C[n].sline > ln
  <2>. HIDE DEF p, f
  <2>. QED
    BY <1>1, <1>3, <1>4, <1>5, DroppedStart
<1>. QED
  BY <1>1, <1>6

-----------------------------------------------------------------------------
(* The tree while it is rebuilt.  A node lies over a line if it covers it  *)
(* or is still open, above the node p the parse stands on.                 *)
Lies(T, p, n, l) == T[n].sline <= l /\ (l <= T[n].eline \/ n \in Above(T, p))

(* The last node over a line. *)
TipOf(T, p, n, l) ==
  /\ n \in DOMAIN T /\ Lies(T, p, n, l)
  /\ \A m \in DOMAIN T \ {RootId} : T[m].parent = n => ~Lies(T, p, m, l)

(* All lines to ln have a last node, with the levels of the text there; for *)
(* those after from, where the parse began, it is in the block base.        *)
Tips(tx, T, p, base, from, ln) ==
  \A l \in 0 .. ln : \E n \in DOMAIN T :
    /\ TipOf(T, p, n, l) /\ Sig(OpenLevels(T, n)) = Stack(tx, l)
    /\ l > from => base \in Above(T, n)

(* The same nodes over the same lines.                                     *)
LEMMA TipsRaise ==
  ASSUME NEW tx, NEW T, GoodTree(T), NEW C, GoodTree(C), DOMAIN C = DOMAIN T,
         \A n \in DOMAIN T : C[n].parent = T[n].parent,
         \A n \in DOMAIN T \ {RootId} : C[n].level = T[n].level,
         NEW p, NEW q, NEW base, NEW from, NEW ln, Tips(tx, T, p, base, from, ln),
         \A n \in DOMAIN T : Above(C, n) = Above(T, n),
         \A l \in 0 .. ln : \A n \in DOMAIN T : Lies(C, q, n, l) <=> Lies(T, p, n, l)
  PROVE  Tips(tx, C, q, base, from, ln)
<1>1. SUFFICES ASSUME NEW l \in 0 .. ln
        PROVE \E n \in DOMAIN C :
                /\ TipOf(C, q, n, l) /\ Sig(OpenLevels(C, n)) = Stack(tx, l)
                /\ l > from => base \in Above(C, n)
  BY DEF Tips
<1>2. PICK n \in DOMAIN T :
        /\ TipOf(T, p, n, l) /\ Sig(OpenLevels(T, n)) = Stack(tx, l)
        /\ l > from => base \in Above(T, n)
  BY DEF Tips
<1>3. OpenLevels(C, n) = OpenLevels(T, n)
  BY SameLevels
<1>4. \A m \in DOMAIN T : Lies(C, q, m, l) <=> Lies(T, p, m, l)
  OBVIOUS
<1>5. TipOf(C, q, n, l)
  BY <1>2, <1>4 DEF TipOf
<1>. QED
  BY <1>2, <1>3, <1>5

(* Nothing that is last over a line is dropped.                            *)
LEMMA TipsTrimmed ==
  ASSUME NEW tx, NEW T, GoodTree(T), NEW q, NEW g, NEW R, TrimsTo(T, q, g, R), R[q].level = T[q].level,
         NEW base, NEW new, NEW from, NEW ln, Tips(tx, T, q, base, from, ln),
         \A l \in 0 .. ln : \A n \in DOMAIN T :
           T[n].sline <= l /\ (l > from => base \in Above(T, n))
             => n \in DOMAIN R /\ (l > from => new \in Above(T, n))
  PROVE  Tips(tx, R, q, new, from, ln)
<1>1. SUFFICES ASSUME NEW l \in 0 .. ln
        PROVE \E n \in DOMAIN R :
                /\ TipOf(R, q, n, l) /\ Sig(OpenLevels(R, n)) = Stack(tx, l)
                /\ l > from => new \in Above(R, n)
  BY DEF Tips
<1>2. PICK n \in DOMAIN T :
        /\ TipOf(T, q, n, l) /\ Sig(OpenLevels(T, n)) = Stack(tx, l)
        /\ l > from => base \in Above(T, n)
  BY DEF Tips
<1>3. n \in DOMAIN R /\ (l > from => new \in Above(T, n))
  BY <1>2 DEF TipOf, Lies
<1>4. /\ GoodTree(R) /\ DOMAIN R \subseteq DOMAIN T /\ q \in DOMAIN R
      /\ \A m \in DOMAIN R : m # q => R[m] = T[m]
  BY DEF TrimsTo
<1>5. \A m \in DOMAIN R : R[m].parent = T[m].parent /\ R[m].sline = T[m].sline /\ R[m].eline = T[m].eline
  BY TrimLeaves
<1>6. \A m \in DOMAIN R : Above(R, m) = Above(T, m)
  <2>1. Pruned(AllLevels, T, R)
    BY TrimsPrune
  <2>. QED
    BY <2>1, PrunedAbove
<1>7. \A m \in DOMAIN R : R[m].level = T[m].level
  BY <1>4
<1>8. OpenLevels(R, n) = OpenLevels(T, n)
  BY <1>3, <1>4, <1>5, <1>7, SameLevels
<1>9. \A m \in DOMAIN R : Lies(R, q, m, l) <=> Lies(T, q, m, l)
  BY <1>4, <1>5, <1>6 DEF Lies
<1>10. TipOf(R, q, n, l)
  BY <1>2, <1>3, <1>4, <1>5, <1>9 DEF TipOf
<1>. QED
  BY <1>2, <1>3, <1>6, <1>8, <1>10

(* A new node, on the next line.                                           *)
LEMMA TipsGrown ==
  ASSUME NEW tx, NEW T, NEW p, NEW f, NEW id, NEW ln \in Nat, NEW R, Grown(T, p, f, id, ln + 1, R),
         \A n \in DOMAIN T : R[n].level = T[n].level,
         NEW base, NEW from, Tips(tx, T, p, base, from, ln)
  PROVE  /\ Tips(tx, R, id, base, from, ln)
         /\ Above(R, id) = {id} \cup Above(T, p)
         /\ \A n \in DOMAIN T : Above(R, n) = Above(T, n) /\ R[n].eline = T[n].eline
         /\ \A n \in DOMAIN T : OpenLevels(R, n) = OpenLevels(T, n)
<1>1. /\ GoodTree(T) /\ GoodTree(R) /\ p \in DOMAIN T /\ id \notin DOMAIN T
      /\ DOMAIN R = DOMAIN T \cup {id} /\ R[id].parent = p /\ R[id].sline = ln + 1
      /\ \A n \in DOMAIN T : /\ R[n].parent = T[n].parent /\ R[n].sline = T[n].sline
                             /\ R[n].eline = T[n].eline
  BY DEF Grown
<1>2. IsTree(R, AllLevels) /\ IsTree(T, AllLevels)
  BY <1>1 DEF GoodTree
<1>3. \A n \in DOMAIN T : Above(R, n) = Above(T, n)
  <2>1. Pruned(AllLevels, R, T)
    BY GrownPruned
  <2>2. \A n \in DOMAIN T : Above(T, n) = Above(R, n)
    BY <2>1, PrunedAbove
  <2>. QED
    BY <2>2
<1>4. Above(R, id) = {id} \cup Above(T, p)
  <2>1. id # RootId /\ id \in DOMAIN R
    BY <1>1, <1>2 DEF IsTree
  <2>2. Above(R, id) = {id} \cup Above(R, R[id].parent)
    BY <1>2, <2>1, AboveIs
  <2>. QED
    BY <1>1, <1>3, <2>2
<1>5. \A n \in DOMAIN T : OpenLevels(R, n) = OpenLevels(T, n)
  <2>1. \A n \in DOMAIN T : OpenLevels(T, n) = OpenLevels(R, n)
    BY <1>1, SameLevels
  <2>. QED
    BY <2>1
<1>6. ASSUME NEW l \in 0 .. ln
      PROVE  \E n \in DOMAIN R :
                /\ TipOf(R, id, n, l) /\ Sig(OpenLevels(R, n)) = Stack(tx, l)
                /\ l > from => base \in Above(R, n)
  <2>1. PICK n \in DOMAIN T :
        /\ TipOf(T, p, n, l) /\ Sig(OpenLevels(T, n)) = Stack(tx, l)
        /\ l > from => base \in Above(T, n)
    BY <1>6 DEF Tips
  <2>2. ~Lies(R, id, id, l)
    BY <1>1, <1>6 DEF Lies
  <2>3. \A m \in DOMAIN T : Lies(R, id, m, l) <=> Lies(T, p, m, l)
    <3>1. \A m \in DOMAIN T : m \in Above(R, id) <=> m \in Above(T, p)
      BY <1>1, <1>4
    <3>. QED
      BY <1>1, <3>1 DEF Lies
  <2>4. TipOf(R, id, n, l)
    <3>1. n \in DOMAIN R /\ Lies(R, id, n, l)
      BY <1>1, <2>1, <2>3 DEF TipOf
    <3>2. ASSUME NEW m \in DOMAIN R \ {RootId}, R[m].parent = n PROVE ~Lies(R, id, m, l)
      <4>1. CASE m = id
        BY <2>2, <4>1
      <4>2. CASE m \in DOMAIN T
        BY <1>1, <2>1, <2>3, <3>2, <4>2 DEF TipOf
      <4>. QED
        BY <1>1, <4>1, <4>2
    <3>. QED
      BY <3>1, <3>2 DEF TipOf
  <2>. QED
    BY <1>1, <1>3, <1>5, <2>1, <2>4
<1>7. Tips(tx, R, id, base, from, ln)
  BY <1>6 DEF Tips
<1>. QED
  BY <1>1, <1>3, <1>4, <1>5, <1>7

(* One line more: the node the parse stands on.                            *)
LEMMA TipsLine ==
  ASSUME NEW tx, NEW T, GoodTree(T), Sorted(T), NEW p \in DOMAIN T, NEW f, EndsIn(T, p, f),
         NEW ln \in Nat, f = Nil \/ T[f].eline <= ln, T[p].sline <= ln + 1,
         NEW base \in Above(T, p), NEW from, Tips(tx, T, p, base, from, ln),
         Sig(OpenLevels(T, p)) = Stack(tx, ln + 1)
  PROVE  Tips(tx, T, p, base, from, ln + 1)
<1>1. IsTree(T, AllLevels) /\ ln \in Int
  BY DEF GoodTree
<1>2. \A i \in DOMAIN T[p].kids : T[T[p].kids[i]].eline <= ln
  BY <1>1, KidsEnd
<1>3. Lies(T, p, p, ln + 1)
  BY <1>1, AboveSelf DEF Lies
<1>4. ASSUME NEW m \in DOMAIN T \ {RootId}, T[m].parent = p PROVE ~Lies(T, p, m, ln + 1)
  <2>1. m \notin Above(T, p)
    BY <1>1, <1>4, KidNotAbove
  <2>2. PICK i \in DOMAIN T[p].kids : T[p].kids[i] = m
    BY <1>1, <1>4, KidAt
  <2>3. T[m].eline <= ln /\ T[m].eline \in Nat
    BY <1>1, <1>2, <2>2, LinesAreInts
  <2>. QED
    BY <2>1, <2>3 DEF Lies
<1>5. TipOf(T, p, p, ln + 1)
  BY <1>3, <1>4 DEF TipOf
<1>6. SUFFICES ASSUME NEW l \in 0 .. ln + 1
        PROVE \E n \in DOMAIN T :
                /\ TipOf(T, p, n, l) /\ Sig(OpenLevels(T, n)) = Stack(tx, l)
                /\ l > from => base \in Above(T, n)
  BY DEF Tips
<1>7. CASE l = ln + 1
  BY <1>5, <1>7
<1>8. CASE l # ln + 1
  <2>1. l \in 0 .. ln
    BY <1>8
  <2>. QED
    BY <2>1 DEF Tips
<1>. QED
  BY <1>7, <1>8

(* A parse of the lines from one on begins in a tree that is right for all *)
(* lines to that one.                                                      *)
LEMMA TipsStart ==
  ASSUME BoundsAssumption, NEW tx, NEW T, Rested(T), NEW from \in 0 .. MaxLines,
         NEW s, s = searchLine(T, from), NEW R, TrimsTo(s.tree, s.found, s.forward, R),
         R[s.found].level = s.tree[s.found].level,
         \A l \in 0 .. from : Sig(OpenLevels(T, searchLine(T, l).found)) = Stack(tx, l)
  PROVE  /\ Tips(tx, R, s.found, s.found, from, from)
         /\ \A n \in Above(R, s.found) : from <= R[n].eline
         /\ s.found \in Above(R, s.found)
         /\ OpenLevels(R, s.found) = OpenLevels(T, s.found)
<1>. DEFINE p == s.found
            C == s.tree
<1>0. from \in Nat /\ from \in Int /\ MaxLines \in Nat
  BY DEF BoundsAssumption
<1>1. /\ Rested(C) /\ GoodTree(C) /\ DOMAIN C = DOMAIN T
      /\ \A n \in DOMAIN T :
           /\ C[n].parent = T[n].parent /\ C[n].kids = T[n].kids /\ C[n].sline = T[n].sline
           /\ C[n].eline = T[n].eline /\ C[n].level = T[n].level
  <2>1. from \in Nat /\ C = searchLine(T, from).tree
    BY <1>0
  <2>. HIDE DEF C
  <2>2. LET Q == searchLine(T, from).tree IN
         /\ Rested(Q) /\ GoodTree(Q) /\ DOMAIN Q = DOMAIN T
         /\ \A n \in DOMAIN T :
              /\ Q[n].parent = T[n].parent /\ Q[n].kids = T[n].kids /\ Q[n].sline = T[n].sline
              /\ Q[n].eline = T[n].eline /\ Q[n].level = T[n].level
    BY <2>1, SearchLeaves
  <2>. QED
    BY <2>1, <2>2
<1>2. Tip(T, p, from)
  BY FoundTip
<1>3. /\ GoodTree(R) /\ p \in DOMAIN R /\ DOMAIN R \subseteq DOMAIN C
      /\ \A n \in DOMAIN R : n # p => R[n] = C[n]
  BY DEF TrimsTo
<1>4. \A n \in DOMAIN R : R[n].parent = C[n].parent /\ R[n].sline = C[n].sline /\ R[n].eline = C[n].eline
  BY <1>1, TrimLeaves
<1>5. Pruned(AllLevels, C, R)
  BY <1>1, TrimsPrune
<1>6. \A n \in DOMAIN R : Above(R, n) = Above(C, n)
  BY <1>5, PrunedAbove
<1>7. \A n \in DOMAIN T \ DOMAIN R : T[n].sline > from
  BY <1>0, FoundTrim
<1>8. IsTree(C, AllLevels) /\ Contained(C) /\ IsTree(T, AllLevels)
  BY <1>1 DEF Rested, GoodTree
<1>. HIDE DEF C, p
<1>9. Covers(C, p, from) /\ p \in DOMAIN C
  BY <1>1, <1>2 DEF Tip, Covers
<1>10. \A n \in Above(R, p) : Covers(C, n, from) /\ n \in DOMAIN R
  <2>1. \A n \in Above(C, p) : Covers(C, n, from)
    BY <1>0, <1>8, <1>9, AboveCovers
  <2>2. IsTree(R, AllLevels)
    BY <1>3 DEF GoodTree
  <2>3. Above(R, p) \subseteq DOMAIN R
    BY <1>3, <2>2, AboveSelf
  <2>. QED
    BY <1>3, <1>6, <2>1, <2>3
<1>11. \A n \in Above(R, p) : from <= R[n].eline
  BY <1>4, <1>10 DEF Covers
<1>12. p \in Above(R, p)
  <2>1. IsTree(R, AllLevels)
    BY <1>3 DEF GoodTree
  <2>. QED
    BY <1>3, <2>1, AboveSelf
<1>13. \A n \in DOMAIN R : OpenLevels(R, n) = OpenLevels(T, n)
  <2>1. \A n \in DOMAIN R : R[n].parent = T[n].parent
    BY <1>1, <1>3, <1>4
  <2>2. \A n \in DOMAIN R : R[n].level = T[n].level
    BY <1>1, <1>3 DEF p, C
  <2>. QED
    BY <1>1, <1>3, <2>1, <2>2, SameLevels DEF Rested
<1>14. ASSUME NEW l \in 0 .. from
       PROVE  \E n \in DOMAIN R :
                /\ TipOf(R, p, n, l) /\ Sig(OpenLevels(R, n)) = Stack(tx, l)
                /\ l > from => p \in Above(R, n)
  <2>. DEFINE n == searchLine(T, l).found
  <2>1. l \in 0 .. MaxLines /\ l <= from /\ l \in Nat
    BY <1>0, <1>14
  <2>2. Tip(T, n, l)
    BY <2>1, FoundTip
  <2>3. Sig(OpenLevels(T, n)) = Stack(tx, l)
    OBVIOUS
  <2>. HIDE DEF n
  <2>4. n \in DOMAIN T /\ T[n].sline <= l /\ l <= T[n].eline
    BY <2>2 DEF Tip, Covers
  <2>5. n \in DOMAIN R
    <3>1. T[n].sline \in Nat
      BY <1>8, <2>4, LinesAreInts
    <3>2. ~(T[n].sline > from)
      BY <1>0, <2>1, <2>4, <3>1
    <3>. QED
      BY <1>7, <2>4, <3>2
  <2>6. \A m \in DOMAIN R : Lies(R, p, m, l) <=> Covers(T, m, l)
    <3>1. SUFFICES ASSUME NEW m \in DOMAIN R PROVE Lies(R, p, m, l) <=> Covers(T, m, l)
      OBVIOUS
    <3>2. R[m].sline = T[m].sline /\ R[m].eline = T[m].eline /\ m \in DOMAIN T
      BY <1>1, <1>3, <1>4
    <3>3. T[m].eline \in Nat
      BY <1>8, <3>2, LinesAreInts
    <3>4. m \in Above(R, p) => l <= R[m].eline
      <4>1. m \in Above(R, p) => from <= R[m].eline
        BY <1>11
      <4>. QED
        BY <1>0, <2>1, <3>2, <3>3, <4>1
    <3>. QED
      BY <3>2, <3>4 DEF Lies, Covers
  <2>7. TipOf(R, p, n, l)
    <3>1. \A m \in DOMAIN R : R[m].parent = T[m].parent /\ m \in DOMAIN T
      BY <1>1, <1>3, <1>4
    <3>. QED
      BY <2>2, <2>5, <2>6, <3>1 DEF TipOf, Tip
  <2>. QED
    BY <1>0, <1>13, <2>1, <2>3, <2>5, <2>7
<1>15. Tips(tx, R, p, p, from, from)
  BY <1>14 DEF Tips
<1>. QED
  BY <1>3, <1>11, <1>12, <1>13, <1>15 DEF p
=============================================================================

------------------------- MODULE ParseCache_proofs --------------------------
(***************************************************************************)
(* What the operators of ParseCache do to a tree, for every tree: the form *)
(* of a tree (IsTree) is kept by deleting siblings, by appending a node,   *)
(* by closing one and by the cursors a search moves, and each of them      *)
(* changes nothing else.                                                   *)
(*                                                                         *)
(* The recursive functions of the model (the way of a search, the levels   *)
(* open, the nodes below) are unfolded here once, by induction over the    *)
(* rank of a node: its distance from the root, which IsTree says exists.   *)
(***************************************************************************)
EXTENDS ParseCache, SequenceLemmas, FiniteSetTheorems, TLAPS

(* The nodes of a tree with levels in L.                                   *)
Nodes(L) ==
  [parent : Nat \cup {Nil}, kids : Seq(Nat), cursor : Nat \cup {Nil},
   sline : Nat, eline : Nat, level : L]

(* Parents lead to the root: each node has a rank greater than that of its *)
(* parent.                                                                 *)
Ranked(T) ==
  \E d \in Nat : \E rank \in [DOMAIN T -> 0 .. d] :
    \A n \in DOMAIN T \ {RootId} : rank[T[n].parent] < rank[n]

(* No node is twice among the children of one.                             *)
KidsOnce(T) ==
  \A n \in DOMAIN T : \A i, j \in DOMAIN T[n].kids :
    T[n].kids[i] = T[n].kids[j] => i = j

(* The form of a tree, as the code keeps it: every node but the root is    *)
(* once in the list of its parent and nowhere else, the cursors stand on   *)
(* children, and no way up is endless.                                     *)
IsTree(T, L) ==
  /\ IsFiniteSet(DOMAIN T) /\ DOMAIN T \subseteq Nat /\ RootId \in DOMAIN T
  /\ T \in [DOMAIN T -> Nodes(L)]
  /\ T[RootId].parent = Nil
  /\ Linked(T)
  /\ KidsOnce(T)
  /\ Ranked(T)

(* A child is a node, with its parent and its place.                       *)
LEMMA KidFacts ==
  ASSUME NEW L, NEW T, IsTree(T, L), NEW n \in DOMAIN T, NEW i \in DOMAIN T[n].kids
  PROVE  /\ T[n].kids \in Seq(DOMAIN T) /\ i \in 1 .. Len(T[n].kids)
         /\ T[n].kids[i] \in DOMAIN T /\ T[T[n].kids[i]].parent = n
         /\ T[n].kids[i] # RootId
         /\ T[n].kids[i] \in ToSet(T[n].kids)
         /\ Place(T, T[n].kids[i]) = i
<1>. DEFINE kids == T[n].kids  k == kids[i]
<1>1. kids \in Seq(Nat) /\ DOMAIN T \subseteq Nat
  BY DEF IsTree, Nodes
<1>2. \A j \in DOMAIN kids : kids[j] \in DOMAIN T /\ T[kids[j]].parent = n
  BY DEF IsTree, Linked
<1>3. kids \in Seq(DOMAIN T)
  BY <1>1, <1>2
<1>4. k # RootId
  BY <1>1, <1>2 DEF IsTree, Nil
<1>5. \A j \in DOMAIN kids : kids[j] = k => j = i
  BY DEF IsTree, KidsOnce
<1>6. Place(T, k) = CHOOSE j \in DOMAIN kids : kids[j] = k
  BY <1>2 DEF Place
<1>7. Place(T, k) = i
  BY <1>5, <1>6
<1>. QED
  BY <1>1, <1>2, <1>3, <1>4, <1>7 DEF ToSet

(* A node other than the root has a place in the list of its parent.       *)
LEMMA PlaceFacts ==
  ASSUME NEW L, NEW T, IsTree(T, L), NEW k \in DOMAIN T, k # RootId
  PROVE  /\ T[k].parent \in DOMAIN T
         /\ Place(T, k) \in DOMAIN T[T[k].parent].kids
         /\ T[T[k].parent].kids[Place(T, k)] = k
<1>. DEFINE p == T[k].parent
<1>1. p \in DOMAIN T /\ k \in ToSet(T[p].kids)
  BY DEF IsTree, Linked
<1>2. PICK i \in DOMAIN T[p].kids : T[p].kids[i] = k
  BY <1>1 DEF ToSet
<1>. QED
  BY <1>1, <1>2, KidFacts

(* The sibling a forward search comes to: rightmostAtOrBefore is defined,  *)
(* whatever the lines are.                                                 *)
LEMMA Rightmost ==
  ASSUME NEW T, NEW kids \in Seq(Nat), NEW i \in 1 .. Len(kids), NEW ln \in Int
  PROVE  LET r == rightmostAtOrBefore(T, kids, i, ln) IN
         /\ r \in i .. Len(kids)
         /\ r < Len(kids) => T[kids[r + 1]].sline > ln
         /\ \A m \in i + 1 .. r : ~(T[kids[m]].sline > ln)
<1>. DEFINE Past(j) == T[kids[j]].sline > ln
            Good(j) == /\ j < Len(kids) => Past(j + 1)
                       /\ \A m \in i + 1 .. j : ~Past(m)
            S == {j \in i .. Len(kids) : j < Len(kids) => Past(j + 1)}
<1>. HIDE DEF Past
<1>1. Len(kids) \in Nat /\ Len(kids) \in S /\ S \subseteq Nat
  OBVIOUS
<1>2. \E r \in S : \A s \in S : r <= s
  <2>. HIDE DEF S
  <2>. QED
    BY <1>1, LeastNat
<1>2a. PICK r \in S : \A s \in S : r <= s
  BY <1>2
<1>3. ASSUME NEW m \in i + 1 .. r PROVE ~Past(m)
  <2>1. m - 1 \in i .. Len(kids) /\ m - 1 < r /\ m - 1 + 1 = m /\ m \in Int /\ r \in Int
    BY <1>1, <1>2a
  <2>2. m - 1 \notin S
    <3>. HIDE DEF S
    <3>. QED
      BY <1>1, <1>2a, <2>1
  <2>. QED
    BY <2>1, <2>2
<1>4. r \in i .. Len(kids) /\ Good(r)
  BY <1>2a, <1>3
<1>5. rightmostAtOrBefore(T, kids, i, ln) = CHOOSE j \in i .. Len(kids) : Good(j)
  BY DEF rightmostAtOrBefore, Past
<1>6. LET q == rightmostAtOrBefore(T, kids, i, ln) IN q \in i .. Len(kids) /\ Good(q)
  BY <1>4, <1>5
<1>. QED
  BY <1>6 DEF Past

(* A search looks at a child, from wherever the cursor stands              *)
(* (searchLine).                                                           *)
LEMMA CandidateIsKid ==
  ASSUME NEW L, NEW T, IsTree(T, L), NEW n \in DOMAIN T, T[n].kids # <<>>, NEW ln \in Int
  PROVE  \E i \in DOMAIN T[n].kids : Candidate(T, n, ln) = T[n].kids[i]
<1>. DEFINE kids == T[n].kids
            here == IF T[n].cursor = Nil THEN 1 ELSE Place(T, T[n].cursor)
            at == IF T[kids[here]].sline <= ln THEN rightmostAtOrBefore(T, kids, here, ln)
                  ELSE IF here > 1 /\ T[kids[here - 1]].sline <= ln THEN here - 1
                  ELSE rightmostAtOrBefore(T, kids, 1, ln)
<1>1. kids \in Seq(Nat) /\ 1 \in 1 .. Len(kids)
  BY DEF IsTree, Nodes
<1>2. here \in 1 .. Len(kids)
  <2>1. CASE T[n].cursor = Nil
    BY <1>1, <2>1
  <2>2. CASE T[n].cursor # Nil
    <3>1. T[n].cursor \in ToSet(kids)
      BY <2>2 DEF IsTree, Linked
    <3>2. PICK i \in DOMAIN kids : T[n].cursor = kids[i]
      BY <3>1 DEF ToSet
    <3>. QED
      BY <2>2, <3>2, <1>1, KidFacts
  <2>. QED
    BY <2>1, <2>2
<1>. HIDE DEF here
<1>3. /\ rightmostAtOrBefore(T, kids, here, ln) \in here .. Len(kids)
      /\ rightmostAtOrBefore(T, kids, 1, ln) \in 1 .. Len(kids)
  BY <1>1, <1>2, Rightmost
<1>4. at \in 1 .. Len(kids)
  BY <1>1, <1>2, <1>3
<1>5. Candidate(T, n, ln) = kids[at]
  BY DEF Candidate, here
<1>. QED
  BY <1>1, <1>4, <1>5
(* From a node in more one goes on to next of it, downwards.               *)
Descends(D, next, more) ==
  /\ next \in [D -> D] /\ more \in SUBSET D
  /\ \E d \in Nat : \E rank \in [D -> 0 .. d] :
       \A n \in D : n \in more => rank[n] < rank[next[n]]

(* go is the way down by next, for as long as more holds.                  *)
Walks(D, next, more, go) ==
  go = [n \in D |-> <<n>> \o IF n \in more THEN go[next[n]] ELSE <<>>]

(* A way that descends is finite: the recursive function of a search       *)
(* exists.                                                                 *)
LEMMA WayDown ==
  ASSUME NEW D, NEW next, NEW more, Descends(D, next, more)
  PROVE  \E go : go = [n \in D |-> <<n>> \o IF n \in more THEN go[next[n]] ELSE <<>>]
<1>s. next \in [D -> D] /\ more \in SUBSET D
  BY DEF Descends
<1>d. PICK d \in Nat : \E rank \in [D -> 0 .. d] :
        \A n \in D : n \in more => rank[n] < rank[next[n]]
  BY DEF Descends
<1>r. PICK rank \in [D -> 0 .. d] : \A n \in D : n \in more => rank[n] < rank[next[n]]
  BY <1>d
<1>. DEFINE Deep(k) == {n \in D : d - rank[n] <= k}
            Steps(g, n) == <<n>> \o IF n \in more THEN g[next[n]] ELSE <<>>
            Done(k) == \E g \in [Deep(k) -> Seq(D)] : \A n \in Deep(k) : g[n] = Steps(g, n)
            S == {k \in Nat : Done(k)}
<1>1. Done(0)
  <2>. DEFINE g == [n \in Deep(0) |-> <<n>>]
  <2>1. \A n \in Deep(0) : n \notin more
    BY <1>s, <1>r
  <2>2. \A n \in Deep(0) : g[n] = Steps(g, n)
    BY <2>1
  <2>3. g \in [Deep(0) -> Seq(D)]
    OBVIOUS
  <2>. QED
    BY <2>2, <2>3
<1>2. ASSUME NEW k \in Nat, Done(k) PROVE Done(k + 1)
  <2>1. PICK g \in [Deep(k) -> Seq(D)] : \A n \in Deep(k) : g[n] = Steps(g, n)
    BY <1>2
  <2>. DEFINE h == [n \in Deep(k + 1) |-> Steps(g, n)]
  <2>2. \A n \in Deep(k + 1) : n \in more => next[n] \in Deep(k)
    BY <1>s, <1>r
  <2>3. Deep(k) \subseteq Deep(k + 1)
    BY <1>r
  <2>4. \A n \in Deep(k) : h[n] = g[n]
    BY <2>1, <2>3
  <2>5. ASSUME NEW n \in Deep(k + 1) PROVE h[n] = Steps(h, n) /\ h[n] \in Seq(D)
    <3>1. h[n] = Steps(g, n)
      OBVIOUS
    <3>2. n \in more => h[next[n]] = g[next[n]] /\ g[next[n]] \in Seq(D)
      BY <2>2, <2>4
    <3>. HIDE DEF h
    <3>3. Steps(h, n) = Steps(g, n)
      BY <3>2
    <3>4. Steps(g, n) \in Seq(D)
      <4>1. <<n>> \in Seq(D) /\ <<>> \in Seq(D)
        OBVIOUS
      <4>2. (IF n \in more THEN g[next[n]] ELSE <<>>) \in Seq(D)
        BY <3>2, <4>1
      <4>. QED
        BY <4>1, <4>2
    <3>. QED
      BY <3>1, <3>3, <3>4
  <2>6. h \in [Deep(k + 1) -> Seq(D)]
    BY <2>5
  <2>. QED
    BY <2>5, <2>6
<1>3. Nat \subseteq S
  <2>. HIDE DEF Done
  <2>1. 0 \in S /\ \A k \in Nat : k \in S => k + 1 \in S
    BY <1>1, <1>2
  <2>. HIDE DEF S
  <2>. QED
    BY <2>1, SetInduction
<1>4. Deep(d) = D
  BY <1>r
<1>5. PICK g \in [D -> Seq(D)] : \A n \in D : g[n] = Steps(g, n)
  BY <1>3, <1>4
<1>. QED
  BY <1>5

(* Such a way is a sequence of nodes, each the next of the one before, up  *)
(* to one that has none.                                                   *)
LEMMA PathDown ==
  ASSUME NEW D, NEW next, NEW more, Descends(D, next, more),
         NEW go, Walks(D, next, more, go)
  PROVE  \A n \in D :
           /\ go[n] \in Seq(D) /\ Len(go[n]) >= 1 /\ go[n][1] = n
           /\ \A i \in 1 .. Len(go[n]) - 1 : go[n][i] \in more /\ go[n][i + 1] = next[go[n][i]]
           /\ go[n][Len(go[n])] \notin more
<1>s. next \in [D -> D] /\ more \in SUBSET D
  BY DEF Descends
<1>d. PICK d \in Nat : \E rank \in [D -> 0 .. d] :
        \A n \in D : n \in more => rank[n] < rank[next[n]]
  BY DEF Descends
<1>r. PICK rank \in [D -> 0 .. d] : \A n \in D : n \in more => rank[n] < rank[next[n]]
  BY <1>d
<1>w. \A n \in D : go[n] = <<n>> \o IF n \in more THEN go[next[n]] ELSE <<>>
  BY DEF Walks
<1>. DEFINE Way(q, n) ==
              /\ q \in Seq(D) /\ Len(q) >= 1 /\ q[1] = n
              /\ \A i \in 1 .. Len(q) - 1 : q[i] \in more /\ q[i + 1] = next[q[i]]
              /\ q[Len(q)] \notin more
            Good(n) == Way(go[n], n)
            S == {k \in Nat : \A n \in D : d - rank[n] <= k => Good(n)}
<1>1. \A n \in D : n \notin more => Good(n)
  <2>. SUFFICES ASSUME NEW n \in D, n \notin more PROVE Good(n)
    OBVIOUS
  <2>0. <<n>> \o <<>> = <<n>>
    OBVIOUS
  <2>1. go[n] = <<n>>
    BY <1>w, <2>0
  <2>. QED
    BY <2>1
<1>2. ASSUME NEW n \in D, n \in more, Good(next[n]) PROVE Good(n)
  <2>1. PICK p \in Seq(D) : p = go[next[n]]
    BY <1>2
  <2>2. Len(p) \in Nat /\ Len(p) >= 1 /\ p[1] = next[n]
    BY <1>2, <2>1
  <2>3. \A i \in 1 .. Len(p) - 1 : p[i] \in more /\ p[i + 1] = next[p[i]]
    BY <1>2, <2>1
  <2>4. p[Len(p)] \notin more
    BY <1>2, <2>1
  <2>5. PICK q : q = go[n]
    OBVIOUS
  <2>6. q = <<n>> \o p
    BY <1>w, <1>2, <2>1, <2>5
  <2>7. /\ q \in Seq(D) /\ Len(q) = Len(p) + 1 /\ q[1] = n
        /\ \A i \in 1 .. Len(p) : q[i + 1] = p[i]
    <3>1. <<n>> \in Seq(D) /\ Len(<<n>>) = 1 /\ <<n>>[1] = n
      OBVIOUS
    <3>. QED
      BY <2>6, <2>2, <3>1
  <2>8. ASSUME NEW i \in 1 .. Len(q) - 1
        PROVE  q[i] \in more /\ q[i + 1] = next[q[i]]
    <3>1. CASE i = 1
      BY <3>1, <2>2, <2>7, <1>2
    <3>2. CASE i # 1
      <4>1. i - 1 \in 1 .. Len(p) - 1 /\ i - 1 + 1 = i
        BY <2>2, <2>7, <3>2
      <4>2. q[i] = p[i - 1] /\ q[i + 1] = p[i]
        <5>1. i \in 1 .. Len(p) /\ i - 1 \in 1 .. Len(p)
          BY <4>1, <2>7, <2>2
        <5>. QED
          BY <5>1, <4>1, <2>7
      <4>3. p[i - 1] \in more /\ p[i] = next[p[i - 1]]
        BY <4>1, <2>3
      <4>. QED
        BY <4>2, <4>3
    <3>. QED
      BY <3>1, <3>2
  <2>9. q[Len(q)] \notin more
    <3>1. Len(p) \in 1 .. Len(p)
      BY <2>2
    <3>2. q[Len(p) + 1] = p[Len(p)]
      BY <3>1, <2>7
    <3>. QED
      BY <3>2, <2>4, <2>7
  <2>10. Way(q, n)
    BY <2>2, <2>7, <2>8, <2>9
  <2>. QED
    BY <2>5, <2>10
<1>. HIDE DEF Good
<1>3. 0 \in S
  <2>1. \A n \in D : d - rank[n] <= 0 => n \notin more
    BY <1>s, <1>r
  <2>. QED
    BY <2>1, <1>1
<1>4. ASSUME NEW k \in Nat, k \in S PROVE k + 1 \in S
  <2>1. SUFFICES ASSUME NEW n \in D, d - rank[n] <= k + 1, n \in more PROVE Good(n)
    BY <1>1
  <2>2. next[n] \in D /\ d - rank[next[n]] <= k
    BY <1>s, <1>r, <2>1
  <2>. QED
    BY <2>1, <2>2, <1>2, <1>4
<1>5. Nat \subseteq S
  <2>. HIDE DEF S
  <2>. QED
    BY <1>3, <1>4, SetInduction
<1>6. \A n \in D : d - rank[n] \in Nat
  BY <1>r
<1>7. \A n \in D : Good(n)
  BY <1>5, <1>6
<1>. QED
  BY <1>7 DEF Good
(* The rank of a node, with its parent in the tree.                        *)
LEMMA RankFacts ==
  ASSUME NEW L, NEW T, IsTree(T, L)
  PROVE  \E d \in Nat : \E rank \in [DOMAIN T -> 0 .. d] :
           \A n \in DOMAIN T \ {RootId} :
             T[n].parent \in DOMAIN T /\ rank[T[n].parent] < rank[n]
BY DEF IsTree, Ranked, Linked

(* The levels open in a node: those of its parent and its own              *)
(* (collectOpenLevels).                                                    *)
LEMMA OpenLevelsOf ==
  ASSUME NEW L, NEW T, IsTree(T, L), NEW V, \A n \in DOMAIN T \ {RootId} : T[n].level \in V
  PROVE  /\ OpenLevels(T, RootId) = <<>>
         /\ \A n \in DOMAIN T \ {RootId} :
              OpenLevels(T, n) = Append(OpenLevels(T, T[n].parent), T[n].level)
         /\ \A n \in DOMAIN T : OpenLevels(T, n) \in Seq(V)
<1>. DEFINE D == DOMAIN T
            Step(g, n) == IF n = RootId THEN <<>> ELSE Append(g[T[n].parent], T[n].level)
<1>0. PICK d \in Nat : \E rank \in [D -> 0 .. d] :
        \A n \in D \ {RootId} : T[n].parent \in D /\ rank[T[n].parent] < rank[n]
  BY RankFacts
<1>1. PICK rank \in [D -> 0 .. d] :
        \A n \in D \ {RootId} : T[n].parent \in D /\ rank[T[n].parent] < rank[n]
  BY <1>0
<1>2. RootId \in D
  BY DEF IsTree
<1>. DEFINE High(k) == {n \in D : rank[n] <= k}
            Done(k) == \E g \in [High(k) -> Seq(V)] : \A n \in High(k) : g[n] = Step(g, n)
            S == {k \in Nat : Done(k)}
<1>3. \A k \in Nat : \A n \in High(k + 1) \ {RootId} : T[n].parent \in High(k)
  BY <1>1
<1>4. Done(0)
  <2>. DEFINE g == [n \in High(0) |-> <<>>]
  <2>1. \A n \in High(0) : n = RootId
    BY <1>1
  <2>2. \A n \in High(0) : g[n] = Step(g, n)
    BY <2>1
  <2>3. g \in [High(0) -> Seq(V)]
    OBVIOUS
  <2>. QED
    BY <2>2, <2>3
<1>5. ASSUME NEW k \in Nat, Done(k) PROVE Done(k + 1)
  <2>1. PICK g \in [High(k) -> Seq(V)] : \A n \in High(k) : g[n] = Step(g, n)
    BY <1>5
  <2>. DEFINE h == [n \in High(k + 1) |-> Step(g, n)]
  <2>2. High(k) \subseteq High(k + 1)
    BY <1>1
  <2>3. \A n \in High(k) : h[n] = g[n]
    BY <2>1, <2>2
  <2>4. ASSUME NEW n \in High(k + 1) PROVE h[n] = Step(h, n) /\ h[n] \in Seq(V)
    <3>1. h[n] = Step(g, n)
      OBVIOUS
    <3>2. CASE n = RootId
      BY <3>1, <3>2
    <3>3. CASE n # RootId
      <4>1. T[n].parent \in High(k)
        BY <1>3, <3>3
      <4>2. h[T[n].parent] = g[T[n].parent] /\ g[T[n].parent] \in Seq(V)
        BY <4>1, <2>1, <2>3
      <4>3. T[n].level \in V
        BY <3>3
      <4>. HIDE DEF h
      <4>. QED
        BY <3>1, <3>3, <4>2, <4>3
    <3>. QED
      BY <3>2, <3>3
  <2>5. h \in [High(k + 1) -> Seq(V)]
    BY <2>4
  <2>. QED
    BY <2>4, <2>5
<1>6. Nat \subseteq S
  <2>. HIDE DEF Done
  <2>1. 0 \in S /\ \A k \in Nat : k \in S => k + 1 \in S
    BY <1>4, <1>5
  <2>. HIDE DEF S
  <2>. QED
    BY <2>1, SetInduction
<1>7. High(d) = D
  BY <1>1
<1>8. PICK g \in [D -> Seq(V)] : \A n \in D : g[n] = Step(g, n)
  <2>1. Done(d)
    BY <1>6
  <2>. HIDE DEF Step
  <2>. QED
    BY <1>7, <2>1
<1>. DEFINE open == CHOOSE f : f = [n \in D |-> Step(f, n)]
<1>9. open = [n \in D |-> Step(open, n)]
  <2>1. g = [n \in D |-> Step(g, n)]
    BY <1>8
  <2>. QED
    BY <2>1
<1>10. \A n \in D : OpenLevels(T, n) = open[n]
  BY DEF OpenLevels
<1>. HIDE DEF open
<1>11. \A n \in D : open[n] = Step(open, n)
  BY <1>9
<1>. DEFINE Q == {k \in Nat : \A n \in D : rank[n] <= k => open[n] \in Seq(V)}
<1>12. Nat \subseteq Q
  <2>1. 0 \in Q
    <3>1. ASSUME NEW n \in D, rank[n] <= 0 PROVE n = RootId
      BY <1>1, <3>1
    <3>2. open[RootId] = <<>> /\ <<>> \in Seq(V)
      BY <1>2, <1>11
    <3>. QED
      BY <3>1, <3>2
  <2>2. ASSUME NEW k \in Nat, k \in Q PROVE k + 1 \in Q
    <3>1. SUFFICES ASSUME NEW n \in D, rank[n] <= k + 1 PROVE open[n] \in Seq(V)
      OBVIOUS
    <3>2. CASE n = RootId
      <4>1. open[n] = <<>> /\ <<>> \in Seq(V)
        BY <3>2, <1>11
      <4>. QED
        BY <4>1
    <3>3. CASE n # RootId
      <4>1. T[n].parent \in D /\ rank[T[n].parent] <= k
        BY <1>1, <3>1, <3>3
      <4>2. open[T[n].parent] \in Seq(V) /\ T[n].level \in V
        BY <4>1, <2>2, <3>3
      <4>3. open[n] = Append(open[T[n].parent], T[n].level)
        BY <1>11, <3>3
      <4>. QED
        BY <4>2, <4>3
    <3>. QED
      BY <3>2, <3>3
  <2>. HIDE DEF Q
  <2>. QED
    BY <2>1, <2>2, SetInduction
<1>13. \A n \in D : open[n] \in Seq(V)
  <2>1. \A n \in D : rank[n] \in Nat
    BY <1>1
  <2>. QED
    BY <1>12, <2>1
<1>. QED
  BY <1>2, <1>1, <1>10, <1>11, <1>13

(* The nodes below some: those whose parent is (the destructor of          *)
(* ParseCache).                                                            *)
LEMMA WithBelowIs ==
  ASSUME NEW T, \A n \in DOMAIN T \ {RootId} : T[n].parent \in DOMAIN T, NEW ids
  PROVE  /\ WithBelow(T, ids) \subseteq DOMAIN T
         /\ \A n \in DOMAIN T : n \in WithBelow(T, ids)
              <=> n \in ids \/ (n # RootId /\ T[n].parent \in WithBelow(T, ids))
<1>. DEFINE D == DOMAIN T
            Fine(S) == /\ \A m \in D : m \in ids => m \in S
                       /\ \A m \in D \ {RootId} : T[m].parent \in S => m \in S
            U == {n \in D : \A S \in SUBSET D : Fine(S) => n \in S}
            Step(f, n) == n \in ids \/ (n # RootId /\ f[T[n].parent])
            u == [n \in D |-> n \in U]
            under == CHOOSE f : f = [n \in D |-> Step(f, n)]
<1>1. Fine(U)
  OBVIOUS
<1>2. ASSUME NEW n \in D, n \in U PROVE n \in ids \/ (n # RootId /\ T[n].parent \in U)
  <2>1. SUFFICES ASSUME n \notin ids, ~(n # RootId /\ T[n].parent \in U) PROVE FALSE
    OBVIOUS
  <2>. DEFINE S == U \ {n}
  <2>2. Fine(S)
    <3>. HIDE DEF U
    <3>. QED
      BY <1>1, <2>1
  <2>3. S \in SUBSET D /\ n \notin S
    OBVIOUS
  <2>. QED
    BY <1>2, <2>2, <2>3
<1>3. \A n \in D : n \in U <=> n \in ids \/ (n # RootId /\ T[n].parent \in U)
  <2>. HIDE DEF U
  <2>. QED
    BY <1>1, <1>2
<1>4. u = [n \in D |-> Step(u, n)]
  <2>. HIDE DEF U
  <2>1. ASSUME NEW n \in D PROVE u[n] = Step(u, n)
    <3>1. u[n] = (n \in U)
      OBVIOUS
    <3>2. n # RootId => u[T[n].parent] = (T[n].parent \in U)
      OBVIOUS
    <3>3. Step(u, n) = (n \in ids \/ (n # RootId /\ T[n].parent \in U))
      <4>. HIDE DEF u
      <4>1. CASE n = RootId
        BY <4>1
      <4>2. CASE n # RootId
        BY <3>2, <4>2
      <4>. QED
        BY <4>1, <4>2
    <3>4. (n \in U) = (n \in ids \/ (n # RootId /\ T[n].parent \in U))
      BY <1>3
    <3>. QED
      BY <3>1, <3>3, <3>4
  <2>. QED
    BY <2>1
<1>5. under = [n \in D |-> Step(under, n)]
  <2>. HIDE DEF u
  <2>. QED
    BY <1>4
<1>6. WithBelow(T, ids) = {n \in D : under[n]}
  BY DEF WithBelow
<1>. HIDE DEF under
<1>7. \A n \in D : under[n] <=> Step(under, n)
  BY <1>5
<1>. QED
  BY <1>6, <1>7

(* Deleting children of a node deletes what is below them, and neither the *)
(* node nor the root.                                                      *)
LEMMA BelowKids ==
  ASSUME NEW L, NEW T, IsTree(T, L), NEW p \in DOMAIN T, NEW gone \in SUBSET ToSet(T[p].kids)
  PROVE  LET B == WithBelow(T, gone) IN
         /\ B \subseteq DOMAIN T /\ p \notin B /\ RootId \notin B
         /\ \A n \in DOMAIN T \ {RootId} : n \in B <=> n \in gone \/ T[n].parent \in B
<1>. DEFINE D == DOMAIN T
            B == WithBelow(T, gone)
<1>1. PICK d \in Nat : \E rank \in [D -> 0 .. d] :
        \A n \in D \ {RootId} : T[n].parent \in D /\ rank[T[n].parent] < rank[n]
  BY RankFacts
<1>2. PICK rank \in [D -> 0 .. d] :
        \A n \in D \ {RootId} : T[n].parent \in D /\ rank[T[n].parent] < rank[n]
  BY <1>1
<1>3. /\ B \subseteq D
      /\ \A n \in D : n \in B <=> n \in gone \/ (n # RootId /\ T[n].parent \in B)
  BY <1>2, WithBelowIs
<1>4. \A g \in gone : g \in D /\ g # RootId /\ rank[p] < rank[g]
  <2>1. SUFFICES ASSUME NEW g \in gone PROVE g \in D /\ g # RootId /\ rank[p] < rank[g]
    OBVIOUS
  <2>2. PICK i \in DOMAIN T[p].kids : g = T[p].kids[i]
    BY <2>1 DEF ToSet
  <2>. QED
    BY <1>2, <2>2, KidFacts
<1>. HIDE DEF B
<1>5. RootId \notin B
  BY <1>3, <1>4
<1>. DEFINE S == {k \in Nat : \A n \in B : rank[n] <= k => rank[p] < rank[n]}
<1>6. Nat \subseteq S
  <2>1. 0 \in S
    <3>1. SUFFICES ASSUME NEW n \in B, rank[n] <= 0 PROVE rank[p] < rank[n]
      OBVIOUS
    <3>2. n \in D /\ n # RootId
      BY <1>3, <1>5
    <3>. QED
      BY <1>2, <3>1, <3>2
  <2>2. ASSUME NEW k \in Nat, k \in S PROVE k + 1 \in S
    <3>1. SUFFICES ASSUME NEW n \in B, rank[n] <= k + 1 PROVE rank[p] < rank[n]
      OBVIOUS
    <3>2. n \in D /\ n # RootId
      BY <1>3, <1>5
    <3>3. CASE n \in gone
      BY <3>3, <1>4
    <3>4. CASE T[n].parent \in B
      <4>1. rank[T[n].parent] <= k /\ rank[T[n].parent] < rank[n]
        BY <1>2, <3>1, <3>2
      <4>2. rank[p] < rank[T[n].parent]
        BY <2>2, <3>4, <4>1
      <4>3. T[n].parent \in D
        BY <1>2, <3>2
      <4>. QED
        BY <1>2, <3>2, <4>1, <4>2, <4>3
    <3>. QED
      BY <1>3, <3>2, <3>3, <3>4
  <2>. HIDE DEF S
  <2>. QED
    BY <2>1, <2>2, SetInduction
<1>7. p \notin B
  <2>1. rank[p] \in Nat /\ rank[p] \in S
    BY <1>6
  <2>. QED
    BY <2>1
<1>. QED
  BY <1>3, <1>5, <1>7 DEF B

(* A node with other children and another cursor.                          *)
Rekidded(q, kids, c) == [q EXCEPT !.kids = kids, !.cursor = c]

(* Such a node is one, otherwise as it was.                                *)
LEMMA NodeUpdate ==
  ASSUME NEW L, NEW q \in Nodes(L), NEW few \in Seq(Nat), NEW c \in Nat \cup {Nil}
  PROVE  LET r == Rekidded(q, few, c) IN
         /\ r \in Nodes(L) /\ r.kids = few /\ r.cursor = c /\ r.parent = q.parent
         /\ r.sline = q.sline /\ r.eline = q.eline /\ r.level = q.level
BY DEF Nodes, Rekidded

(* The children of p after the first m.                                    *)
KidsAfter(T, p, m) == {T[p].kids[i] : i \in m + 1 .. Len(T[p].kids)}

(* R is T with the kids of p after the first m deleted, and c for cursor.  *)
IsCut(T, p, m, c, R) ==
  LET kids == T[p].kids IN
  /\ p \in DOMAIN T /\ m \in 0 .. Len(kids)
  /\ c = Nil \/ (\E i \in 1 .. m : c = kids[i])
  /\ R = [n \in DOMAIN R |-> R[n]]
  /\ DOMAIN R = DOMAIN T \ WithBelow(T, KidsAfter(T, p, m))
  /\ \A n \in DOMAIN R : n # p => R[n] = T[n]
  /\ R[p] = Rekidded(T[p], SubSeq(kids, 1, m), c)

(* Deleting the last children of a node leaves a tree, all other nodes as  *)
(* they were.                                                              *)
LEMMA CutIsTree ==
  ASSUME NEW L, NEW T, IsTree(T, L), NEW p, NEW m, NEW c, NEW R, IsCut(T, p, m, c, R)
  PROVE  /\ IsTree(R, L)
         /\ DOMAIN R \subseteq DOMAIN T /\ p \in DOMAIN R
         /\ \A n \in DOMAIN T : n \in DOMAIN R
              <=> n = RootId \/ (n \notin KidsAfter(T, p, m) /\ T[n].parent \in DOMAIN R)
         /\ \A n \in DOMAIN R : n # p => R[n] = T[n]
         /\ R[p].kids = SubSeq(T[p].kids, 1, m)
         /\ R[p].parent = T[p].parent /\ R[p].sline = T[p].sline
         /\ R[p].eline = T[p].eline /\ R[p].level = T[p].level
<1>. DEFINE gone == KidsAfter(T, p, m)
<1>0. /\ p \in DOMAIN T /\ m \in 0 .. Len(T[p].kids)
      /\ c = Nil \/ (\E i \in 1 .. m : c = T[p].kids[i])
      /\ R = [n \in DOMAIN R |-> R[n]] /\ DOMAIN R = DOMAIN T \ WithBelow(T, gone)
      /\ \A n \in DOMAIN R : n # p => R[n] = T[n]
      /\ R[p] = Rekidded(T[p], SubSeq(T[p].kids, 1, m), c)
  BY DEF IsCut
<1>. DEFINE D == DOMAIN T
            B == WithBelow(T, gone)
            kids == T[p].kids
            few == SubSeq(kids, 1, m)
<1>1. kids \in Seq(D) /\ gone \in SUBSET ToSet(kids)
  <2>1. kids \in Seq(Nat)
    BY <1>0 DEF IsTree, Nodes
  <2>2. \A i \in DOMAIN kids : kids[i] \in D
    BY <1>0, KidFacts
  <2>3. kids \in Seq(D)
    <3>. HIDE DEF kids, D
    <3>. QED
      BY <2>1, <2>2
  <2>4. \A i \in m + 1 .. Len(kids) : i \in DOMAIN kids
    BY <1>0, <2>1
  <2>. QED
    BY <2>3, <2>4 DEF ToSet, KidsAfter
<1>2. /\ B \subseteq D /\ p \notin B /\ RootId \notin B
      /\ \A n \in D \ {RootId} : n \in B <=> n \in gone \/ T[n].parent \in B
  BY <1>0, <1>1, BelowKids
<1>. HIDE DEF B
<1>3. /\ DOMAIN R = D \ B
      /\ \A n \in D \ B : n # p => R[n] = T[n]
      /\ R[p] = Rekidded(T[p], few, c)
  BY <1>0, <1>2 DEF B
<1>4. few \in Seq(D) /\ Len(few) = m /\ \A i \in 1 .. m : few[i] = kids[i]
  BY <1>0, <1>1
<1>5. \A i \in 1 .. m : kids[i] \in D \ B /\ kids[i] \in D \ {RootId}
  <2>1. SUFFICES ASSUME NEW i \in 1 .. m PROVE kids[i] \in D \ B /\ kids[i] # RootId
    BY <1>0, <1>1
  <2>2. i \in DOMAIN kids
    BY <1>0, <1>1
  <2>3. kids[i] \in D /\ kids[i] # RootId /\ T[kids[i]].parent = p
    BY <1>0, <2>2, KidFacts
  <2>4. kids[i] \notin gone
    <3>0. gone = {kids[j] : j \in m + 1 .. Len(kids)}
      BY DEF KidsAfter
    <3>1. ASSUME NEW j \in m + 1 .. Len(kids), kids[j] = kids[i] PROVE FALSE
      <4>1. j \in DOMAIN kids /\ i # j
        BY <1>0, <1>1
      <4>. QED
        BY <1>0, <2>2, <3>1, <4>1 DEF IsTree, KidsOnce
    <3>. QED
      BY <3>0, <3>1
  <2>. QED
    BY <1>2, <2>3, <2>4
<1>6. \A n \in D : T[n] \in Nodes(L)
  BY DEF IsTree
<1>6k. T[p] \in Nodes(L) /\ few \in Seq(Nat) /\ c \in Nat \cup {Nil}
  <2>1. T[p] \in Nodes(L) /\ D \subseteq Nat
    BY <1>0, <1>6 DEF IsTree
  <2>2. few \in Seq(Nat)
    BY <1>4, <2>1
  <2>3. c \in Nat \cup {Nil}
    BY <1>0, <1>5, <2>1
  <2>. QED
    BY <2>1, <2>2, <2>3
<1>7. \A n \in D \ B : R[n].parent = T[n].parent /\ R[n] \in Nodes(L)
  <2>1. R[p].parent = T[p].parent /\ R[p] \in Nodes(L)
    <3>1. T[p] \in Nodes(L) /\ few \in Seq(Nat) /\ c \in Nat \cup {Nil}
      BY <1>6k
    <3>2. R[p] = Rekidded(T[p], few, c)
      BY <1>3
    <3>. HIDE DEF few
    <3>. QED
      BY <3>1, <3>2, NodeUpdate
  <2>. QED
    BY <1>0, <2>1, <1>3, <1>6
<1>8. R \in [DOMAIN R -> Nodes(L)]
  BY <1>0, <1>3, <1>7
<1>9. R[p].kids = few /\ R[p].cursor = c
  <2>1. T[p] \in Nodes(L) /\ few \in Seq(Nat) /\ c \in Nat \cup {Nil}
    BY <1>6k
  <2>2. R[p] = Rekidded(T[p], few, c)
    BY <1>3
  <2>. HIDE DEF few
  <2>. QED
    BY <2>1, <2>2, NodeUpdate
<1>10. \A n \in D \ B : n # RootId => T[n].parent \in D \ B
  BY <1>2 DEF IsTree, Linked
<1>11. \A n \in D \ B : n # p => \A i \in DOMAIN T[n].kids : T[n].kids[i] \in D \ B
  <2>1. SUFFICES ASSUME NEW n \in D \ B, n # p, NEW i \in DOMAIN T[n].kids
                 PROVE  T[n].kids[i] \in D \ B
    OBVIOUS
  <2>2. T[n].kids[i] \in D \ {RootId} /\ T[T[n].kids[i]].parent = n
    BY KidFacts
  <2>3. T[n].kids[i] \notin gone
    BY <1>0, <2>1, <2>2, <1>1, KidFacts DEF KidsAfter
  <2>. QED
    BY <1>2, <2>1, <2>2, <2>3
<1>12. Linked(R)
  <2>1. SUFFICES ASSUME NEW n \in D \ B
          PROVE  /\ n # RootId => R[n].parent \in D \ B /\ n \in ToSet(R[R[n].parent].kids)
                 /\ \A i \in DOMAIN R[n].kids :
                      R[n].kids[i] \in D \ B /\ R[R[n].kids[i]].parent = n
                 /\ R[n].cursor \in ToSet(R[n].kids) \cup {Nil}
    BY <1>3 DEF Linked
  <2>2. n # RootId => R[n].parent \in D \ B /\ n \in ToSet(R[R[n].parent].kids)
    <3>1. SUFFICES ASSUME n # RootId
                   PROVE  R[n].parent \in D \ B /\ n \in ToSet(R[R[n].parent].kids)
      OBVIOUS
    <3>2. R[n].parent = T[n].parent /\ T[n].parent \in D \ B
      BY <1>7, <1>10, <3>1
    <3>3. n \in ToSet(T[T[n].parent].kids)
      BY <3>1 DEF IsTree, Linked
    <3>4. CASE T[n].parent # p
      BY <1>3, <3>2, <3>3, <3>4
    <3>5. CASE T[n].parent = p
      <4>1. PICK i \in DOMAIN kids : n = kids[i]
        BY <3>3, <3>5 DEF ToSet
      <4>2. n \notin gone
        BY <1>2, <3>1
      <4>3. i \in 1 .. m
        BY <1>0, <1>1, <4>1, <4>2 DEF KidsAfter
      <4>4. n = few[i] /\ i \in DOMAIN few
        BY <1>4, <4>1, <4>3
      <4>5. n \in ToSet(few)
        BY <4>4 DEF ToSet
      <4>. QED
        BY <3>2, <3>5, <4>5, <1>9
    <3>. QED
      BY <3>4, <3>5
  <2>3. CASE n # p
    <3>1. R[n] = T[n]
      BY <1>3, <2>3
    <3>2. ASSUME NEW i \in DOMAIN T[n].kids
          PROVE  T[n].kids[i] \in D \ B /\ R[T[n].kids[i]].parent = n
      <4>1. T[n].kids[i] \in D \ B
        BY <1>11, <2>3
      <4>2. T[T[n].kids[i]].parent = n
        BY KidFacts
      <4>. QED
        BY <1>7, <4>1, <4>2
    <3>3. T[n].cursor \in ToSet(T[n].kids) \cup {Nil}
      BY DEF IsTree, Linked
    <3>. QED
      BY <2>2, <3>1, <3>2, <3>3
  <2>4. CASE n = p
    <3>1. \A i \in DOMAIN few : few[i] \in D \ B /\ R[few[i]].parent = p
      <4>1. SUFFICES ASSUME NEW i \in DOMAIN few
                     PROVE  few[i] \in D \ B /\ R[few[i]].parent = p
        OBVIOUS
      <4>2. i \in 1 .. m /\ i \in DOMAIN kids /\ few[i] = kids[i]
        BY <1>0, <1>1, <1>4
      <4>3. T[kids[i]].parent = p /\ kids[i] \in D \ B
        BY <1>0, <1>5, <4>2, KidFacts
      <4>4. R[kids[i]].parent = p
        BY <1>7, <4>3
      <4>. QED
        BY <4>2, <4>3, <4>4
    <3>2. c \in ToSet(few) \cup {Nil}
      BY <1>0, <1>4 DEF ToSet
    <3>. QED
      BY <2>2, <2>4, <3>1, <3>2, <1>9
  <2>. QED
    BY <2>3, <2>4
<1>13. KidsOnce(R)
  <2>1. SUFFICES ASSUME NEW n \in D \ B, NEW i \in DOMAIN R[n].kids, NEW j \in DOMAIN R[n].kids,
                        R[n].kids[i] = R[n].kids[j]
                 PROVE  i = j
    BY <1>3 DEF KidsOnce
  <2>2. CASE n # p
    BY <1>3, <2>1, <2>2 DEF IsTree, KidsOnce
  <2>3. CASE n = p
    <3>1. i \in 1 .. m /\ j \in 1 .. m /\ few[i] = few[j]
      <4>1. DOMAIN few = 1 .. m
        BY <1>0, <1>4
      <4>. HIDE DEF few
      <4>. QED
        BY <1>9, <2>1, <2>3, <4>1
    <3>2. i \in DOMAIN kids /\ j \in DOMAIN kids /\ kids[i] = kids[j]
      BY <1>0, <1>1, <1>4, <3>1
    <3>. QED
      BY <1>0, <3>2 DEF IsTree, KidsOnce
  <2>. QED
    BY <2>2, <2>3
<1>14. Ranked(R)
  <2>1. PICK d \in Nat : \E rank \in [D -> 0 .. d] :
          \A n \in D \ {RootId} : T[n].parent \in D /\ rank[T[n].parent] < rank[n]
    BY RankFacts
  <2>2. PICK rank \in [D -> 0 .. d] :
          \A n \in D \ {RootId} : T[n].parent \in D /\ rank[T[n].parent] < rank[n]
    BY <2>1
  <2>. DEFINE less == [n \in D \ B |-> rank[n]]
  <2>3. less \in [DOMAIN R -> 0 .. d]
    BY <1>3
  <2>4. \A n \in DOMAIN R \ {RootId} : less[R[n].parent] < less[n]
    BY <1>3, <1>7, <1>10, <2>2
  <2>. QED
    BY <2>3, <2>4 DEF Ranked
<1>15. IsFiniteSet(D \ B) /\ D \ B \subseteq Nat /\ RootId \in D \ B /\ R[RootId].parent = Nil
  <2>1. IsFiniteSet(D) /\ D \subseteq Nat /\ RootId \in D /\ T[RootId].parent = Nil
    BY DEF IsTree
  <2>2. IsFiniteSet(D \ B)
    BY <2>1, FS_Subset
  <2>. QED
    BY <2>1, <2>2, <1>2, <1>7
<1>16. IsTree(R, L)
  BY <1>3, <1>8, <1>12, <1>13, <1>14, <1>15 DEF IsTree
<1>17. \A n \in D : n \in DOMAIN R <=> n = RootId \/ (n \notin gone /\ T[n].parent \in DOMAIN R)
  <2>1. RootId \notin gone
    BY <1>0, <1>1, KidFacts DEF KidsAfter
  <2>2. \A n \in D \ {RootId} : T[n].parent \in D
    BY DEF IsTree, Linked
  <2>. HIDE DEF gone
  <2>. QED
    BY <2>1, <2>2, <1>2, <1>3
<1>18. /\ R[p].kids = few
       /\ R[p].parent = T[p].parent /\ R[p].sline = T[p].sline
       /\ R[p].eline = T[p].eline /\ R[p].level = T[p].level
  <2>1. few \in Seq(Nat) /\ c \in Nat \cup {Nil} /\ T[p] \in Nodes(L)
    BY <1>0, <1>1, <1>4, <1>5, <1>6 DEF IsTree
  <2>. HIDE DEF few
  <2>. QED
    BY <1>3, <2>1, NodeUpdate
<1>. QED
  BY <1>0, <1>2, <1>3, <1>16, <1>17, <1>18

(* dropNext deletes the siblings after a node and leaves a tree.           *)
LEMMA DropNextIs ==
  ASSUME NEW L, NEW T, IsTree(T, L), NEW f \in DOMAIN T, f # RootId
  PROVE  LET R == dropNext(T, f)
             p == T[f].parent
             gone == {T[p].kids[i] : i \in Place(T, f) + 1 .. Len(T[p].kids)}
         IN /\ IsTree(R, L)
            /\ DOMAIN R \subseteq DOMAIN T /\ p \in DOMAIN R /\ f \in DOMAIN R
            /\ \A n \in DOMAIN T : n \in DOMAIN R
                 <=> n = RootId \/ (n \notin gone /\ T[n].parent \in DOMAIN R)
            /\ \A n \in DOMAIN R : n # p => R[n] = T[n]
            /\ R[p].kids = SubSeq(T[p].kids, 1, Place(T, f))
            /\ R[p].parent = T[p].parent /\ R[p].sline = T[p].sline
            /\ R[p].eline = T[p].eline /\ R[p].level = T[p].level
<1>. DEFINE R == dropNext(T, f)
            p == T[f].parent
            kids == T[p].kids
            m == Place(T, f)
            gone == {kids[i] : i \in m + 1 .. Len(kids)}
            c == IF T[p].cursor \in gone THEN f ELSE T[p].cursor
            B == WithBelow(T, gone)
<1>1. p \in DOMAIN T /\ m \in DOMAIN kids /\ kids[m] = f
  BY PlaceFacts
<1>2. T[p] \in Nodes(L) /\ kids \in Seq(Nat) /\ m \in 1 .. Len(kids) /\ f \in Nat
  <2>1. T[p] \in Nodes(L) /\ f \in Nat
    BY <1>1 DEF IsTree
  <2>. QED
    BY <1>1, <2>1 DEF Nodes
<1>3. c = Nil \/ \E i \in 1 .. m : c = kids[i]
  <2>1. CASE T[p].cursor \in gone
    BY <1>1, <1>2, <2>1
  <2>2. CASE T[p].cursor \notin gone
    <3>1. T[p].cursor \in ToSet(kids) \cup {Nil}
      BY <1>1 DEF IsTree, Linked
    <3>2. CASE T[p].cursor \in ToSet(kids)
      <4>1. PICK i \in DOMAIN kids : T[p].cursor = kids[i]
        BY <3>2 DEF ToSet
      <4>2. i \in 1 .. m
        <5>1. i \in 1 .. Len(kids) /\ i \notin m + 1 .. Len(kids)
          BY <4>1, <2>2, <1>2
        <5>. HIDE DEF m, kids
        <5>. QED
          BY <1>2, <5>1
      <4>. QED
        BY <2>2, <4>1, <4>2
    <3>. QED
      BY <2>2, <3>1, <3>2
  <2>. QED
    BY <2>1, <2>2
<1>4. gone \in SUBSET ToSet(kids)
  BY <1>2 DEF ToSet
<1>g. gone = KidsAfter(T, p, m)
  BY DEF KidsAfter
<1>5. p \notin B /\ B \subseteq DOMAIN T
  <2>. HIDE DEF gone
  <2>. QED
    BY <1>1, <1>4, BelowKids
<1>6. /\ R = [n \in DOMAIN R |-> R[n]] /\ DOMAIN R = DOMAIN T \ B
      /\ \A n \in DOMAIN R : n # p => R[n] = T[n]
      /\ R[p] = Rekidded(T[p], SubSeq(kids, 1, m), c)
  <2>1. Without(T, gone) = [n \in DOMAIN T \ B |-> T[n]]
    BY DEF Without
  <2>. DEFINE W == Without(T, gone)
              k == SubSeq(kids, 1, m)
  <2>2. R = [W EXCEPT ![p].kids = SubSeq(W[p].kids, 1, m),
                      ![p].cursor = IF W[p].cursor \in gone THEN f ELSE W[p].cursor]
    BY DEF dropNext
  <2>. HIDE DEF W, k, R, B, gone
  <2>3. W = [n \in DOMAIN T \ B |-> T[n]]
    BY <2>1 DEF W
  <2>4. p \in DOMAIN T \ B
    BY <1>1, <1>5
  <2>5. W[p] = T[p]
    BY <2>3, <2>4
  <2>6. R[p] = Rekidded(T[p], k, c)
    <3>1. R[p] = [T[p] EXCEPT !.kids = k, !.cursor = c]
      BY <2>2, <2>3, <2>4, <2>5, <1>2 DEF Nodes, k
    <3>. QED
      BY <3>1 DEF Rekidded
  <2>7. /\ R = [n \in DOMAIN R |-> R[n]] /\ DOMAIN R = DOMAIN T \ B
        /\ \A n \in DOMAIN R : n # p => R[n] = T[n]
    BY <2>2, <2>3
  <2>. QED
    BY <2>6, <2>7 DEF k
<1>. HIDE DEF R, c
<1>7. /\ IsTree(R, L)
      /\ DOMAIN R \subseteq DOMAIN T /\ p \in DOMAIN R
      /\ \A n \in DOMAIN T : n \in DOMAIN R
           <=> n = RootId \/ (n \notin gone /\ T[n].parent \in DOMAIN R)
      /\ \A n \in DOMAIN R : n # p => R[n] = T[n]
      /\ R[p].kids = SubSeq(kids, 1, m)
      /\ R[p].parent = T[p].parent /\ R[p].sline = T[p].sline
      /\ R[p].eline = T[p].eline /\ R[p].level = T[p].level
  <2>1. IsCut(T, p, m, c, R)
    <3>1. m \in 0 .. Len(kids)
      BY <1>2
    <3>. HIDE DEF gone, m, p
    <3>. QED
      BY <1>1, <1>3, <1>6, <1>g, <3>1 DEF IsCut
  <2>. HIDE DEF gone, m, p
  <2>. QED
    BY <1>g, <2>1, CutIsTree
<1>8. f \notin gone
  <2>1. ASSUME NEW i \in m + 1 .. Len(kids), kids[i] = f PROVE FALSE
    <3>1. i \in DOMAIN kids /\ i # m
      BY <1>2
    <3>. QED
      BY <1>1, <2>1, <3>1 DEF IsTree, KidsOnce
  <2>. QED
    BY <2>1
<1>9. f \in DOMAIN R
  BY <1>7, <1>8
<1>. QED
  BY <1>7, <1>9 DEF R

(* dropChildren deletes all children of a node and leaves a tree.          *)
LEMMA DropChildrenIs ==
  ASSUME NEW L, NEW T, IsTree(T, L), NEW p \in DOMAIN T
  PROVE  LET R == dropChildren(T, p)
         IN /\ IsTree(R, L)
            /\ DOMAIN R \subseteq DOMAIN T /\ p \in DOMAIN R
            /\ \A n \in DOMAIN T : n \in DOMAIN R
                 <=> n = RootId \/ (n \notin ToSet(T[p].kids) /\ T[n].parent \in DOMAIN R)
            /\ \A n \in DOMAIN R : n # p => R[n] = T[n]
            /\ R[p].kids = <<>>
            /\ R[p].parent = T[p].parent /\ R[p].sline = T[p].sline
            /\ R[p].eline = T[p].eline /\ R[p].level = T[p].level
<1>. DEFINE R == dropChildren(T, p)
            kids == T[p].kids
            gone == {kids[i] : i \in 0 + 1 .. Len(kids)}
            B == WithBelow(T, gone)
<1>1. T[p] \in Nodes(L) /\ kids \in Seq(Nat)
  BY DEF IsTree, Nodes
<1>2. gone = ToSet(kids)
  BY <1>1 DEF ToSet
<1>3. p \notin B /\ B \subseteq DOMAIN T
  BY <1>2, BelowKids
<1>4. SubSeq(kids, 1, 0) = <<>>
  BY <1>1
<1>5. /\ R = [n \in DOMAIN R |-> R[n]] /\ DOMAIN R = DOMAIN T \ B
      /\ \A n \in DOMAIN R : n # p => R[n] = T[n]
      /\ R[p] = Rekidded(T[p], SubSeq(kids, 1, 0), Nil)
  <2>. DEFINE W == Without(T, gone)
  <2>1. W = [n \in DOMAIN T \ B |-> T[n]]
    BY DEF Without
  <2>2. R = [[W EXCEPT ![p].kids = <<>>] EXCEPT ![p].cursor = Nil]
    BY <1>2 DEF dropChildren
  <2>. HIDE DEF W, R, B
  <2>3. R[p] = Rekidded(T[p], <<>>, Nil)
    BY <2>1, <2>2, <1>1, <1>3 DEF Rekidded, Nodes
  <2>4. /\ R = [n \in DOMAIN R |-> R[n]] /\ DOMAIN R = DOMAIN T \ B
        /\ \A n \in DOMAIN R : n # p => R[n] = T[n]
    BY <2>1, <2>2
  <2>. QED
    BY <2>3, <2>4, <1>4
<1>. HIDE DEF R
<1>6. gone = KidsAfter(T, p, 0)
  BY <1>1 DEF KidsAfter
<1>7. IsCut(T, p, 0, Nil, R)
  <2>1. 0 \in 0 .. Len(kids)
    BY <1>1
  <2>. HIDE DEF gone
  <2>. QED
    BY <1>5, <1>6, <2>1 DEF IsCut
<1>. QED
  BY <1>2, <1>4, <1>6, <1>7, CutIsTree DEF R

(* A node allocated is not in the tree yet.                                *)
LEMMA FreeIdIsFree ==
  ASSUME NEW T, IsFiniteSet(DOMAIN T), DOMAIN T \subseteq Nat
  PROVE  FreeId(T) \in Nat /\ FreeId(T) \notin DOMAIN T
<1>. DEFINE D == DOMAIN T
            k == Cardinality(D)
            S == {i \in 1 .. k + 1 : i \notin D}
<1>1. k \in Nat
  BY FS_CardinalityType
<1>2. S # {}
  <2>1. SUFFICES ASSUME 1 .. k + 1 \subseteq D PROVE FALSE
    OBVIOUS
  <2>2. Cardinality(1 .. k + 1) <= k
    BY <2>1, FS_Subset
  <2>3. Cardinality(1 .. k + 1) = k + 1
    <3>1. 1 \in Int /\ k + 1 \in Int /\ k + 1 >= 1
      BY <1>1
    <3>2. Cardinality(1 .. k + 1) = (k + 1) - 1 + 1
      BY <3>1, FS_Interval
    <3>. QED
      BY <1>1, <3>2
  <2>. QED
    BY <1>1, <2>2, <2>3
<1>3. S \subseteq Nat
  OBVIOUS
<1>4. \E i \in S : \A j \in S : i <= j
  <2>. HIDE DEF S
  <2>. QED
    BY <1>2, <1>3, LeastNat
<1>5. PICK i \in S : \A j \in S : i <= j
  BY <1>4
<1>6. \A j \in 1 .. i - 1 : j \in D
  <2>1. SUFFICES ASSUME NEW j \in 1 .. i - 1, j \notin D PROVE FALSE
    OBVIOUS
  <2>2. j \in S
    <3>1. i \in 1 .. k + 1
      BY <1>5
    <3>2. j \in 1 .. k + 1
      <4>. HIDE DEF k
      <4>. QED
        BY <1>1, <2>1, <3>1
    <3>. QED
      BY <2>1, <3>2
  <2>. QED
    BY <1>3, <1>5, <2>2
<1>7. /\ i \in 1 .. k + 1 /\ i \notin D
  BY <1>5
<1>. QED
  BY <1>1, <1>6, <1>7 DEF FreeId

(* f is the last child of p, with f nil p has none.                        *)
AtEnd(T, p, f) ==
  IF f = Nil THEN T[p].kids = <<>>
  ELSE f \in DOMAIN T /\ f # RootId /\ T[f].parent = p /\ Place(T, f) = Len(T[p].kids)

(* A new node may go after the last child of node p.                       *)
MayAppend(L, T, p, f, id, sline, level) ==
  /\ IsTree(T, L) /\ p \in DOMAIN T /\ AtEnd(T, p, f)
  /\ id \in Nat /\ id \notin DOMAIN T /\ sline \in Nat /\ level \in L

(* R is T with node new, called id, the last child of node p.              *)
HasNew(L, T, p, id, new, R) ==
  /\ IsTree(R, L)
  /\ DOMAIN R = DOMAIN T \cup {id}
  /\ \A n \in DOMAIN T : n # p => R[n] = T[n]
  /\ R[p].kids = Append(T[p].kids, id)
  /\ R[p].parent = T[p].parent /\ R[p].sline = T[p].sline
  /\ R[p].eline = T[p].eline /\ R[p].level = T[p].level
  /\ R[id] = new

(* A node put after the last child makes a tree again (searchBL, when a    *)
(* block starts).                                                          *)
LEMMA AppendedIs ==
  ASSUME NEW L, NEW T, NEW p, NEW f, NEW id, NEW sline, NEW level,
         MayAppend(L, T, p, f, id, sline, level)
  PROVE  HasNew(L, T, p, id, NewNode(p, sline, level),
                Appended(T, p, f, id, NewNode(p, sline, level)))
<1>. DEFINE R == Appended(T, p, f, id, NewNode(p, sline, level))
            D == DOMAIN T
            kids == T[p].kids
            more == Append(kids, id)
            new == NewNode(p, sline, level)
<1>. /\ IsTree(T, L) /\ p \in DOMAIN T /\ AtEnd(T, p, f)
     /\ id \in Nat /\ id \notin DOMAIN T /\ sline \in Nat /\ level \in L
  BY DEF MayAppend
<1>1. T[p] \in Nodes(L) /\ kids \in Seq(Nat) /\ p \in Nat /\ p # id /\ T[p].cursor \in Nat \cup {Nil}
  BY DEF IsTree, Nodes
<1>2. (IF f = Nil THEN <<>> ELSE SubSeq(kids, 1, Place(T, f))) = kids
  <2>1. SubSeq(kids, 1, Len(kids)) = kids
    BY <1>1
  <2>2. CASE f = Nil
    BY <2>2 DEF AtEnd
  <2>3. CASE f # Nil
    BY <2>1, <2>3 DEF AtEnd
  <2>. QED
    BY <2>2, <2>3
<1>3. /\ R = [n \in DOMAIN R |-> R[n]] /\ DOMAIN R = D \cup {id}
      /\ \A n \in D : n # p => R[n] = T[n]
      /\ R[p] = Rekidded(T[p], more, T[p].cursor)
      /\ R[id] = new
  <2>1. R = [n \in D \cup {id} |->
               IF n = id THEN new
               ELSE IF n = p THEN [T[p] EXCEPT !.kids = more] ELSE T[n]]
    BY <1>2 DEF Appended
  <2>2. Rekidded(T[p], more, T[p].cursor) = [T[p] EXCEPT !.kids = more]
    BY <1>1 DEF Rekidded, Nodes
  <2>. HIDE DEF R
  <2>. QED
    BY <1>1, <2>1, <2>2
<1>. HIDE DEF R
<1>4. more \in Seq(Nat) /\ Len(more) = Len(kids) + 1 /\ more[Len(more)] = id
      /\ \A i \in 1 .. Len(kids) : more[i] = kids[i]
  BY <1>1
<1>5. /\ R[p] \in Nodes(L) /\ R[p].kids = more /\ R[p].cursor = T[p].cursor
      /\ R[p].parent = T[p].parent /\ R[p].sline = T[p].sline
      /\ R[p].eline = T[p].eline /\ R[p].level = T[p].level
  <2>. DEFINE c == T[p].cursor
              q == T[p]
  <2>1. R[p] = Rekidded(q, more, c) /\ c \in Nat \cup {Nil} /\ more \in Seq(Nat) /\ q \in Nodes(L)
    BY <1>1, <1>3, <1>4
  <2>. HIDE DEF more, c, q
  <2>2. /\ R[p] \in Nodes(L) /\ R[p].kids = more /\ R[p].cursor = c
        /\ R[p].parent = q.parent /\ R[p].sline = q.sline
        /\ R[p].eline = q.eline /\ R[p].level = q.level
    BY <2>1, NodeUpdate
  <2>. QED
    BY <2>2 DEF c, q
<1>6. /\ new \in Nodes(L) /\ new.kids = <<>> /\ new.cursor = Nil /\ new.parent = p
  BY <1>1 DEF NewNode, Nodes, Unended
<1>. HIDE DEF new
<1>7. \A n \in D : R[n].parent = T[n].parent /\ R[n].cursor = T[n].cursor /\ R[n] \in Nodes(L)
  BY <1>3, <1>5 DEF IsTree
<1>8. R \in [DOMAIN R -> Nodes(L)]
  BY <1>3, <1>6, <1>7
<1>9. \A i \in 1 .. Len(kids) : kids[i] \in D /\ T[kids[i]].parent = p /\ kids[i] # id
  BY <1>1, KidFacts
<1>10. Linked(R)
  <2>1. SUFFICES ASSUME NEW n \in DOMAIN R
          PROVE  /\ n # RootId => R[n].parent \in DOMAIN R /\ n \in ToSet(R[R[n].parent].kids)
                 /\ \A i \in DOMAIN R[n].kids :
                      R[n].kids[i] \in DOMAIN R /\ R[R[n].kids[i]].parent = n
                 /\ R[n].cursor \in ToSet(R[n].kids) \cup {Nil}
    BY DEF Linked
  <2>2. ToSet(more) = ToSet(kids) \cup {id}
    <3>1. DOMAIN more = 1 .. Len(kids) + 1 /\ DOMAIN kids = 1 .. Len(kids) /\ Len(kids) \in Nat
      BY <1>1, <1>4
    <3>2. \A i \in DOMAIN kids : i \in DOMAIN more /\ more[i] = kids[i]
      BY <3>1, <1>4
    <3>3. Len(kids) + 1 \in DOMAIN more /\ more[Len(kids) + 1] = id
      BY <3>1, <1>4
    <3>4. \A i \in DOMAIN more : i \in DOMAIN kids \/ i = Len(kids) + 1
      BY <3>1
    <3>. HIDE DEF more, kids
    <3>. QED
      BY <3>2, <3>3, <3>4 DEF ToSet
  <2>3. CASE n = id
    <3>1. R[n] = new
      BY <1>3, <2>3
    <3>2. n \in ToSet(R[p].kids) /\ p \in DOMAIN R
      BY <1>3, <1>5, <2>2, <2>3
    <3>. QED
      BY <1>6, <3>1, <3>2
  <2>4. CASE n = p
    <3>1. p # RootId => T[p].parent \in D /\ p \in ToSet(T[T[p].parent].kids) /\ T[p].parent # p
      <4>1. p # RootId => T[p].parent \in D /\ p \in ToSet(T[T[p].parent].kids)
        BY DEF IsTree, Linked
      <4>2. p # RootId => T[p].parent # p
        BY RankFacts
      <4>. QED
        BY <4>1, <4>2
    <3>2. p # RootId => R[p].parent \in DOMAIN R /\ p \in ToSet(R[R[p].parent].kids)
      BY <1>3, <1>5, <3>1
    <3>3. \A i \in DOMAIN more : more[i] \in DOMAIN R /\ R[more[i]].parent = p
      <4>1. SUFFICES ASSUME NEW i \in 1 .. Len(kids) + 1
                     PROVE  more[i] \in DOMAIN R /\ R[more[i]].parent = p
        BY <1>4
      <4>2. CASE i = Len(kids) + 1
        BY <1>3, <1>4, <1>6, <4>2
      <4>3. CASE i # Len(kids) + 1
        <5>1. i \in 1 .. Len(kids) /\ more[i] = kids[i]
          BY <1>1, <1>4, <4>3
        <5>2. kids[i] \in D /\ T[kids[i]].parent = p
          BY <1>9, <5>1
        <5>. QED
          BY <1>3, <1>7, <5>1, <5>2
      <4>. QED
        BY <4>2, <4>3
    <3>4. T[p].cursor \in ToSet(more) \cup {Nil}
      BY <2>2 DEF IsTree, Linked
    <3>. QED
      BY <1>5, <2>4, <3>2, <3>3, <3>4
  <2>5. CASE n \in D /\ n # p
    <3>1. R[n] = T[n]
      BY <1>3, <2>5
    <3>2. n # RootId => T[n].parent \in D /\ n \in ToSet(T[T[n].parent].kids)
      BY <2>5 DEF IsTree, Linked
    <3>3. n # RootId => T[n].parent \in DOMAIN R /\ n \in ToSet(R[T[n].parent].kids)
      BY <1>3, <1>5, <2>2, <3>2
    <3>4. \A i \in DOMAIN T[n].kids : T[n].kids[i] \in D /\ T[T[n].kids[i]].parent = n
      BY <2>5 DEF IsTree, Linked
    <3>5. \A i \in DOMAIN T[n].kids : T[n].kids[i] \in DOMAIN R /\ R[T[n].kids[i]].parent = n
      BY <1>3, <1>7, <3>4
    <3>6. T[n].cursor \in ToSet(T[n].kids) \cup {Nil}
      BY <2>5 DEF IsTree, Linked
    <3>. QED
      BY <3>1, <3>3, <3>5, <3>6
  <2>. QED
    BY <1>3, <2>3, <2>4, <2>5
<1>11. KidsOnce(R)
  <2>1. SUFFICES ASSUME NEW n \in DOMAIN R, NEW i \in DOMAIN R[n].kids, NEW j \in DOMAIN R[n].kids,
                        R[n].kids[i] = R[n].kids[j]
                 PROVE  i = j
    BY DEF KidsOnce
  <2>2. CASE n = id
    BY <1>3, <1>6, <2>1, <2>2
  <2>3. CASE n = p
    <3>0. DOMAIN more = 1 .. Len(kids) + 1
      BY <1>1, <1>4
    <3>1. i \in 1 .. Len(kids) + 1 /\ j \in 1 .. Len(kids) + 1 /\ more[i] = more[j]
      <4>. HIDE DEF more, kids
      <4>. QED
        BY <1>5, <2>1, <2>3, <3>0
    <3>2. \A k \in 1 .. Len(kids) + 1 :
            (k = Len(kids) + 1 /\ more[k] = id) \/ (k \in 1 .. Len(kids) /\ more[k] = kids[k] /\ more[k] # id)
      <4>1. Len(kids) \in Nat /\ \A k \in 1 .. Len(kids) : kids[k] # id
        BY <1>1, <1>9
      <4>. HIDE DEF more, kids
      <4>. QED
        BY <1>4, <4>1
    <3>3. \A k, l \in 1 .. Len(kids) : kids[k] = kids[l] => k = l
      <4>1. \A k, l \in DOMAIN kids : kids[k] = kids[l] => k = l
        BY DEF IsTree, KidsOnce
      <4>2. DOMAIN kids = 1 .. Len(kids)
        BY <1>1
      <4>. HIDE DEF kids
      <4>. QED
        BY <4>1, <4>2
    <3>. HIDE DEF more, kids
    <3>. QED
      BY <3>1, <3>2, <3>3
  <2>4. CASE n \in D /\ n # p
    <3>1. R[n] = T[n]
      BY <1>3, <2>4
    <3>. QED
      BY <2>1, <2>4, <3>1 DEF IsTree, KidsOnce
  <2>. QED
    BY <1>3, <2>2, <2>3, <2>4
<1>12. Ranked(R)
  <2>1. PICK d \in Nat : \E rank \in [D -> 0 .. d] :
          \A n \in D \ {RootId} : T[n].parent \in D /\ rank[T[n].parent] < rank[n]
    BY RankFacts
  <2>2. PICK rank \in [D -> 0 .. d] :
          \A n \in D \ {RootId} : T[n].parent \in D /\ rank[T[n].parent] < rank[n]
    BY <2>1
  <2>. DEFINE deep == [n \in D \cup {id} |-> IF n = id THEN d + 1 ELSE rank[n]]
  <2>3. deep \in [DOMAIN R -> 0 .. d + 1] /\ d + 1 \in Nat
    BY <1>3
  <2>4. \A n \in DOMAIN R \ {RootId} : deep[R[n].parent] < deep[n]
    <3>1. SUFFICES ASSUME NEW n \in DOMAIN R \ {RootId} PROVE deep[R[n].parent] < deep[n]
      OBVIOUS
    <3>2. CASE n = id
      <4>1. R[n].parent = p /\ deep[n] = d + 1
        BY <1>3, <1>6, <3>2
      <4>2. deep[p] = rank[p] /\ rank[p] \in 0 .. d
        BY <1>1
      <4>. HIDE DEF deep
      <4>. QED
        BY <4>1, <4>2
    <3>3. CASE n \in D
      <4>1. R[n].parent = T[n].parent /\ T[n].parent \in D
        BY <1>7, <2>2, <3>1, <3>3
      <4>2. deep[n] = rank[n] /\ deep[T[n].parent] = rank[T[n].parent]
        BY <3>3, <4>1
      <4>. QED
        BY <2>2, <3>1, <3>3, <4>1, <4>2
    <3>. QED
      BY <1>3, <3>2, <3>3
  <2>. QED
    BY <2>3, <2>4 DEF Ranked
<1>13. IsFiniteSet(D \cup {id}) /\ D \cup {id} \subseteq Nat /\ RootId \in D \cup {id}
       /\ R[RootId].parent = Nil
  <2>1. IsFiniteSet(D) /\ D \subseteq Nat /\ RootId \in D /\ T[RootId].parent = Nil
    BY DEF IsTree
  <2>2. IsFiniteSet(D \cup {id})
    BY <2>1, FS_AddElement
  <2>. QED
    BY <2>1, <2>2, <1>7
<1>14. IsTree(R, L)
  BY <1>3, <1>8, <1>10, <1>11, <1>12, <1>13 DEF IsTree
<1>. QED
  BY <1>3, <1>5, <1>14 DEF R, new, HasNew

(* Cursors moved among the children, and ends set, leave a tree.           *)
LEMMA SameShape ==
  ASSUME NEW L, NEW T, IsTree(T, L), NEW R, R \in [DOMAIN T -> Nodes(L)],
         \A n \in DOMAIN T : /\ R[n].parent = T[n].parent /\ R[n].kids = T[n].kids
                            /\ R[n].cursor \in ToSet(T[n].kids) \cup {Nil}
  PROVE  IsTree(R, L)
<1>1. DOMAIN R = DOMAIN T
  OBVIOUS
<1>2. Linked(R)
  <2>1. \A n \in DOMAIN T :
          /\ n # RootId => T[n].parent \in DOMAIN T /\ n \in ToSet(T[T[n].parent].kids)
          /\ \A i \in DOMAIN T[n].kids :
               T[n].kids[i] \in DOMAIN T /\ T[T[n].kids[i]].parent = n
    BY DEF IsTree, Linked
  <2>. QED
    BY <1>1, <2>1 DEF Linked
<1>3. KidsOnce(R)
  BY <1>1 DEF IsTree, KidsOnce
<1>4. Ranked(R)
  <2>1. PICK d \in Nat : \E rank \in [DOMAIN T -> 0 .. d] :
          \A n \in DOMAIN T \ {RootId} : rank[T[n].parent] < rank[n]
    BY DEF IsTree, Ranked
  <2>. QED
    BY <1>1, <2>1 DEF Ranked
<1>. QED
  BY <1>1, <1>2, <1>3, <1>4 DEF IsTree

(* The way of a search begins at the root, goes on through candidates that *)
(* cover the line and ends where none does.                                *)
LEMMA SearchPathIs ==
  ASSUME NEW L, NEW T, IsTree(T, L), NEW ln \in Int
  PROVE  LET path == SearchPath(T, ln)
             On(n) == T[n].kids # <<>> /\ Covers(T, Candidate(T, n, ln), ln)
         IN /\ path \in Seq(DOMAIN T) /\ Len(path) >= 1 /\ path[1] = RootId
            /\ \A i \in 1 .. Len(path) - 1 :
                 On(path[i]) /\ path[i + 1] = Candidate(T, path[i], ln)
            /\ ~On(path[Len(path)])
<1>. DEFINE D == DOMAIN T
            On(n) == T[n].kids # <<>> /\ Covers(T, Candidate(T, n, ln), ln)
            more == {n \in D : On(n)}
            next == [n \in D |-> IF On(n) THEN Candidate(T, n, ln) ELSE n]
            Step(g, n) == <<n>> \o IF On(n) THEN g[Candidate(T, n, ln)] ELSE <<>>
            go == CHOOSE g : g = [n \in D |-> Step(g, n)]
<1>. HIDE DEF On
<1>1. \A n \in D : T[n].kids # <<>> =>
        Candidate(T, n, ln) \in D /\ Candidate(T, n, ln) # RootId /\ T[Candidate(T, n, ln)].parent = n
  <2>1. SUFFICES ASSUME NEW n \in D, T[n].kids # <<>>
                 PROVE  Candidate(T, n, ln) \in D /\ Candidate(T, n, ln) # RootId
                        /\ T[Candidate(T, n, ln)].parent = n
    OBVIOUS
  <2>2. PICK i \in DOMAIN T[n].kids : Candidate(T, n, ln) = T[n].kids[i]
    BY <2>1, CandidateIsKid
  <2>. QED
    BY <2>2, KidFacts
<1>2. PICK d \in Nat : \E rank \in [D -> 0 .. d] :
        \A n \in D \ {RootId} : T[n].parent \in D /\ rank[T[n].parent] < rank[n]
  BY RankFacts
<1>3. PICK rank \in [D -> 0 .. d] :
        \A n \in D \ {RootId} : T[n].parent \in D /\ rank[T[n].parent] < rank[n]
  BY <1>2
<1>4. /\ next \in [D -> D] /\ more \in SUBSET D
      /\ \A n \in D : n \in more => rank[n] < rank[next[n]]
  <2>1. \A n \in D : On(n) => T[n].kids # <<>>
    BY DEF On
  <2>. QED
    BY <1>1, <1>3, <2>1
<1>d. Descends(D, next, more)
  BY <1>3, <1>4 DEF Descends
<1>5. \A g : [n \in D |-> Step(g, n)] = [n \in D |-> <<n>> \o IF n \in more THEN g[next[n]] ELSE <<>>]
  OBVIOUS
<1>6. \E g : g = [n \in D |-> <<n>> \o IF n \in more THEN g[next[n]] ELSE <<>>]
  <2>. HIDE DEF more, next
  <2>. QED
    BY <1>d, WayDown
<1>7. go = [n \in D |-> Step(go, n)]
  <2>1. \E g : g = [n \in D |-> Step(g, n)]
    <3>1. PICK g : g = [n \in D |-> <<n>> \o IF n \in more THEN g[next[n]] ELSE <<>>]
      BY <1>6
    <3>2. g = [n \in D |-> Step(g, n)]
      BY <3>1, <1>5
    <3>. QED
      BY <3>2
  <2>. QED
    BY <2>1
<1>8. SearchPath(T, ln) = go[RootId]
  BY DEF SearchPath, On
<1>. HIDE DEF go
<1>9. Walks(D, next, more, go)
  <2>1. go = [n \in D |-> <<n>> \o IF n \in more THEN go[next[n]] ELSE <<>>]
    BY <1>7, <1>5
  <2>. QED
    BY <2>1 DEF Walks
<1>10. LET p == go[RootId] IN
         /\ p \in Seq(D) /\ Len(p) >= 1 /\ p[1] = RootId
         /\ \A i \in 1 .. Len(p) - 1 : p[i] \in more /\ p[i + 1] = next[p[i]]
         /\ p[Len(p)] \notin more
  <2>1. RootId \in D
    BY DEF IsTree
  <2>2. \A n \in D :
          /\ go[n] \in Seq(D) /\ Len(go[n]) >= 1 /\ go[n][1] = n
          /\ \A i \in 1 .. Len(go[n]) - 1 : go[n][i] \in more /\ go[n][i + 1] = next[go[n][i]]
          /\ go[n][Len(go[n])] \notin more
    <3>. HIDE DEF more, next
    <3>. QED
      BY <1>d, <1>9, PathDown
  <2>. QED
    BY <2>1, <2>2
<1>. DEFINE path == SearchPath(T, ln)
<1>11. /\ path \in Seq(D) /\ Len(path) >= 1 /\ path[1] = RootId
       /\ \A i \in 1 .. Len(path) - 1 : path[i] \in more /\ path[i + 1] = next[path[i]]
       /\ path[Len(path)] \notin more
  <2>. HIDE DEF more, next
  <2>. QED
    BY <1>8, <1>10
<1>. HIDE DEF path
<1>12. \A i \in 1 .. Len(path) - 1 : On(path[i]) /\ path[i + 1] = Candidate(T, path[i], ln)
  BY <1>11
<1>13. path[Len(path)] \in D /\ ~On(path[Len(path)])
  <2>1. path[Len(path)] \in D
    BY <1>11
  <2>. QED
    BY <2>1, <1>11
<1>. QED
  BY <1>11, <1>12, <1>13 DEF path, On

(* A search finds a node, and a child of it to go on from, and moves       *)
(* nothing but cursors (searchLine).                                       *)
LEMMA SearchIs ==
  ASSUME NEW L, NEW T, IsTree(T, L), NEW ln \in Int
  PROVE  LET s == searchLine(T, ln) IN
         /\ IsTree(s.tree, L)
         /\ DOMAIN s.tree = DOMAIN T
         /\ \A n \in DOMAIN T :
              /\ s.tree[n].parent = T[n].parent /\ s.tree[n].kids = T[n].kids
              /\ s.tree[n].sline = T[n].sline /\ s.tree[n].eline = T[n].eline
              /\ s.tree[n].level = T[n].level
         /\ s.found \in DOMAIN T
         /\ s.forward # Nil =>
              /\ s.forward \in DOMAIN T /\ s.forward # RootId
              /\ T[s.forward].parent = s.found
<1>. DEFINE D == DOMAIN T
            path == SearchPath(T, ln)
            found == Last(path)
            cand == IF T[found].kids = <<>> THEN Nil ELSE Candidate(T, found, ln)
            R == [n \in D |-> IF n \in ToSet(path) /\ T[n].kids # <<>>
                               THEN [T[n] EXCEPT !.cursor = Candidate(T, n, ln)] ELSE T[n]]
<1>1. found \in D
  <2>1. path \in Seq(D) /\ Len(path) >= 1
    BY SearchPathIs
  <2>2. path[Len(path)] \in D
    <3>. HIDE DEF path
    <3>. QED
      BY <2>1
  <2>. QED
    BY <2>2 DEF Last
<1>. HIDE DEF path, found
<1>2. ASSUME NEW n \in D, T[n].kids # <<>>
      PROVE  /\ Candidate(T, n, ln) \in D /\ Candidate(T, n, ln) # RootId
             /\ T[Candidate(T, n, ln)].parent = n /\ Candidate(T, n, ln) \in ToSet(T[n].kids)
  <2>1. PICK i \in DOMAIN T[n].kids : Candidate(T, n, ln) = T[n].kids[i]
    BY <1>2, CandidateIsKid
  <2>. QED
    BY <2>1, KidFacts
<1>3. ASSUME NEW n \in D
      PROVE  /\ R[n] \in Nodes(L)
             /\ R[n].parent = T[n].parent /\ R[n].kids = T[n].kids
             /\ R[n].sline = T[n].sline /\ R[n].eline = T[n].eline
             /\ R[n].level = T[n].level
             /\ R[n].cursor \in ToSet(T[n].kids) \cup {Nil}
  <2>1. T[n] \in Nodes(L) /\ T[n].cursor \in ToSet(T[n].kids) \cup {Nil} /\ D \subseteq Nat
    BY DEF IsTree, Linked
  <2>2. CASE n \in ToSet(path) /\ T[n].kids # <<>>
    <3>. DEFINE c == Candidate(T, n, ln)
    <3>1. c \in ToSet(T[n].kids) /\ c \in Nat
      BY <1>2, <2>1, <2>2
    <3>2. R[n] = [T[n] EXCEPT !.cursor = c]
      BY <2>2
    <3>. HIDE DEF c, R
    <3>. QED
      BY <2>1, <3>1, <3>2 DEF Nodes
  <2>3. CASE ~(n \in ToSet(path) /\ T[n].kids # <<>>)
    BY <2>1, <2>3
  <2>. QED
    BY <2>2, <2>3
<1>4. searchLine(T, ln) =
        [found |-> found,
         forward |-> IF cand # Nil /\ T[cand].sline <= ln THEN cand ELSE Nil, tree |-> R]
  BY DEF searchLine, found, path
<1>. HIDE DEF R
<1>5. R \in [D -> Nodes(L)]
  <2>1. R = [n \in D |-> R[n]]
    BY DEF R
  <2>. QED
    BY <1>3, <2>1
<1>6. IsTree(R, L)
  BY <1>3, <1>5, SameShape
<1>7. cand # Nil => cand \in D /\ cand # RootId /\ T[cand].parent = found
  BY <1>1, <1>2
<1>. HIDE DEF cand
<1>8. DOMAIN R = D
  BY <1>5
<1>. QED
  BY <1>1, <1>3, <1>4, <1>6, <1>7, <1>8

(* Closing a node changes its last line only.                              *)
LEMMA EndedIs ==
  ASSUME NEW L, NEW T, IsTree(T, L), NEW n \in DOMAIN T, NEW e \in Nat
  PROVE  LET R == [T EXCEPT ![n].eline = e] IN
         /\ IsTree(R, L)
         /\ DOMAIN R = DOMAIN T
         /\ \A m \in DOMAIN T :
              /\ R[m].parent = T[m].parent /\ R[m].kids = T[m].kids
              /\ R[m].sline = T[m].sline /\ R[m].level = T[m].level
              /\ R[m].eline = IF m = n THEN e ELSE T[m].eline
<1>. DEFINE R == [T EXCEPT ![n].eline = e]
<1>1. ASSUME NEW m \in DOMAIN T
      PROVE  /\ R[m] \in Nodes(L) /\ R[m].parent = T[m].parent /\ R[m].kids = T[m].kids
             /\ R[m].sline = T[m].sline /\ R[m].level = T[m].level
             /\ R[m].eline = IF m = n THEN e ELSE T[m].eline
             /\ R[m].cursor = T[m].cursor
  <2>1. T[m] \in Nodes(L)
    BY DEF IsTree
  <2>2. CASE m = n
    <3>1. R[m] = [T[m] EXCEPT !.eline = e]
      BY <2>2
    <3>. HIDE DEF R
    <3>. QED
      BY <2>1, <2>2, <3>1 DEF Nodes
  <2>3. CASE m # n
    BY <2>1, <2>3
  <2>. QED
    BY <2>2, <2>3
<1>2. DOMAIN R = DOMAIN T /\ R = [m \in DOMAIN T |-> R[m]]
  OBVIOUS
<1>. HIDE DEF R
<1>3. R \in [DOMAIN T -> Nodes(L)]
  BY <1>1, <1>2
<1>4. \A m \in DOMAIN T : R[m].cursor \in ToSet(T[m].kids) \cup {Nil}
  BY <1>1 DEF IsTree, Linked
<1>5. IsTree(R, L)
  BY <1>1, <1>3, <1>4, SameShape
<1>. QED
  BY <1>1, <1>2, <1>5 DEF R

(* The tree of initCache.                                                  *)
LEMMA InitTreeIs ==
  ASSUME NEW L, NEW level \in L
  PROVE  IsTree(InitTree(level), L) /\ DOMAIN InitTree(level) = {RootId}
<1>. DEFINE T == InitTree(level)
<1>1. DOMAIN T = {RootId} /\ T[RootId] = NewNode(Nil, 0, level) /\ T = [n \in {RootId} |-> T[n]]
  BY DEF InitTree
<1>. HIDE DEF T
<1>2. /\ T[RootId] \in Nodes(L) /\ T[RootId].parent = Nil /\ T[RootId].kids = <<>>
      /\ T[RootId].cursor = Nil
  BY <1>1 DEF NewNode, Nodes, Unended
<1>3. T \in [{RootId} -> Nodes(L)]
  BY <1>1, <1>2
<1>4. Linked(T) /\ KidsOnce(T)
  BY <1>1, <1>2 DEF Linked, KidsOnce
<1>5. Ranked(T)
  <2>. DEFINE rank == [n \in {RootId} |-> 0]
  <2>1. rank \in [DOMAIN T -> 0 .. 0] /\ 0 \in Nat
    BY <1>1
  <2>2. \A n \in DOMAIN T \ {RootId} : rank[T[n].parent] < rank[n]
    BY <1>1
  <2>. QED
    BY <2>1, <2>2 DEF Ranked
<1>6. IsFiniteSet({RootId}) /\ {RootId} \subseteq Nat
  BY FS_Singleton DEF RootId
<1>. QED
  BY <1>1, <1>2, <1>3, <1>4, <1>5, <1>6 DEF IsTree, T
=============================================================================

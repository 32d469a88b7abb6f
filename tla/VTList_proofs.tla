---------------------------- MODULE VTList_proofs ---------------------------
(***************************************************************************)
(* What is taken off the table list of the parser is what was put on it,   *)
(* whatever the tables are and however they are nested.                    *)
(***************************************************************************)
EXTENDS VTList, TLAPS

VTNode == [vlist : Seq(Entries), shadow_last : Nat]

(* A list as searchIN and searchBL come by it: no table in force is hidden *)
(* behind itself.                                                          *)
Clean(v) == v \in VTLists /\ \A i \in 1 .. v.last : v.nodes[i].shadow_last = 0

(* The parts of a list, and when two lists are equal.                      *)
LEMMA Parts ==
  ASSUME NEW v \in VTLists
  PROVE  /\ v.nodes \in [1 .. Len(v.nodes) -> VTNode] /\ Len(v.nodes) \in Nat
         /\ v.last \in Nat /\ v.last <= Len(v.nodes)
         /\ v = [nodes |-> v.nodes, last |-> v.last]
<1>1. v \in [nodes : Seq(VTNode), last : Nat] /\ v.last <= Len(v.nodes)
  BY DEF VTLists, VTNode
<1>2. v.nodes \in Seq(VTNode)
  BY <1>1
<1>3. v.nodes \in [1 .. Len(v.nodes) -> VTNode] /\ Len(v.nodes) \in Nat
  BY <1>2
<1> QED BY <1>1, <1>3

(* push puts one table at the end of those in force and keeps the hidden   *)
(* ones behind it (VTList::push).                                          *)
LEMMA Pushed ==
  ASSUME NEW v \in VTLists, NEW table \in Seq(Entries), Pushes(table)
  PROVE  /\ push(v, table) \in VTLists
         /\ push(v, table).last = v.last + 1
         /\ push(v, table).nodes = Inserted(v.nodes, v.last + 1, Node(table))
         /\ Len(push(v, table).nodes) = Len(v.nodes) + 1
<1> DEFINE nodes == Inserted(v.nodes, v.last + 1, Node(table))
<1>1. push(v, table) = [nodes |-> nodes, last |-> v.last + 1]
  BY DEF push
<1>2. Node(table) \in VTNode
  BY DEF Node, VTNode
<1>3. nodes \in [1 .. Len(v.nodes) + 1 -> VTNode]
  BY <1>2, Parts DEF Inserted
<1>4. nodes \in Seq(VTNode) /\ Len(nodes) = Len(v.nodes) + 1
  BY <1>3, Parts
<1> QED BY <1>1, <1>4, Parts DEF VTLists, VTNode

(* pop undoes push: an inherit whose scheme has been searched leaves the   *)
(* list as it found it (searchIN, TextParserImpl.cpp:328-334).             *)
THEOREM PopUndoesPush ==
  ASSUME NEW v \in VTLists, NEW table \in Seq(Entries), Pushes(table)
  PROVE  pop(push(v, table)) = v
<1> DEFINE w == push(v, table)
           back == Erased(w.nodes, w.last)
<1>1. w.last = v.last + 1 /\ Len(w.nodes) = Len(v.nodes) + 1
      /\ w.nodes = Inserted(v.nodes, v.last + 1, Node(table))
  BY Pushed
<1>2. pop(w) = [nodes |-> back, last |-> v.last]
  BY <1>1, Parts DEF pop
<1>3. back = [k \in 1 .. Len(v.nodes) |-> v.nodes[k]]
  BY <1>1, Parts DEF Erased, Inserted
<1>4. back = v.nodes
  BY <1>3, Parts
<1> QED BY <1>2, <1>4, Parts

(* A push adds its table to those in force, innermost, and a clean list    *)
(* stays clean.                                                            *)
THEOREM PushAppends ==
  ASSUME NEW v, Clean(v), NEW table \in Seq(Entries), Pushes(table)
  PROVE  Visible(push(v, table)) = Append(Visible(v), table) /\ Clean(push(v, table))
<1> DEFINE w == push(v, table)
<1>0. v \in VTLists
  BY DEF Clean
<1>1. w \in VTLists /\ w.last = v.last + 1
      /\ w.nodes = Inserted(v.nodes, v.last + 1, Node(table))
  BY <1>0, Pushed
<1>2. \A i \in 1 .. v.last : w.nodes[i] = v.nodes[i]
  BY <1>0, <1>1, Parts DEF Inserted
<1>3. w.nodes[v.last + 1] = Node(table)
  BY <1>0, <1>1, Parts DEF Inserted
<1>4. Clean(w)
  BY <1>0, <1>1, <1>2, <1>3, Parts DEF Clean, Node
<1>5. Visible(v) \in Seq(Seq(Entries)) /\ Len(Visible(v)) = v.last
  <2>1. \A i \in 1 .. v.last : v.nodes[i].vlist \in Seq(Entries)
    BY <1>0, Parts DEF VTNode
  <2> DEFINE tables == [i \in 1 .. v.last |-> v.nodes[i].vlist]
  <2>2. v.last \in Nat
    BY <1>0, Parts
  <2>3. tables \in [1 .. v.last -> Seq(Entries)]
    BY <2>1
  <2>4. tables \in Seq(Seq(Entries)) /\ Len(tables) = v.last
    BY <2>2, <2>3
  <2> QED BY <2>4 DEF Visible
<1>6. Visible(w) = [i \in 1 .. v.last + 1 |-> w.nodes[i].vlist]
  BY <1>1 DEF Visible
<1>7. \A i \in 1 .. v.last + 1 : w.nodes[i].vlist = Append(Visible(v), table)[i]
  BY <1>0, <1>2, <1>3, <1>5, Parts DEF Visible, Node
<1>8. Append(Visible(v), table) = [i \in 1 .. v.last + 1 |-> Append(Visible(v), table)[i]]
  <2> HIDE DEF w
  <2> DEFINE S == Visible(v)
             T == Append(S, table)
  <2>1. v.last \in Nat
    BY <1>0, Parts
  <2>2. T \in Seq(Seq(Entries)) /\ Len(T) = v.last + 1
    BY <1>5
  <2> HIDE DEF T
  <2>3. T \in [1 .. v.last + 1 -> Seq(Entries)]
    BY <2>1, <2>2
  <2> QED BY <2>3 DEF T
<1> QED BY <1>4, <1>6, <1>7, <1>8

(* Hiding: the tables from the i-th on are out of force, no other is       *)
(* changed, and popvirt brings them back.                                  *)
LEMMA HiddenAndBack ==
  ASSUME NEW v, Clean(v), NEW i \in 1 .. v.last
  PROVE  /\ Clean(Hidden(v, i))
         /\ Visible(Hidden(v, i)) = [k \in 1 .. i - 1 |-> Visible(v)[k]]
         /\ popvirt(Hidden(v, i)) = v
<1> DEFINE w == Hidden(v, i)
<1>0. v \in VTLists /\ v.nodes[i].shadow_last = 0
  BY DEF Clean
<1>1. w = [nodes |-> [v.nodes EXCEPT ![i].shadow_last = v.last], last |-> i - 1]
  BY DEF Hidden
<1>2. v.nodes[i] \in VTNode
  BY <1>0, Parts
<1>3. [v.nodes[i] EXCEPT !.shadow_last = v.last] \in VTNode
  BY <1>0, <1>2, Parts DEF VTNode
<1>4. w.nodes \in [1 .. Len(v.nodes) -> VTNode]
  BY <1>0, <1>1, <1>3, Parts
<1>5. w.nodes \in Seq(VTNode) /\ Len(w.nodes) = Len(v.nodes)
  BY <1>0, <1>4, Parts
<1>6. w \in VTLists
  BY <1>0, <1>1, <1>5, Parts DEF VTLists, VTNode
<1>7. \A k \in 1 .. i - 1 : w.nodes[k] = v.nodes[k]
  BY <1>0, <1>1, Parts
<1>8. Clean(w)
  BY <1>0, <1>1, <1>6, <1>7, Parts DEF Clean
<1>9. Visible(w) = [k \in 1 .. i - 1 |-> Visible(v)[k]]
  BY <1>0, <1>1, <1>7, Parts DEF Visible
<1>10. popvirt(w) = v
  <2>1. w.last + 1 = i /\ w.nodes[i].shadow_last = v.last
    BY <1>0, <1>1, <1>2, Parts DEF VTNode
  <2>2. popvirt(w) = [nodes |-> [w.nodes EXCEPT ![i].shadow_last = 0], last |-> v.last]
    BY <2>1 DEF popvirt
  <2>3. [w.nodes[i] EXCEPT !.shadow_last = 0] = v.nodes[i]
    BY <1>0, <1>1, <1>2, Parts DEF VTNode
  <2>4. [w.nodes EXCEPT ![i].shadow_last = 0] = v.nodes
    <3> DEFINE back == [w.nodes EXCEPT ![i].shadow_last = 0]
    <3>1. i \in 1 .. Len(v.nodes)
      BY <1>0, Parts
    <3>2. back = [w.nodes EXCEPT ![i] = v.nodes[i]]
      BY <2>3
    <3>3. w.nodes = [v.nodes EXCEPT ![i] = [v.nodes[i] EXCEPT !.shadow_last = v.last]]
      BY <1>1
    <3>4. v.nodes \in [1 .. Len(v.nodes) -> VTNode]
      BY <1>0, Parts
    <3>5. back = [v.nodes EXCEPT ![i] = v.nodes[i]]
      BY <3>1, <3>2, <3>3, <3>4
    <3>6. [v.nodes EXCEPT ![i] = v.nodes[i]] = v.nodes
      BY <3>1, <3>4
    <3> QED BY <3>5, <3>6
  <2> QED BY <1>0, <2>2, <2>4, Parts
<1> QED BY <1>8, <1>9, <1>10

(* popvirt undoes pushvirt wherever that replaced the reference: a block   *)
(* or inherit parsed by another scheme leaves the list as it found it      *)
(* (searchIN and searchBL, TextParserImpl.cpp:323, 339, 392, 500).         *)
THEOREM PopvirtUndoesPushvirt ==
  ASSUME NEW v, Clean(v), NEW scheme, pushvirt(v, scheme).vt # v
  PROVE  /\ popvirt(pushvirt(v, scheme).vt) = v
         /\ Clean(pushvirt(v, scheme).vt)
<1> DEFINE i == CHOOSE i \in 1 .. v.last : IsOutermost(v, scheme, i)
<1>1. \E k \in 1 .. v.last : IsOutermost(v, scheme, k)
  BY DEF pushvirt
<1>2. i \in 1 .. v.last
  BY <1>1
<1>3. pushvirt(v, scheme).vt = Hidden(v, i)
  BY <1>1 DEF pushvirt
<1> QED BY <1>2, <1>3, HiddenAndBack

(* What a block stores, a parse that resumes in it restores: the same      *)
(* tables in force, none hidden (VTList::store, restore).                  *)
THEOREM RestoreGivesStored ==
  ASSUME NEW v, Clean(v)
  PROVE  /\ Clean(restore(Empty, store(v)))
         /\ Visible(restore(Empty, store(v))) = Visible(v)
<1> DEFINE saved == Visible(v)
           w == restore(Empty, store(v))
<1>0. v \in VTLists /\ v.last \in Nat
  BY Parts DEF Clean
<1>1. \A i \in 1 .. v.last : v.nodes[i].vlist \in Seq(Entries)
  BY <1>0, Parts DEF VTNode
<1>2. saved \in Seq(Seq(Entries)) /\ Len(saved) = v.last
      /\ saved = [i \in 1 .. v.last |-> saved[i]]
  BY <1>0, <1>1 DEF Visible
<1>3. CASE saved = <<>>
  <2>1. w = Empty
    BY <1>3 DEF restore, store
  <2>2. v.last = 0
    BY <1>2, <1>3
  <2>3. Empty \in VTLists /\ Empty.last = 0
    BY DEF Empty, VTLists
  <2>4. Visible(Empty) = <<>>
    BY DEF Empty, Visible
  <2> QED BY <2>1, <2>3, <2>4, <1>3 DEF Clean
<1>4. CASE saved # <<>>
  <2> DEFINE nodes == [i \in 1 .. v.last |-> Node(saved[i])]
  <2>1. nodes \in Seq(VTNode) /\ Len(nodes) = v.last
    <3>1. \A i \in 1 .. v.last : saved[i] \in Seq(Entries)
      BY <1>0, <1>1 DEF Visible
    <3>2. \A i \in 1 .. v.last : Node(saved[i]) \in VTNode
      BY <3>1 DEF Node, VTNode
    <3>3. nodes \in [1 .. v.last -> VTNode]
      BY <3>2
    <3> QED BY <1>0, <3>3
  <2>2. <<>> \o nodes = nodes
    BY <2>1
  <2>3. w = [nodes |-> nodes, last |-> v.last]
    BY <1>2, <1>4, <2>1, <2>2 DEF restore, store, Empty
  <2>4. Clean(w)
    BY <1>0, <2>1, <2>3 DEF Clean, VTLists, VTNode, Node
  <2>5. Visible(w) = saved
    BY <1>0, <1>2, <2>3 DEF Visible, Node
  <2> QED BY <2>4, <2>5
<1> QED BY <1>3, <1>4
=============================================================================

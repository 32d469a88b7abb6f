---------------------------- MODULE SchemeSearch ----------------------------
(***************************************************************************)
(* How the parser finds the first match (searchMatch, searchIN, searchBL   *)
(* in src/colorer/parsers/TextParserImpl.cpp): over the search nodes and   *)
(* dispatch slices updateLinks (HrcLibraryImpl.cpp) prepares, with the     *)
(* list of substitution tables that changes as schemes are searched and    *)
(* blocks are entered, left, and resumed from the parse cache.             *)
(*                                                                         *)
(* The C++ call stack between two activations of colorize() is the list of *)
(* what its functions still have to undo on vtlist when they return.       *)
(***************************************************************************)
EXTENDS Grammar

CONSTANTS Contents, MaxLines, Bases, Unread, NoBlock,
          NoDispatch

VARIABLES loaded,               \* file types with loadDone
          searchNodes, searchDispatch,
          line, content, gx, found,
          vtlist,
          frames,               \* activations of colorize() inside searchBL
          blocks,               \* the multi-line blocks of the parse cache
          open,                 \* the blocks of it that are open here
          begun,                \* [open, count] as each line began
          parsing               \* inside parse()

links  == <<loaded, searchNodes, searchDispatch>>
cursor == <<line, content, gx, found>>
vars   == <<links, cursor, vtlist, frames, blocks, open, begun, parsing>>

-----------------------------------------------------------------------------
(* updateLinks: the nodes a search goes through.                           *)

InheritsOf(types) ==
  {n \in UNION {ToSet(Nodes[s]) : s \in SchemesOf(types)} : n.type = "inherit"}

EntriesOf(types) == UNION {ToSet(n.entries) : n \in InheritsOf(types)}

virtualTargets == [types \in SUBSET Types |-> {e.virt : e \in EntriesOf(types)} \ {NoScheme}]

virtualSubstitutions(types) ==
  [s \in Schemes |-> {e.subst : e \in {f \in EntriesOf(types) : f.virt = s}} \ {NoScheme}]

Inlined(node, targets) ==
  /\ node.type = "inherit" /\ node.scheme # NoScheme
  /\ ~Pushes(node.entries) /\ node.scheme \notin targets

keywordsMergeable(a, b) ==
  a.matchCase = b.matchCase /\ a.worddiv = {} /\ b.worddiv = {}

mergeSearchKeywords(nodes) ==
  LET Joined(done, node) ==
        IF node.type # "keywords" THEN Append(done, node)
        ELSE IF node.kwList = <<>> THEN done
        ELSE IF done # <<>> /\ Last(done).type = "keywords" /\ keywordsMergeable(Last(done), node)
        THEN Append(Front(done),
                    [Last(done) EXCEPT !.kwList = mergeKeywordNodes(<<@, node.kwList>>)])
        ELSE Append(done, node)
  IN FoldLeft(Joined, <<>>, nodes)

(* buildSearchNodes.  An inherit that leads back to its own scheme, which  *)
(* HRC does not allow, is not modelled.                                    *)
RECURSIVE buildSearchNodes(_, _)
buildSearchNodes(scheme, targets) ==
  LET Expanded(node) == IF Inlined(node, targets) THEN buildSearchNodes(node.scheme, targets)
                        ELSE <<node>>
  IN mergeSearchKeywords(FlattenSeq([i \in DOMAIN Nodes[scheme] |-> Expanded(Nodes[scheme][i])]))

Linked ==
  [types \in SUBSET Types |->
     [s \in SchemesOf(types) |-> buildSearchNodes(s, virtualTargets[types])]]

(* schemeCanStartWith and nodeCanStartWith; seen are the schemes being     *)
(* asked, which answer true.                                               *)
RECURSIVE schemeCanStartWith(_, _, _, _, _)
nodeCanStartWith(node, ch, nodes, substitutes, seen) ==
  CASE node.type \in {"re", "block"} -> ch \in node.starts
    [] node.type = "keywords" ->
         node.kwList # <<>> /\ (IF node.matchCase THEN ch ELSE LowerCase[ch]) \in firstChar(node.kwList)
    [] node.type = "inherit" ->
         node.scheme = NoScheme \/ schemeCanStartWith(node.scheme, ch, nodes, substitutes, seen)
schemeCanStartWith(scheme, ch, nodes, substitutes, seen) ==
  \/ scheme \in seen
  \/ \E i \in DOMAIN nodes[scheme] :
       nodeCanStartWith(nodes[scheme][i], ch, nodes, substitutes, seen \cup {scheme})
  \/ \E s \in substitutes[scheme] :
       schemeCanStartWith(s, ch, nodes, substitutes, seen \cup {scheme})

(* The slice for each ASCII character, unless the nodes are too few or the *)
(* table would be nearly full.                                             *)
Dispatched(types, nodes) ==
  LET substitutes == virtualSubstitutions(types)
      May(s) == {<<ch, i>> \in Ascii \X DOMAIN nodes[s] :
                   nodeCanStartWith(nodes[s][i], ch, nodes, substitutes, {})}
  IN [s \in DOMAIN nodes |->
        LET may == May(s) IN
        IF Len(nodes[s]) >= 2 /\ Cardinality(may) * 4 <= Len(nodes[s]) * Cardinality(Ascii) * 3
        THEN [ch \in Ascii |-> {i \in DOMAIN nodes[s] : <<ch, i>> \in may}]
        ELSE NoDispatch]

LinkedDispatch == [types \in SUBSET Types |-> Dispatched(types, Linked[types])]

-----------------------------------------------------------------------------
(* The search.  A result carries vtlist as it then is (vt), and for a      *)
(* block what is left to undo when it is left, in this order (undo).       *)

Undone(v, op) == IF op = "pop" THEN pop(v) ELSE popvirt(v)
UndoneAll(v, ops) == FoldLeft(Undone, v, ops)

(* A function of the search returns: it undoes op, after the block that    *)
(* was found if one was.                                                   *)
Returns(result, op) ==
  IF result.kind = "block" THEN [result EXCEPT !.undo = Append(@, op)]
  ELSE [result EXCEPT !.vt = Undone(@, op)]

Miss(v) == [kind |-> "nothing", vt |-> v]
Hit(match, v) == [kind |-> "re", region |-> match.region, to |-> match.to, vt |-> v]

Substituted(v, scheme) ==
  IF scheme \in virtualTargets[loaded] THEN pushvirt(v, scheme)
  ELSE [scheme |-> NoScheme, vt |-> v]

searchRE(node, v, at) ==
  IF Matches(node, at) /\ node.length > 0 THEN Hit(FoundRE(node, at), v) ELSE Miss(v)

SearchList(node, v, at) ==
  LET kw == searchKW(node, at.text, at.gx, at.lowlen) IN
  IF kw = 0 THEN Miss(v) ELSE Hit(FoundKW(node, kw, at), v)

(* searchBL up to the call of colorize(), and what it undoes after it.     *)
searchBL(node, v, at) ==
  IF node.scheme = NoScheme \/ ~Matches(node, at) THEN Miss(v)
  ELSE LET subst == Substituted(v, node.scheme)
           ssubst == IF subst.scheme = NoScheme THEN node.scheme ELSE subst.scheme
       IN [kind |-> "block", block |-> node, scheme |-> ssubst, vt |-> subst.vt,
           undo |-> IF ssubst # node.scheme THEN <<"popvirt">> ELSE <<>>]

(* The indexes of the nodes to try. *)
Candidates(scheme, at) ==
  IF searchDispatch[scheme] # NoDispatch /\ at.char \in Ascii
  THEN searchDispatch[scheme][at.char] ELSE DOMAIN searchNodes[scheme]

RECURSIVE searchFrom(_, _, _, _)
searchMatch(scheme, v, at) == searchFrom(scheme, Candidates(scheme, at), v, at)

Mutant_noPop(node, v, at) ==
  IF node.scheme = NoScheme THEN Miss(v)
  ELSE LET subst == Substituted(v, node.scheme) IN
       IF subst.scheme # NoScheme
       THEN Returns(searchMatch(subst.scheme, subst.vt, at), "popvirt")
       ELSE LET result == searchMatch(node.scheme, push(v, node.entries), at) IN
            IF Pushes(node.entries) /\ result.kind # "nothing" THEN Returns(result, "pop")
            ELSE result
searchIN(node, v, at) ==
  IF node.scheme = NoScheme THEN Miss(v)
  ELSE LET subst == Substituted(v, node.scheme) IN
       IF subst.scheme # NoScheme
       THEN Returns(searchMatch(subst.scheme, subst.vt, at), "popvirt")
       ELSE LET result == searchMatch(node.scheme, push(v, node.entries), at) IN
            IF Pushes(node.entries) THEN Returns(result, "pop") ELSE result

searchFrom(scheme, indexes, v, at) ==
  IF indexes = {} THEN Miss(v)
  ELSE LET i == Min(indexes)
           node == searchNodes[scheme][i]
           result == CASE node.type = "inherit"  -> searchIN(node, v, at)
                       [] node.type = "keywords" -> SearchList(node, v, at)
                       [] node.type = "re"       -> searchRE(node, v, at)
                       [] node.type = "block"    -> searchBL(node, v, at)
       IN IF result.kind # "nothing" THEN result
          ELSE searchFrom(scheme, indexes \ {i}, result.vt, at)

-----------------------------------------------------------------------------
(* The blocks of the cache, an index each; open[1] is the base scheme's    *)
(* root.  Those begun on the current line are dropped when left on it.     *)

Cached(block, scheme, sline) ==
  [block |-> block, scheme |-> scheme, sline |-> sline, vcache |-> <<>>]

Current == blocks[Last(open)]
Ends == IF Current.block = NoBlock THEN {} ELSE Current.block.ends
At == Place(content, gx, Ends)
Reading == parsing /\ content # Unread /\ gx < Len(content)
Result == searchMatch(Current.scheme, vtlist, At)
AtEnd(result) == result.kind = "nothing" /\ content[gx + 1] \in Ends

Init ==
  /\ loaded = {} /\ searchNodes = <<>> /\ searchDispatch = <<>>
  /\ line = 0 /\ content = Unread /\ gx = 0 /\ found = <<>>
  /\ vtlist = Empty /\ frames = <<>>
  /\ blocks = <<>> /\ open = <<>> /\ begun = <<>>
  /\ parsing = FALSE

(* A file type is loaded, with those it refers to, and all is linked anew. *)
Mutant_onlyNew(t) ==
  /\ ~parsing /\ ~(Needs[t] \subseteq loaded)
  /\ loaded' = loaded \cup Needs[t]
  /\ searchNodes' = searchNodes @@ Linked[loaded']
  /\ searchDispatch' = Dispatched(loaded', searchNodes')
  /\ UNCHANGED <<cursor, vtlist, frames, blocks, open, begun, parsing>>
Load(t) ==
  /\ ~parsing /\ ~(Needs[t] \subseteq loaded)
  /\ loaded' = loaded \cup Needs[t]
  /\ searchNodes' = Linked[loaded'] /\ searchDispatch' = LinkedDispatch[loaded']
  /\ UNCHANGED <<cursor, vtlist, frames, blocks, open, begun, parsing>>

(* setFileType: a text is parsed by another base scheme, from its start.   *)
Open(scheme) ==
  /\ ~parsing /\ TypeOf[scheme] \in loaded
  /\ blocks' = <<Cached(NoBlock, scheme, 0)>>
  /\ open' = <<1>> /\ begun' = <<[open |-> <<1>>, count |-> 1]>>
  /\ line' = 0 /\ gx' = 0 /\ found' = <<>>
  /\ UNCHANGED <<links, content, vtlist, frames, parsing>>

(* parse(k, ...) up to its first call of colorize(): the cache is good up  *)
(* to line k, the block that is open there is the parent.                  *)
ParseFrom(k) ==
  /\ ~parsing /\ k \in 0 .. line /\ k < Len(begun)
  /\ open' = begun[k + 1].open
  /\ blocks' = SubSeq(blocks, 1, begun[k + 1].count)
  /\ begun' = SubSeq(begun, 1, k + 1)
  /\ line' = k
  /\ vtlist' = restore(Empty, blocks[Last(open')].vcache)
  /\ parsing' = TRUE
  /\ UNCHANGED <<links, content, gx, found, frames>>

GetLine ==
  /\ parsing /\ content = Unread /\ line < MaxLines
  /\ content' \in Contents
  /\ UNCHANGED <<links, line, gx, found, vtlist, frames, blocks, open, begun, parsing>>

Match(result) ==
  /\ result.kind = "re"
  /\ found' = Append(found, [region |-> result.region, s |-> gx, e |-> result.to])
  /\ gx' = result.to
  /\ vtlist' = result.vt
  /\ UNCHANGED <<links, line, content, frames, blocks, open, begun, parsing>>

Enter(result) ==
  /\ result.kind = "block"
  /\ blocks' = Append(blocks, Cached(result.block, result.scheme, line))
  /\ open' = Append(open, Len(blocks'))
  /\ frames' = Append(frames, result.undo)
  /\ vtlist' = result.vt
  /\ found' = Append(found, [region |-> result.block.region, s |-> gx, e |-> gx + 1])
  /\ gx' = gx + 1
  /\ UNCHANGED <<links, line, content, begun, parsing>>

Skip(result) ==
  /\ result.kind = "nothing" /\ ~AtEnd(result)
  /\ gx' = gx + 1
  /\ vtlist' = result.vt
  /\ UNCHANGED <<links, line, content, found, frames, blocks, open, begun, parsing>>

(* The rest of searchBL once colorize() has found the end.                 *)
Mutant_AlwaysDropped(result) ==
  /\ AtEnd(result) /\ frames # <<>>
  /\ blocks' = Front(blocks)
  /\ vtlist' = UndoneAll(result.vt, Last(frames))
  /\ frames' = Front(frames) /\ open' = Front(open)
  /\ gx' = gx + 1
  /\ UNCHANGED <<links, line, content, found, begun, parsing>>
Mutant_StoredLate(result) ==
  /\ AtEnd(result) /\ frames # <<>>
  /\ vtlist' = UndoneAll(result.vt, Last(frames))
  /\ blocks' = IF Current.sline = line THEN Front(blocks)
               ELSE [blocks EXCEPT ![Last(open)].vcache = store(vtlist')]
  /\ frames' = Front(frames) /\ open' = Front(open)
  /\ gx' = gx + 1
  /\ UNCHANGED <<links, line, content, found, begun, parsing>>
LeaveBlock(result) ==
  /\ AtEnd(result) /\ frames # <<>>
  /\ blocks' = IF Current.sline = line THEN Front(blocks)
               ELSE [blocks EXCEPT ![Last(open)].vcache = store(result.vt)]
  /\ vtlist' = UndoneAll(result.vt, Last(frames))
  /\ frames' = Front(frames) /\ open' = Front(open)
  /\ gx' = gx + 1
  /\ UNCHANGED <<links, line, content, found, begun, parsing>>

(* The block parse() resumed in ends: it goes on in the block around it.   *)
LeaveResumed(result) ==
  /\ AtEnd(result) /\ frames = <<>>
  /\ open' = Front(open)
  /\ vtlist' = restore(Empty, blocks[Last(open')].vcache)
  /\ gx' = gx + 1
  /\ UNCHANGED <<links, line, content, found, frames, blocks, begun, parsing>>

(* One turn of the loop in colorize(). *)
Turn ==
  /\ Reading
  /\ \E result \in {Result} : \/ Match(result) \/ Enter(result) \/ Skip(result)
                              \/ LeaveBlock(result) \/ LeaveResumed(result)

NextLine ==
  /\ parsing /\ content # Unread /\ gx = Len(content)
  /\ line' = line + 1 /\ content' = Unread /\ gx' = 0 /\ found' = <<>>
  /\ begun' = Append(begun, [open |-> open, count |-> Len(blocks)])
  /\ UNCHANGED <<links, vtlist, frames, blocks, open, parsing>>

(* parse() has done the lines it was asked for: every colorize() returns,  *)
(* innermost first, and keeps for its block the tables in force in it.     *)
Return ==
  /\ parsing /\ content = Unread
  /\ LET n == Len(frames)
         Inside[k \in 0 .. n] ==          \* vtlist after k of them returned
           IF k = 0 THEN vtlist ELSE UndoneAll(Inside[k - 1], frames[n - k + 1])
         Depth(b) == CHOOSE k \in 0 .. n - 1 : open[Len(open) - k] = b
         Left == {open[Len(open) - k] : k \in 0 .. n - 1}
     IN blocks' = [b \in DOMAIN blocks |->
                     IF b \in Left THEN [blocks[b] EXCEPT !.vcache = store(Inside[Depth(b)])]
                     ELSE blocks[b]]
  /\ frames' = <<>> /\ vtlist' = Empty /\ parsing' = FALSE
  /\ UNCHANGED <<links, cursor, open, begun>>

Next ==
  \/ \E t \in Types : Load(t)
  \/ \E scheme \in Bases : Open(scheme)
  \/ \E k \in 0 .. MaxLines : ParseFrom(k)
  \/ GetLine \/ Turn \/ NextLine \/ Return

Spec == Init /\ [][Next]_vars

-----------------------------------------------------------------------------
(* The tables in force in a block of the cache: below the activations that *)
(* return before its own does, or those kept when it was left.             *)
Unwound ==
  LET n == Len(frames)
      Inside[k \in 0 .. n] == IF k = 0 THEN vtlist ELSE UndoneAll(Inside[k - 1], frames[n - k + 1])
  IN Inside

Active == {b \in ToSet(open) : parsing /\ \E k \in 0 .. Len(frames) : open[Len(open) - k] = b}

EnvOf(b) ==
  IF b \in Active
  THEN Visible(Unwound[CHOOSE k \in 0 .. Len(frames) : open[Len(open) - k] = b])
  ELSE blocks[b].vcache

Levels(ids) ==
  [i \in DOMAIN ids |-> [block |-> blocks[ids[i]].block, scheme |-> blocks[ids[i]].scheme,
                         env |-> EnvOf(ids[i])]]

Abstract == INSTANCE SchemeEnv WITH
  open <- Levels(open), begun <- [k \in DOMAIN begun |-> Levels(begun[k].open)]

-----------------------------------------------------------------------------
(* Properties.                                                             *)

(* Indexes, frames and slices are what the operations above may use.       *)
TypeOK ==
  /\ loaded \subseteq Types
  /\ DOMAIN searchNodes = SchemesOf(loaded) /\ DOMAIN searchDispatch = SchemesOf(loaded)
  /\ line \in 0 .. MaxLines /\ content \in Contents \cup {Unread}
  /\ content # Unread => gx \in 0 .. Len(content)
  /\ vtlist.last \in 0 .. Len(vtlist.nodes)
  /\ Len(frames) <= Len(open)
  /\ \A k \in DOMAIN begun :
       begun[k].count <= Len(blocks) /\ ToSet(begun[k].open) \subseteq 1 .. begun[k].count
  /\ ToSet(open) \subseteq DOMAIN blocks

(* The parser keeps the promise of SchemeEnv: whatever search nodes,       *)
(* dispatch slices and table juggling it goes through, at each place it    *)
(* takes the match the HRC order prescribes, in the scheme and under the   *)
(* substitutions that the text above prescribes, on a first parse and on   *)
(* one resumed at any line, whatever is loaded in between.                 *)
KeepsEnvironments == Abstract!Spec

(* The first node in HRC order that matches wins (hrc-ref.md:95), though   *)
(* the search goes through inlined, merged and dispatched nodes.           *)
FirstMatchWins ==
  Reading =>
    \A right \in {Search(Current.scheme, Visible(vtlist), At)}, result \in {Result} :
      /\ result.kind = right.kind
      /\ right.kind = "re" => result.region = right.region /\ result.to = right.to
      /\ right.kind = "block" => result.block = right.block /\ result.scheme = right.scheme

(* The functions that return leave no table behind and none hidden: when   *)
(* all are back the list is the one parse() restored, so that the next     *)
(* block starts from the substitutions of its own text only.               *)
ListBalanced ==
  parsing => LET bottom == Unwound[Len(frames)] IN
             /\ Len(bottom.nodes) = bottom.last
             /\ Visible(bottom) = blocks[open[Len(open) - Len(frames)]].vcache
             /\ \A i \in DOMAIN bottom.nodes : bottom.nodes[i].shadow_last = 0

(* The substitutions in force in a block stay those it began under while   *)
(* the blocks inside it come and go: a <virtual> replaces the references   *)
(* of its <inherit> for as long as that is searched (hrc-ref.md:150).      *)
SubstitutionsKept ==
  [][parsing /\ parsing' =>
       \A b \in ToSet(open) \cap ToSet(open') : EnvOf(b)' = EnvOf(b)]_vars
=============================================================================

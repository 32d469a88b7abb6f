------------------------------ MODULE SchemeEnv -----------------------------
(***************************************************************************)
(* What the parse of a text promises about blocks and <virtual>: the       *)
(* blocks open at a place, the scheme each is parsed by and the            *)
(* substitutions in force in it depend on the text above alone.  They are  *)
(* the same after a nested block is left, after other file types are       *)
(* loaded, and when the text is parsed on from some line later.            *)
(*                                                                         *)
(* Which match is taken at a place is the grammar's (Search).              *)
(***************************************************************************)
EXTENDS Grammar

CONSTANTS Contents, MaxLines,   \* bounds: what a line can be, and how many
          Bases,                \* the base schemes a text may be opened with
          Unread, NoBlock

VARIABLES loaded,               \* file types
          line, content, gx,    \* content = Unread until getLine
          found,                \* the regions found on the line
          open,                 \* the blocks, innermost last
          begun                 \* begun[k]: open as line k - 1 began

vars == <<loaded, line, content, gx, found, open, begun>>

Root(scheme) == [block |-> NoBlock, scheme |-> scheme, env |-> <<>>]
Ends(block) == IF block = NoBlock THEN {} ELSE block.ends

At == Place(content, gx, Ends(Last(open).block))
Reading == content # Unread /\ gx < Len(content)
Here == Search(Last(open).scheme, Last(open).env, At)
AtEnd(match) == match = Nothing /\ content[gx + 1] \in Ends(Last(open).block)

Init ==
  /\ loaded = {} /\ line = 0 /\ content = Unread /\ gx = 0
  /\ found = <<>> /\ open = <<>> /\ begun = <<>>

Load(t) ==
  /\ content = Unread /\ ~(Needs[t] \subseteq loaded)
  /\ loaded' = loaded \cup Needs[t]
  /\ UNCHANGED <<line, content, gx, found, open, begun>>

Open(scheme) ==
  /\ content = Unread /\ TypeOf[scheme] \in loaded
  /\ open' = <<Root(scheme)>> /\ begun' = <<<<Root(scheme)>>>>
  /\ line' = 0 /\ gx' = 0 /\ found' = <<>>
  /\ UNCHANGED <<loaded, content>>

GetLine ==
  /\ content = Unread /\ open # <<>> /\ line < MaxLines
  /\ content' \in Contents
  /\ UNCHANGED <<loaded, line, gx, found, open, begun>>

Match(match) ==
  /\ match.kind = "re"
  /\ found' = Append(found, [region |-> match.region, s |-> gx, e |-> match.to])
  /\ gx' = match.to
  /\ UNCHANGED <<loaded, line, content, open, begun>>

Enter(match) ==
  /\ match.kind = "block"
  /\ open' = Append(open, [block |-> match.block, scheme |-> match.scheme, env |-> match.env])
  /\ found' = Append(found, [region |-> match.block.region, s |-> gx, e |-> gx + 1])
  /\ gx' = gx + 1
  /\ UNCHANGED <<loaded, line, content, begun>>

Leave(match) ==
  /\ AtEnd(match)
  /\ open' = Front(open) /\ gx' = gx + 1
  /\ UNCHANGED <<loaded, line, content, found, begun>>

Skip(match) ==
  /\ match = Nothing /\ ~AtEnd(match)
  /\ gx' = gx + 1
  /\ UNCHANGED <<loaded, line, content, found, open, begun>>

Turn ==
  /\ Reading
  /\ \E match \in {Here} : Match(match) \/ Enter(match) \/ Leave(match) \/ Skip(match)

NextLine ==
  /\ content # Unread /\ gx = Len(content)
  /\ line' = line + 1 /\ content' = Unread /\ gx' = 0 /\ found' = <<>>
  /\ begun' = Append(begun, open)
  /\ UNCHANGED <<loaded, open>>

(* The text is edited at line k, or parsed from there again.               *)
ParseFrom(k) ==
  /\ content = Unread /\ k \in 0 .. line /\ k < Len(begun)
  /\ line' = k /\ open' = begun[k + 1] /\ begun' = SubSeq(begun, 1, k + 1)
  /\ UNCHANGED <<loaded, content, gx, found>>

Next ==
  \/ \E t \in Types : Load(t)
  \/ \E scheme \in Bases : Open(scheme)
  \/ GetLine \/ Turn \/ NextLine
  \/ \E k \in 0 .. MaxLines : ParseFrom(k)

Spec == Init /\ [][Next]_vars
=============================================================================

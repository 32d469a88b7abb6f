----------------------------- MODULE LineStacks -----------------------------
(***************************************************************************)
(* What the incremental parse promises, whoever keeps the result and       *)
(* however: for a prefix of the lines of a text that keeps changing, the   *)
(* stacks of blocks open at their starts, each the one the grammar derives *)
(* from the line before (TextParser.h:71-74: going on from any place      *)
(* reached "guarantees the validness of result parse information").        *)
(* The prefix may grow and shrink at any time; after an edit it keeps      *)
(* nothing below the first changed line.                                   *)
(***************************************************************************)
EXTENDS Integers

CONSTANTS MaxLines, Contents, States, Root, Grammars, NoGrammar, Scan

VARIABLES text, grammar, stacks
absVars == <<text, grammar, stacks>>

LineStarts == 0 .. MaxLines
Texts   == [0 .. MaxLines - 1 -> Contents]
Nothing == [l \in 0 .. 0 |-> Root]

Init ==
  /\ text \in Texts
  /\ grammar \in Grammars \cup {NoGrammar}
  /\ stacks = Nothing

(* More lines are parsed, from the last one known.                         *)
Learn ==
  \E n \in LineStarts :
    /\ DOMAIN stacks \subseteq 0 .. n
    /\ stacks' \in [0 .. n -> States]
    /\ \A l \in DOMAIN stacks : stacks'[l] = stacks[l]
    /\ \A l \in (0 .. n) \ DOMAIN stacks :
         stacks'[l] = Scan[grammar][<<stacks'[l - 1], text[l - 1]>>]
    /\ grammar # NoGrammar
    /\ UNCHANGED <<text, grammar>>

Prefix(n) == [l \in 0 .. n |-> stacks[l]]

(* The results below a line are given up.                                  *)
Forget ==
  /\ \E n \in DOMAIN stacks : stacks' = Prefix(n)
  /\ UNCHANGED <<text, grammar>>

(* The text changes from line n on, or only somewhere below the prefix.    *)
Change ==
  \E n \in DOMAIN stacks :
    /\ text' \in Texts
    /\ \A l \in 0 .. n - 1 : text'[l] = text[l]
    /\ stacks' = Prefix(n)
    /\ UNCHANGED grammar

(* Another file type: everything is parsed anew.                           *)
Retype ==
  /\ grammar' \in Grammars \cup {NoGrammar}
  /\ stacks' = Nothing
  /\ UNCHANGED text

Next == Learn \/ Forget \/ Change \/ Retype

Spec == Init /\ [][Next]_absVars
=============================================================================

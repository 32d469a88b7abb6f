---------------------------- MODULE MCBaseEditor ----------------------------
(* Small grammars for BaseEditor: lines that leave the open blocks alone   *)
(* (code) and lines that open or close the one block there is (mark).      *)
EXTENDS BaseEditor, TLC

CONSTANTS base, comment, code, mark, php, text_type, none, hrd1, hrd2

Toggle == [e \in States \X Contents |->
             IF e[2] # mark THEN e[1] ELSE IF e[1] = base THEN comment ELSE base]
Plain  == [e \in States \X Contents |-> base]

OneGrammar  == php :> Toggle
TwoGrammars == php :> Toggle @@ text_type :> Plain

CodeText == {[l \in 0 .. MaxLines - 1 |-> code]}
=============================================================================

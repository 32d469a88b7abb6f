-------------------------- MODULE MCEditorServices --------------------------
(* A grammar of blocks two deep: a line opens one or, in the innermost, is *)
(* a bracket only; it closes one or, where none is open, is an item with a *)
(* pair of its own.                                                        *)
EXTENDS EditorServices, TLC

CONSTANTS base, body, inner, open, close, c_type, none, hrd1

Deeper  == base :> body @@ body :> inner @@ inner :> inner
Shallow == base :> base @@ body :> base @@ inner :> body

Nest == [e \in States \X Contents |->
          IF e[2] = open THEN Deeper[e[1]] ELSE Shallow[e[1]]]
NestScan == c_type :> Nest

NestCalls == [e \in States \X Contents |->
  IF e[2] = open
  THEN IF e[1] = inner THEN <<"pairStart">> ELSE <<"outlined", "enter", "pairStart">>
  ELSE IF e[1] = base THEN <<"pairStart", "outlined", "pairEnd", "outlined">> ELSE <<"pairEnd", "leave">>]
NestCallsOf == c_type :> NestCalls

NestDepth == base :> 0 @@ body :> 1 @@ inner :> 2

Source(lines) == [l \in 0 .. MaxLines - 1 |-> lines[l + 1]]
Sources == {Source(<<open, open, close, close>>)}
=============================================================================

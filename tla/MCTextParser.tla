---------------------------- MODULE MCTextParser ----------------------------
(* Grammars for TextParser.  Text: comments, and parentheses that nest and *)
(* hold comments.  Here: heredocs that end on the word they began with.    *)
EXTENDS TextParser

CONSTANTS base, comment, paren, heredoc, peek, first

NestInside ==
  [b \in Blocks \cup {Top} |->
     IF b \in {Top, paren} THEN Blocks ELSE {}]
AllStarts ==
  [b \in Blocks |->
     IF b = comment THEN {"/*"} ELSE IF b = paren THEN {"("}
     ELSE IF b = heredoc THEN {"<<A", "<<B"} ELSE IF b = peek THEN {"<<"} ELSE {"#"}]
AllEnds ==
  [b \in Blocks |-> [t \in Tokens \cup {Untagged} |->
     IF b = comment THEN {"*/"} ELSE IF b = paren THEN {")"}
     ELSE IF b = heredoc THEN (IF t = "<<A" THEN {"A"} ELSE {"B"})
     ELSE IF b = peek THEN (IF t = "'A" THEN {"A"} ELSE {"B"})
     ELSE {"!"}]]

NestLines == {<<"(", "(">>, <<")">>, <<")", "(", "/*">>, <<"/*", ")">>, <<"*/">>}
AllTokens == {"/*", "*/", "(", ")", "<<", "<<A", "<<B", "'A", "'B", "A", "B", "#", "!", "esc"}
HereLines == {<<"<<A">>, <<"<<B", "B">>, <<"A", "<<B">>, <<"A">>, <<"esc", "A", "<<B">>,
              <<"A", "A", "<<A">>}
PeekLines == {<<>>, <<"<<", "'A">>, <<"<<", "'B">>, <<"A">>}
LiveLines == {<<>>, <<"(">>, <<"(", "/*">>, <<")", "/*">>, <<"*/">>}
LowLines == {<<"/*">>, <<"esc", "*/">>, <<"*/">>, <<"/*", "esc", "*/">>}
TildeLines == {<<>>, <<"(", "/*">>, <<"*/", "#">>}
=============================================================================

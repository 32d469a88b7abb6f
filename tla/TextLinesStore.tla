---------------------------- MODULE TextLinesStore --------------------------
(***************************************************************************)
(* TextLinesStore: a file's text, a sequence of characters, as lines.      *)
(***************************************************************************)
EXTENDS Integers, Sequences, SequencesExt

LineEnds == {"\r", "\n"}
Expand(c) == IF c = "\t" THEN <<" ", " ", " ", " ">> ELSE <<c>>
replaceTabs(line) == FlattenSeq([k \in DOMAIN line |-> Expand(line[k])])

(* One character more.  A \n right after the \r that ended a line is of    *)
(* the same line end.                                                      *)
Take(read, c) ==
  IF c = "\n" /\ read.cr THEN [read EXCEPT !.cr = FALSE]
  ELSE IF c \in LineEnds THEN [lines |-> Append(read.lines, read.line), line |-> <<>>, cr |-> c = "\r"]
  ELSE [read EXCEPT !.line = Append(@, c), !.cr = FALSE]

loadFile(file, tab2spaces) ==
  LET read == FoldLeft(Take, [lines |-> <<>>, line |-> <<>>, cr |-> FALSE], file)
      lines == Append(read.lines, read.line)
  IN IF tab2spaces THEN [k \in DOMAIN lines |-> replaceTabs(lines[k])] ELSE lines
=============================================================================

------------------------------ MODULE Outliner ------------------------------
(***************************************************************************)
(* Outliner (src/colorer/editor/Outliner.cpp): the list of special regions *)
(* a text has - functions, classes, errors -, kept from the calls a parse  *)
(* makes of its region handlers and from the editor's modifyEvent.  It     *)
(* tells lines it has from lines it still has to take by one number,       *)
(* modifiedLine.  A call is its kind; the label of a region is what its    *)
(* line says.                                                              *)
(***************************************************************************)
EXTENDS Integers, FiniteSets, SequencesExt

Calls == {"enter", "leave", "outlined", "pairStart", "pairEnd"}

NewOutliner == [outline |-> <<>>, lineIsEmpty |-> FALSE, curLevel |-> 0, modifiedLine |-> 0]

isOutlined(region) == region = "outlined"

startParsing(o) == [o EXCEPT !.curLevel = 0]

endParsing(o, lno) ==
  [o EXCEPT !.modifiedLine = IF @ < lno THEN lno + 1 ELSE @, !.curLevel = 0]

clearLine(o) == [o EXCEPT !.lineIsEmpty = TRUE]

(* The last item's label goes on.                                          *)
Lengthened(outline, label) == [outline EXCEPT ![Len(outline)].token = Append(@, label)]

(* The first outlined region of a line is an item, the others lengthen the *)
(* item's label.                                                           *)
addRegion(o, lno, label, pos, region) ==
  IF lno < o.modifiedLine \/ ~isOutlined(region) THEN o
  ELSE [o EXCEPT
    !.outline =
      IF o.lineIsEmpty
      THEN Append(@, [lno |-> lno, pos |-> pos, level |-> o.curLevel, token |-> <<label>>])
      ELSE IF @[Len(@)].lno = lno THEN Lengthened(@, label) ELSE @,
    !.lineIsEmpty = FALSE]

enterScheme(o) == [o EXCEPT !.curLevel = @ + 1]
leaveScheme(o) == [o EXCEPT !.curLevel = @ - 1]

(* From the first item at or below topLine on, the list goes.              *)
Mutant_modifyEvent(o, topLine) ==
  [o EXCEPT !.outline = SelectSeq(@, LAMBDA item : item.lno <= topLine), !.modifiedLine = topLine]
modifyEvent(o, topLine) ==
  LET gone == {i \in DOMAIN o.outline : o.outline[i].lno >= topLine}
      keep == IF gone = {} THEN Len(o.outline) ELSE (CHOOSE i \in gone : \A j \in gone : i <= j) - 1
  IN [o EXCEPT !.outline = SubSeq(@, 1, keep), !.modifiedLine = topLine]

(* One line of a parse: clearLine and the calls its regions and blocks make. *)
LineParsed(o, lno, label, calls) ==
  FoldLeft(LAMBDA at, i :
             CASE calls[i] = "enter" -> enterScheme(at)
               [] calls[i] = "leave" -> leaveScheme(at)
               [] OTHER              -> addRegion(at, lno, label, i, calls[i]),
           clearLine(o), [i \in DOMAIN calls |-> i])

(* manageTree: the levels of the items, one after the other, packed to     *)
(* those of a tree; treeStack holds the levels of the item's ancestors, of *)
(* which those above its own are popped.                                   *)
Mutant_manageTree(treeStack, newLevel) ==
  LET kept == SubSeq(treeStack, 1, SelectLastInSeq(treeStack, LAMBDA level : level <= newLevel))
  IN Append(kept, newLevel)
manageTree(treeStack, newLevel) ==
  LET kept == SubSeq(treeStack, 1, SelectLastInSeq(treeStack, LAMBDA level : level <= newLevel))
  IN IF kept = <<>> \/ newLevel > kept[Len(kept)] THEN Append(kept, newLevel) ELSE kept

PackedLevel(levels) == Len(FoldLeft(manageTree, <<>>, levels)) - 1
=============================================================================

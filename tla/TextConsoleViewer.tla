-------------------------- MODULE TextConsoleViewer -------------------------
(***************************************************************************)
(* TextConsoleViewer, the interactive one: the place in the text and the   *)
(* size of the screen, what a key, the wheel or a new size does to them,   *)
(* and the buffer the screen is drawn from.                                *)
(***************************************************************************)
EXTENDS LineRegions

NotBelow(n, low) == Max({n, low})
(* Down by a screen, the last line of the text at the bottom at most.      *)
PageDown(view, count) == NotBelow(Min({view.topline + view.Y, count - view.Y}), 0)

Sideways == 15
Key(view, count, key) ==
  CASE key = "up" -> [view EXCEPT !.topline = NotBelow(@ - 1, 0)]
    [] key = "down" -> [view EXCEPT !.topline = IF @ + view.Y < count THEN @ + 1 ELSE @]
    [] key = "left" -> [view EXCEPT !.leftpos = NotBelow(@ - 1, 0)]
    [] key = "ctrl left" -> [view EXCEPT !.leftpos = NotBelow(@ - 1 - Sideways, 0)]
    [] key = "right" -> [view EXCEPT !.leftpos = @ + 1]
    [] key = "ctrl right" -> [view EXCEPT !.leftpos = @ + 1 + Sideways]
    [] key \in {"page up", "wheel down"} -> [view EXCEPT !.topline = NotBelow(@ - view.Y, 0)]
    [] key \in {"page down", "space", "wheel up"} -> [view EXCEPT !.topline = PageDown(view, count)]
    [] key = "home" -> [view EXCEPT !.topline = 0, !.leftpos = 0]
    [] key = "end" -> [view EXCEPT !.topline = NotBelow(count - view.Y, 0), !.leftpos = 0]

Resize(view, X, Y) == [view EXCEPT !.X = X, !.Y = Y]

(* visibleTextEvent(topline, lline)                                        *)
ShownLines(view, count) == Min({view.Y, count - view.topline})

-----------------------------------------------------------------------------
(* The colors of a cell: what the region does not set is the viewer's.     *)
Color(rdef, background) ==
  <<IF rdef.fore = "" THEN background[1] ELSE rdef.fore,
    IF rdef.back = "" THEN background[2] ELSE rdef.back>>

Mutant_Cells(r, view, length) ==
  LET num == (IF r.end = -1 THEN length ELSE r.end) - r.start
      X == Max({r.start - view.leftpos, 0})
  IN IF r.special \/ r.rdef = NoDefine \/ X >= view.X THEN {}
     ELSE X..X + (IF num + X > view.X THEN view.X - X ELSE num) - 1

(* The cells a region takes of its row, as far as they are on the screen.  *)
Cells(r, view, length) ==
  LET from == r.start - view.leftpos
      num == (IF r.end = -1 THEN length ELSE r.end) - r.start
      len == IF from < 0 THEN num + from ELSE num
      X == Max({from, 0})
  IN IF r.special \/ r.rdef = NoDefine \/ len < 0 \/ X >= view.X THEN {}
     ELSE X..X + (IF len + X > view.X THEN view.X - X ELSE len) - 1

(* The buffer, row after row in one array, as the regions are drawn.       *)
Buffer(view, lines, lists, background) ==
  LET row(cell) == cell \div view.X
      col(cell) == cell % view.X
      lno(cell) == view.topline + row(cell)
      char(cell) == IF lno(cell) >= Len(lines) \/ view.leftpos + col(cell) >= Len(lines[lno(cell) + 1])
                    THEN " " ELSE lines[lno(cell) + 1][view.leftpos + col(cell) + 1]
      blank == [cell \in 0..view.X * view.Y - 1 |-> <<char(cell), background>>]
      Draw(buffer, y) ==
        FoldLeft(LAMBDA b, r :
                   [cell \in DOMAIN b |->
                     IF cell - y * view.X \in Cells(r, view, Len(lines[view.topline + y + 1]))
                     THEN <<b[cell][1], Color(r.rdef, background)>> ELSE b[cell]],
                 buffer, lists[view.topline + y])
  IN FoldLeft(Draw, blank, [k \in 1..ShownLines(view, Len(lines)) |-> k - 1])
=============================================================================

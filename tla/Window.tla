------------------------------ MODULE Window ------------------------------
(***************************************************************************)
(* The windows of rom/apis/window.lua and the terminal they are drawn on.  *)
(*                                                                         *)
(* A cell is <<character, text colour, background>>, a line a sequence of  *)
(* cells: window.lua keeps three strings per line and always changes them  *)
(* alike.  Of the parent, the native terminal, only its cells, cursor and  *)
(* colours are kept: Terminal shows that the screen follows them.  The     *)
(* functions take and give [win, par], a window with its parent.  Palettes *)
(* are left out.                                                           *)
(***************************************************************************)
EXTENDS Integers, SequencesExt

CONSTANTS Space, White, Black

\* string.sub with positions counted from the front
sub(s, i, j) == SubSeq(s, IF i < 1 THEN 1 ELSE i, IF j > Len(s) THEN Len(s) ELSE j)

Coloured(text, fg, bg) == [i \in DOMAIN text |-> <<text[i], fg, bg>>]
EmptyLine(width, fg, bg) == [i \in 1 .. width |-> <<Space, fg, bg>>]
-----------------------------------------------------------------------------
(* The parent.                                                             *)

NewTerm(width, height) ==
  [cells |-> [y \in 1 .. height |-> EmptyLine(width, White, Black)],
   x |-> 1, y |-> 1, blink |-> FALSE, text |-> White, back |-> Black]

term_setCursorPos(p, x, y) == [p EXCEPT !.x = x, !.y = y]

\* what does not lie on the row is dropped; windows lie on rows of the screen
term_blit(p, line) ==
  [p EXCEPT !.cells[p.y] = [c \in DOMAIN @ |-> IF c - p.x + 1 \in DOMAIN line THEN line[c - p.x + 1] ELSE @[c]],
            !.x = @ + Len(line)]
term_write(p, text) == term_blit(p, Coloured(text, p.text, p.back))
term_clearLine(p) == [p EXCEPT !.cells[p.y] = EmptyLine(Len(@), p.text, p.back)]
term_scroll(p, n) ==
  [p EXCEPT !.cells = [y \in DOMAIN @ |-> IF y + n \in DOMAIN @ THEN @[y + n] ELSE EmptyLine(Len(@[y]), p.text, p.back)]]
term_clear(p) == [p EXCEPT !.cells = [y \in DOMAIN @ |-> EmptyLine(Len(@[y]), p.text, p.back)]]
-----------------------------------------------------------------------------
(* Drawing.                                                                *)

updateCursorPos(d) ==
  LET w == d.win
  IN [d EXCEPT !.par = IF w.cx \in 1 .. w.width /\ w.cy \in 1 .. w.height
                       THEN term_setCursorPos(@, w.x + w.cx - 1, w.y + w.cy - 1)
                       ELSE term_setCursorPos(@, 0, 0)]
updateCursorBlink(d) == [d EXCEPT !.par.blink = d.win.blink]
updateCursorColor(d) == [d EXCEPT !.par.text = d.win.text]

redrawLine(d, n) ==
  [d EXCEPT !.par = term_blit(term_setCursorPos(@, d.win.x, d.win.y + n - 1), d.win.lines[n])]
redrawLines(d) ==
  LET drawn[n \in 0 .. d.win.height] == IF n = 0 THEN d ELSE redrawLine(drawn[n - 1], n)
  IN drawn[d.win.height]

IfVisible(d, drawn) == IF d.win.visible THEN drawn ELSE d

\* window.redraw and window.restoreCursor
restoreCursor(d) == IfVisible(d, updateCursorPos(updateCursorColor(updateCursorBlink(d))))
redraw(d) == IfVisible(d, restoreCursor(redrawLines(d)))

\* the cursor is drawn again after lines were
WithCursor(d) == updateCursorPos(updateCursorColor(d))
-----------------------------------------------------------------------------
(* The line after text was put at column nStart.                           *)

Clipped(text, nStart, width) ==
  IF nStart < 1 THEN sub(text, 2 - nStart, width - nStart + 1)
  ELSE IF nStart + Len(text) - 1 > width THEN sub(text, 1, width - nStart + 1)
  ELSE text

Spliced(old, text, nStart, width) ==
  LET nEnd == nStart + Len(text) - 1
      new == (IF nStart > 1 THEN sub(old, 1, nStart - 1) ELSE <<>>) \o Clipped(text, nStart, width)
  IN IF nStart = 1 /\ nEnd = width THEN text
     ELSE new \o (IF nEnd < width THEN sub(old, nEnd + 1, width) ELSE <<>>)

internalBlit(d, text) ==
  LET w == d.win
      nEnd == w.cx + Len(text) - 1
      hit == w.cy \in 1 .. w.height /\ w.cx <= w.width /\ nEnd >= 1
      put == [d EXCEPT !.win.lines[w.cy] = Spliced(@, text, w.cx, w.width)]
      drawn == IF hit THEN IfVisible(put, redrawLine(put, w.cy)) ELSE d
      moved == [drawn EXCEPT !.win.cx = nEnd + 1]
  IN IfVisible(moved, WithCursor(moved))
-----------------------------------------------------------------------------
(* The functions of a window.                                              *)

create(p, x, y, width, height, visible) ==
  redraw([win |-> [x |-> x, y |-> y, width |-> width, height |-> height, visible |-> visible,
                   cx |-> 1, cy |-> 1, blink |-> FALSE, text |-> White, back |-> Black,
                   lines |-> [n \in 1 .. height |-> EmptyLine(width, White, Black)]],
          par |-> p])

write(d, text) == internalBlit(d, Coloured(text, d.win.text, d.win.back))
blit(d, line) == internalBlit(d, line)

Empty(d) == EmptyLine(d.win.width, d.win.text, d.win.back)

clear(d) ==
  LET e == [d EXCEPT !.win.lines = [n \in DOMAIN @ |-> Empty(d)]]
  IN IfVisible(e, WithCursor(redrawLines(e)))

clearLine(d) ==
  LET e == [d EXCEPT !.win.lines[d.win.cy] = Empty(d)]
  IN IF d.win.cy \in 1 .. d.win.height THEN IfVisible(e, WithCursor(redrawLine(e, d.win.cy))) ELSE d

setCursorPos(d, x, y) ==
  LET e == [d EXCEPT !.win.cx = x, !.win.cy = y] IN IfVisible(e, updateCursorPos(e))

setCursorBlink(d, b) ==
  LET e == [d EXCEPT !.win.blink = b] IN IfVisible(e, updateCursorBlink(e))

setTextColor(d, c) ==
  LET e == [d EXCEPT !.win.text = c] IN IfVisible(e, updateCursorColor(e))

setBackgroundColor(d, c) == [d EXCEPT !.win.back = c]

scroll(d, n) ==
  LET e == [d EXCEPT !.win.lines = [y \in DOMAIN @ |-> IF y + n \in DOMAIN @ THEN @[y + n] ELSE Empty(d)]]
  IN IF n = 0 THEN d ELSE IfVisible(e, WithCursor(redrawLines(e)))

setVisible(d, b) ==
  IF d.win.visible = b THEN d ELSE redraw([d EXCEPT !.win.visible = b])

\* the old lines in a new size; new cells are empty
Resized(w, width, height) ==
  LET empty == EmptyLine(width, w.text, w.back)
  IN [y \in 1 .. height |->
        IF y > w.height THEN empty
        ELSE IF width <= w.width THEN sub(w.lines[y], 1, width)
        ELSE w.lines[y] \o sub(empty, w.width + 1, width)]

reposition(d, x, y, width, height) ==
  redraw([d EXCEPT !.win = [@ EXCEPT !.x = x, !.y = y, !.width = width, !.height = height,
                                     !.lines = Resized(d.win, width, height)]])
-----------------------------------------------------------------------------
\* The parent shows the window: its lines where it lies, and its cursor.
Cursor(w) == IF w.cx \in 1 .. w.width /\ w.cy \in 1 .. w.height THEN <<w.x + w.cx - 1, w.y + w.cy - 1>> ELSE <<0, 0>>
LinesShown(w, p) ==
  \A n \in 1 .. w.height : \A c \in 1 .. w.width :
    w.x + c - 1 \in DOMAIN p.cells[w.y + n - 1] => p.cells[w.y + n - 1][w.x + c - 1] = w.lines[n][c]
CursorShown(w, p) == <<p.x, p.y>> = Cursor(w) /\ p.blink = w.blink /\ p.text = w.text
=============================================================================

------------------------------ MODULE Terminal ------------------------------
(***************************************************************************)
(* The terminal of term.cpp: the cells, the cursor, and what is on the     *)
(* screen after the partial redraws.                                       *)
(*                                                                         *)
(* A colour is the set of VGA planes that are lit for it.  Of a cell's     *)
(* pixels the model keeps the character, its colours and, apart, the       *)
(* colour of its last pixel column (edge), because blit_line treats that   *)
(* one differently: columns of 12 pixels do not end on a byte.             *)
(* blit_line copies a whole row of pixel_buffer to the screen, which wipes *)
(* a cursor drawn there: marks are the places where a cursor is drawn on   *)
(* the screen.                                                             *)
(***************************************************************************)
EXTENDS Integers, Sequences

CONSTANTS
  TERM_WIDTH, TERM_HEIGHT,
  Planes,       \* VGA planes; a colour is a subset
  Chars,        \* characters a program writes
  Space,        \* the blank
  Solid,        \* characters whose last pixel column is lit
  MaxLen,       \* bound: length of a string
  Reach         \* bound: how far outside the screen the cursor goes

ASSUME TermAssumption ==
  /\ TERM_WIDTH \in Nat \ {0} /\ TERM_HEIGHT \in Nat \ {0}
  /\ Solid \subseteq Chars /\ Space \notin Solid
  /\ MaxLen \in Nat /\ Reach \in Nat

Row == 0 .. TERM_HEIGHT - 1
Col == 0 .. TERM_WIDTH - 1
Colour == SUBSET Planes
Cell == [ch : Chars \cup {Space}, fg : Colour, bg : Colour]

VARIABLES
  cells,            \* characters and colors, together
  current_colors,   \* [fg, bg] of the next write
  cursorX, cursorY,
  cursorShow,       \* cursorBlink always has the same value
  pixels,           \* pixel_buffer
  marks             \* places where the screen shows a cursor

screen == <<pixels, marks>>
vars == <<cells, current_colors, cursorX, cursorY, cursorShow, screen>>

OnScreen(x, y) == x \in Col /\ y \in Row

(* The colour of a cell's last pixel column. *)
Edge(cell) == IF cell.ch \in Solid THEN cell.fg ELSE cell.bg

Drawn(cell) == [cell |-> cell, edge |-> Edge(cell)]

-----------------------------------------------------------------------------
(* Drawing.  A drawing operator takes and gives [pixels, marks].           *)

(* blit_line: columns a to b of row y.  After an even column the last      *)
(* byte is shared with the next cell, and the mask that keeps that cell's  *)
(* bits also keeps the last pixel that was there.                          *)
blit_line(s, c, y, a, b) ==
  [pixels |-> [s.pixels EXCEPT ![y] = [x \in Col |->
     IF x \notin a .. b THEN @[x]
     ELSE IF x = b /\ x % 2 = 0
          THEN [Drawn(c[y][x]) EXCEPT !.edge = @ \cup s.pixels[y][x].edge]
          ELSE Drawn(c[y][x])]],
   marks |-> {p \in s.marks : p[2] # y}]

(* blit_screen: every row. *)
blit_screen(s, c) ==
  [pixels |-> [y \in Row |-> blit_line(s, c, y, 0, TERM_WIDTH - 1).pixels[y]],
   marks |-> {}]

(* redrawCursor: nothing, if the cursor is outside the screen. *)
redrawCursor(s, c, x, y, show) ==
  IF ~OnScreen(x, y) THEN s
  ELSE LET t == blit_line(s, c, y, x, x)
       IN  IF show THEN [t EXCEPT !.marks = @ \cup {<<x, y>>}] ELSE t

(* The cell of the old cursor, drawn again. *)
RedrawOld(s, c) ==
  IF OnScreen(cursorX, cursorY) THEN blit_line(s, c, cursorY, cursorX, cursorX) ELSE s

Now == [pixels |-> pixels, marks |-> marks]

Show(s) == pixels' = s.pixels /\ marks' = s.marks

-----------------------------------------------------------------------------
Blank(colours) == [ch |-> Space, fg |-> colours.fg, bg |-> colours.bg]
BlankRow(colours) == [x \in Col |-> Blank(colours)]

(* The values the variables are declared with, then termInit: every plane  *)
(* lit, a blank screen drawn, the cursor drawn.                            *)
Init ==
  LET c == [y \in Row |-> BlankRow([fg |-> {}, bg |-> Planes])]
      lit == [pixels |-> [y \in Row |-> [x \in Col |->
                [cell |-> Blank([fg |-> Planes, bg |-> Planes]), edge |-> Planes]]],
              marks |-> {}]
      s == redrawCursor(blit_screen(lit, c), c, 0, 0, TRUE)
  IN  /\ cells = c
      /\ current_colors = [fg |-> {}, bg |-> Planes]
      /\ cursorX = 0 /\ cursorY = 0
      /\ cursorShow = TRUE
      /\ pixels = s.pixels
      /\ marks = s.marks

(* The cells after text has been put at the cursor; what falls outside the *)
(* row is dropped.                                                         *)
Put(text, fg, bg) ==
  [cells EXCEPT ![cursorY] = [x \in Col |->
     LET i == x - cursorX + 1
     IN  IF i \in DOMAIN text THEN [ch |-> text[i], fg |-> fg, bg |-> bg] ELSE @[x]]]

(* The part of the row that is drawn: the sum is unsigned, so a text that  *)
(* ends left of the screen draws the whole row, and one that ends at the   *)
(* left border nothing.                                                    *)
RedrawText(s, c, len) ==
  LET sum == cursorX + len
      from == IF cursorX > 0 THEN cursorX ELSE 0
      to == IF sum < 0 \/ sum >= TERM_WIDTH THEN TERM_WIDTH - 1 ELSE sum - 1
  IN  IF sum = 0 THEN s ELSE blit_line(s, c, cursorY, from, to)

(* Mutant: the cursor is drawn at its new place before the text is. *)
WrittenCursorFirst(c, len) ==
  /\ cells' = c
  /\ cursorX' = cursorX + len
  /\ Show(RedrawText(redrawCursor(Now, c, cursorX + len, cursorY, cursorShow), c, len))
  /\ UNCHANGED <<current_colors, cursorY, cursorShow>>

Written(c, len) ==
  /\ cells' = c
  /\ cursorX' = cursorX + len
  /\ Show(redrawCursor(RedrawOld(RedrawText(Now, c, len), c), c,
                       cursorX + len, cursorY, cursorShow))
  /\ UNCHANGED <<current_colors, cursorY, cursorShow>>

term_write(text) ==
  /\ cursorY \in Row /\ cursorX < TERM_WIDTH
  /\ Written(Put(text, current_colors.fg, current_colors.bg), Len(text))

(* term_blit has no such test: a row outside the screen is the caller's    *)
(* fault and overwrites other memory.                                      *)
term_blit(text, fg, bg) ==
  /\ cursorY \in Row
  /\ Written(Put(text, fg, bg), Len(text))

(* The rows after a scroll by n, blank where nothing moves in. *)
Scrolled(n) ==
  [y \in Row |-> IF y + n \in Row THEN cells[y + n] ELSE BlankRow(current_colors)]

term_scroll(n) ==
  /\ cells' = Scrolled(n)
  /\ Show(blit_screen(Now, Scrolled(n)))
  /\ UNCHANGED <<current_colors, cursorX, cursorY, cursorShow>>

term_clear ==
  LET c == [y \in Row |-> BlankRow(current_colors)]
  IN  /\ cells' = c
      /\ Show(blit_screen(Now, c))
      /\ UNCHANGED <<current_colors, cursorX, cursorY, cursorShow>>

term_clearLine ==
  LET c == [cells EXCEPT ![cursorY] = BlankRow(current_colors)]
  IN  /\ cursorY \in Row
      /\ cells' = c
      /\ Show(blit_line(Now, c, cursorY, 0, TERM_WIDTH - 1))
      /\ UNCHANGED <<current_colors, cursorX, cursorY, cursorShow>>

(* Mutant: the place the cursor leaves is not drawn again. *)
SetCursorPosOnly(x, y) ==
  /\ cursorX' = x /\ cursorY' = y
  /\ Show(redrawCursor(Now, cells, x, y, cursorShow))
  /\ UNCHANGED <<cells, current_colors, cursorShow>>

term_setCursorPos(x, y) ==
  /\ cursorX' = x /\ cursorY' = y
  /\ Show(redrawCursor(RedrawOld(Now, cells), cells, x, y, cursorShow))
  /\ UNCHANGED <<cells, current_colors, cursorShow>>

term_setCursorBlink(show) ==
  /\ cursorShow' = show
  /\ Show(redrawCursor(Now, cells, cursorX, cursorY, show))
  /\ UNCHANGED <<cells, current_colors, cursorX, cursorY>>

term_setTextColor(colour) ==
  /\ current_colors' = [current_colors EXCEPT !.fg = colour]
  /\ UNCHANGED <<cells, cursorX, cursorY, cursorShow, screen>>

term_setBackgroundColor(colour) ==
  /\ current_colors' = [current_colors EXCEPT !.bg = colour]
  /\ UNCHANGED <<cells, cursorX, cursorY, cursorShow, screen>>

Texts == UNION {[1 .. n -> Chars] : n \in 0 .. MaxLen}

Next ==
  \/ \E text \in Texts : cursorX + Len(text) < TERM_WIDTH + Reach /\ term_write(text)
  \/ \E text \in Texts, fg, bg \in Colour :
       cursorX + Len(text) < TERM_WIDTH + Reach /\ term_blit(text, fg, bg)
  \/ \E n \in -TERM_HEIGHT .. TERM_HEIGHT : term_scroll(n)
  \/ term_clear \/ term_clearLine
  \/ \E x \in -Reach .. TERM_WIDTH + Reach - 1, y \in -Reach .. TERM_HEIGHT + Reach - 1 :
       term_setCursorPos(x, y)
  \/ \E show \in BOOLEAN : term_setCursorBlink(show)
  \/ \E colour \in Colour : term_setTextColor(colour) \/ term_setBackgroundColor(colour)

Spec == Init /\ [][Next]_vars

-----------------------------------------------------------------------------
TypeOK ==
  /\ cells \in [Row -> [Col -> Cell]]
  /\ current_colors \in [fg : Colour, bg : Colour]
  /\ cursorX \in Int /\ cursorY \in Int
  /\ cursorShow \in BOOLEAN
  /\ pixels \in [Row -> [Col -> [cell : Cell, edge : Colour]]]
  /\ marks \subseteq Col \X Row

(* The partial redraws keep the screen what the cells say: every cell is   *)
(* drawn with its character and its colours.  Its last pixel column is     *)
(* right in odd columns and never misses a plane in even ones.             *)
CellsDrawn ==
  \A y \in Row, x \in Col :
    /\ pixels[y][x].cell = cells[y][x]
    /\ Edge(cells[y][x]) \subseteq pixels[y][x].edge
    /\ x % 2 = 1 => pixels[y][x].edge = Edge(cells[y][x])

(* No cursor is left behind: the screen shows at most one, where the       *)
(* cursor is, and none while it is switched off.                           *)
NoStaleCursor ==
  /\ marks \subseteq {<<cursorX, cursorY>>}
  /\ ~cursorShow => marks = {}

(* After any sequence of calls the screen shows the cells and the cursor. *)
ScreenShowsCells == TypeOK /\ CellsDrawn /\ NoStaleCursor

(* When the cursor moves to a place on the screen, it is shown there. *)
CursorFollows ==
  [][<<cursorX, cursorY>>' # <<cursorX, cursorY>> /\ cursorShow
       /\ OnScreen(cursorX', cursorY') => marks' = {<<cursorX', cursorY'>>}]_vars
=============================================================================

--------------------------- MODULE TerminalProofs ---------------------------
(***************************************************************************)
(* Proofs about the terminal and what the scripts draw on it.              *)
(*                                                                         *)
(* Whatever is called, the screen shows the cells and no stale cursor, for *)
(* every size of the terminal, every set of colours and of characters.     *)
(* ScreenShowsCells is inductive.  The work is in what the partial redraws *)
(* do: the lemmas say which cells and which cursors a drawing operator     *)
(* touches, and each call is then a sequence of drawing operators that     *)
(* covers what it changed.                                                 *)
(*                                                                         *)
(* The second part is about the line editor: Displayed says what every     *)
(* cell of the terminal is while a line is read.  The third is about       *)
(* windows: Stands says what is drawn of a window on its parent, and there *)
(* is one lemma per function of window.lua.  The last is about multishell: *)
(* Control says who calls whom and View what is on the screen, and there   *)
(* is one lemma per function of multishell.lua, then one per action.       *)
(***************************************************************************)
EXTENDS Desktop, SequenceTheorems, WellFoundedInduction, TLAPS

Grid == [Row -> [Col -> Cell]]
Pixel == [cell : Cell, edge : Colour]
Screen == [pixels : [Row -> [Col -> Pixel]], marks : SUBSET (Col \X Row)]

(* A cell of the screen s is drawn as the cells c say. *)
Shown(s, c, y, x) ==
  /\ s.pixels[y][x].cell = c[y][x]
  /\ Edge(c[y][x]) \subseteq s.pixels[y][x].edge
  /\ x % 2 = 1 => s.pixels[y][x].edge = Edge(c[y][x])

AllShown(s, c) == \A y \in Row, x \in Col : Shown(s, c, y, x)

-----------------------------------------------------------------------------
(* The last pixel column has one of the cell's colours (blit_line). *)
LEMMA EdgeType == \A cell \in Cell : Edge(cell) \in Colour /\ Drawn(cell) \in Pixel
  BY DEF Edge, Drawn, Cell, Pixel

(* What blit_line makes of one cell: outside the columns it is left alone, *)
(* inside it is drawn.                                                     *)
LEMMA BlitCell ==
  ASSUME NEW s \in Screen, NEW c \in Grid, NEW y \in Row, NEW a \in Int, NEW b \in Int,
         NEW y2 \in Row, NEW x2 \in Col
  PROVE  LET t == blit_line(s, c, y, a, b)
         IN  /\ t.pixels[y2][x2] \in Pixel
             /\ y2 # y \/ x2 \notin a .. b => t.pixels[y2][x2] = s.pixels[y2][x2]
             /\ y2 = y /\ x2 \in a .. b => Shown(t, c, y2, x2)
<1> DEFINE t == blit_line(s, c, y, a, b)
           old == s.pixels[y][x2]
           new == IF x2 \notin a .. b THEN old
                  ELSE IF x2 = b /\ x2 % 2 = 0
                       THEN [Drawn(c[y][x2]) EXCEPT !.edge = @ \cup old.edge]
                       ELSE Drawn(c[y][x2])
<1>1. s.pixels \in [Row -> [Col -> Pixel]]
  BY DEF Screen
<1>2. t.pixels[y2][x2] = IF y2 = y THEN new ELSE s.pixels[y2][x2]
  BY <1>1 DEF blit_line
<1>3. old \in Pixel /\ s.pixels[y2][x2] \in Pixel /\ c[y][x2] \in Cell
  BY <1>1 DEF Grid
<1>4. Edge(c[y][x2]) \in Colour /\ Drawn(c[y][x2]) \in Pixel
  BY <1>3, EdgeType
<1>5. new \in Pixel
  BY <1>3, <1>4 DEF Pixel, Colour
<1>6. ASSUME y2 = y, x2 \in a .. b PROVE Shown(t, c, y2, x2)
  <2>1. t.pixels[y2][x2] = new
    BY <1>2, <1>6
  <2>2. new.cell = c[y][x2] /\ Edge(c[y][x2]) \subseteq new.edge
        /\ (x2 % 2 = 1 => new.edge = Edge(c[y][x2]))
    BY <1>3, <1>4, <1>6 DEF Drawn, Pixel
  <2>3. QED
    BY <2>1, <2>2, <1>6 DEF Shown
<1>7. QED
  BY <1>2, <1>3, <1>5, <1>6

(* blit_line gives a screen, and wipes exactly the cursors of its row. *)
LEMMA BlitType ==
  ASSUME NEW s \in Screen, NEW c \in Grid, NEW y \in Row, NEW a \in Int, NEW b \in Int
  PROVE  /\ blit_line(s, c, y, a, b) \in Screen
         /\ blit_line(s, c, y, a, b).marks = {p \in s.marks : p[2] # y}
<1> DEFINE t == blit_line(s, c, y, a, b)
<1>1. \A y2 \in Row, x2 \in Col : t.pixels[y2][x2] \in Pixel
  BY BlitCell
<1>2. t.pixels \in [Row -> [Col -> Pixel]]
  <2>1. s.pixels \in [Row -> [Col -> Pixel]]
    BY DEF Screen
  <2>2. DOMAIN t.pixels = Row /\ \A y2 \in Row : DOMAIN t.pixels[y2] = Col
    BY <2>1 DEF blit_line
  <2>3. t.pixels = [y2 \in Row |-> t.pixels[y2]]
    BY <2>1 DEF blit_line
  <2>4. \A y2 \in Row : t.pixels[y2] \in [Col -> Pixel]
    <3> SUFFICES ASSUME NEW y2 \in Row PROVE t.pixels[y2] \in [Col -> Pixel]
      OBVIOUS
    <3>1. t.pixels[y2] = [x \in Col |-> t.pixels[y2][x]]
      BY <2>1 DEF blit_line
    <3>2. QED
      BY <3>1, <1>1
  <2>5. QED
    BY <2>3, <2>4
<1>3. t.marks = {p \in s.marks : p[2] # y}
  BY DEF blit_line
<1>4. t.marks \subseteq Col \X Row
  BY <1>3 DEF Screen
<1>5. t = [pixels |-> t.pixels, marks |-> t.marks]
  BY DEF blit_line
<1>6. QED
  BY <1>2, <1>3, <1>4, <1>5 DEF Screen

(* A redraw that covers what is not yet shown shows everything. *)
LEMMA BlitShows ==
  ASSUME NEW s \in Screen, NEW c \in Grid, NEW y \in Row, NEW a \in Int, NEW b \in Int,
         \A y2 \in Row, x2 \in Col : Shown(s, c, y2, x2) \/ (y2 = y /\ x2 \in a .. b)
  PROVE  AllShown(blit_line(s, c, y, a, b), c)
<1> SUFFICES ASSUME NEW y2 \in Row, NEW x2 \in Col
             PROVE  Shown(blit_line(s, c, y, a, b), c, y2, x2)
  BY DEF AllShown
<1>1. CASE y2 = y /\ x2 \in a .. b
  BY <1>1, BlitCell
<1>2. CASE ~(y2 = y /\ x2 \in a .. b)
  BY <1>2, BlitCell DEF Shown
<1>3. QED
  BY <1>1, <1>2

(* blit_screen draws every cell and leaves no cursor. *)
LEMMA ScreenBlit ==
  ASSUME NEW s \in Screen, NEW c \in Grid
  PROVE  /\ blit_screen(s, c) \in Screen
         /\ blit_screen(s, c).marks = {}
         /\ AllShown(blit_screen(s, c), c)
<1> DEFINE w == TERM_WIDTH - 1
           t == blit_screen(s, c)
<1>1. 0 \in Int /\ w \in Int /\ \A x \in Col : x \in 0 .. w
  BY TermAssumption DEF Col
<1>2. \A y \in Row : t.pixels[y] = blit_line(s, c, y, 0, w).pixels[y]
  BY DEF blit_screen
<1>3. ASSUME NEW y \in Row PROVE blit_line(s, c, y, 0, w).pixels[y] \in [Col -> Pixel]
  <2> DEFINE b == blit_line(s, c, y, 0, w)
  <2>1. b \in Screen
    BY <1>1, BlitType, Zenon
  <2> HIDE DEF b
  <2>2. b.pixels \in [Row -> [Col -> Pixel]]
    BY <2>1 DEF Screen
  <2>3. b.pixels[y] \in [Col -> Pixel]
    BY <2>2, Zenon
  <2>4. QED
    BY <2>3 DEF b
<1>4. t.pixels \in [Row -> [Col -> Pixel]] /\ t.marks = {}
  BY <1>3 DEF blit_screen
<1>5. t \in Screen
  BY <1>4 DEF Screen, blit_screen
<1>6. \A y \in Row, x \in Col : Shown(blit_line(s, c, y, 0, w), c, y, x)
  BY <1>1, BlitCell
<1>7. AllShown(t, c)
  BY <1>2, <1>6 DEF AllShown, Shown
<1>8. QED
  BY <1>4, <1>5, <1>7

(* Drawing the cell under a cursor, whether there is one or not, leaves a  *)
(* screen that shows the cells as it was.                                  *)
LEMMA CellBlit ==
  ASSUME NEW s \in Screen, NEW c \in Grid, NEW x \in Col, NEW y \in Row, AllShown(s, c)
  PROVE  /\ blit_line(s, c, y, x, x) \in Screen
         /\ AllShown(blit_line(s, c, y, x, x), c)
         /\ blit_line(s, c, y, x, x).marks = {p \in s.marks : p[2] # y}
<1>1. x \in Int
  BY DEF Col
<1>2. \A y2 \in Row, x2 \in Col : Shown(s, c, y2, x2)
  BY DEF AllShown
<1>3. QED
  BY <1>1, <1>2, BlitType, BlitShows

(* redrawCursor on a screen without cursors: afterwards there is one, at   *)
(* the place asked for, if it is on the screen and to be shown.            *)
LEMMA CursorRedrawn ==
  ASSUME NEW s \in Screen, NEW c \in Grid, NEW x \in Int, NEW y \in Int, NEW show \in BOOLEAN,
         AllShown(s, c), s.marks \subseteq {<<x, y>>}
  PROVE  LET t == redrawCursor(s, c, x, y, show)
         IN  /\ t \in Screen /\ AllShown(t, c)
             /\ t.marks = IF show /\ OnScreen(x, y) THEN {<<x, y>>} ELSE {}
<1> DEFINE r == redrawCursor(s, c, x, y, show)
           t == blit_line(s, c, y, x, x)
<1>1. CASE ~OnScreen(x, y)
  <2>1. r = s
    BY <1>1 DEF redrawCursor
  <2>2. s.marks = {}
    BY <1>1 DEF Screen, OnScreen
  <2>3. QED
    BY <1>1, <2>1, <2>2
<1>2. CASE OnScreen(x, y)
  <2>1. x \in Col /\ y \in Row
    BY <1>2 DEF OnScreen
  <2>2. t \in Screen /\ AllShown(t, c) /\ t.marks = {}
    <3>1. t \in Screen /\ AllShown(t, c) /\ t.marks = {p \in s.marks : p[2] # y}
      BY <2>1, CellBlit
    <3>2. QED
      BY <3>1
  <2>3. CASE show
    <3> DEFINE u == [t EXCEPT !.marks = @ \cup {<<x, y>>}]
    <3>1. r = u
      BY <1>2, <2>3 DEF redrawCursor
    <3>2. u \in Screen /\ u.pixels = t.pixels /\ u.marks = {<<x, y>>}
      BY <2>1, <2>2 DEF Screen
    <3>3. AllShown(u, c)
      BY <2>2, <3>2 DEF AllShown, Shown
    <3>4. QED
      BY <1>2, <2>3, <3>1, <3>2, <3>3
  <2>4. CASE ~show
    <3>1. r = t
      BY <1>2, <2>4 DEF redrawCursor
    <3>2. QED
      BY <2>2, <2>4, <3>1
  <2>5. QED
    BY <2>3, <2>4
<1>3. QED
  BY <1>1, <1>2

-----------------------------------------------------------------------------
(* The screen of a state as the drawing operators see it. *)
LEMMA NowShown ==
  ASSUME TypeOK, CellsDrawn
  PROVE  Now \in Screen /\ AllShown(Now, cells) /\ cells \in Grid
  BY DEF TypeOK, CellsDrawn, Now, Screen, Grid, Pixel, AllShown, Shown

(* The cell under the old cursor is drawn again: the screen shows the      *)
(* cells, and no cursor is left (term_setCursorPos and the end of          *)
(* term_write and term_blit).                                              *)
LEMMA OldRedrawn ==
  ASSUME NEW s \in Screen, NEW c \in Grid, AllShown(s, c), s.marks \subseteq {<<cursorX, cursorY>>}
  PROVE  RedrawOld(s, c) \in Screen /\ AllShown(RedrawOld(s, c), c) /\ RedrawOld(s, c).marks = {}
<1>1. CASE ~OnScreen(cursorX, cursorY)
  <2>1. s.marks = {}
    BY <1>1 DEF Screen, OnScreen
  <2>2. QED
    BY <1>1, <2>1 DEF RedrawOld
<1>2. CASE OnScreen(cursorX, cursorY)
  <2> DEFINE t == blit_line(s, c, cursorY, cursorX, cursorX)
  <2>1. t \in Screen /\ AllShown(t, c) /\ t.marks = {p \in s.marks : p[2] # cursorY}
    BY <1>2, CellBlit DEF OnScreen
  <2>2. QED
    BY <1>2, <2>1 DEF RedrawOld
<1>3. QED
  BY <1>1, <1>2

(* The part of the row that is drawn covers every cell the text was put    *)
(* in, wherever the cursor was: also when the sum wraps around and when    *)
(* the text ends left of the screen.                                       *)
LEMMA TextRedrawn ==
  ASSUME TypeOK, CellsDrawn, NoStaleCursor, cursorY \in Row,
         NEW len \in Nat, NEW c \in Grid,
         \A y \in Row, x \in Col :
           c[y][x] = cells[y][x] \/ (y = cursorY /\ x \in cursorX .. (cursorX + len) - 1)
  PROVE  LET s == RedrawText(Now, c, len)
         IN  s \in Screen /\ AllShown(s, c) /\ s.marks \subseteq {<<cursorX, cursorY>>}
<1> DEFINE sum == cursorX + len
           from == IF cursorX > 0 THEN cursorX ELSE 0
           to == IF sum < 0 \/ sum >= TERM_WIDTH THEN TERM_WIDTH - 1 ELSE sum - 1
           t == blit_line(Now, c, cursorY, from, to)
<1>1. cursorX \in Int /\ sum \in Int /\ from \in Int /\ to \in Int
  BY TermAssumption DEF TypeOK
<1>2. Now \in Screen /\ AllShown(Now, cells) /\ Now.marks \subseteq {<<cursorX, cursorY>>}
  BY NowShown DEF NoStaleCursor, Now
<1>3. \A y \in Row, x \in Col :
        Shown(Now, c, y, x) \/ (y = cursorY /\ x \in cursorX .. sum - 1)
  <2> SUFFICES ASSUME NEW y \in Row, NEW x \in Col
               PROVE  Shown(Now, c, y, x) \/ (y = cursorY /\ x \in cursorX .. sum - 1)
    OBVIOUS
  <2>1. CASE c[y][x] = cells[y][x]
    <3>1. Shown(Now, cells, y, x)
      BY <1>2 DEF AllShown
    <3>2. QED
      BY <2>1, <3>1 DEF Shown
  <2>2. QED
    BY <2>1
<1> HIDE DEF sum, from, to
<1>4. CASE sum = 0
  <2>1. \A x \in Col : x \notin cursorX .. sum - 1
    BY <1>1, <1>4, TermAssumption DEF Col, sum
  <2>2. AllShown(Now, c)
    BY <1>3, <2>1 DEF AllShown
  <2>3. RedrawText(Now, c, len) = Now
    BY <1>4 DEF RedrawText, sum
  <2>4. QED
    BY <1>2, <2>2, <2>3
<1>5. CASE sum # 0
  <2>1. \A x \in Col : x \in cursorX .. sum - 1 => x \in from .. to
    BY <1>1, <1>5, TermAssumption DEF Col, sum, from, to
  <2>2. \A y \in Row, x \in Col : Shown(Now, c, y, x) \/ (y = cursorY /\ x \in from .. to)
    BY <1>3, <2>1
  <2>3. AllShown(t, c)
    BY <1>1, <1>2, <2>2, BlitShows
  <2>4. t \in Screen /\ t.marks = {p \in Now.marks : p[2] # cursorY}
    BY <1>1, <1>2, BlitType
  <2>5. RedrawText(Now, c, len) = t
    BY <1>5 DEF RedrawText, sum, from, to
  <2>6. QED
    BY <1>2, <2>3, <2>4, <2>5
<1>6. QED
  BY <1>4, <1>5

-----------------------------------------------------------------------------
(* What a drawing call has to leave: a screen that shows the new cells and *)
(* no cursor but the one at its place.                                     *)
LEMMA ShownNext ==
  ASSUME NEW s \in Screen, NEW c \in Grid, AllShown(s, c), cells' = c, Show(s)
  PROVE  /\ cells' \in [Row -> [Col -> Cell]]
         /\ pixels' \in [Row -> [Col -> [cell : Cell, edge : Colour]]]
         /\ marks' \subseteq Col \X Row
         /\ CellsDrawn'
  BY DEF Show, Screen, Grid, Pixel, AllShown, Shown, CellsDrawn

(* The strings a program passes (the argument of term.write). *)
LEMMA TextsType ==
  ASSUME NEW text \in Texts
  PROVE  Len(text) \in Nat /\ DOMAIN text = 1 .. Len(text) /\ \A i \in 1 .. Len(text) : text[i] \in Chars
<1>1. PICK n \in 0 .. MaxLen : text \in [1 .. n -> Chars]
  BY DEF Texts
<1>2. Len(text) = n
  BY <1>1, TermAssumption
<1>3. QED
  BY <1>1, <1>2, TermAssumption

(* Put writes the cells of the text and no others. *)
LEMMA PutType ==
  ASSUME TypeOK, cursorY \in Row, NEW text \in Texts, NEW fg \in Colour, NEW bg \in Colour
  PROVE  /\ Put(text, fg, bg) \in Grid
         /\ \A y \in Row, x \in Col :
              \/ Put(text, fg, bg)[y][x] = cells[y][x]
              \/ y = cursorY /\ x \in cursorX .. (cursorX + Len(text)) - 1
<1> DEFINE row == [x \in Col |->
                     IF x - cursorX + 1 \in DOMAIN text
                     THEN [ch |-> text[x - cursorX + 1], fg |-> fg, bg |-> bg] ELSE cells[cursorY][x]]
<1>1. cells \in [Row -> [Col -> Cell]] /\ cursorX \in Int
  BY DEF TypeOK
<1>2. Put(text, fg, bg) = [cells EXCEPT ![cursorY] = row]
  BY <1>1 DEF Put
<1>3. row \in [Col -> Cell]
  BY <1>1, TextsType DEF Cell
<1>4. \A x \in Col : row[x] = cells[cursorY][x] \/ x \in cursorX .. (cursorX + Len(text)) - 1
  <2> SUFFICES ASSUME NEW x \in Col, x - cursorX + 1 \in DOMAIN text
               PROVE  x \in cursorX .. (cursorX + Len(text)) - 1
    OBVIOUS
  <2>1. x \in Int /\ x - cursorX + 1 \in 1 .. Len(text) /\ Len(text) \in Nat
    BY TextsType DEF Col
  <2>2. QED
    BY <1>1, <2>1
<1> HIDE DEF row
<1>5. Put(text, fg, bg) \in Grid
  BY <1>1, <1>2, <1>3 DEF Grid
<1>6. QED
  BY <1>1, <1>2, <1>4, <1>5

(* The end of term_write and term_blit: the text, the old cursor's cell    *)
(* and the new cursor are drawn, in this order.                            *)
LEMMA WrittenShows ==
  ASSUME ScreenShowsCells, cursorY \in Row, NEW len \in Nat, NEW c \in Grid,
         \A y \in Row, x \in Col :
           c[y][x] = cells[y][x] \/ (y = cursorY /\ x \in cursorX .. (cursorX + len) - 1),
         Written(c, len)
  PROVE  /\ ScreenShowsCells'
         /\ cursorShow /\ OnScreen(cursorX', cursorY') => marks' = {<<cursorX', cursorY'>>}
<1> DEFINE s == RedrawText(Now, c, len)
           t == RedrawOld(s, c)
           u == redrawCursor(t, c, cursorX + len, cursorY, cursorShow)
<1>1. cursorX \in Int /\ cursorY \in Int /\ cursorShow \in BOOLEAN /\ cursorX + len \in Int
  BY DEF ScreenShowsCells, TypeOK
<1>2. s \in Screen /\ AllShown(s, c) /\ s.marks \subseteq {<<cursorX, cursorY>>}
  BY TextRedrawn DEF ScreenShowsCells
<1> HIDE DEF s
<1>3. t \in Screen /\ AllShown(t, c) /\ t.marks = {}
  BY <1>2, OldRedrawn
<1> HIDE DEF t
<1>4. /\ u \in Screen /\ AllShown(u, c)
      /\ u.marks = IF cursorShow /\ OnScreen(cursorX + len, cursorY) THEN {<<cursorX + len, cursorY>>} ELSE {}
  BY <1>1, <1>3, CursorRedrawn
<1>5. /\ cells' = c /\ Show(u) /\ cursorX' = cursorX + len
      /\ UNCHANGED <<current_colors, cursorY, cursorShow>>
  BY DEF Written, s, t
<1> HIDE DEF u
<1>6. /\ cells' \in [Row -> [Col -> Cell]]
      /\ pixels' \in [Row -> [Col -> [cell : Cell, edge : Colour]]]
      /\ marks' \subseteq Col \X Row
      /\ CellsDrawn'
  BY <1>4, <1>5, ShownNext
<1>7. TypeOK'
  BY <1>1, <1>5, <1>6 DEF ScreenShowsCells, TypeOK
<1>8. NoStaleCursor' /\ (cursorShow /\ OnScreen(cursorX', cursorY') => marks' = {<<cursorX', cursorY'>>})
  BY <1>4, <1>5 DEF NoStaleCursor, Show
<1>9. QED
  BY <1>6, <1>7, <1>8 DEF ScreenShowsCells

(* A call that moves no cursor and draws with blit_screen or blit_line. *)
LEMMA DrawingShows ==
  ASSUME ScreenShowsCells, NEW s \in Screen, NEW c \in Grid, AllShown(s, c),
         s.marks \subseteq marks, cells' = c, Show(s),
         UNCHANGED <<current_colors, cursorX, cursorY, cursorShow>>
  PROVE  ScreenShowsCells'
<1>1. /\ cells' \in [Row -> [Col -> Cell]]
      /\ pixels' \in [Row -> [Col -> [cell : Cell, edge : Colour]]]
      /\ marks' \subseteq Col \X Row
      /\ CellsDrawn'
  BY ShownNext
<1>2. TypeOK'
  BY <1>1 DEF ScreenShowsCells, TypeOK
<1>3. NoStaleCursor'
  BY DEF ScreenShowsCells, NoStaleCursor, Show
<1>4. QED
  BY <1>1, <1>2, <1>3 DEF ScreenShowsCells

(* A call that redraws the cursor, from a screen without a stale one. *)
LEMMA CursorShows ==
  ASSUME ScreenShowsCells, NEW s \in Screen, AllShown(s, cells),
         NEW x \in Int, NEW y \in Int, NEW show \in BOOLEAN, s.marks \subseteq {<<x, y>>},
         cursorX' = x, cursorY' = y, cursorShow' = show,
         Show(redrawCursor(s, cells, x, y, show)), UNCHANGED <<cells, current_colors>>
  PROVE  /\ ScreenShowsCells'
         /\ show /\ OnScreen(x, y) => marks' = {<<x, y>>}
<1> DEFINE t == redrawCursor(s, cells, x, y, show)
<1>1. cells \in Grid
  BY DEF ScreenShowsCells, TypeOK, Grid
<1>2. /\ t \in Screen /\ AllShown(t, cells)
      /\ t.marks = IF show /\ OnScreen(x, y) THEN {<<x, y>>} ELSE {}
  BY <1>1, CursorRedrawn
<1>3. Show(t)
  OBVIOUS
<1> HIDE DEF t
<1>4. /\ cells' \in [Row -> [Col -> Cell]]
      /\ pixels' \in [Row -> [Col -> [cell : Cell, edge : Colour]]]
      /\ marks' \subseteq Col \X Row
      /\ CellsDrawn'
  BY <1>1, <1>2, <1>3, ShownNext
<1>5. TypeOK'
  BY <1>4 DEF ScreenShowsCells, TypeOK
<1>6. NoStaleCursor' /\ (show /\ OnScreen(x, y) => marks' = {<<x, y>>})
  BY <1>2, <1>3 DEF NoStaleCursor, Show
<1>7. QED
  BY <1>4, <1>5, <1>6 DEF ScreenShowsCells

-----------------------------------------------------------------------------
(* termInit leaves a blank screen with the cursor in the corner. *)
LEMMA InitShows == Init => ScreenShowsCells
<1> SUFFICES ASSUME Init PROVE ScreenShowsCells
  OBVIOUS
<1> DEFINE c == [y \in Row |-> BlankRow([fg |-> {}, bg |-> Planes])]
           white == [fg |-> Planes, bg |-> Planes]
           lit == [pixels |-> [y \in Row |-> [x \in Col |-> [cell |-> Blank(white), edge |-> Planes]]],
                   marks |-> {}]
           drawn == blit_screen(lit, c)
           s == redrawCursor(drawn, c, cursorX, cursorY, cursorShow)
<1>1. c \in Grid
  BY DEF Grid, BlankRow, Blank, Cell, Colour
<1>2. lit \in Screen
  BY DEF Screen, Pixel, Blank, Cell, Colour
<1>3. /\ cells = c /\ current_colors = [fg |-> {}, bg |-> Planes]
      /\ cursorX = 0 /\ cursorY = 0 /\ cursorShow = TRUE
      /\ pixels = s.pixels /\ marks = s.marks
  BY DEF Init
<1> HIDE DEF c, lit
<1>4. drawn \in Screen /\ AllShown(drawn, c) /\ drawn.marks \subseteq {<<cursorX, cursorY>>}
  BY <1>1, <1>2, ScreenBlit
<1> HIDE DEF drawn
<1>5. s \in Screen /\ AllShown(s, c) /\ s.marks \subseteq {<<cursorX, cursorY>>}
  <2>1. cursorX \in Int /\ cursorY \in Int /\ cursorShow \in BOOLEAN
    BY <1>3
  <2>2. QED
    BY <1>1, <1>4, <2>1, CursorRedrawn
<1> HIDE DEF s
<1>6. TypeOK
  BY <1>1, <1>3, <1>5 DEF TypeOK, Screen, Grid, Pixel, Colour
<1>7. CellsDrawn
  BY <1>3, <1>5 DEF CellsDrawn, AllShown, Shown
<1>8. NoStaleCursor
  BY <1>3, <1>5 DEF NoStaleCursor
<1>9. QED
  BY <1>6, <1>7, <1>8 DEF ScreenShowsCells

(* What one call leaves; a moved cursor is shown at its new place. *)
Moved == <<cursorX, cursorY>>' # <<cursorX, cursorY>> /\ cursorShow /\ OnScreen(cursorX', cursorY')
           => marks' = {<<cursorX', cursorY'>>}

(* Every call of the terminal keeps the screen, and moves the cursor there.  *)
LEMMA StepShows == ScreenShowsCells /\ [Next]_vars => ScreenShowsCells' /\ Moved
<1> SUFFICES ASSUME ScreenShowsCells, [Next]_vars PROVE ScreenShowsCells' /\ Moved
  OBVIOUS
<1>1. /\ Now \in Screen /\ AllShown(Now, cells) /\ cells \in Grid
      /\ Now.marks = marks /\ marks \subseteq {<<cursorX, cursorY>>}
      /\ cursorX \in Int /\ cursorY \in Int /\ cursorShow \in BOOLEAN
      /\ current_colors \in [fg : Colour, bg : Colour]
  BY NowShown DEF ScreenShowsCells, NoStaleCursor, Now, TypeOK
<1>2. BlankRow(current_colors) \in [Col -> Cell]
  BY <1>1 DEF BlankRow, Blank, Cell
<1>3. ASSUME NEW text \in Texts, term_write(text) PROVE ScreenShowsCells' /\ Moved
  <2> DEFINE c == Put(text, current_colors.fg, current_colors.bg)
  <2>1. /\ c \in Grid /\ cursorY \in Row /\ Len(text) \in Nat
        /\ \A y \in Row, x \in Col :
             c[y][x] = cells[y][x] \/ (y = cursorY /\ x \in cursorX .. (cursorX + Len(text)) - 1)
    BY <1>1, <1>3, PutType, TextsType DEF term_write, ScreenShowsCells
  <2>2. Written(c, Len(text))
    BY <1>3 DEF term_write
  <2> HIDE DEF c
  <2>3. QED
    BY <2>1, <2>2, WrittenShows DEF Moved
<1>4. ASSUME NEW text \in Texts, NEW fg \in Colour, NEW bg \in Colour, term_blit(text, fg, bg)
      PROVE  ScreenShowsCells' /\ Moved
  <2> DEFINE c == Put(text, fg, bg)
  <2>1. /\ c \in Grid /\ cursorY \in Row /\ Len(text) \in Nat
        /\ \A y \in Row, x \in Col :
             c[y][x] = cells[y][x] \/ (y = cursorY /\ x \in cursorX .. (cursorX + Len(text)) - 1)
    BY <1>1, <1>4, PutType, TextsType DEF term_blit, ScreenShowsCells
  <2>2. Written(c, Len(text))
    BY <1>4 DEF term_blit
  <2> HIDE DEF c
  <2>3. QED
    BY <2>1, <2>2, WrittenShows DEF Moved
<1>5. ASSUME NEW n \in -TERM_HEIGHT .. TERM_HEIGHT, term_scroll(n) PROVE ScreenShowsCells' /\ Moved
  <2>1. Scrolled(n) \in Grid
    BY <1>1, <1>2 DEF Scrolled, Grid
  <2>2. /\ blit_screen(Now, Scrolled(n)) \in Screen
        /\ AllShown(blit_screen(Now, Scrolled(n)), Scrolled(n))
        /\ blit_screen(Now, Scrolled(n)).marks = {}
    BY <1>1, <2>1, ScreenBlit
  <2>3. QED
    BY <1>5, <2>1, <2>2, DrawingShows DEF term_scroll, Moved
<1>6. ASSUME term_clear PROVE ScreenShowsCells' /\ Moved
  <2> DEFINE c == [y \in Row |-> BlankRow(current_colors)]
  <2>1. c \in Grid
    BY <1>2 DEF Grid
  <2>2. /\ cells' = c /\ Show(blit_screen(Now, c))
        /\ UNCHANGED <<current_colors, cursorX, cursorY, cursorShow>>
    BY <1>6 DEF term_clear
  <2> HIDE DEF c
  <2>3. /\ blit_screen(Now, c) \in Screen /\ AllShown(blit_screen(Now, c), c)
        /\ blit_screen(Now, c).marks = {}
    BY <1>1, <2>1, ScreenBlit
  <2>4. QED
    BY <2>1, <2>2, <2>3, DrawingShows DEF Moved
<1>7. ASSUME term_clearLine PROVE ScreenShowsCells' /\ Moved
  <2> DEFINE c == [cells EXCEPT ![cursorY] = BlankRow(current_colors)]
             w == TERM_WIDTH - 1
             t == blit_line(Now, c, cursorY, 0, w)
  <2>1. c \in Grid /\ cursorY \in Row /\ 0 \in Int /\ w \in Int
    BY <1>1, <1>2, <1>7, TermAssumption DEF Grid, term_clearLine
  <2>2. /\ cells' = c /\ Show(t)
        /\ UNCHANGED <<current_colors, cursorX, cursorY, cursorShow>>
    BY <1>7 DEF term_clearLine
  <2>3. \A y \in Row, x \in Col : Shown(Now, c, y, x) \/ (y = cursorY /\ x \in 0 .. w)
    <3> SUFFICES ASSUME NEW y \in Row, NEW x \in Col
                 PROVE  Shown(Now, c, y, x) \/ (y = cursorY /\ x \in 0 .. w)
      OBVIOUS
    <3>1. CASE y = cursorY
      BY <3>1, TermAssumption DEF Col
    <3>2. CASE y # cursorY
      <4>1. c[y][x] = cells[y][x]
        BY <1>1, <3>2 DEF Grid
      <4>2. Shown(Now, cells, y, x)
        BY <1>1 DEF AllShown
      <4>3. QED
        BY <4>1, <4>2 DEF Shown
    <3>3. QED
      BY <3>1, <3>2
  <2> HIDE DEF c, w
  <2>4. t \in Screen /\ AllShown(t, c) /\ t.marks \subseteq marks
    <3>0. Now \in Screen
      BY <1>1
    <3>1. t \in Screen /\ t.marks = {p \in Now.marks : p[2] # cursorY}
      BY <2>1, <3>0, BlitType
    <3>2. AllShown(t, c)
      BY <1>1, <2>1, <2>3, BlitShows, Zenon
    <3>3. Now.marks = marks
      BY DEF Now
    <3> HIDE DEF t
    <3>4. QED
      BY <3>1, <3>2, <3>3
  <2> HIDE DEF t
  <2>5. QED
    BY <2>1, <2>2, <2>4, DrawingShows DEF Moved
<1>8. ASSUME NEW x \in -Reach .. TERM_WIDTH + Reach - 1, NEW y \in -Reach .. TERM_HEIGHT + Reach - 1,
             term_setCursorPos(x, y)
      PROVE  ScreenShowsCells' /\ Moved
  <2> DEFINE s == RedrawOld(Now, cells)
  <2>1. x \in Int /\ y \in Int
    BY TermAssumption
  <2>2. s \in Screen /\ AllShown(s, cells) /\ s.marks = {}
    BY <1>1, OldRedrawn
  <2>3. /\ cursorX' = x /\ cursorY' = y /\ cursorShow' = cursorShow
        /\ Show(redrawCursor(s, cells, x, y, cursorShow)) /\ UNCHANGED <<cells, current_colors>>
    BY <1>8 DEF term_setCursorPos
  <2> HIDE DEF s
  <2>4. QED
    BY <1>1, <2>1, <2>2, <2>3, CursorShows DEF Moved
<1>9. ASSUME NEW show \in BOOLEAN, term_setCursorBlink(show) PROVE ScreenShowsCells' /\ Moved
  <2>1. /\ cursorX' = cursorX /\ cursorY' = cursorY /\ cursorShow' = show
        /\ Show(redrawCursor(Now, cells, cursorX, cursorY, show)) /\ UNCHANGED <<cells, current_colors>>
    BY <1>9 DEF term_setCursorBlink
  <2>2. QED
    BY <1>1, <2>1, CursorShows DEF Moved
<1>10. ASSUME NEW colour \in Colour, term_setTextColor(colour) \/ term_setBackgroundColor(colour)
       PROVE  ScreenShowsCells' /\ Moved
  <2>1. /\ UNCHANGED <<cells, cursorX, cursorY, cursorShow, pixels, marks>>
        /\ current_colors' \in [fg : Colour, bg : Colour]
    BY <1>1, <1>10 DEF term_setTextColor, term_setBackgroundColor, screen
  <2>2. QED
    BY <2>1 DEF Moved, ScreenShowsCells, TypeOK, CellsDrawn, NoStaleCursor
<1>11. CASE UNCHANGED vars
  BY <1>11 DEF vars, screen, Moved, ScreenShowsCells, TypeOK, CellsDrawn, NoStaleCursor
<1>12. QED
  BY <1>3, <1>4, <1>5, <1>6, <1>7, <1>8, <1>9, <1>10, <1>11 DEF Next

(* The screen shows the cells and the cursor after any sequence of calls,  *)
(* whatever partial redraws they made of it (term.cpp).                    *)
THEOREM TerminalShows == Spec => []ScreenShowsCells
<1>1. ScreenShowsCells /\ [Next]_vars => ScreenShowsCells'
  BY StepShows
<1>2. QED
  BY <1>1, InitShows, PTL DEF Spec

(* A cursor that moves to a place on the screen is shown there (the        *)
(* redrawCursor that ends term_write, term_blit and term_setCursorPos).    *)
THEOREM TerminalCursor == Spec => CursorFollows
<1>1. ScreenShowsCells /\ [Next]_vars => [Moved]_vars
  BY StepShows
<1>2. Spec => [][Moved]_vars
  BY <1>1, TerminalShows, PTL DEF Spec
<1>3. QED
  BY <1>2 DEF CursorFollows, Moved

-----------------------------------------------------------------------------
(* What the Lua scripts draw on is a terminal: with a window, multishell   *)
(* or the line editor in use the terminal itself makes only its own steps. *)
LEMMA DesktopIsTerminal == DesktopSpec => Spec
<1>1. DesktopInit => Init
  BY DEF DesktopInit
<1>2. [DesktopNext]_<<vars, scripts>> => [Next]_vars
  BY DEF DesktopNext
<1>3. QED
  BY <1>1, <1>2, PTL DEF DesktopSpec, Spec

-----------------------------------------------------------------------------
(* The line that read edits.  The terminal has one row with something on   *)
(* it, the row of the line; a drawing operator changes that row alone.     *)

NoCell == <<Space, White, Black>>

OneRow(w, h, y, row) == [n \in 1 .. h |-> IF n = y THEN row ELSE [c \in 1 .. w |-> NoCell]]

TermWith(w, h, y, row, x, blink, text, back) ==
  [cells |-> OneRow(w, h, y, row), x |-> x, y |-> y, blink |-> blink, text |-> text, back |-> back]

OverRow(w, row, x, line) ==
  [c \in 1 .. w |-> IF c - x + 1 \in DOMAIN line THEN line[c - x + 1] ELSE row[c]]

(* term.blit puts a line over the row.                                     *)
LEMMA BlitRow ==
  ASSUME NEW w \in Nat, NEW h \in Nat, NEW y \in 1 .. h, NEW row, DOMAIN row = 1 .. w, NEW x,
         NEW blink, NEW text, NEW back, NEW line
  PROVE  E!term_blit(TermWith(w, h, y, row, x, blink, text, back), line)
           = TermWith(w, h, y, OverRow(w, row, x, line), x + Len(line), blink, text, back)
<1> DEFINE p == TermWith(w, h, y, row, x, blink, text, back)
           cs == OneRow(w, h, y, row)
           cs2 == [cs EXCEPT ![y] = OverRow(w, row, x, line)]
           u == [cells |-> cs2, x |-> x, y |-> y, blink |-> blink, text |-> text, back |-> back]
<1>1. cs[y] = row /\ DOMAIN cs = 1 .. h
  BY DEF OneRow
<1>2. cs2 = OneRow(w, h, y, OverRow(w, row, x, line))
  BY DEF OneRow
<1>3. p = [cells |-> cs, x |-> x, y |-> y, blink |-> blink, text |-> text, back |-> back]
  BY DEF TermWith
<1> DEFINE R == [c \in DOMAIN p.cells[p.y] |-> IF c - p.x + 1 \in DOMAIN line THEN line[c - p.x + 1] ELSE p.cells[p.y][c]]
<1> HIDE DEF cs
<1>4. p.cells = cs /\ p.y = y /\ p.x = x
  BY <1>3
<1> HIDE DEF p
<1>5. R = OverRow(w, row, x, line)
  BY <1>1, <1>4 DEF OverRow
<1>6. E!term_blit(p, line) = [[p EXCEPT !.cells = [p.cells EXCEPT ![p.y] = R]] EXCEPT !.x = @ + Len(line)]
  BY DEF E!term_blit
<1> HIDE DEF R, cs2
<1>8. [p EXCEPT !.cells = [p.cells EXCEPT ![p.y] = R]] = u
  <2>1. [p.cells EXCEPT ![p.y] = R] = cs2
    BY <1>4, <1>5 DEF cs2
  <2>2. [p EXCEPT !.cells = cs2] = u
    BY <1>3
  <2> QED
    BY <2>1, <2>2
<1>7. [u EXCEPT !.x = @ + Len(line)] = [cells |-> cs2, x |-> x + Len(line), y |-> y, blink |-> blink, text |-> text, back |-> back]
  OBVIOUS
<1> QED
  BY <1>2, <1>6, <1>7, <1>8 DEF TermWith, p

(* Fields of such a terminal.                                              *)
LEMMA TermFields ==
  ASSUME NEW w, NEW h, NEW y, NEW row, NEW x, NEW blink, NEW text, NEW back
  PROVE  LET p == TermWith(w, h, y, row, x, blink, text, back)
         IN  /\ p.cells = OneRow(w, h, y, row) /\ p.x = x /\ p.y = y /\ p.blink = blink
             /\ p.text = text /\ p.back = back
  BY DEF TermWith

(* Moving the cursor.                                                      *)
LEMMA TermMoved ==
  ASSUME NEW w, NEW h, NEW y, NEW row, NEW x, NEW blink, NEW text, NEW back, NEW x2
  PROVE  E!term_setCursorPos(TermWith(w, h, y, row, x, blink, text, back), x2, y)
           = TermWith(w, h, y, row, x2, blink, text, back)
<1> DEFINE cs == OneRow(w, h, y, row)
           p == [cells |-> cs, x |-> x, y |-> y, blink |-> blink, text |-> text, back |-> back]
           u == [p EXCEPT !.x = x2]
<1> HIDE DEF cs
<1>1. TermWith(w, h, y, row, x, blink, text, back) = p
  BY DEF TermWith, cs
<1>2. u = [cells |-> cs, x |-> x2, y |-> y, blink |-> blink, text |-> text, back |-> back]
  OBVIOUS
<1> HIDE DEF p
<1>3. E!term_setCursorPos(p, x2, y) = [u EXCEPT !.y = y]
  BY DEF E!term_setCursorPos
<1> HIDE DEF u
<1>4. [u EXCEPT !.y = y] = [cells |-> cs, x |-> x2, y |-> y, blink |-> blink, text |-> text, back |-> back]
  BY <1>2
<1> QED
  BY <1>1, <1>3, <1>4 DEF TermWith, cs

(* Other colours.                                                          *)
Recoloured(p, t2, b2) == [p EXCEPT !.text = t2, !.back = b2]

(* They change nothing else.                                               *)
LEMMA TermColoured ==
  ASSUME NEW w, NEW h, NEW y, NEW row, NEW x, NEW blink, NEW text, NEW back, NEW t2, NEW b2
  PROVE  Recoloured(TermWith(w, h, y, row, x, blink, text, back), t2, b2)
           = TermWith(w, h, y, row, x, blink, t2, b2)
<1> DEFINE cs == OneRow(w, h, y, row)
           p == [cells |-> cs, x |-> x, y |-> y, blink |-> blink, text |-> text, back |-> back]
           v == [p EXCEPT !.text = t2]
<1> HIDE DEF cs
<1>1. TermWith(w, h, y, row, x, blink, text, back) = p
  BY DEF TermWith, cs
<1>2. v = [cells |-> cs, x |-> x, y |-> y, blink |-> blink, text |-> t2, back |-> back]
  OBVIOUS
<1> HIDE DEF p
<1>3. Recoloured(p, t2, b2) = [v EXCEPT !.back = b2]
  BY DEF Recoloured
<1> HIDE DEF v
<1>4. [v EXCEPT !.back = b2] = [cells |-> cs, x |-> x, y |-> y, blink |-> blink, text |-> t2, back |-> b2]
  BY <1>2
<1> QED
  BY <1>1, <1>3, <1>4 DEF TermWith, cs

LineChar == STRING

(* The variables of read.                                                  *)
EdRec(e) ==
  e = [sLine |-> e.sLine, nPos |-> e.nPos, nHistoryPos |-> e.nHistoryPos, replace |-> e.replace,
       tHistory |-> e.tHistory, remembers |-> e.remembers, fnComplete |-> e.fnComplete,
       tCompletions |-> e.tCompletions, nCompletion |-> e.nCompletion,
       w |-> e.w, sx |-> e.sx, from |-> e.from, reading |-> e.reading, term |-> e.term]

EdOK(e) ==
  /\ EdRec(e)
  /\ e.sLine \in Seq(LineChar) /\ e.nPos \in 0 .. Len(e.sLine)
  /\ e.tHistory \in Seq(Seq(LineChar)) /\ e.nHistoryPos \in 0 .. Len(e.tHistory)
  /\ e.tCompletions \in Seq(Seq(LineChar)) /\ e.nCompletion \in 0 .. Len(e.tCompletions)
  /\ e.w \in Nat /\ e.sx \in 1 .. e.w

(* How far the row is scrolled, and what is suggested.                     *)
LEMMA ScrollSuggestion ==
  ASSUME NEW e, EdOK(e)
  PROVE  /\ E!nScroll(e) \in 0 .. Len(e.sLine) /\ E!nScroll(e) <= e.nPos
         /\ e.sx + e.nPos - E!nScroll(e) \in 1 .. e.w
         /\ E!suggestion(e) \in Seq(LineChar)
         /\ e.nCompletion = 0 => E!suggestion(e) = <<>>
<1>1. e.sLine \in Seq(LineChar) /\ e.nPos \in 0 .. Len(e.sLine) /\ Len(e.sLine) \in Nat /\ e.w \in Nat /\ e.sx \in 1 .. e.w
  BY DEF EdOK
<1>2. e.tCompletions \in Seq(Seq(LineChar)) /\ e.nCompletion \in 0 .. Len(e.tCompletions)
  BY DEF EdOK
<1> DEFINE n == E!nScroll(e)  l == Len(e.sLine)
<1>3. n = IF e.sx + e.nPos >= e.w THEN e.sx + e.nPos - e.w ELSE 0
  BY DEF E!nScroll
<1> HIDE DEF n, l
<1>4. e.nPos \in 0 .. l /\ l \in Nat /\ e.w \in Nat /\ e.sx \in 1 .. e.w
  BY <1>1 DEF l
<1>5. n \in 0 .. l /\ n <= e.nPos /\ e.sx + e.nPos - n \in 1 .. e.w
  BY <1>3, <1>4
<1>6. E!suggestion(e) = IF e.nCompletion = 0 THEN <<>> ELSE e.tCompletions[e.nCompletion]
  BY DEF E!suggestion, E!nil
<1>7. E!suggestion(e) \in Seq(LineChar)
  <2>1. CASE e.nCompletion = 0
    BY <1>6, <2>1
  <2>2. CASE e.nCompletion # 0
    <3>1. e.nCompletion \in DOMAIN e.tCompletions
      BY <1>2, <2>2
    <3>2. e.tCompletions[e.nCompletion] \in Seq(LineChar)
      BY <1>2, <3>1
    <3> QED
      BY <1>6, <2>2, <3>2
  <2> QED
    BY <2>1, <2>2
<1> QED
  BY <1>5, <1>6, <1>7 DEF n, l

(* How a character is shown, and the row after redraw.                     *)
LookOf(e, clr, ch) == IF clr THEN Space ELSE IF e.replace # "plain" THEN e.replace ELSE ch

PaintedCell(e, clr, row, c) ==
  LET i == c - e.sx + 1 + E!nScroll(e)
      k == i - Len(e.sLine)
  IN  IF k \in 1 .. Len(E!suggestion(e))
      THEN <<LookOf(e, clr, E!suggestion(e)[k]), White, IF clr THEN Black ELSE "gray">>
      ELSE IF c >= e.sx /\ i \in 1 .. Len(e.sLine) THEN <<LookOf(e, clr, e.sLine[i]), White, Black>>
      ELSE row[c]

Painted(e, clr, row) == [c \in 1 .. e.w |-> PaintedCell(e, clr, row, c)]

(* Text as redraw shows it.                                                *)
SeenAs(e, clr, text) ==
  IF clr THEN E!rep(Space, Len(text)) ELSE IF e.replace # "plain" THEN E!rep(e.replace, Len(text)) ELSE text

(* It has a cell for each character.                                       *)
LEMMA SeenIs ==
  ASSUME NEW e, NEW clr, NEW text \in Seq(LineChar), NEW fg, NEW bg
  PROVE  /\ E!Coloured(SeenAs(e, clr, text), fg, bg) = [i \in 1 .. Len(text) |-> <<LookOf(e, clr, text[i]), fg, bg>>]
         /\ Len([i \in 1 .. Len(text) |-> <<LookOf(e, clr, text[i]), fg, bg>>]) = Len(text)
<1> DEFINE s == SeenAs(e, clr, text)  n == Len(text)
<1>1. n \in Nat /\ DOMAIN text = 1 .. n
  OBVIOUS
<1>2. DOMAIN s = 1 .. n /\ \A i \in 1 .. n : s[i] = LookOf(e, clr, text[i])
  BY <1>1 DEF SeenAs, LookOf, E!rep
<1> HIDE DEF s, n
<1>3. E!Coloured(s, fg, bg) = [i \in 1 .. n |-> <<LookOf(e, clr, text[i]), fg, bg>>]
  BY <1>2 DEF E!Coloured
<1>4. Len([i \in 1 .. n |-> <<LookOf(e, clr, text[i]), fg, bg>>]) = n
  BY <1>1
<1> QED
  BY <1>3, <1>4 DEF s, n

(* What is left of a sequence behind n.                                    *)
LEMMA Behind ==
  ASSUME NEW S, NEW s \in Seq(S), NEW n \in 0 .. Len(s)
  PROVE  LET u == E!sub(s, n + 1, Len(s))
         IN  u \in Seq(S) /\ Len(u) = Len(s) - n /\ \A k \in 1 .. Len(s) - n : u[k] = s[n + k]
<1> DEFINE l == Len(s)  u == SubSeq(s, n + 1, l)
<1>1. l \in Nat /\ n \in 0 .. l /\ n + 1 \in Int /\ ~(n + 1 < 1) /\ ~(l > l)
  OBVIOUS
<1>2. E!sub(s, n + 1, l) = u
  BY <1>1 DEF E!sub
<1>3. \A i \in n + 1 .. l : s[i] \in S
  BY <1>1
<1>4. /\ u \in Seq(S) /\ Len(u) = IF n + 1 <= l THEN l - (n + 1) + 1 ELSE 0
      /\ \A i \in 1 .. l - (n + 1) + 1 : u[i] = s[(n + 1) + i - 1]
  BY <1>1, <1>3, SubSeqProperties
<1> HIDE DEF l, u
<1>5. u \in Seq(S) /\ Len(u) = l - n
  BY <1>1, <1>4
<1>6. ASSUME NEW k \in 1 .. l - n PROVE u[k] = s[n + k]
  <2>1. k \in 1 .. l - (n + 1) + 1 /\ (n + 1) + k - 1 = n + k
    BY <1>1
  <2> QED
    BY <1>4, <2>1
<1> QED
  BY <1>2, <1>5, <1>6 DEF l

WithTerm(e, t) == [e EXCEPT !.term = t]

(* redraw draws the line and the suggestion over the row, or spaces where  *)
(* they are, and puts the cursor at nPos.                                  *)
LEMMA RedrawIs ==
  ASSUME NEW e, EdOK(e), NEW clr \in BOOLEAN, NEW h \in Nat, e.from \in 1 .. h, NEW row, DOMAIN row = 1 .. e.w,
         NEW x, NEW blink, e.term = TermWith(e.w, h, e.from, row, x, blink, White, Black)
  PROVE  E!redrawLineOf(e, clr) =
           WithTerm(e, TermWith(e.w, h, e.from, Painted(e, clr, row), e.sx + e.nPos - E!nScroll(e), blink, White, Black))
<1> DEFINE n == E!nScroll(e)  l == Len(e.sLine)  sug == E!suggestion(e)  m == Len(sug)
           w == e.w  y == e.from  sx == e.sx
           rest == E!sub(e.sLine, n + 1, l)
           back == IF clr THEN Black ELSE "gray"
           p1 == E!term_setCursorPos(e.term, e.sx, e.term.y)
           line == E!term_write(p1, SeenAs(e, clr, rest))
           coloured == IF clr THEN line ELSE [line EXCEPT !.text = White, !.back = "gray"]
           all == [E!term_write(coloured, SeenAs(e, clr, sug)) EXCEPT !.text = e.term.text, !.back = e.term.back]
           drawn == IF e.nCompletion = 0 THEN line ELSE all
           L1 == [i \in 1 .. l - n |-> <<LookOf(e, clr, rest[i]), White, Black>>]
           L2 == [i \in 1 .. m |-> <<LookOf(e, clr, sug[i]), White, back>>]
           x1 == sx + (l - n)
           row1 == OverRow(w, row, sx, L1)
           row2 == OverRow(w, row1, x1, L2)
<1>1. E!redrawLineOf(e, clr) = [e EXCEPT !.term = E!term_setCursorPos(drawn, e.sx + e.nPos - n, e.term.y)]
  BY DEF E!redrawLineOf, SeenAs, E!nil
<1>2. /\ n \in 0 .. l /\ sug \in Seq(LineChar) /\ (e.nCompletion = 0 => sug = <<>>)
      /\ e.sLine \in Seq(LineChar) /\ l \in Nat /\ m \in Nat /\ w \in Nat /\ sx \in Nat
  <2>1. n \in 0 .. l /\ sug \in Seq(LineChar) /\ (e.nCompletion = 0 => sug = <<>>)
    BY ScrollSuggestion
  <2>2. e.sLine \in Seq(LineChar) /\ w \in Nat /\ sx \in 1 .. w
    BY DEF EdOK
  <2> HIDE DEF n, sug
  <2> QED
    BY <2>1, <2>2
<1>3. rest \in Seq(LineChar) /\ Len(rest) = l - n /\ \A k \in 1 .. l - n : rest[k] = e.sLine[n + k]
  <2> DEFINE s == e.sLine
  <2>1. s \in Seq(LineChar) /\ n \in 0 .. Len(s)
    BY <1>2
  <2> HIDE DEF s, n
  <2> QED
    BY <2>1, Behind DEF s
<1> HIDE DEF n, sug, rest
<1>4. p1 = TermWith(w, h, y, row, sx, blink, White, Black) /\ e.term.y = y /\ e.term.text = White /\ e.term.back = Black
  <2>1. e.term.y = y /\ e.term.text = White /\ e.term.back = Black
    BY TermFields
  <2> QED
    BY <2>1, TermMoved
<1> HIDE DEF p1
<1>5. p1.text = White /\ p1.back = Black
  BY <1>4, TermFields
<1>6. E!Coloured(SeenAs(e, clr, rest), White, Black) = L1 /\ Len(L1) = l - n
  BY <1>3, SeenIs
<1>7. E!Coloured(SeenAs(e, clr, sug), White, back) = L2 /\ Len(L2) = m
  <2> HIDE DEF back
  <2> QED
    BY <1>2, SeenIs
<1> HIDE DEF L1, L2
<1>8. line = TermWith(w, h, y, row1, x1, blink, White, Black)
  <2>1. line = E!term_blit(p1, L1)
    BY <1>5, <1>6 DEF E!term_write
  <2>2. E!term_blit(p1, L1) = TermWith(w, h, y, OverRow(w, row, sx, L1), sx + Len(L1), blink, White, Black)
    BY <1>2, <1>4, BlitRow
  <2> QED
    BY <1>6, <2>1, <2>2
<1> HIDE DEF line
<1>9. coloured = TermWith(w, h, y, row1, x1, blink, White, back)
  <2> HIDE DEF row1, x1
  <2>1. Recoloured(line, White, "gray") = TermWith(w, h, y, row1, x1, blink, White, "gray")
    BY <1>8, TermColoured
  <2> QED
    BY <1>8, <2>1 DEF Recoloured
<1> HIDE DEF coloured
<1>10. DOMAIN row1 = 1 .. w
  BY DEF OverRow
<1>11. E!term_write(coloured, SeenAs(e, clr, sug)) = TermWith(w, h, y, row2, x1 + m, blink, White, back)
  <2>1. coloured.text = White /\ coloured.back = back
    BY <1>9, TermFields
  <2>2. E!term_write(coloured, SeenAs(e, clr, sug)) = E!term_blit(coloured, L2)
    BY <1>7, <2>1 DEF E!term_write
  <2> HIDE DEF row1
  <2>3. E!term_blit(coloured, L2) = TermWith(w, h, y, OverRow(w, row1, x1, L2), x1 + Len(L2), blink, White, back)
    BY <1>2, <1>9, <1>10, BlitRow
  <2> QED
    BY <1>7, <2>2, <2>3
<1>12. all = TermWith(w, h, y, row2, x1 + m, blink, White, Black)
  <2> DEFINE x2 == x1 + m
  <2> HIDE DEF row2, x1, back, x2
  <2>1. Recoloured(TermWith(w, h, y, row2, x2, blink, White, back), White, Black)
          = TermWith(w, h, y, row2, x2, blink, White, Black)
    BY TermColoured
  <2> QED
    BY <1>4, <1>11, <2>1 DEF x2, Recoloured
<1> HIDE DEF all
<1>13. drawn = TermWith(w, h, y, IF e.nCompletion = 0 THEN row1 ELSE row2, IF e.nCompletion = 0 THEN x1 ELSE x1 + m, blink, White, Black)
  BY <1>8, <1>12
<1>14. (IF e.nCompletion = 0 THEN row1 ELSE row2) = Painted(e, clr, row)
  <2> SUFFICES ASSUME NEW c \in 1 .. w
               PROVE  (IF e.nCompletion = 0 THEN row1 ELSE row2)[c] = PaintedCell(e, clr, row, c)
    BY DEF Painted, OverRow
  <2> DEFINE i == c - sx + 1 + n  k == i - l  j == c - sx + 1
  <2>1. DOMAIN L1 = 1 .. l - n /\ DOMAIN L2 = 1 .. m
    BY <1>2 DEF L1, L2
  <2>2. c \in Int /\ j \in Int /\ i = j + n /\ (j \in 1 .. l - n <=> c >= sx /\ i \in 1 .. l) /\ c - x1 + 1 = k
    <3>1. c \in Nat /\ n \in 0 .. l /\ l \in Nat /\ sx \in Nat
      BY <1>2
    <3> HIDE DEF l, sx
    <3> QED
      BY ONLY <3>1 DEF i, j, k, x1
  <2>3. j \in 1 .. l - n => rest[j] = e.sLine[i]
    <3>1. n + j = i
      BY <1>2
    <3> QED
      BY <1>3, <3>1
  <2>4. row1[c] = IF j \in 1 .. l - n THEN L1[j] ELSE row[c]
    BY <2>1 DEF OverRow
  <2>5. row1[c] = IF c >= sx /\ i \in 1 .. l THEN <<LookOf(e, clr, e.sLine[i]), White, Black>> ELSE row[c]
    <3> HIDE DEF row1, i, j
    <3> QED
      BY <2>2, <2>3, <2>4 DEF L1
  <2>6. row2[c] = IF k \in 1 .. m THEN L2[k] ELSE row1[c]
    <3>1. row2[c] = IF c - x1 + 1 \in DOMAIN L2 THEN L2[c - x1 + 1] ELSE row1[c]
      BY DEF OverRow
    <3> HIDE DEF row2, row1, x1, k
    <3> QED
      BY <2>1, <2>2, <3>1
  <2>7. k \in 1 .. m => L2[k] = <<LookOf(e, clr, sug[k]), White, back>>
    BY DEF L2
  <2>8. e.nCompletion = 0 => m = 0
    BY <1>2
  <2>9. PaintedCell(e, clr, row, c) = IF k \in 1 .. m THEN <<LookOf(e, clr, sug[k]), White, back>> ELSE row1[c]
    <3>1. PaintedCell(e, clr, row, c) =
            IF k \in 1 .. m THEN <<LookOf(e, clr, sug[k]), White, back>>
            ELSE IF c >= sx /\ i \in 1 .. l THEN <<LookOf(e, clr, e.sLine[i]), White, Black>> ELSE row[c]
      BY DEF PaintedCell, n, sug
    <3> HIDE DEF row1, i, k
    <3> QED
      BY <2>5, <3>1
  <2>10. e.nCompletion = 0 => ~(k \in 1 .. m)
    BY <2>8
  <2> HIDE DEF row1, row2, k
  <2> QED
    BY <2>6, <2>7, <2>9, <2>10
<1> HIDE DEF drawn, row1, row2, x1
<1>15. E!term_setCursorPos(drawn, e.sx + e.nPos - n, e.term.y) =
         TermWith(w, h, y, Painted(e, clr, row), e.sx + e.nPos - n, blink, White, Black)
  BY <1>4, <1>13, <1>14, TermMoved
<1> QED
  BY <1>1, <1>15 DEF n, WithTerm


(* What f has of e besides the line and its suggestions.                   *)
SameKeys(f, e) ==
  f.sLine = e.sLine /\ f.nPos = e.nPos /\ f.nHistoryPos = e.nHistoryPos
SameCompletion(f, e) ==
  f.tCompletions = e.tCompletions /\ f.nCompletion = e.nCompletion
SameRest(f, e) ==
  /\ f.replace = e.replace /\ f.tHistory = e.tHistory /\ f.remembers = e.remembers
  /\ f.fnComplete = e.fnComplete /\ f.w = e.w /\ f.sx = e.sx
SamePlace(f, e) == f.from = e.from /\ f.reading = e.reading

(* redraw changes nothing but the terminal.                                *)
LEMMA OtherTerm ==
  ASSUME NEW e, EdRec(e), NEW t
  PROVE  LET f == WithTerm(e, t)
         IN  EdRec(f) /\ f.term = t /\ SameKeys(f, e) /\ SameCompletion(f, e) /\ SameRest(f, e) /\ SamePlace(f, e)
  BY DEF WithTerm, EdRec, SameKeys, SameCompletion, SameRest, SamePlace

(* Another line with the cursor in it.                                     *)
LEMMA OtherLine ==
  ASSUME NEW e, EdRec(e), NEW line, NEW pos
  PROVE  LET f == E!Edited(e, line, pos)
         IN  /\ EdRec(f) /\ f.sLine = line /\ f.nPos = pos /\ f.nHistoryPos = e.nHistoryPos /\ f.term = e.term
             /\ SameCompletion(f, e) /\ SameRest(f, e) /\ SamePlace(f, e)
<1> DEFINE d == [e EXCEPT !.sLine = line]
           f == [d EXCEPT !.nPos = pos]
<1>1. E!Edited(e, line, pos) = f
  BY DEF E!Edited
<1>2. /\ EdRec(d) /\ d.sLine = line /\ d.nPos = e.nPos /\ d.nHistoryPos = e.nHistoryPos /\ d.term = e.term
      /\ SameCompletion(d, e) /\ SameRest(d, e) /\ SamePlace(d, e)
  BY DEF EdRec, SameCompletion, SameRest, SamePlace
<1> HIDE DEF d
<1>3. /\ EdRec(f) /\ f.sLine = d.sLine /\ f.nPos = pos /\ f.nHistoryPos = d.nHistoryPos /\ f.term = d.term
      /\ SameCompletion(f, d) /\ SameRest(f, d) /\ SamePlace(f, d)
  BY <1>2 DEF EdRec, SameCompletion, SameRest, SamePlace
<1> HIDE DEF f
<1> QED
  BY <1>1, <1>2, <1>3 DEF SameCompletion, SameRest, SamePlace

(* Other suggestions.                                                      *)
WithCompletion(e, t, n) == [e EXCEPT !.tCompletions = t, !.nCompletion = n]

(* They leave the line and its place alone.                                *)
LEMMA OtherCompletion ==
  ASSUME NEW e, EdRec(e), NEW t, NEW n
  PROVE  LET f == WithCompletion(e, t, n)
         IN  /\ EdRec(f) /\ f.tCompletions = t /\ f.nCompletion = n /\ f.term = e.term
             /\ SameKeys(f, e) /\ SameRest(f, e) /\ SamePlace(f, e)
<1> DEFINE d == [e EXCEPT !.tCompletions = t]
           f == [d EXCEPT !.nCompletion = n]
<1>2. /\ EdRec(d) /\ d.tCompletions = t /\ d.nCompletion = e.nCompletion /\ d.term = e.term
      /\ SameKeys(d, e) /\ SameRest(d, e) /\ SamePlace(d, e)
  BY DEF EdRec, SameKeys, SameRest, SamePlace
<1>1. WithCompletion(e, t, n) = f
  BY DEF WithCompletion
<1> HIDE DEF d
<1>3. /\ EdRec(f) /\ f.tCompletions = d.tCompletions /\ f.nCompletion = n /\ f.term = d.term
      /\ SameKeys(f, d) /\ SameRest(f, d) /\ SamePlace(f, d)
  BY <1>2 DEF EdRec, SameKeys, SameRest, SamePlace
<1> HIDE DEF f
<1> QED
  BY <1>1, <1>2, <1>3 DEF SameKeys, SameRest, SamePlace

NoRow(w) == [c \in 1 .. w |-> NoCell]

(* The terminal is blank but for a row of the given cells.                 *)
RowIs(e, row, x) ==
  \E h \in Nat : e.from \in 1 .. h /\ e.term = TermWith(e.w, h, e.from, row, x, TRUE, White, Black)

(* The line is wiped, or shown with the cursor at nPos.                    *)
Wiped(e) == \E x : RowIs(e, NoRow(e.w), x)
CursorColumn(e) == e.sx + e.nPos - E!nScroll(e)
Displayed(e) == EdOK(e) /\ RowIs(e, Painted(e, FALSE, NoRow(e.w)), CursorColumn(e))

(* What is painted depends on the line and its suggestions alone.          *)
LEMMA SamePainted ==
  ASSUME NEW e, NEW f, SameKeys(f, e), SameCompletion(f, e), SameRest(f, e)
  PROVE  (\A clr, row : Painted(f, clr, row) = Painted(e, clr, row)) /\ CursorColumn(f) = CursorColumn(e)
<1>1. E!nScroll(f) = E!nScroll(e)
  BY DEF E!nScroll, SameKeys, SameRest
<1>2. E!suggestion(f) = E!suggestion(e)
  BY DEF E!suggestion, SameCompletion
<1>3. f.w = e.w /\ f.sx = e.sx /\ f.sLine = e.sLine /\ f.replace = e.replace /\ f.nPos = e.nPos
  BY DEF SameRest, SameKeys
<1> QED
  BY <1>1, <1>2, <1>3 DEF Painted, PaintedCell, LookOf, CursorColumn

(* EdOK is about the line and its suggestions alone.                       *)
LEMMA SameEdOK ==
  ASSUME NEW e, EdOK(e), NEW f, EdRec(f), SameKeys(f, e), SameCompletion(f, e), SameRest(f, e)
  PROVE  EdOK(f)
  BY DEF EdOK, SameKeys, SameCompletion, SameRest

(* Spaces over what was painted leave nothing of it.                       *)
LEMMA PaintedAway ==
  ASSUME NEW e
  PROVE  Painted(e, TRUE, Painted(e, FALSE, NoRow(e.w))) = NoRow(e.w)
<1> SUFFICES ASSUME NEW c \in 1 .. e.w
             PROVE  PaintedCell(e, TRUE, Painted(e, FALSE, NoRow(e.w)), c) = NoCell
  BY DEF Painted, NoRow
<1>1. Painted(e, FALSE, NoRow(e.w))[c] = PaintedCell(e, FALSE, NoRow(e.w), c) /\ NoRow(e.w)[c] = NoCell
  BY DEF Painted, NoRow
<1> QED
  BY <1>1 DEF PaintedCell, LookOf, NoCell

(* Painting twice is painting once.                                        *)
LEMMA PaintedTwice ==
  ASSUME NEW e
  PROVE  Painted(e, FALSE, Painted(e, FALSE, NoRow(e.w))) = Painted(e, FALSE, NoRow(e.w))
<1> SUFFICES ASSUME NEW c \in 1 .. e.w
             PROVE  PaintedCell(e, FALSE, Painted(e, FALSE, NoRow(e.w)), c) = PaintedCell(e, FALSE, NoRow(e.w), c)
  BY DEF Painted, NoRow
<1>1. Painted(e, FALSE, NoRow(e.w))[c] = PaintedCell(e, FALSE, NoRow(e.w), c)
  BY DEF Painted
<1> QED
  BY <1>1 DEF PaintedCell

(* redraw of a row.                                                        *)
LEMMA RedrawRow ==
  ASSUME NEW e, EdOK(e), NEW clr \in BOOLEAN, NEW row, DOMAIN row = 1 .. e.w, NEW x, RowIs(e, row, x)
  PROVE  LET f == E!redrawLineOf(e, clr)
         IN  /\ EdOK(f) /\ RowIs(f, Painted(e, clr, row), CursorColumn(e))
             /\ SameKeys(f, e) /\ SameCompletion(f, e) /\ SameRest(f, e) /\ SamePlace(f, e)
<1>1. PICK h \in Nat : e.from \in 1 .. h /\ e.term = TermWith(e.w, h, e.from, row, x, TRUE, White, Black)
  BY DEF RowIs
<1> DEFINE t == TermWith(e.w, h, e.from, Painted(e, clr, row), e.sx + e.nPos - E!nScroll(e), TRUE, White, Black)
           f == WithTerm(e, t)
<1>2. E!redrawLineOf(e, clr) = f
  BY <1>1, RedrawIs, ZenonT(30)
<1> HIDE DEF t
<1>3. EdRec(f) /\ f.term = t /\ SameKeys(f, e) /\ SameCompletion(f, e) /\ SameRest(f, e) /\ SamePlace(f, e)
  BY OtherTerm DEF EdOK
<1> HIDE DEF f
<1>4. EdOK(f)
  BY <1>3, SameEdOK
<1>5. RowIs(f, Painted(e, clr, row), CursorColumn(e))
  <2>1. f.w = e.w /\ f.from = e.from /\ f.term = t
    BY <1>3 DEF SameRest, SamePlace
  <2> QED
    BY <1>1, <2>1 DEF RowIs, t, CursorColumn
<1> QED
  BY <1>2, <1>3, <1>4, <1>5

(* clear() wipes what redraw() drew.                                       *)
LEMMA ClearWipes ==
  ASSUME NEW e, Displayed(e)
  PROVE  LET f == E!Clear(e)
         IN  EdOK(f) /\ Wiped(f) /\ SameKeys(f, e) /\ SameCompletion(f, e) /\ SameRest(f, e) /\ SamePlace(f, e)
<1> DEFINE row == Painted(e, FALSE, NoRow(e.w))  f == E!redrawLineOf(e, TRUE)
<1>1. EdOK(e) /\ RowIs(e, row, CursorColumn(e)) /\ DOMAIN row = 1 .. e.w
  BY DEF Displayed, Painted
<1>2. Painted(e, TRUE, row) = NoRow(e.w)
  BY PaintedAway
<1> HIDE DEF row
<1>3. /\ EdOK(f) /\ RowIs(f, Painted(e, TRUE, row), CursorColumn(e))
      /\ SameKeys(f, e) /\ SameCompletion(f, e) /\ SameRest(f, e) /\ SamePlace(f, e)
  BY <1>1, RedrawRow
<1>4. E!Clear(e) = f
  BY DEF E!Clear
<1> HIDE DEF f
<1>5. Wiped(f)
  BY <1>2, <1>3 DEF Wiped, SameRest
<1> QED
  BY <1>3, <1>4, <1>5

(* redraw() shows the line on a row that is wiped, or shows it already.    *)
LEMMA RedrawShows ==
  ASSUME NEW e, EdOK(e), Wiped(e) \/ Displayed(e)
  PROVE  LET f == E!Redraw(e)
         IN  Displayed(f) /\ SameKeys(f, e) /\ SameCompletion(f, e) /\ SameRest(f, e) /\ SamePlace(f, e)
<1> DEFINE f == E!redrawLineOf(e, FALSE)
<1>1. PICK row, x : /\ DOMAIN row = 1 .. e.w /\ RowIs(e, row, x)
                    /\ Painted(e, FALSE, row) = Painted(e, FALSE, NoRow(e.w))
  <2>1. DOMAIN NoRow(e.w) = 1 .. e.w
    BY DEF NoRow
  <2>2. DOMAIN Painted(e, FALSE, NoRow(e.w)) = 1 .. e.w
    BY DEF Painted
  <2>3. CASE Wiped(e)
    BY <2>1, <2>3 DEF Wiped
  <2>4. CASE Displayed(e)
    BY <2>2, <2>4, PaintedTwice DEF Displayed
  <2> QED
    BY <2>3, <2>4
<1>2. /\ EdOK(f) /\ RowIs(f, Painted(e, FALSE, row), CursorColumn(e))
      /\ SameKeys(f, e) /\ SameCompletion(f, e) /\ SameRest(f, e) /\ SamePlace(f, e)
  BY <1>1, RedrawRow
<1>3. E!Redraw(e) = f
  BY DEF E!Redraw
<1> HIDE DEF f
<1>4. Painted(f, FALSE, NoRow(e.w)) = Painted(e, FALSE, NoRow(e.w)) /\ CursorColumn(f) = CursorColumn(e)
  <2>1. (\A clr, row2 : Painted(f, clr, row2) = Painted(e, clr, row2)) /\ CursorColumn(f) = CursorColumn(e)
    BY <1>2, SamePainted
  <2> QED
    BY <2>1
<1>5. Displayed(f)
  <2>1. f.w = e.w
    BY <1>2 DEF SameRest
  <2> QED
    BY <1>1, <1>2, <1>4, <2>1 DEF Displayed
<1> QED
  BY <1>2, <1>3, <1>5

(* The row is wiped whatever becomes of the line.                          *)
LEMMA StaysWiped ==
  ASSUME NEW e, Wiped(e), NEW f, f.term = e.term, f.w = e.w, f.from = e.from
  PROVE  Wiped(f)
  BY DEF Wiped, RowIs

(* recomplete gives suggestions, and leaves the line alone.                *)
LEMMA RecompleteOK ==
  ASSUME NEW e, EdOK(e), NEW f \in E!recomplete(e)
  PROVE  EdOK(f) /\ f.term = e.term /\ SameKeys(f, e) /\ SameRest(f, e) /\ SamePlace(f, e)
<1>1. PICK t \in Seq(Seq(LineChar)), n \in Nat : n \in 0 .. Len(t) /\ f = WithCompletion(e, t, n)
  <2>1. CASE ~e.fnComplete \/ e.nPos # Len(e.sLine)
    <3>1. f = WithCompletion(e, <<>>, 0)
      BY <2>1 DEF WithCompletion, E!recomplete, E!uncomplete, E!nil
    <3>2. <<>> \in Seq(Seq(LineChar)) /\ 0 \in 0 .. Len(<<>>)
      OBVIOUS
    <3> QED
      BY <3>1, <3>2
  <2>2. CASE ~(~e.fnComplete \/ e.nPos # Len(e.sLine))
    <3>1. PICK t \in Completions : f = WithCompletion(e, t, IF t = <<>> THEN 0 ELSE 1)
      BY <2>2 DEF WithCompletion, E!recomplete, E!nil
    <3>2. t \in Seq(Seq(LineChar))
      BY LinesAssumption DEF LineChar
    <3> DEFINE n == IF t = <<>> THEN 0 ELSE 1
    <3>3. n \in 0 .. Len(t)
      BY <3>2
    <3> QED
      BY <3>1, <3>2, <3>3
  <2> QED
    BY <2>1, <2>2
<1>2. /\ EdRec(f) /\ f.tCompletions = t /\ f.nCompletion = n /\ f.term = e.term
      /\ SameKeys(f, e) /\ SameRest(f, e) /\ SamePlace(f, e)
  BY <1>1, OtherCompletion DEF EdOK
<1> QED
  BY <1>1, <1>2 DEF EdOK, SameKeys, SameRest

(* Another line fits where the line was.                                   *)
LEMMA EditedOK ==
  ASSUME NEW e, EdOK(e), NEW line \in Seq(LineChar), NEW pos \in 0 .. Len(line)
  PROVE  LET f == E!Edited(e, line, pos)
         IN  EdOK(f) /\ f.term = e.term /\ f.sLine = line /\ SameCompletion(f, e) /\ SameRest(f, e) /\ SamePlace(f, e)
<1> DEFINE f == E!Edited(e, line, pos)
<1>1. /\ EdRec(f) /\ f.sLine = line /\ f.nPos = pos /\ f.nHistoryPos = e.nHistoryPos /\ f.term = e.term
      /\ SameCompletion(f, e) /\ SameRest(f, e) /\ SamePlace(f, e)
  BY OtherLine DEF EdOK
<1> HIDE DEF f
<1>2. EdOK(f)
  BY <1>1 DEF EdOK, SameCompletion, SameRest
<1> QED
  BY <1>1, <1>2 DEF f

(* A change of the line, between clear() and redraw().                     *)
Changed(e, line, pos, g) == \E f \in E!recomplete(E!Edited(E!Clear(e), line, pos)) : g = E!Redraw(f)

(* It leaves the row as it should be.                                      *)
LEMMA ChangeShows ==
  ASSUME NEW e, Displayed(e), NEW line \in Seq(LineChar), NEW pos \in 0 .. Len(line), NEW g, Changed(e, line, pos, g)
  PROVE  Displayed(g) /\ g.reading = e.reading
<1> DEFINE a == E!Clear(e)  b == E!Edited(a, line, pos)
<1>1. EdOK(a) /\ Wiped(a) /\ a.reading = e.reading
  BY ClearWipes DEF SamePlace
<1>2. EdOK(b) /\ b.term = a.term /\ b.w = a.w /\ b.from = a.from /\ b.reading = a.reading
  <2> HIDE DEF a
  <2> QED
    BY <1>1, EditedOK DEF SameRest, SamePlace
<1>3. PICK f \in E!recomplete(b) : g = E!Redraw(f)
  BY DEF Changed
<1> HIDE DEF a, b
<1>4. EdOK(f) /\ f.term = b.term /\ f.w = b.w /\ f.from = b.from /\ f.reading = b.reading
  BY <1>2, RecompleteOK DEF SameRest, SamePlace
<1>5. Wiped(f)
  BY <1>1, <1>2, <1>4, StaysWiped
<1>6. Displayed(g) /\ g.reading = f.reading
  BY <1>3, <1>4, <1>5, RedrawShows DEF SamePlace
<1> QED
  BY <1>1, <1>2, <1>4, <1>6

(* A part of the line.                                                     *)
LEMMA PartOfLine ==
  ASSUME NEW S, NEW s \in Seq(S), NEW i \in Nat, NEW j \in Nat
  PROVE  /\ E!sub(s, i, j) \in Seq(S)
         /\ i = 1 /\ j <= Len(s) => Len(E!sub(s, i, j)) = j
<1> DEFINE a == IF i < 1 THEN 1 ELSE i  b == IF j > Len(s) THEN Len(s) ELSE j
<1>1. a \in Nat /\ a >= 1 /\ b \in Nat /\ b <= Len(s) /\ (i = 1 /\ j <= Len(s) => a = 1 /\ b = j)
  OBVIOUS
<1>2. E!sub(s, i, j) = SubSeq(s, a, b)
  BY DEF E!sub
<1> HIDE DEF a, b
<1>3. \A k \in a .. b : s[k] \in S
  BY <1>1
<1>4. SubSeq(s, a, b) \in Seq(S) /\ Len(SubSeq(s, a, b)) = IF a <= b THEN b - a + 1 ELSE 0
  BY <1>1, <1>3, SubSeqProperties
<1>5. i = 1 /\ j <= Len(s) => Len(SubSeq(s, a, b)) = j
  BY <1>1, <1>4
<1> QED
  BY <1>2, <1>4, <1>5

(* Another suggestion.                                                     *)
LEMMA OtherChoice ==
  ASSUME NEW e, EdOK(e), NEW n \in 0 .. Len(e.tCompletions)
  PROVE  LET f == [e EXCEPT !.nCompletion = n]
         IN  EdOK(f) /\ f.term = e.term /\ f.w = e.w /\ SamePlace(f, e)
<1> DEFINE f == [e EXCEPT !.nCompletion = n]
<1>1. /\ EdRec(f) /\ f.nCompletion = n /\ f.tCompletions = e.tCompletions /\ f.term = e.term
      /\ SameKeys(f, e) /\ SameRest(f, e) /\ SamePlace(f, e)
  <2>1. EdRec(e)
    BY DEF EdOK
  <2> QED
    BY ONLY <2>1 DEF EdRec, SameKeys, SameRest, SamePlace
<1> HIDE DEF f
<1>2. EdOK(f)
  BY <1>1 DEF EdOK, SameKeys, SameRest
<1> QED
  BY <1>1, <1>2 DEF f, SameRest

(* Another place in the history.                                           *)
LEMMA OtherPlace ==
  ASSUME NEW e, EdOK(e), NEW n \in 0 .. Len(e.tHistory)
  PROVE  LET f == [e EXCEPT !.nHistoryPos = n]
         IN  EdOK(f) /\ f.term = e.term /\ f.w = e.w /\ SamePlace(f, e)
<1> DEFINE f == [e EXCEPT !.nHistoryPos = n]
<1>1. /\ EdRec(f) /\ f.nHistoryPos = n /\ f.sLine = e.sLine /\ f.nPos = e.nPos /\ f.term = e.term
      /\ SameCompletion(f, e) /\ SameRest(f, e) /\ SamePlace(f, e)
  <2>1. EdRec(e)
    BY DEF EdOK
  <2> QED
    BY ONLY <2>1 DEF EdRec, SameCompletion, SameRest, SamePlace
<1> HIDE DEF f
<1>2. EdOK(f)
  BY <1>1 DEF EdOK, SameCompletion, SameRest
<1> QED
  BY <1>1, <1>2 DEF f, SameRest

(* No suggestions.                                                         *)
LEMMA UncompleteOK ==
  ASSUME NEW e, EdOK(e)
  PROVE  LET f == E!uncomplete(e)
         IN  EdOK(f) /\ f.term = e.term /\ f.nCompletion = 0 /\ SameKeys(f, e) /\ SameRest(f, e) /\ SamePlace(f, e)
<1> DEFINE f == WithCompletion(e, <<>>, 0)
<1>1. E!uncomplete(e) = f
  BY DEF E!uncomplete, E!nil, WithCompletion
<1>2. /\ EdRec(f) /\ f.tCompletions = <<>> /\ f.nCompletion = 0 /\ f.term = e.term
      /\ SameKeys(f, e) /\ SameRest(f, e) /\ SamePlace(f, e)
  BY OtherCompletion DEF EdOK
<1> HIDE DEF f
<1>3. EdOK(f)
  <2>1. <<>> \in Seq(Seq(LineChar)) /\ 0 \in 0 .. Len(<<>>)
    OBVIOUS
  <2> QED
    BY <1>2, <2>1 DEF EdOK, SameKeys, SameRest
<1> QED
  BY <1>1, <1>2, <1>3

(* A key that changes the line.                                            *)
LEMMA KeyShows ==
  ASSUME Displayed(ed), NEW line \in Seq(LineChar), NEW pos \in 0 .. Len(line), E!Change(line, pos)
  PROVE  Displayed(ed') /\ ed'.reading = ed.reading
<1>1. Changed(ed, line, pos, ed')
  BY DEF E!Change, Changed
<1> QED
  BY <1>1, ChangeShows

(* The parts of the line before and behind the cursor.                     *)
LEMMA LineParts ==
  ASSUME Displayed(ed)
  PROVE  /\ ed.sLine \in Seq(LineChar) /\ ed.nPos \in 0 .. Len(ed.sLine) /\ Len(ed.sLine) \in Nat
         /\ E!before \in Seq(LineChar) /\ Len(E!before) = ed.nPos /\ E!after \in Seq(LineChar)
<1>1. ed.sLine \in Seq(LineChar) /\ ed.nPos \in 0 .. Len(ed.sLine) /\ Len(ed.sLine) \in Nat
  BY DEF Displayed, EdOK
<1>2. E!before \in Seq(LineChar) /\ Len(E!before) = ed.nPos
  <2> DEFINE s == ed.sLine  j == ed.nPos
  <2>1. s \in Seq(LineChar) /\ 1 \in Nat /\ j \in Nat /\ j <= Len(s)
    BY <1>1
  <2> HIDE DEF s, j
  <2>2. E!sub(s, 1, j) \in Seq(LineChar) /\ Len(E!sub(s, 1, j)) = j
    BY <2>1, PartOfLine
  <2> QED
    BY <2>2 DEF E!before, s, j
<1>3. E!after \in Seq(LineChar)
  <2> DEFINE s == ed.sLine  i == ed.nPos + 1  j == Len(s)
  <2>1. s \in Seq(LineChar) /\ i \in Nat /\ j \in Nat
    BY <1>1
  <2> HIDE DEF s, i, j
  <2>2. E!sub(s, i, j) \in Seq(LineChar)
    BY <2>1, PartOfLine
  <2> QED
    BY <2>2 DEF E!after, s, i, j
<1> QED
  BY <1>1, <1>2, <1>3

(* char and paste.                                                         *)
LEMMA InsertShows ==
  ASSUME Displayed(ed), NEW text \in Seq(LineChar), E!insert(text)
  PROVE  Displayed(ed') /\ ed'.reading = ed.reading
<1> DEFINE a == E!before  b == E!after  n == ed.nPos + Len(text)
<1>1. a \in Seq(LineChar) /\ Len(a) = ed.nPos /\ b \in Seq(LineChar) /\ ed.nPos \in Nat
  BY LineParts
<1>2. E!Change(a \o text \o b, n)
  BY DEF E!insert
<1> HIDE DEF a, b
<1>3. a \o text \in Seq(LineChar) /\ Len(a \o text) = n
  BY <1>1
<1> DEFINE t == a \o text
<1> HIDE DEF t
<1>4. t \o b \in Seq(LineChar) /\ Len(t \o b) = Len(t) + Len(b) /\ Len(t) = n /\ Len(b) \in Nat /\ Len(t) \in Nat
  BY <1>1, <1>3 DEF t
<1>5. n \in 0 .. Len(t \o b)
  BY <1>4
<1> HIDE DEF n
<1>6. E!Change(t \o b, n)
  BY <1>2 DEF t
<1> QED
  BY <1>4, <1>5, <1>6, KeyShows

(* right at the end of the line, and tab.                                  *)
LEMMA AcceptShows ==
  ASSUME Displayed(ed), E!acceptCompletion
  PROVE  Displayed(ed') /\ ed'.reading = ed.reading
<1> DEFINE l == ed.sLine \o E!suggestion(ed)
<1>1. l \in Seq(LineChar)
  <2>1. E!suggestion(ed) \in Seq(LineChar)
    BY ScrollSuggestion DEF Displayed
  <2>2. ed.sLine \in Seq(LineChar)
    BY LineParts
  <2> QED
    BY <2>1, <2>2
<1>2. E!Change(l, Len(l))
  BY DEF E!acceptCompletion
<1> HIDE DEF l
<1>3. Len(l) \in 0 .. Len(l)
  BY <1>1
<1> QED
  BY <1>1, <1>2, <1>3, KeyShows

(* up and down stay inside the suggestions and the history.                *)
LEMMA KeysInRange ==
  ASSUME NEW count \in Nat, NEW n \in 0 .. count, NEW key
  PROVE  /\ n # 0 => E!Cycled(n, count, key) \in 0 .. count
         /\ E!HistoryPos(n, count, key) \in 0 .. count
  BY DEF E!Cycled, E!HistoryPos, E!nil

(* The keys up and down, in the history and in the suggestions.            *)
LEMMA UpDownShows ==
  ASSUME Displayed(ed), NEW key, E!upDown(key)
  PROVE  Displayed(ed') /\ ed'.reading = ed.reading
<1> DEFINE wiped == E!Clear(ed)
           n == E!HistoryPos(ed.nHistoryPos, Len(ed.tHistory), key)
           line == IF n = 0 THEN <<>> ELSE ed.tHistory[n]
           c == E!Cycled(ed.nCompletion, Len(ed.tCompletions), key)
           there == [wiped EXCEPT !.nHistoryPos = n]
           edited == E!Edited(there, line, Len(line))
<1>1. /\ EdOK(wiped) /\ Wiped(wiped) /\ wiped.nCompletion = ed.nCompletion /\ wiped.tCompletions = ed.tCompletions
      /\ wiped.tHistory = ed.tHistory /\ wiped.reading = ed.reading
  BY ClearWipes DEF SamePlace, SameCompletion, SameRest
<1>2. ed' = IF ed.nCompletion # 0 THEN E!Redraw([wiped EXCEPT !.nCompletion = E!Cycled(@, Len(ed.tCompletions), key)])
            ELSE IF ~ed.remembers THEN ed ELSE E!Redraw(E!uncomplete(edited))
  BY DEF E!upDown, E!nil
<1>3. /\ ed.tHistory \in Seq(Seq(LineChar)) /\ ed.nHistoryPos \in 0 .. Len(ed.tHistory)
      /\ ed.tCompletions \in Seq(Seq(LineChar)) /\ ed.nCompletion \in 0 .. Len(ed.tCompletions)
  BY DEF Displayed, EdOK
<1>4. (ed.nCompletion # 0 => c \in 0 .. Len(ed.tCompletions)) /\ n \in 0 .. Len(ed.tHistory)
  <2> DEFINE k == Len(ed.tHistory)  m == Len(ed.tCompletions)
  <2>1. k \in Nat /\ m \in Nat /\ ed.nHistoryPos \in 0 .. k /\ ed.nCompletion \in 0 .. m
    BY <1>3
  <2> HIDE DEF k, m
  <2>2. (ed.nCompletion # 0 => E!Cycled(ed.nCompletion, m, key) \in 0 .. m) /\ E!HistoryPos(ed.nHistoryPos, k, key) \in 0 .. k
    BY <2>1, KeysInRange
  <2> QED
    BY <2>2 DEF k, m
<1> HIDE DEF wiped, n, c
<1>5. CASE ed.nCompletion # 0
  <2> DEFINE f == [wiped EXCEPT !.nCompletion = c]
  <2>1. ed' = E!Redraw(f)
    BY <1>1, <1>2, <1>5 DEF c
  <2>2. EdOK(f) /\ f.term = wiped.term /\ f.w = wiped.w /\ SamePlace(f, wiped)
    BY <1>1, <1>4, <1>5, OtherChoice
  <2> HIDE DEF f
  <2>3. Wiped(f)
    BY <1>1, <2>2, StaysWiped DEF SamePlace
  <2>4. Displayed(ed') /\ SamePlace(ed', f)
    BY <2>1, <2>2, <2>3, RedrawShows
  <2> QED
    BY <1>1, <2>2, <2>4 DEF SamePlace
<1>6. CASE ed.nCompletion = 0 /\ ~ed.remembers
  BY <1>2, <1>6
<1>7. CASE ed.nCompletion = 0 /\ ed.remembers
  <2>1. line \in Seq(LineChar) /\ Len(line) \in 0 .. Len(line)
    <3>1. n # 0 => n \in DOMAIN ed.tHistory
      BY <1>3, <1>4
    <3>2. line \in Seq(LineChar)
      BY <1>3, <3>1
    <3> HIDE DEF line
    <3> QED
      BY <3>2
  <2> HIDE DEF line
  <2>2. EdOK(there) /\ there.term = wiped.term /\ there.w = wiped.w /\ SamePlace(there, wiped)
    BY <1>1, <1>4, OtherPlace
  <2> HIDE DEF there
  <2>3. EdOK(edited) /\ edited.term = there.term /\ SameRest(edited, there) /\ SamePlace(edited, there)
    BY <2>1, <2>2, EditedOK
  <2> HIDE DEF edited
  <2> DEFINE f == E!uncomplete(edited)
  <2>4. EdOK(f) /\ f.term = edited.term /\ SameRest(f, edited) /\ SamePlace(f, edited)
    BY <2>3, UncompleteOK
  <2>5. ed' = E!Redraw(f)
    BY <1>2, <1>7
  <2> HIDE DEF f
  <2>6. Wiped(f)
    BY <1>1, <2>2, <2>3, <2>4, StaysWiped DEF SamePlace, SameRest
  <2>7. Displayed(ed') /\ SamePlace(ed', f)
    BY <2>4, <2>5, <2>6, RedrawShows
  <2> QED
    BY <1>1, <2>2, <2>3, <2>4, <2>7 DEF SamePlace
<1> QED
  BY <1>5, <1>6, <1>7

(* LineShown, of any editor.                                               *)
WantedAt(e, c) ==
  LET i == c - e.sx + 1 + E!nScroll(e)
      k == i - Len(e.sLine)
  IN  IF c < e.sx THEN NoCell
      ELSE IF i \in DOMAIN e.sLine THEN <<LookOf(e, FALSE, e.sLine[i]), White, Black>>
      ELSE IF k \in DOMAIN E!suggestion(e) THEN <<LookOf(e, FALSE, E!suggestion(e)[k]), White, "gray">>
      ELSE NoCell

ShownAs(e) ==
  /\ e.nPos \in 0 .. Len(e.sLine)
  /\ \A y \in DOMAIN e.term.cells, c \in 1 .. e.w :
       e.term.cells[y][c] = IF y = e.from THEN WantedAt(e, c) ELSE NoCell
  /\ IF e.reading
     THEN e.term.y = e.from /\ e.term.x = CursorColumn(e) /\ e.term.x \in 1 .. e.w
     ELSE e.term.x = 1 /\ e.nCompletion = 0

(* The property's words are the same.                                      *)
LEMMA ShownAsIs == (E!LineShown <=> ShownAs(ed)) /\ (E!LineShown' <=> ShownAs(ed'))
<1>1. \A c : E!Wanted(c) = WantedAt(ed, c)
  BY DEF E!Wanted, E!Looks, WantedAt, LookOf, NoCell
<1>2. \A c : E!Wanted(c)' = WantedAt(ed', c)
  BY DEF E!Wanted, E!Looks, WantedAt, LookOf, NoCell
<1>3. E!LineShown <=> ShownAs(ed)
  BY <1>1 DEF E!LineShown, ShownAs, CursorColumn, NoCell, E!nil
<1>4. E!LineShown' <=> ShownAs(ed')
  BY <1>2 DEF E!LineShown, ShownAs, CursorColumn, NoCell, E!nil
<1> QED
  BY <1>3, <1>4

(* What is painted on a blank row is what the row should show.             *)
LEMMA WantedIsPainted ==
  ASSUME NEW e, EdOK(e), NEW c \in 1 .. e.w
  PROVE  Painted(e, FALSE, NoRow(e.w))[c] = WantedAt(e, c)
<1> DEFINE l == Len(e.sLine)  n == E!nScroll(e)  s == E!suggestion(e)  m == Len(s)
           i == c - e.sx + 1 + n  k == i - l
<1>1. /\ e.sLine \in Seq(LineChar) /\ l \in Nat /\ n \in 0 .. l /\ s \in Seq(LineChar) /\ m \in Nat
      /\ e.w \in Nat /\ e.sx \in 1 .. e.w
  <2>1. n \in 0 .. l /\ s \in Seq(LineChar)
    BY ScrollSuggestion
  <2> HIDE DEF n, s
  <2> QED
    BY <2>1 DEF EdOK
<1>2. Painted(e, FALSE, NoRow(e.w))[c] =
        IF k \in 1 .. m THEN <<LookOf(e, FALSE, s[k]), White, "gray">>
        ELSE IF c >= e.sx /\ i \in 1 .. l THEN <<LookOf(e, FALSE, e.sLine[i]), White, Black>>
        ELSE NoCell
  BY DEF Painted, PaintedCell, NoRow
<1>3. WantedAt(e, c) =
        IF c < e.sx THEN NoCell
        ELSE IF i \in DOMAIN e.sLine THEN <<LookOf(e, FALSE, e.sLine[i]), White, Black>>
        ELSE IF k \in DOMAIN s THEN <<LookOf(e, FALSE, s[k]), White, "gray">>
        ELSE NoCell
  BY DEF WantedAt
<1> HIDE DEF n, s
<1>4. DOMAIN e.sLine = 1 .. l /\ DOMAIN s = 1 .. m
  BY <1>1
<1> HIDE DEF l, m
<1>5. (k \in 1 .. m => ~(c < e.sx) /\ ~(i \in 1 .. l)) /\ (c >= e.sx <=> ~(c < e.sx))
  BY <1>1
<1> HIDE DEF i, k
<1>6. CASE c < e.sx
  BY <1>2, <1>3, <1>5, <1>6
<1>7. CASE ~(c < e.sx) /\ i \in 1 .. l
  BY <1>2, <1>3, <1>4, <1>5, <1>7
<1>8. CASE ~(c < e.sx) /\ ~(i \in 1 .. l)
  <2> DEFINE gray == <<LookOf(e, FALSE, s[k]), White, "gray">>
             there == Painted(e, FALSE, NoRow(e.w))[c]
  <2>1. there = IF k \in 1 .. m THEN gray ELSE NoCell
    BY <1>2, <1>8
  <2>2. WantedAt(e, c) = IF k \in 1 .. m THEN gray ELSE NoCell
    BY <1>3, <1>4, <1>8
  <2> HIDE DEF gray, there
  <2>3. there = WantedAt(e, c)
    BY <2>1, <2>2
  <2> QED
    BY <2>3 DEF there
<1> QED
  BY <1>6, <1>7, <1>8

(* While the line is read.                                                 *)
LEMMA DisplayedIsShown ==
  ASSUME NEW e, Displayed(e), e.reading = TRUE
  PROVE  ShownAs(e)
<1> DEFINE row == Painted(e, FALSE, NoRow(e.w))
<1>1. EdOK(e) /\ RowIs(e, row, CursorColumn(e))
  BY DEF Displayed
<1>2. \A c \in 1 .. e.w : row[c] = WantedAt(e, c)
  BY <1>1, WantedIsPainted
<1> HIDE DEF row
<1>3. PICK h \in Nat : e.from \in 1 .. h /\ e.term = TermWith(e.w, h, e.from, row, CursorColumn(e), TRUE, White, Black)
  BY <1>1 DEF RowIs
<1>4. e.term.cells = OneRow(e.w, h, e.from, row) /\ e.term.x = CursorColumn(e) /\ e.term.y = e.from
  <2> DEFINE b == TRUE  x == CursorColumn(e)
  <2>1. e.term = TermWith(e.w, h, e.from, row, x, b, White, Black)
    BY <1>3
  <2> HIDE DEF b, x
  <2>2. e.term.cells = OneRow(e.w, h, e.from, row) /\ e.term.x = x /\ e.term.y = e.from
    BY <2>1, TermFields
  <2> QED
    BY <2>2 DEF x
<1>5. CursorColumn(e) \in 1 .. e.w
  BY <1>1, ScrollSuggestion DEF CursorColumn
<1>6. e.nPos \in 0 .. Len(e.sLine)
  BY <1>1 DEF EdOK
<1>7. \A y \in DOMAIN e.term.cells, c \in 1 .. e.w :
        e.term.cells[y][c] = IF y = e.from THEN WantedAt(e, c) ELSE NoCell
  BY <1>2, <1>4 DEF OneRow
<1> QED
  BY <1>4, <1>5, <1>6, <1>7 DEF ShownAs

(* print() moves the row up when it is the last one.                       *)
LEMMA NewLineRow ==
  ASSUME NEW w \in Nat, NEW h \in Nat, NEW y \in 1 .. h, NEW row, Len(row) = w, NEW x, NEW blink
  PROVE  LET q == E!NewLine(TermWith(w, h, y, row, x, blink, White, Black))
         IN  /\ q.x = 1 /\ DOMAIN q.cells = 1 .. h
             /\ \A n \in 1 .. h : q.cells[n] = IF n = (IF y = h THEN y - 1 ELSE y) THEN row ELSE NoRow(w)
<1> DEFINE cs == OneRow(w, h, y, row)
           p == TermWith(w, h, y, row, x, blink, White, Black)
           p2 == TermWith(w, h, y, row, 1, blink, White, Black)
           q == E!NewLine(p)
<1>1. p.cells = cs /\ p.y = y /\ p2.cells = cs /\ p2.text = White /\ p2.back = Black /\ p2.x = 1
  BY TermFields
<1>2. Len(cs) = h /\ DOMAIN cs = 1 .. h /\ \A n \in 1 .. h : cs[n] = IF n = y THEN row ELSE NoRow(w)
  BY DEF OneRow, NoRow
<1>3. \A n \in 1 .. h : Len(cs[n]) = w
  <2>1. Len(NoRow(w)) = w
    BY DEF NoRow
  <2> QED
    BY <1>2, <2>1
<1>7. p = [cells |-> cs, x |-> x, y |-> y, blink |-> blink, text |-> White, back |-> Black]
  BY DEF TermWith
<1>8. E!term_setCursorPos(p, 1, y) = p2
  BY TermMoved
<1>9. p2 = [cells |-> cs, x |-> 1, y |-> y, blink |-> blink, text |-> White, back |-> Black]
  BY DEF TermWith
<1> HIDE DEF cs, p, p2
<1>4. CASE y < h
  <2>1. q = E!term_setCursorPos(p, 1, y + 1)
    <3>1. y + 1 <= h
      BY <1>4
    <3> QED
      BY <1>1, <1>2, <3>1 DEF E!NewLine
  <2>2. q.x = 1 /\ q.cells = cs
    <3> DEFINE u == [p EXCEPT !.x = 1]
    <3>1. u = [cells |-> cs, x |-> 1, y |-> y, blink |-> blink, text |-> White, back |-> Black]
      BY <1>7
    <3>2. q = [u EXCEPT !.y = y + 1]
      BY <2>1 DEF E!term_setCursorPos
    <3> HIDE DEF u, q
    <3> QED
      BY <3>1, <3>2
  <2> HIDE DEF q
  <2>3. y # h
    BY <1>4
  <2> QED
    BY <1>2, <2>2, <2>3 DEF q, p
<1>5. CASE y = h
  <2> DEFINE cs2 == [n \in DOMAIN cs |-> IF n + 1 \in DOMAIN cs THEN cs[n + 1] ELSE E!EmptyLine(Len(cs[n]), White, Black)]
  <2>1. q = E!term_scroll(p2, 1)
    <3>1. ~(y + 1 <= h)
      BY <1>5
    <3> QED
      BY <1>1, <1>2, <1>5, <1>8, <3>1 DEF E!NewLine
  <2>2. q = [p2 EXCEPT !.cells = cs2]
    BY <1>1, <2>1 DEF E!term_scroll
  <2>3. DOMAIN cs2 = 1 .. h /\ \A n \in 1 .. h : cs2[n] = IF n = y - 1 THEN row ELSE NoRow(w)
    <3> SUFFICES ASSUME NEW n \in 1 .. h PROVE cs2[n] = IF n = y - 1 THEN row ELSE NoRow(w)
      BY <1>2
    <3>1. CASE n = h
      <4>1. cs2[n] = E!EmptyLine(Len(cs[n]), White, Black)
        BY <1>2, <3>1
      <4> QED
        <5>1. Len(cs[n]) = w /\ n # y - 1
          BY <1>3, <1>5, <3>1
        <5>2. E!EmptyLine(w, White, Black) = NoRow(w)
          BY DEF E!EmptyLine, NoRow, NoCell
        <5> QED
          BY <4>1, <5>1, <5>2
    <3>2. CASE n < h
      <4>1. n + 1 \in 1 .. h
        BY <3>2
      <4>2. cs2[n] = cs[n + 1]
        BY <1>2, <4>1
      <4>3. cs[n + 1] = IF n + 1 = y THEN row ELSE NoRow(w)
        BY <1>2, <4>1
      <4>4. n + 1 = y <=> n = y - 1
        OBVIOUS
      <4> QED
        BY <4>2, <4>3, <4>4
    <3> QED
      BY <3>1, <3>2
  <2> HIDE DEF cs2
  <2>4. q.x = 1 /\ q.cells = cs2
    <3> HIDE DEF q
    <3> QED
      BY <1>9, <2>2
  <2> QED
    BY <1>5, <2>3, <2>4 DEF p
<1>6. y < h \/ y = h
  OBVIOUS
<1> QED
  BY <1>4, <1>5, <1>6 DEF p

(* The cursor is hidden behind the row before read goes on to the next.    *)
HiddenAt(p, x2, b2) == [p EXCEPT !.blink = b2, !.x = x2]

(* Nothing else changes.                                                   *)
LEMMA TermHidden ==
  ASSUME NEW w, NEW h, NEW y, NEW row, NEW x, NEW blink, NEW text, NEW back, NEW x2, NEW b2
  PROVE  HiddenAt(TermWith(w, h, y, row, x, blink, text, back), x2, b2)
           = TermWith(w, h, y, row, x2, b2, text, back)
<1> DEFINE cs == OneRow(w, h, y, row)
           p == [cells |-> cs, x |-> x, y |-> y, blink |-> blink, text |-> text, back |-> back]
           v == [p EXCEPT !.blink = b2]
<1> HIDE DEF cs
<1>1. TermWith(w, h, y, row, x, blink, text, back) = p
  BY DEF TermWith, cs
<1>2. v = [cells |-> cs, x |-> x, y |-> y, blink |-> b2, text |-> text, back |-> back]
  OBVIOUS
<1> HIDE DEF p
<1>3. HiddenAt(p, x2, b2) = [v EXCEPT !.x = x2]
  BY DEF HiddenAt
<1> HIDE DEF v
<1>4. [v EXCEPT !.x = x2] = [cells |-> cs, x |-> x2, y |-> y, blink |-> b2, text |-> text, back |-> back]
  BY <1>2
<1> QED
  BY <1>1, <1>3, <1>4 DEF TermWith, cs

(* What read does after its loop leaves the line on the screen.            *)
LEMMA LeaveShows ==
  ASSUME NEW e, Displayed(e), e.nCompletion = 0
  PROVE  LET f == E!Leave(e) IN f.reading = FALSE /\ ShownAs(f)
<1> DEFINE row == Painted(e, FALSE, NoRow(e.w))  x == CursorColumn(e)  b == TRUE  b2 == FALSE
<1>1. EdOK(e) /\ RowIs(e, row, x)
  BY DEF Displayed
<1>2. (\A c \in 1 .. e.w : row[c] = WantedAt(e, c)) /\ e.w \in Nat /\ Len(row) = e.w
  <2>1. \A c \in 1 .. e.w : row[c] = WantedAt(e, c)
    BY <1>1, WantedIsPainted
  <2>2. e.w \in Nat
    BY <1>1 DEF EdOK
  <2>3. Len(row) = e.w
    BY <2>2 DEF Painted
  <2> HIDE DEF row
  <2> QED
    BY <2>1, <2>2, <2>3
<1>3. PICK h \in Nat : e.from \in 1 .. h /\ e.term = TermWith(e.w, h, e.from, row, x, b, White, Black)
  BY <1>1 DEF RowIs
<1> DEFINE p == [e.term EXCEPT !.blink = b2, !.x = e.w + 1]
           p2 == TermWith(e.w, h, e.from, row, e.w + 1, b2, White, Black)
           q == E!NewLine(p2)
           from == IF e.from = h THEN e.from - 1 ELSE e.from
           f1 == WithTerm(e, q)
           f2 == [f1 EXCEPT !.from = from]
           f == [f2 EXCEPT !.reading = FALSE]
<1> HIDE DEF row, x, b
<1>4. e.term.cells = OneRow(e.w, h, e.from, row)
  BY <1>3, TermFields
<1>5. Len(e.term.cells) = h
  BY <1>4 DEF OneRow
<1>6. p = p2
  <2> DEFINE x2 == e.w + 1  w == e.w  y == e.from
  <2>1. e.term = TermWith(w, h, y, row, x, b, White, Black)
    BY <1>3
  <2> HIDE DEF b2, x2, w, y
  <2>2. HiddenAt(e.term, x2, b2) = TermWith(w, h, y, row, x2, b2, White, Black)
    BY <2>1, TermHidden
  <2> QED
    BY <2>2 DEF x2, w, y, HiddenAt
<1>7. E!Leave(e) = f
  <2>1. E!Leave(e) = [e EXCEPT !.term = E!NewLine(p), !.from = IF @ = h THEN @ - 1 ELSE @, !.reading = FALSE]
    BY <1>5 DEF E!Leave
  <2>2. f1.from = e.from
    <3> HIDE DEF q
    <3> QED
      BY <1>1, OtherTerm DEF EdOK, SamePlace
  <2>3. E!NewLine(p) = q
    BY <1>6
  <2> HIDE DEF p, p2, q
  <2>4. E!Leave(e) = [[f1 EXCEPT !.from = IF @ = h THEN @ - 1 ELSE @] EXCEPT !.reading = FALSE]
    BY <2>1, <2>3 DEF WithTerm
  <2> HIDE DEF f1
  <2> QED
    BY <2>2, <2>4
<1>8. /\ q.x = 1 /\ DOMAIN q.cells = 1 .. h
      /\ \A n \in 1 .. h : q.cells[n] = IF n = from THEN row ELSE NoRow(e.w)
  <2> DEFINE w == e.w  y == e.from  x2 == e.w + 1
  <2>1. w \in Nat /\ h \in Nat /\ y \in 1 .. h /\ Len(row) = w
    BY <1>2, <1>3
  <2> HIDE DEF w, y, x2, b2
  <2>2. LET r == E!NewLine(TermWith(w, h, y, row, x2, b2, White, Black))
        IN  /\ r.x = 1 /\ DOMAIN r.cells = 1 .. h
            /\ \A n \in 1 .. h : r.cells[n] = IF n = (IF y = h THEN y - 1 ELSE y) THEN row ELSE NoRow(w)
    BY <2>1, NewLineRow
  <2> QED
    BY <2>2 DEF w, y, x2
<1> HIDE DEF p2, q, from
<1>9. EdRec(f1) /\ f1.term = q /\ SameKeys(f1, e) /\ SameCompletion(f1, e) /\ SameRest(f1, e)
  BY <1>1, OtherTerm DEF EdOK
<1> HIDE DEF f1
<1>10. EdRec(f2) /\ f2.term = f1.term /\ f2.from = from /\ SameKeys(f2, f1) /\ SameCompletion(f2, f1) /\ SameRest(f2, f1)
  BY ONLY <1>9 DEF EdRec, SameKeys, SameCompletion, SameRest
<1> HIDE DEF f2
<1>11. /\ f.reading = FALSE /\ f.term = f2.term /\ f.from = f2.from
       /\ SameKeys(f, f2) /\ SameCompletion(f, f2) /\ SameRest(f, f2)
  BY ONLY <1>10 DEF EdRec, SameKeys, SameCompletion, SameRest
<1> HIDE DEF f
<1>12. /\ f.reading = FALSE /\ f.term = q /\ f.from = from
       /\ SameKeys(f, e) /\ SameCompletion(f, e) /\ SameRest(f, e)
  BY <1>9, <1>10, <1>11 DEF SameKeys, SameCompletion, SameRest
<1>13. \A c : WantedAt(f, c) = WantedAt(e, c)
  <2>1. E!nScroll(f) = E!nScroll(e)
    BY <1>12 DEF E!nScroll, SameKeys, SameRest
  <2>2. E!suggestion(f) = E!suggestion(e)
    BY <1>12 DEF E!suggestion, SameCompletion
  <2>3. f.sx = e.sx /\ f.sLine = e.sLine /\ f.replace = e.replace
    BY <1>12 DEF SameRest, SameKeys
  <2> QED
    BY <2>1, <2>2, <2>3 DEF WantedAt, LookOf
<1>14. f.nPos \in 0 .. Len(f.sLine) /\ f.nCompletion = 0 /\ f.w = e.w
  BY <1>1, <1>12 DEF EdOK, SameKeys, SameCompletion, SameRest
<1>15. \A y \in DOMAIN f.term.cells, c \in 1 .. f.w :
         f.term.cells[y][c] = IF y = f.from THEN WantedAt(f, c) ELSE NoCell
  <2> SUFFICES ASSUME NEW y \in 1 .. h, NEW c \in 1 .. e.w
               PROVE  q.cells[y][c] = IF y = from THEN WantedAt(e, c) ELSE NoCell
    BY <1>8, <1>12, <1>13, <1>14
  <2>1. NoRow(e.w)[c] = NoCell
    BY DEF NoRow
  <2> QED
    BY <1>2, <1>8, <2>1
<1>16. ShownAs(f)
  BY <1>8, <1>12, <1>14, <1>15 DEF ShownAs
<1> QED
  BY <1>7, <1>12, <1>16

(* The inductive invariant: while the line is read, the terminal is that   *)
(* of Displayed, which says what every cell and the cursor are.            *)
LineInv ==
  ed # Off => \/ ed.reading = TRUE /\ Displayed(ed)
              \/ ed.reading = FALSE /\ ShownAs(ed)

(* The key enter ends the line and wipes the suggestion.                   *)
LEMMA EnterShows ==
  ASSUME Displayed(ed), E!enter
  PROVE  ed'.reading = FALSE /\ ShownAs(ed')
<1> DEFINE a == E!Clear(ed)  u == E!uncomplete(a)  e == IF ed.nCompletion = 0 THEN ed ELSE E!Redraw(u)
<1>1. ed' = E!Leave(e)
  BY DEF E!enter, E!nil
<1>2. Displayed(e) /\ e.nCompletion = 0
  <2>1. EdOK(a) /\ Wiped(a)
    BY ClearWipes
  <2> HIDE DEF a
  <2>2. EdOK(u) /\ u.term = a.term /\ u.nCompletion = 0 /\ u.w = a.w /\ u.from = a.from
    BY <2>1, UncompleteOK DEF SameRest, SamePlace
  <2> HIDE DEF u
  <2>3. Wiped(u)
    BY <2>1, <2>2, StaysWiped
  <2>4. Displayed(E!Redraw(u)) /\ E!Redraw(u).nCompletion = 0
    BY <2>2, <2>3, RedrawShows DEF SameCompletion
  <2> QED
    BY <2>4
<1> HIDE DEF e
<1> QED
  BY <1>1, <1>2, LeaveShows

(* Every event but enter leaves the line displayed.                        *)
LEMMA EventShows ==
  ASSUME Displayed(ed), E!EditNext, ~E!enter
  PROVE  Displayed(ed') /\ ed'.reading = ed.reading
<1>1. /\ ed.sLine \in Seq(LineChar) /\ ed.nPos \in 0 .. Len(ed.sLine) /\ Len(ed.sLine) \in Nat
      /\ E!before \in Seq(LineChar) /\ Len(E!before) = ed.nPos /\ E!after \in Seq(LineChar)
  BY LineParts
<1>2. CASE E!char
  <2>1. PICK c \in Letters : E!insert(<<c>>)
    BY <1>2 DEF E!char
  <2>2. c \in LineChar
    BY LinesAssumption DEF LineChar
  <2>3. <<c>> \in Seq(LineChar)
    BY <2>2
  <2> QED
    BY <2>1, <2>3, InsertShows
<1>3. CASE E!paste
  <2>1. PICK text \in Pasted : E!insert(text)
    BY <1>3 DEF E!paste
  <2>2. text \in Seq(LineChar)
    BY LinesAssumption DEF LineChar
  <2> QED
    BY <2>1, <2>2, InsertShows
<1>4. CASE E!left
  <2>1. ed.nPos - 1 \in 0 .. Len(ed.sLine) /\ E!Change(ed.sLine, ed.nPos - 1)
    BY <1>1, <1>4 DEF E!left
  <2> QED
    BY <1>1, <2>1, KeyShows
<1>5. CASE E!right
  <2>1. CASE ed.nPos < Len(ed.sLine)
    <3>1. ed.nPos + 1 \in 0 .. Len(ed.sLine) /\ E!Change(ed.sLine, ed.nPos + 1)
      BY <1>1, <1>5, <2>1 DEF E!right
    <3> QED
      BY <1>1, <3>1, KeyShows
  <2>2. CASE ~(ed.nPos < Len(ed.sLine))
    BY <1>5, <2>2, AcceptShows DEF E!right
  <2> QED
    BY <2>1, <2>2
<1>6. CASE E!home
  <2>1. 0 \in 0 .. Len(ed.sLine) /\ E!Change(ed.sLine, 0)
    BY <1>1, <1>6 DEF E!home
  <2> QED
    BY <1>1, <2>1, KeyShows
<1>7. CASE E!end
  <2>1. Len(ed.sLine) \in 0 .. Len(ed.sLine) /\ E!Change(ed.sLine, Len(ed.sLine))
    BY <1>1, <1>7 DEF E!end
  <2> QED
    BY <1>1, <2>1, KeyShows
<1>8. CASE E!backspace
  <2> DEFINE n == ed.nPos - 1  a == E!sub(ed.sLine, 1, n)  b == E!after
  <2>1. n \in Nat /\ n <= Len(ed.sLine) /\ E!Change(a \o b, n)
    BY <1>1, <1>8 DEF E!backspace
  <2>2. a \in Seq(LineChar) /\ Len(a) = n
    <3> DEFINE s == ed.sLine
    <3>1. s \in Seq(LineChar) /\ 1 \in Nat /\ n <= Len(s)
      BY <1>1, <2>1
    <3> HIDE DEF n, s
    <3>2. E!sub(s, 1, n) \in Seq(LineChar) /\ Len(E!sub(s, 1, n)) = n
      BY <2>1, <3>1, PartOfLine
    <3> QED
      BY <3>2 DEF s
  <2>3. b \in Seq(LineChar)
    BY <1>1
  <2> HIDE DEF a, b, n
  <2>4. a \o b \in Seq(LineChar) /\ n \in 0 .. Len(a \o b)
    BY <2>1, <2>2, <2>3
  <2> QED
    BY <2>1, <2>4, KeyShows
<1>9. CASE E!delete
  <2> DEFINE n == ed.nPos  a == E!before  b == E!sub(ed.sLine, ed.nPos + 2, Len(ed.sLine))
  <2>1. n \in Nat /\ E!Change(a \o b, n) /\ a \in Seq(LineChar) /\ Len(a) = n
    BY <1>1, <1>9 DEF E!delete
  <2>2. b \in Seq(LineChar)
    <3> DEFINE s == ed.sLine  i == ed.nPos + 2  j == Len(s)
    <3>1. s \in Seq(LineChar) /\ i \in Nat /\ j \in Nat
      BY <1>1
    <3> HIDE DEF s, i, j
    <3>2. E!sub(s, i, j) \in Seq(LineChar)
      BY <3>1, PartOfLine
    <3> QED
      BY <3>2 DEF s, i, j
  <2> HIDE DEF a, b, n
  <2>4. a \o b \in Seq(LineChar) /\ n \in 0 .. Len(a \o b)
    BY <2>1, <2>2
  <2> QED
    BY <2>1, <2>4, KeyShows
<1>10. CASE E!tab
  BY <1>10, AcceptShows DEF E!tab
<1>11. CASE \E key \in {"up", "down"} : E!upDown(key)
  BY <1>11, UpDownShows
<1>12. CASE E!term_resize
  <2>1. ed' = E!Redraw(ed) /\ EdOK(ed)
    BY <1>12 DEF E!term_resize, Displayed
  <2> QED
    BY <2>1, RedrawShows DEF SamePlace
<1> QED
  BY <1>2, <1>3, <1>4, <1>5, <1>6, <1>7, <1>8, <1>9, <1>10, <1>11, <1>12 DEF E!EditNext

(* The terminal and the variables with which read starts.                  *)
StartTerm(w, h, sx, y) == [E!NewTerm(w, h) EXCEPT !.x = sx, !.y = y, !.blink = TRUE]

StartEd(at, hist, default, replace, complete, remembers) ==
  [sLine |-> default, nPos |-> Len(default), nHistoryPos |-> 0, replace |-> replace,
   tHistory |-> hist, remembers |-> remembers, fnComplete |-> complete,
   tCompletions |-> <<>>, nCompletion |-> 0,
   w |-> at[1], sx |-> at[3], from |-> at[4], reading |-> TRUE,
   term |-> StartTerm(at[1], at[2], at[3], at[4])]

(* The row on which a line is read is blank.                               *)
LEMMA StartsBlank ==
  ASSUME NEW w, NEW h, NEW sx, NEW y
  PROVE  StartTerm(w, h, sx, y) = TermWith(w, h, y, NoRow(w), sx, TRUE, White, Black)
<1> DEFINE cs == [n \in 1 .. h |-> E!EmptyLine(w, White, Black)]
           no == FALSE
           t1 == [cells |-> cs, x |-> 1, y |-> 1, blink |-> no, text |-> White, back |-> Black]
           t2 == [t1 EXCEPT !.x = sx]
           t3 == [t2 EXCEPT !.y = y]
           b == TRUE
           t == [t3 EXCEPT !.blink = b]
<1>1. cs = OneRow(w, h, y, NoRow(w))
  BY DEF OneRow, NoRow, NoCell, E!EmptyLine
<1>2. E!NewTerm(w, h) = t1
  BY DEF E!NewTerm
<1> HIDE DEF cs, no
<1>3. t2 = [cells |-> cs, x |-> sx, y |-> 1, blink |-> no, text |-> White, back |-> Black]
  OBVIOUS
<1>4. StartTerm(w, h, sx, y) = t
  BY <1>2 DEF StartTerm
<1> HIDE DEF t1, t2
<1>5. t3 = [cells |-> cs, x |-> sx, y |-> y, blink |-> no, text |-> White, back |-> Black]
  BY <1>3
<1> HIDE DEF t3, b
<1>6. t = [cells |-> cs, x |-> sx, y |-> y, blink |-> b, text |-> White, back |-> Black]
  BY <1>5
<1> HIDE DEF t
<1> QED
  BY <1>1, <1>4, <1>6 DEF TermWith, b

(* read starts with its default on the screen.                             *)
LEMMA EditStarts ==
  ASSUME E!EditInit
  PROVE  ed.reading = TRUE /\ Displayed(ed)
<1>1. PICK at \in Lines, hist \in Histories, default \in Defaults, replace \in ReplaceChars,
           complete, remembers \in BOOLEAN :
        /\ ~remembers => hist = <<>>
        /\ \E e \in E!recomplete(StartEd(at, hist, default, replace, complete, remembers)) : ed = E!Redraw(e)
  BY Zenon DEF E!EditInit, StartEd, StartTerm, E!nil
<1> DEFINE w == at[1]  h == at[2]  sx == at[3]  y == at[4]
           t == StartTerm(w, h, sx, y)
           a == StartEd(at, hist, default, replace, complete, remembers)
<1>2. PICK e \in E!recomplete(a) : ed = E!Redraw(e)
  BY <1>1
<1>3. /\ w \in Nat /\ h \in Nat /\ sx \in 1 .. w /\ y \in 1 .. h
      /\ default \in Seq(LineChar) /\ hist \in Seq(Seq(LineChar))
  BY LinesAssumption DEF LineChar
<1>4. t = TermWith(w, h, y, NoRow(w), sx, TRUE, White, Black)
  BY StartsBlank
<1> HIDE DEF t
<1>5. /\ EdRec(a) /\ a.sLine = default /\ a.nPos = Len(default) /\ a.nHistoryPos = 0 /\ a.tHistory = hist
      /\ a.tCompletions = <<>> /\ a.nCompletion = 0 /\ a.w = w /\ a.sx = sx /\ a.from = y /\ a.reading = TRUE /\ a.term = t
  BY DEF EdRec, StartEd, t
<1> HIDE DEF a, w, h, sx, y
<1>6. EdOK(a)
  <2>1. Len(default) \in 0 .. Len(default) /\ 0 \in 0 .. Len(hist) /\ <<>> \in Seq(Seq(LineChar)) /\ 0 \in 0 .. Len(<<>>)
    BY <1>3
  <2> QED
    BY <1>3, <1>5, <2>1 DEF EdOK
<1>7. Wiped(a)
  BY <1>3, <1>4, <1>5 DEF Wiped, RowIs
<1>8. EdOK(e) /\ e.term = a.term /\ e.w = a.w /\ e.from = a.from /\ e.reading = TRUE
  BY <1>5, <1>6, RecompleteOK DEF SameRest, SamePlace
<1>9. Wiped(e)
  BY <1>7, <1>8, StaysWiped
<1> QED
  BY <1>2, <1>8, <1>9, RedrawShows DEF SamePlace

(* After any keys, pastes and events, the row on which read edits shows    *)
(* the line and its suggestion and nothing of what was there before, with  *)
(* the cursor at its place; and the line is left on the screen when it is  *)
(* read, on whatever row that is then (redraw of bios.lua).                *)
THEOREM LineIsShown == DesktopSpec => []LineShown
<1>1. DesktopInit => LineInv
  BY EditStarts DEF DesktopInit, LineInv
<1>2. LineInv /\ [DesktopNext]_<<vars, scripts>> => LineInv'
  <2> SUFFICES ASSUME LineInv, [DesktopNext]_<<vars, scripts>> PROVE LineInv'
    OBVIOUS
  <2>1. CASE ed' = ed
    BY <2>1 DEF LineInv
  <2>2. CASE ed # Off /\ E!EditNext
    <3>1. ed.reading
      BY <2>2 DEF E!EditNext
    <3>2. ed.reading = TRUE /\ Displayed(ed)
      BY <2>2, <3>1 DEF LineInv
    <3>3. CASE E!enter
      BY <3>2, <3>3, EnterShows DEF LineInv
    <3>4. CASE ~E!enter
      BY <2>2, <3>2, <3>4, EventShows DEF LineInv
    <3> QED
      BY <3>3, <3>4
  <2>3. ed' = ed \/ (ed # Off /\ E!EditNext)
    BY DEF DesktopNext, scripts
  <2> QED
    BY <2>1, <2>2, <2>3
<1>3. LineInv => LineShown
  BY DisplayedIsShown, ShownAsIs DEF LineInv, LineShown
<1> QED
  BY <1>1, <1>2, <1>3, PTL DEF DesktopSpec

-----------------------------------------------------------------------------
(* Windows.  A window w and its parent p; what a drawing operator makes of *)
(* the parent is told field by field.                                      *)

On(w, p) == [win |-> w, par |-> p]

TermOf(cs, x, y, blink, text, back) ==
  [cells |-> cs, x |-> x, y |-> y, blink |-> blink, text |-> text, back |-> back]

(* A parent with h rows.                                                   *)
TermOK(p, h) ==
  /\ p = TermOf(p.cells, p.x, p.y, p.blink, p.text, p.back)
  /\ p.cells = [n \in 1 .. h |-> p.cells[n]]

(* What a window's cells may hold.                                         *)
WinChar == STRING \union {Space, "x"}
WinColour == {White, Black}
WinCell == WinChar \X WinColour \X WinColour

WinOf(x, y, width, height, visible, cx, cy, blink, text, back, lines) ==
  [x |-> x, y |-> y, width |-> width, height |-> height, visible |-> visible,
   cx |-> cx, cy |-> cy, blink |-> blink, text |-> text, back |-> back, lines |-> lines]

LinesOK(lines, width, height) ==
  /\ lines = [n \in 1 .. height |-> lines[n]]
  /\ \A n \in 1 .. height : lines[n] \in Seq(WinCell) /\ Len(lines[n]) = width

WinOK(w) ==
  /\ w = WinOf(w.x, w.y, w.width, w.height, w.visible, w.cx, w.cy, w.blink, w.text, w.back, w.lines)
  /\ w.x \in Int /\ w.y \in Int /\ w.cx \in Int /\ w.cy \in Int
  /\ w.width \in Nat /\ w.height \in Nat
  /\ w.text \in WinColour /\ w.back \in WinColour
  /\ LinesOK(w.lines, w.width, w.height)

(* It lies on the rows of a parent with h rows.                            *)
Within(w, h) == \A n \in 1 .. w.height : w.y + n - 1 \in 1 .. h

(* A row with a line put over it, and the parent after that.               *)
OverLine(row, x, line) == [c \in DOMAIN row |-> IF c - x + 1 \in DOMAIN line THEN line[c - x + 1] ELSE row[c]]
OverCells(cs, y, x, line) == [cs EXCEPT ![y] = OverLine(cs[y], x, line)]

(* Fields of a parent.                                                     *)
LEMMA TermOfFields ==
  ASSUME NEW cs, NEW x, NEW y, NEW blink, NEW text, NEW back
  PROVE  LET p == TermOf(cs, x, y, blink, text, back)
         IN  p.cells = cs /\ p.x = x /\ p.y = y /\ p.blink = blink /\ p.text = text /\ p.back = back
  BY DEF TermOf

(* A parent is what its fields are.                                        *)
LEMMA TermOfOK ==
  ASSUME NEW h, NEW cs, cs = [n \in 1 .. h |-> cs[n]], NEW x, NEW y, NEW blink, NEW text, NEW back
  PROVE  TermOK(TermOf(cs, x, y, blink, text, back), h)
<1> DEFINE p == TermOf(cs, x, y, blink, text, back)
<1>1. p.cells = cs /\ p.x = x /\ p.y = y /\ p.blink = blink /\ p.text = text /\ p.back = back
  BY TermOfFields
<1> HIDE DEF p
<1>2. p = TermOf(p.cells, p.x, p.y, p.blink, p.text, p.back)
  BY <1>1 DEF p
<1>3. TermOK(p, h)
  BY <1>1, <1>2 DEF TermOK
<1> QED
  BY <1>3 DEF p

(* Moving the cursor of the parent.                                        *)
LEMMA ParentMoved ==
  ASSUME NEW cs, NEW x, NEW y, NEW blink, NEW text, NEW back, NEW x2, NEW y2
  PROVE  U!term_setCursorPos(TermOf(cs, x, y, blink, text, back), x2, y2) = TermOf(cs, x2, y2, blink, text, back)
<1> DEFINE p == TermOf(cs, x, y, blink, text, back)
           u == [p EXCEPT !.x = x2]
<1>1. u = TermOf(cs, x2, y, blink, text, back)
  BY DEF TermOf
<1>2. U!term_setCursorPos(p, x2, y2) = [u EXCEPT !.y = y2]
  <2> HIDE DEF p
  <2> QED
    BY DEF U!term_setCursorPos
<1> HIDE DEF u, p
<1>3. [u EXCEPT !.y = y2] = TermOf(cs, x2, y2, blink, text, back)
  BY <1>1 DEF TermOf
<1> QED
  BY <1>2, <1>3 DEF p

(* term.blit puts a line over the row of the cursor.                       *)
LEMMA ParentBlit ==
  ASSUME NEW cs, NEW x, NEW y, NEW blink, NEW text, NEW back, NEW line
  PROVE  U!term_blit(TermOf(cs, x, y, blink, text, back), line)
           = TermOf(OverCells(cs, y, x, line), x + Len(line), y, blink, text, back)
<1> DEFINE p == TermOf(cs, x, y, blink, text, back)
           R == [c \in DOMAIN p.cells[p.y] |-> IF c - p.x + 1 \in DOMAIN line THEN line[c - p.x + 1] ELSE p.cells[p.y][c]]
           cs2 == OverCells(cs, y, x, line)
           u == [p EXCEPT !.cells = cs2]
<1>1. p.cells = cs /\ p.x = x /\ p.y = y
  BY TermOfFields
<1>2. u = TermOf(cs2, x, y, blink, text, back)
  <2> HIDE DEF cs2
  <2> QED
    BY DEF TermOf
<1> HIDE DEF p
<1>3. R = OverLine(cs[y], x, line)
  BY <1>1 DEF OverLine
<1>4. [p.cells EXCEPT ![p.y] = R] = cs2
  <2> HIDE DEF R
  <2> QED
    BY <1>1, <1>3 DEF OverCells
<1>5. U!term_blit(p, line) = [[p EXCEPT !.cells = [p.cells EXCEPT ![p.y] = R]] EXCEPT !.x = @ + Len(line)]
  BY DEF U!term_blit
<1> HIDE DEF R, cs2
<1>6. U!term_blit(p, line) = [u EXCEPT !.x = @ + Len(line)]
  BY <1>4, <1>5
<1> HIDE DEF u
<1>7. [u EXCEPT !.x = @ + Len(line)] = TermOf(cs2, x + Len(line), y, blink, text, back)
  BY <1>2 DEF TermOf
<1> QED
  BY <1>6, <1>7 DEF p, cs2

(* One line of the window, drawn.                                          *)
LineDrawn(w, p, n) ==
  TermOf(OverCells(p.cells, w.y + n - 1, w.x, w.lines[n]), w.x + Len(w.lines[n]), w.y + n - 1, p.blink, p.text, p.back)

(* redrawLine draws one line on the parent.                                *)
LEMMA RedrawLineIs ==
  ASSUME NEW w, NEW p, NEW h, TermOK(p, h), NEW n
  PROVE  U!redrawLine(On(w, p), n) = On(w, LineDrawn(w, p, n))
<1> DEFINE d == On(w, p)
<1>1. d.win = w /\ d.par = p
  BY DEF On
<1>2. p = TermOf(p.cells, p.x, p.y, p.blink, p.text, p.back)
  BY DEF TermOK
<1>3. U!term_blit(U!term_setCursorPos(p, w.x, w.y + n - 1), w.lines[n]) = LineDrawn(w, p, n)
  <2> DEFINE x == w.x  y == w.y + n - 1  line == w.lines[n]  q == TermOf(p.cells, x, y, p.blink, p.text, p.back)
  <2> HIDE DEF x, y, line
  <2>1. U!term_setCursorPos(p, x, y) = q
    BY <1>2, ParentMoved
  <2>2. U!term_blit(q, line) = TermOf(OverCells(p.cells, y, x, line), x + Len(line), y, p.blink, p.text, p.back)
    BY ParentBlit
  <2>3. U!term_blit(U!term_setCursorPos(p, x, y), line) = TermOf(OverCells(p.cells, y, x, line), x + Len(line), y, p.blink, p.text, p.back)
    BY <2>1, <2>2
  <2> QED
    BY <2>3 DEF LineDrawn, x, y, line
<1> HIDE DEF d
<1>4. U!redrawLine(d, n) = [d EXCEPT !.par = U!term_blit(U!term_setCursorPos(d.par, d.win.x, d.win.y + n - 1), d.win.lines[n])]
  BY DEF U!redrawLine
<1>5. U!redrawLine(d, n) = [d EXCEPT !.par = LineDrawn(w, p, n)]
  BY <1>1, <1>3, <1>4
<1>6. [d EXCEPT !.par = LineDrawn(w, p, n)] = On(w, LineDrawn(w, p, n))
  BY DEF d, On
<1> QED
  BY <1>5, <1>6 DEF d

(* Line n of the window is what the parent shows in its place.             *)
LineIn(w, p, n) ==
  \A c \in 1 .. w.width :
    w.x + c - 1 \in DOMAIN p.cells[w.y + n - 1] => p.cells[w.y + n - 1][w.x + c - 1] = w.lines[n][c]

SameLook(q, p) == q.blink = p.blink /\ q.text = p.text /\ q.back = p.back

(* The rows above row y are the same, and no row has another length.       *)
Around(q, p, y, h) ==
  \A m \in 1 .. h : DOMAIN q.cells[m] = DOMAIN p.cells[m] /\ (m < y => q.cells[m] = p.cells[m])

(* They are, if no cell is another.                                        *)
LEMMA AroundSame ==
  ASSUME NEW q, NEW p, NEW y, NEW h, q.cells = p.cells
  PROVE  Around(q, p, y, h)
  BY DEF Around

(* One drawing after another.                                              *)
LEMMA AroundBoth ==
  ASSUME NEW q, NEW p, NEW r, NEW y, NEW h, Around(q, p, y, h), Around(r, q, y, h)
  PROVE  Around(r, p, y, h)
  BY DEF Around

(* What drawing a line changes, and what it does not.                      *)
LEMMA DrawnLine ==
  ASSUME NEW w, WinOK(w), NEW h, Within(w, h), NEW p, TermOK(p, h), NEW n \in 1 .. w.height
  PROVE  LET q == LineDrawn(w, p, n)
         IN  /\ TermOK(q, h) /\ SameLook(q, p)
             /\ LineIn(w, q, n) /\ Around(q, p, w.y, h)
             /\ \A m \in 1 .. h : m # w.y + n - 1 => q.cells[m] = p.cells[m]
<1> DEFINE y == w.y + n - 1  line == w.lines[n]  cs == p.cells  cs2 == OverCells(cs, y, w.x, line)
           q == LineDrawn(w, p, n)
<1>1. y \in 1 .. h
  BY DEF Within
<1>2. cs = [m \in 1 .. h |-> cs[m]]
  BY DEF TermOK
<1>3. line \in Seq(WinCell) /\ Len(line) = w.width /\ DOMAIN line = 1 .. w.width /\ w.width \in Nat /\ w.x \in Int
  <2>1. w.width \in Nat /\ w.x \in Int /\ LinesOK(w.lines, w.width, w.height)
    BY DEF WinOK
  <2>2. line \in Seq(WinCell) /\ Len(line) = w.width
    BY <2>1 DEF LinesOK
  <2>3. DOMAIN line = 1 .. Len(line)
    <3> HIDE DEF line
    <3> QED
      BY <2>2
  <2> QED
    BY <2>1, <2>2, <2>3
<1>4. q = TermOf(cs2, w.x + Len(line), y, p.blink, p.text, p.back)
  BY DEF LineDrawn
<1> HIDE DEF q, cs2, y, line, cs
<1>5. DOMAIN cs = 1 .. h
  BY <1>2
<1>6. /\ cs2[y] = OverLine(cs[y], w.x, line)
      /\ \A m \in 1 .. h : m # y => cs2[m] = cs[m]
      /\ cs2 = [m \in 1 .. h |-> cs2[m]]
  <2> DEFINE row == OverLine(cs[y], w.x, line)
  <2>1. cs2 = [cs EXCEPT ![y] = row]
    BY DEF cs2, OverCells
  <2> HIDE DEF row
  <2>2. DOMAIN cs2 = 1 .. h /\ cs2[y] = row /\ \A m \in 1 .. h : m # y => cs2[m] = cs[m]
    BY <1>1, <1>5, <2>1
  <2>3. cs2 = [m \in DOMAIN cs2 |-> cs2[m]]
    BY <2>1
  <2> QED
    BY <2>2, <2>3 DEF row
<1>7. q.cells = cs2 /\ q.blink = p.blink /\ q.text = p.text /\ q.back = p.back
  BY <1>4, TermOfFields
<1>8. TermOK(q, h)
  BY <1>4, <1>6, TermOfOK
<1>9. LineIn(w, q, n)
  <2> SUFFICES ASSUME NEW c \in 1 .. w.width, w.x + c - 1 \in DOMAIN cs2[y]
               PROVE  cs2[y][w.x + c - 1] = line[c]
    BY <1>7 DEF LineIn, y, line
  <2> DEFINE k == w.x + c - 1
  <2>1. k - w.x + 1 = c
    BY <1>3
  <2> HIDE DEF k
  <2>2. k \in DOMAIN cs[y]
    BY <1>6 DEF OverLine, k
  <2>3. OverLine(cs[y], w.x, line)[k] = line[c]
    BY <1>3, <2>1, <2>2 DEF OverLine
  <2> QED
    BY <1>6, <2>3 DEF k
<1>10. Around(q, p, w.y, h)
  <2> SUFFICES ASSUME NEW m \in 1 .. h
               PROVE  DOMAIN cs2[m] = DOMAIN cs[m] /\ (m < w.y => cs2[m] = cs[m])
    BY <1>7 DEF Around, cs
  <2>1. CASE m # y
    BY <1>6, <2>1
  <2>2. CASE m = y
    <3>1. DOMAIN cs2[m] = DOMAIN cs[m]
      BY <1>6, <2>2 DEF OverLine
    <3>2. ~(m < w.y)
      BY <2>2 DEF y, WinOK
    <3> QED
      BY <3>1, <3>2
  <2> QED
    BY <2>1, <2>2
<1> QED
  BY <1>6, <1>7, <1>8, <1>9, <1>10 DEF SameLook, q, y, cs

(* The least number of a set.                                              *)
LEMMA LeastNumber ==
  ASSUME NEW T, T \subseteq Nat, T # {}
  PROVE  \E m \in T : \A k \in T : m <= k
<1>1. PICK m \in T : \A k \in T : ~(<<k, m>> \in OpToRel(<, Nat))
  BY NatLessThanWellFounded, WFMin
<1>2. \A k \in T : ~(k < m)
  BY <1>1 DEF OpToRel
<1>3. QED
  BY <1>2

(* The loop over the lines is defined.                                     *)
LoopBody(d, f, n) == IF n = 0 THEN d ELSE U!redrawLine(f[n - 1], n)

(* There is such a loop.                                                   *)
LEMMA LoopDefined ==
  ASSUME NEW d, NEW n \in Nat
  PROVE  \E f : f = [i \in 0 .. n |-> LoopBody(d, f, i)]
<1> DEFINE Ok(m) == \E f : f = [i \in 0 .. m |-> LoopBody(d, f, i)]
           Bad == {m \in Nat : ~Ok(m)}
<1> SUFFICES ASSUME Bad # {} PROVE FALSE
  OBVIOUS
<1>1. PICK m \in Bad : \A k \in Bad : m <= k
  <2>1. Bad \subseteq Nat
    OBVIOUS
  <2> HIDE DEF Bad
  <2> QED
    BY <2>1, LeastNumber
<1>2. m \in Nat /\ ~Ok(m)
  OBVIOUS
<1>3. CASE m = 0
  <2> DEFINE g == [i \in 0 .. m |-> d]
  <2>1. \A i \in 0 .. m : g[i] = LoopBody(d, g, i)
    BY <1>3 DEF LoopBody
  <2>2. g = [i \in 0 .. m |-> LoopBody(d, g, i)]
    BY <2>1
  <2> QED
    BY <1>2, <2>2
<1>4. CASE m # 0
  <2>1. m - 1 \in Nat /\ m - 1 \notin Bad
    BY <1>1, <1>2, <1>4
  <2>2. PICK f : f = [i \in 0 .. m - 1 |-> LoopBody(d, f, i)]
    BY <2>1
  <2> DEFINE g == [i \in 0 .. m |-> IF i = m THEN LoopBody(d, f, m) ELSE f[i]]
  <2>3. \A i \in 0 .. m : g[i] = LoopBody(d, g, i)
    <3> SUFFICES ASSUME NEW i \in 0 .. m PROVE g[i] = LoopBody(d, g, i)
      OBVIOUS
    <3>1. i # 0 => i - 1 \in 0 .. m - 1 /\ g[i - 1] = f[i - 1]
      BY <1>2
    <3>2. LoopBody(d, g, i) = LoopBody(d, f, i)
      <4> HIDE DEF g
      <4> QED
        BY <3>1 DEF LoopBody
    <3>3. i # m => i \in 0 .. m - 1
      BY <1>2
    <3>4. i \in 0 .. m - 1 => f[i] = LoopBody(d, f, i)
      BY <2>2
    <3> QED
      BY <3>2, <3>3, <3>4
  <2>4. g = [i \in 0 .. m |-> LoopBody(d, g, i)]
    BY <2>3
  <2> QED
    BY <1>2, <2>4
<1> QED
  BY <1>3, <1>4

(* The function behind the loop.                                           *)
LEMMA LoopFunction ==
  ASSUME NEW d, NEW n \in Nat, d.win.height = n
  PROVE  \E f : /\ U!redrawLines(d) = f[n] /\ f[0] = d
                /\ \A i \in 1 .. n : f[i] = U!redrawLine(f[i - 1], i)
<1> DEFINE g == CHOOSE f : f = [i \in 0 .. d.win.height |-> IF i = 0 THEN d ELSE U!redrawLine(f[i - 1], i)]
<1>1. U!redrawLines(d) = g[d.win.height]
  BY DEF U!redrawLines
<1>2. \E f : f = [i \in 0 .. d.win.height |-> IF i = 0 THEN d ELSE U!redrawLine(f[i - 1], i)]
  <2>1. \E f : f = [i \in 0 .. n |-> LoopBody(d, f, i)]
    BY LoopDefined
  <2> QED
    BY <2>1 DEF LoopBody
<1>3. g = [i \in 0 .. d.win.height |-> IF i = 0 THEN d ELSE U!redrawLine(g[i - 1], i)]
  BY <1>2
<1> HIDE DEF g
<1>4. \A i \in 0 .. n : g[i] = IF i = 0 THEN d ELSE U!redrawLine(g[i - 1], i)
  BY <1>3
<1>5. g[0] = d /\ \A i \in 1 .. n : g[i] = U!redrawLine(g[i - 1], i)
  BY <1>4
<1> QED
  BY <1>1, <1>5

(* The lines 1 to n are drawn.                                             *)
DrawnTo(w, p, h, q, n) ==
  /\ TermOK(q, h) /\ SameLook(q, p) /\ Around(q, p, w.y, h)
  /\ \A m \in 1 .. n : LineIn(w, q, m)

(* All lines are.                                                          *)
LEMMA RedrawLinesIs ==
  ASSUME NEW w, WinOK(w), NEW h, Within(w, h), NEW p, TermOK(p, h)
  PROVE  \E q : U!redrawLines(On(w, p)) = On(w, q) /\ DrawnTo(w, p, h, q, w.height)
<1> DEFINE d == On(w, p)  n == w.height
<1>1. d.win.height = n /\ n \in Nat /\ w.y \in Int
  BY DEF On, WinOK
<1>2. PICK f : /\ U!redrawLines(d) = f[n] /\ f[0] = d
               /\ \A i \in 1 .. n : f[i] = U!redrawLine(f[i - 1], i)
  <2> HIDE DEF d, n
  <2> QED
    BY <1>1, LoopFunction
<1> DEFINE P(i) == \E q : f[i] = On(w, q) /\ DrawnTo(w, p, h, q, i)
           Bad == {i \in 0 .. n : ~P(i)}
<1>3. P(0)
  <2>1. DrawnTo(w, p, h, p, 0)
    BY AroundSame DEF DrawnTo, SameLook
  <2> QED
    BY <1>2, <2>1
<1>4. ASSUME NEW i \in 1 .. n, P(i - 1) PROVE P(i)
  <2>1. PICK q : f[i - 1] = On(w, q) /\ DrawnTo(w, p, h, q, i - 1)
    BY <1>4
  <2> DEFINE r == LineDrawn(w, q, i)
  <2>2. TermOK(q, h) /\ SameLook(q, p) /\ Around(q, p, w.y, h) /\ \A m \in 1 .. i - 1 : LineIn(w, q, m)
    BY <2>1 DEF DrawnTo
  <2>3. f[i] = On(w, r)
    BY <1>2, <2>1, <2>2, RedrawLineIs
  <2>4. /\ TermOK(r, h) /\ SameLook(r, q) /\ LineIn(w, r, i) /\ Around(r, q, w.y, h)
        /\ \A m \in 1 .. h : m # w.y + i - 1 => r.cells[m] = q.cells[m]
    BY <2>2, DrawnLine
  <2> HIDE DEF r
  <2>5. ASSUME NEW m \in 1 .. i PROVE LineIn(w, r, m)
    <3>1. CASE m = i
      BY <2>4, <3>1
    <3>2. CASE m # i
      <4>1. m \in 1 .. i - 1 /\ m \in 1 .. n /\ w.y + m - 1 # w.y + i - 1
        BY <1>1, <3>2
      <4>2. w.y + m - 1 \in 1 .. h
        BY <4>1 DEF Within
      <4>3. r.cells[w.y + m - 1] = q.cells[w.y + m - 1]
        BY <2>4, <4>1, <4>2
      <4>4. LineIn(w, q, m)
        BY <2>2, <4>1
      <4> QED
        BY <4>3, <4>4 DEF LineIn
    <3> QED
      BY <3>1, <3>2
  <2>6. Around(r, p, w.y, h)
    BY <2>2, <2>4, AroundBoth
  <2>7. DrawnTo(w, p, h, r, i)
    BY <2>2, <2>4, <2>5, <2>6 DEF DrawnTo, SameLook
  <2> QED
    BY <2>3, <2>7
<1> HIDE DEF P
<1>5. Bad = {}
  <2> SUFFICES ASSUME Bad # {} PROVE FALSE
    OBVIOUS
  <2>1. Bad \subseteq Nat
    BY <1>1
  <2>2. PICK m \in Bad : \A k \in Bad : m <= k
    <3> HIDE DEF Bad
    <3> QED
      BY <2>1, LeastNumber
  <2>3. m \in 0 .. n /\ ~P(m)
    OBVIOUS
  <2>4. m # 0
    BY <1>3, <2>3
  <2>5. m \in 1 .. n /\ m - 1 \in 0 .. n /\ ~(m <= m - 1)
    BY <1>1, <2>3, <2>4
  <2>6. P(m - 1)
    BY <2>2, <2>5
  <2> QED
    BY <1>4, <2>3, <2>5, <2>6
<1>6. P(n)
  BY <1>1, <1>5
<1> QED
  BY <1>2, <1>6 DEF P

(* The cursor, its blinking and its colour.                                *)
AtCursor(w, p) ==
  TermOf(p.cells, U!Cursor(w)[1], U!Cursor(w)[2], p.blink, p.text, p.back)
WithBlink(p, b) == TermOf(p.cells, p.x, p.y, b, p.text, p.back)
WithColour(p, c) == TermOf(p.cells, p.x, p.y, p.blink, c, p.back)

(* updateCursorPos.                                                        *)
LEMMA CursorPosIs ==
  ASSUME NEW w, NEW p, NEW h, TermOK(p, h)
  PROVE  U!updateCursorPos(On(w, p)) = On(w, AtCursor(w, p))
<1> DEFINE d == On(w, p)  inside == w.cx \in 1 .. w.width /\ w.cy \in 1 .. w.height
<1>1. d.win = w /\ d.par = p
  BY DEF On
<1>2. p = TermOf(p.cells, p.x, p.y, p.blink, p.text, p.back)
  BY DEF TermOK
<1>3. \A a, b : U!term_setCursorPos(p, a, b) = TermOf(p.cells, a, b, p.blink, p.text, p.back)
  BY <1>2, ParentMoved
<1> HIDE DEF d
<1>4. U!updateCursorPos(d) = [d EXCEPT !.par = AtCursor(w, p)]
  <2>1. CASE inside
    <3>1. U!Cursor(w) = <<w.x + w.cx - 1, w.y + w.cy - 1>>
      BY <2>1 DEF U!Cursor
    <3>2. AtCursor(w, p) = U!term_setCursorPos(p, w.x + w.cx - 1, w.y + w.cy - 1)
      BY <1>3, <3>1 DEF AtCursor
    <3> QED
      BY <1>1, <2>1, <3>2 DEF U!updateCursorPos
  <2>2. CASE ~inside
    <3>1. U!Cursor(w) = <<0, 0>>
      BY <2>2 DEF U!Cursor
    <3>2. AtCursor(w, p) = U!term_setCursorPos(p, 0, 0)
      BY <1>3, <3>1 DEF AtCursor
    <3> QED
      BY <1>1, <2>2, <3>2 DEF U!updateCursorPos
  <2> QED
    BY <2>1, <2>2
<1>5. [d EXCEPT !.par = AtCursor(w, p)] = On(w, AtCursor(w, p))
  BY DEF d, On
<1> QED
  BY <1>4, <1>5 DEF d

(* updateCursorBlink.                                                      *)
LEMMA CursorBlinkIs ==
  ASSUME NEW w, NEW p, NEW h, TermOK(p, h)
  PROVE  U!updateCursorBlink(On(w, p)) = On(w, WithBlink(p, w.blink))
<1> DEFINE d == On(w, p)
<1>1. d.win = w /\ d.par = p
  BY DEF On
<1>2. p = TermOf(p.cells, p.x, p.y, p.blink, p.text, p.back)
  BY DEF TermOK
<1>3. [p EXCEPT !.blink = w.blink] = WithBlink(p, w.blink)
  <2> DEFINE cs == p.cells  x == p.x  y == p.y  b == p.blink  t == p.text  k == p.back
  <2> HIDE DEF cs, x, y, b, t, k
  <2>1. [TermOf(cs, x, y, b, t, k) EXCEPT !.blink = w.blink] = TermOf(cs, x, y, w.blink, t, k)
    BY DEF TermOf
  <2> QED
    BY <1>2, <2>1 DEF WithBlink, cs, x, y, b, t, k
<1>4. U!updateCursorBlink(d) = [d EXCEPT !.par = [d.par EXCEPT !.blink = d.win.blink]]
  BY DEF U!updateCursorBlink
<1>5. U!updateCursorBlink(d) = [d EXCEPT !.par = WithBlink(p, w.blink)]
  BY <1>1, <1>3, <1>4
<1>6. [d EXCEPT !.par = WithBlink(p, w.blink)] = On(w, WithBlink(p, w.blink))
  BY DEF On
<1> QED
  BY <1>5, <1>6

(* updateCursorColor.                                                      *)
LEMMA CursorColourIs ==
  ASSUME NEW w, NEW p, NEW h, TermOK(p, h)
  PROVE  U!updateCursorColor(On(w, p)) = On(w, WithColour(p, w.text))
<1> DEFINE d == On(w, p)
<1>1. d.win = w /\ d.par = p
  BY DEF On
<1>2. p = TermOf(p.cells, p.x, p.y, p.blink, p.text, p.back)
  BY DEF TermOK
<1>3. [p EXCEPT !.text = w.text] = WithColour(p, w.text)
  <2> DEFINE cs == p.cells  x == p.x  y == p.y  b == p.blink  t == p.text  k == p.back
  <2> HIDE DEF cs, x, y, b, t, k
  <2>1. [TermOf(cs, x, y, b, t, k) EXCEPT !.text = w.text] = TermOf(cs, x, y, b, w.text, k)
    BY DEF TermOf
  <2> QED
    BY <1>2, <2>1 DEF WithColour, cs, x, y, b, t, k
<1>4. U!updateCursorColor(d) = [d EXCEPT !.par = [d.par EXCEPT !.text = d.win.text]]
  BY DEF U!updateCursorColor
<1>5. U!updateCursorColor(d) = [d EXCEPT !.par = WithColour(p, w.text)]
  BY <1>1, <1>3, <1>4
<1>6. [d EXCEPT !.par = WithColour(p, w.text)] = On(w, WithColour(p, w.text))
  BY DEF On
<1> QED
  BY <1>5, <1>6

(* What of a parent these leave alone.                                     *)
LEMMA CursorKeeps ==
  ASSUME NEW w, NEW p, NEW h, TermOK(p, h), NEW b, NEW c
  PROVE  /\ TermOK(AtCursor(w, p), h) /\ AtCursor(w, p).cells = p.cells /\ SameLook(AtCursor(w, p), p)
         /\ <<AtCursor(w, p).x, AtCursor(w, p).y>> = U!Cursor(w)
         /\ TermOK(WithBlink(p, b), h) /\ WithBlink(p, b).cells = p.cells /\ WithBlink(p, b).blink = b
         /\ WithBlink(p, b).text = p.text /\ WithBlink(p, b).x = p.x /\ WithBlink(p, b).y = p.y
         /\ TermOK(WithColour(p, c), h) /\ WithColour(p, c).cells = p.cells /\ WithColour(p, c).blink = p.blink
         /\ WithColour(p, c).text = c /\ WithColour(p, c).x = p.x /\ WithColour(p, c).y = p.y
<1>1. p.cells = [n \in 1 .. h |-> p.cells[n]]
  BY DEF TermOK
<1>2. TermOK(AtCursor(w, p), h) /\ TermOK(WithBlink(p, b), h) /\ TermOK(WithColour(p, c), h)
  BY <1>1, TermOfOK DEF AtCursor, WithBlink, WithColour
<1>3. \E i, j : U!Cursor(w) = <<i, j>>
  BY DEF U!Cursor
<1>4. U!Cursor(w) = <<U!Cursor(w)[1], U!Cursor(w)[2]>>
  BY <1>3
<1>5. /\ AtCursor(w, p).cells = p.cells /\ SameLook(AtCursor(w, p), p)
      /\ AtCursor(w, p).x = U!Cursor(w)[1] /\ AtCursor(w, p).y = U!Cursor(w)[2]
  BY TermOfFields DEF AtCursor, SameLook
<1>6. /\ WithBlink(p, b).cells = p.cells /\ WithBlink(p, b).blink = b
      /\ WithBlink(p, b).text = p.text /\ WithBlink(p, b).x = p.x /\ WithBlink(p, b).y = p.y
  BY TermOfFields DEF WithBlink
<1>7. /\ WithColour(p, c).cells = p.cells /\ WithColour(p, c).blink = p.blink
      /\ WithColour(p, c).text = c /\ WithColour(p, c).x = p.x /\ WithColour(p, c).y = p.y
  BY TermOfFields DEF WithColour
<1> QED
  BY <1>2, <1>4, <1>5, <1>6, <1>7

(* A window and a parent it can be drawn on; the parent shows it; and what *)
(* a function that draws leaves: the window, shown if it is visible, and   *)
(* else the parent as it was.                                              *)
Drawable(w, p, h) == WinOK(w) /\ Within(w, h) /\ TermOK(p, h)
AllLinesIn(w, p) == \A n \in 1 .. w.height : LineIn(w, p, n)
IsShown(w, p) == AllLinesIn(w, p) /\ U!CursorShown(w, p)
Stands(d, h) == d = On(d.win, d.par) /\ Drawable(d.win, d.par, h) /\ (d.win.visible => IsShown(d.win, d.par))
DrawnAs(r, w, p, h) == Stands(r, h) /\ r.win = w /\ (~w.visible => r.par = p) /\ Around(r.par, p, w.y, h)

(* The property's words are the same.                                      *)
LEMMA LinesShownIs ==
  ASSUME NEW w, NEW p
  PROVE  U!LinesShown(w, p) <=> AllLinesIn(w, p)
  BY DEF U!LinesShown, AllLinesIn, LineIn

(* What is drawn of a window is drawn.                                     *)
LEMMA DrawnIs ==
  ASSUME NEW w, NEW p, NEW h, NEW q, WinOK(w), Within(w, h), TermOK(q, h),
         w.visible => IsShown(w, q), ~w.visible => q = p, Around(q, p, w.y, h)
  PROVE  DrawnAs(On(w, q), w, p, h)
<1> DEFINE r == On(w, q)
<1>1. r.win = w /\ r.par = q
  BY DEF On
<1>2. r = On(r.win, r.par)
  BY <1>1
<1> HIDE DEF r
<1>3. DrawnAs(r, w, p, h)
  BY <1>1, <1>2 DEF DrawnAs, Stands, Drawable
<1> QED
  BY <1>3 DEF r

(* A function draws on the parent only if the window is visible.           *)
LEMMA IfVisibleIs ==
  ASSUME NEW w, NEW p, NEW drawn
  PROVE  U!IfVisible(On(w, p), drawn) = IF w.visible THEN drawn ELSE On(w, p)
<1> DEFINE d == On(w, p)
<1>1. d.win = w
  BY DEF On
<1> HIDE DEF d
<1>2. U!IfVisible(d, drawn) = IF w.visible THEN drawn ELSE d
  BY <1>1 DEF U!IfVisible
<1> QED
  BY <1>2 DEF d

(* The part of that for a cursor that moves.                               *)
LEMMA CursorMoves ==
  ASSUME NEW w, NEW p, NEW h, TermOK(p, h)
  PROVE  /\ TermOK(AtCursor(w, p), h) /\ AtCursor(w, p).cells = p.cells /\ SameLook(AtCursor(w, p), p)
         /\ <<AtCursor(w, p).x, AtCursor(w, p).y>> = U!Cursor(w)
<1>1. \A b, c : /\ TermOK(AtCursor(w, p), h) /\ AtCursor(w, p).cells = p.cells /\ SameLook(AtCursor(w, p), p)
               /\ <<AtCursor(w, p).x, AtCursor(w, p).y>> = U!Cursor(w)
  BY CursorKeeps
<1> QED
  BY <1>1

(* The cursor after lines were drawn.                                      *)
LEMMA WithCursorIs ==
  ASSUME NEW w, NEW p, NEW h, TermOK(p, h)
  PROVE  \E q : /\ U!WithCursor(On(w, p)) = On(w, q) /\ TermOK(q, h) /\ q.cells = p.cells
                /\ p.blink = w.blink => U!CursorShown(w, q)
<1> DEFINE c == WithColour(p, w.text)  q == AtCursor(w, c)
<1>1. TermOK(c, h) /\ c.cells = p.cells /\ c.blink = p.blink /\ c.text = w.text
  BY CursorKeeps
<1>2. U!updateCursorColor(On(w, p)) = On(w, c)
  BY CursorColourIs
<1> HIDE DEF c
<1>3. TermOK(q, h) /\ q.cells = c.cells /\ SameLook(q, c) /\ <<q.x, q.y>> = U!Cursor(w)
  BY <1>1, CursorMoves
<1>4. U!updateCursorPos(On(w, c)) = On(w, q)
  BY <1>1, CursorPosIs
<1> HIDE DEF q
<1>5. U!WithCursor(On(w, p)) = On(w, q)
  BY <1>2, <1>4 DEF U!WithCursor
<1>6. p.blink = w.blink => U!CursorShown(w, q)
  BY <1>1, <1>3 DEF U!CursorShown, SameLook
<1> QED
  BY <1>1, <1>3, <1>5, <1>6

(* window.restoreCursor.                                                   *)
LEMMA RestoreIs ==
  ASSUME NEW w, NEW p, NEW h, TermOK(p, h)
  PROVE  \E q : /\ U!restoreCursor(On(w, p)) = On(w, q) /\ TermOK(q, h)
                /\ w.visible => q.cells = p.cells /\ U!CursorShown(w, q)
                /\ ~w.visible => q = p
<1> DEFINE b == WithBlink(p, w.blink)
<1>1. TermOK(b, h) /\ b.cells = p.cells /\ b.blink = w.blink
  BY CursorKeeps
<1>2. U!updateCursorBlink(On(w, p)) = On(w, b)
  BY CursorBlinkIs
<1> HIDE DEF b
<1>3. PICK q : U!WithCursor(On(w, b)) = On(w, q) /\ TermOK(q, h) /\ q.cells = b.cells /\ U!CursorShown(w, q)
  BY <1>1, WithCursorIs
<1>4. U!restoreCursor(On(w, p)) = U!IfVisible(On(w, p), U!WithCursor(On(w, b)))
  BY <1>2 DEF U!restoreCursor, U!WithCursor
<1>5. U!restoreCursor(On(w, p)) = IF w.visible THEN On(w, q) ELSE On(w, p)
  BY <1>3, <1>4, IfVisibleIs
<1>6. CASE w.visible
  BY <1>1, <1>3, <1>5, <1>6
<1>7. CASE ~w.visible
  BY <1>5, <1>7
<1> QED
  BY <1>6, <1>7

(* What is shown depends on the parent's cells alone.                      *)
LEMMA SameCells ==
  ASSUME NEW w, NEW p, NEW q, q.cells = p.cells
  PROVE  AllLinesIn(w, p) <=> AllLinesIn(w, q)
  BY DEF AllLinesIn, LineIn

(* window.redraw.                                                          *)
LEMMA RedrawnIs ==
  ASSUME NEW w, NEW p, NEW h, Drawable(w, p, h)
  PROVE  DrawnAs(U!redraw(On(w, p)), w, p, h)
<1>1. WinOK(w) /\ Within(w, h) /\ TermOK(p, h)
  BY DEF Drawable
<1>2. PICK q : U!redrawLines(On(w, p)) = On(w, q) /\ DrawnTo(w, p, h, q, w.height)
  BY <1>1, RedrawLinesIs
<1>3. TermOK(q, h) /\ AllLinesIn(w, q) /\ Around(q, p, w.y, h)
  BY <1>2 DEF DrawnTo, AllLinesIn
<1>4. PICK r : /\ U!restoreCursor(On(w, q)) = On(w, r) /\ TermOK(r, h)
               /\ w.visible => r.cells = q.cells /\ U!CursorShown(w, r)
  BY <1>3, RestoreIs
<1>5. U!redraw(On(w, p)) = IF w.visible THEN On(w, r) ELSE On(w, p)
  BY <1>2, <1>4, IfVisibleIs DEF U!redraw
<1>6. CASE w.visible
  <2>1. IsShown(w, r)
    BY <1>3, <1>4, <1>6, SameCells DEF IsShown
  <2>2. Around(r, p, w.y, h)
    BY <1>3, <1>4, <1>6, AroundSame, AroundBoth
  <2>3. DrawnAs(On(w, r), w, p, h)
    BY <1>1, <1>4, <1>6, <2>1, <2>2, DrawnIs
  <2> QED
    BY <1>5, <1>6, <2>3
<1>7. CASE ~w.visible
  <2>1. DrawnAs(On(w, p), w, p, h)
    BY <1>1, <1>7, AroundSame, DrawnIs
  <2> QED
    BY <1>5, <1>7, <2>1
<1> QED
  BY <1>6, <1>7

(* All lines drawn again, and the cursor with them.                        *)
LEMMA RefreshedIs ==
  ASSUME NEW w, NEW p, NEW h, Drawable(w, p, h), w.visible => p.blink = w.blink
  PROVE  DrawnAs(U!IfVisible(On(w, p), U!WithCursor(U!redrawLines(On(w, p)))), w, p, h)
<1> DEFINE res == U!IfVisible(On(w, p), U!WithCursor(U!redrawLines(On(w, p))))
<1>1. WinOK(w) /\ Within(w, h) /\ TermOK(p, h)
  BY DEF Drawable
<1>2. PICK q : U!redrawLines(On(w, p)) = On(w, q) /\ DrawnTo(w, p, h, q, w.height)
  BY <1>1, RedrawLinesIs
<1>3. TermOK(q, h) /\ AllLinesIn(w, q) /\ q.blink = p.blink /\ Around(q, p, w.y, h)
  BY <1>2 DEF DrawnTo, AllLinesIn, SameLook
<1>4. PICK r : /\ U!WithCursor(On(w, q)) = On(w, r) /\ TermOK(r, h) /\ r.cells = q.cells
               /\ q.blink = w.blink => U!CursorShown(w, r)
  BY <1>3, WithCursorIs
<1>5. res = IF w.visible THEN On(w, r) ELSE On(w, p)
  BY <1>2, <1>4, IfVisibleIs
<1> HIDE DEF res
<1>6. CASE w.visible
  <2>1. IsShown(w, r)
    BY <1>3, <1>4, <1>6, SameCells DEF IsShown
  <2>2. Around(r, p, w.y, h)
    BY <1>3, <1>4, AroundSame, AroundBoth
  <2>3. DrawnAs(On(w, r), w, p, h)
    BY <1>1, <1>4, <1>6, <2>1, <2>2, DrawnIs
  <2>4. DrawnAs(res, w, p, h)
    BY <1>5, <1>6, <2>3
  <2> QED
    BY <2>4 DEF res
<1>7. CASE ~w.visible
  <2>1. DrawnAs(On(w, p), w, p, h)
    BY <1>1, <1>7, AroundSame, DrawnIs
  <2>2. DrawnAs(res, w, p, h)
    BY <1>5, <1>7, <2>1
  <2> QED
    BY <2>2 DEF res
<1> QED
  BY <1>6, <1>7

(* One line drawn again, and the cursor with it.                           *)
LEMMA LineRefreshedIs ==
  ASSUME NEW w, NEW p, NEW h, Drawable(w, p, h), w.visible => p.blink = w.blink, NEW n \in 1 .. w.height,
         w.visible => \A m \in 1 .. w.height : m # n => LineIn(w, p, m)
  PROVE  DrawnAs(U!IfVisible(On(w, p), U!WithCursor(U!redrawLine(On(w, p), n))), w, p, h)
<1> DEFINE res == U!IfVisible(On(w, p), U!WithCursor(U!redrawLine(On(w, p), n)))  q == LineDrawn(w, p, n)
<1>1. WinOK(w) /\ Within(w, h) /\ TermOK(p, h) /\ w.height \in Nat /\ w.y \in Int
  BY DEF Drawable, WinOK
<1>2. U!redrawLine(On(w, p), n) = On(w, q)
  BY <1>1, RedrawLineIs
<1>3. /\ TermOK(q, h) /\ SameLook(q, p) /\ LineIn(w, q, n) /\ Around(q, p, w.y, h)
      /\ \A m \in 1 .. h : m # w.y + n - 1 => q.cells[m] = p.cells[m]
  BY <1>1, DrawnLine
<1> HIDE DEF q
<1>4. w.visible => AllLinesIn(w, q)
  <2> SUFFICES ASSUME w.visible, NEW m \in 1 .. w.height PROVE LineIn(w, q, m)
    BY DEF AllLinesIn
  <2>1. CASE m = n
    BY <1>3, <2>1
  <2>2. CASE m # n
    <3>1. w.y + m - 1 # w.y + n - 1 /\ w.y + m - 1 \in 1 .. h
      BY <1>1, <2>2 DEF Within
    <3>2. q.cells[w.y + m - 1] = p.cells[w.y + m - 1]
      BY <1>3, <3>1
    <3>3. LineIn(w, p, m)
      BY <2>2
    <3> QED
      BY <3>2, <3>3 DEF LineIn
  <2> QED
    BY <2>1, <2>2
<1>5. q.blink = p.blink
  BY <1>3 DEF SameLook
<1>6. PICK r : /\ U!WithCursor(On(w, q)) = On(w, r) /\ TermOK(r, h) /\ r.cells = q.cells
               /\ q.blink = w.blink => U!CursorShown(w, r)
  BY <1>3, WithCursorIs
<1>7. res = IF w.visible THEN On(w, r) ELSE On(w, p)
  BY <1>2, <1>6, IfVisibleIs
<1> HIDE DEF res
<1>8. CASE w.visible
  <2>1. IsShown(w, r)
    BY <1>4, <1>5, <1>6, <1>8, SameCells DEF IsShown
  <2>2. Around(r, p, w.y, h)
    BY <1>3, <1>6, AroundSame, AroundBoth
  <2>3. DrawnAs(On(w, r), w, p, h)
    BY <1>1, <1>6, <1>8, <2>1, <2>2, DrawnIs
  <2>4. DrawnAs(res, w, p, h)
    BY <1>7, <1>8, <2>3
  <2> QED
    BY <2>4 DEF res
<1>9. CASE ~w.visible
  <2>1. DrawnAs(On(w, p), w, p, h)
    BY <1>1, <1>9, AroundSame, DrawnIs
  <2>2. DrawnAs(res, w, p, h)
    BY <1>7, <1>9, <2>1
  <2> QED
    BY <2>2 DEF res
<1> QED
  BY <1>8, <1>9

(* Windows with another cursor, other colours or other lines.              *)
WAt(w, cx, cy) == WinOf(w.x, w.y, w.width, w.height, w.visible, cx, cy, w.blink, w.text, w.back, w.lines)
WBlink(w, b) == WinOf(w.x, w.y, w.width, w.height, w.visible, w.cx, w.cy, b, w.text, w.back, w.lines)
WText(w, c) == WinOf(w.x, w.y, w.width, w.height, w.visible, w.cx, w.cy, w.blink, c, w.back, w.lines)
WBack(w, c) == WinOf(w.x, w.y, w.width, w.height, w.visible, w.cx, w.cy, w.blink, w.text, c, w.lines)
WSeen(w, b) == WinOf(w.x, w.y, w.width, w.height, b, w.cx, w.cy, w.blink, w.text, w.back, w.lines)
WLines(w, ls) == WinOf(w.x, w.y, w.width, w.height, w.visible, w.cx, w.cy, w.blink, w.text, w.back, ls)
WPlace(w, x, y, wd, ht, ls) == WinOf(x, y, wd, ht, w.visible, w.cx, w.cy, w.blink, w.text, w.back, ls)

(* Fields of a window.                                                     *)
LEMMA WinOfFields ==
  ASSUME NEW x, NEW y, NEW wd, NEW ht, NEW v, NEW cx, NEW cy, NEW b, NEW t, NEW k, NEW ls
  PROVE  LET w == WinOf(x, y, wd, ht, v, cx, cy, b, t, k, ls)
         IN  /\ w.x = x /\ w.y = y /\ w.width = wd /\ w.height = ht /\ w.visible = v /\ w.cx = cx /\ w.cy = cy
             /\ w.blink = b /\ w.text = t /\ w.back = k /\ w.lines = ls
  BY DEF WinOf

(* A window whose fields are right.                                        *)
LEMMA WinOfOK ==
  ASSUME NEW x \in Int, NEW y \in Int, NEW wd \in Nat, NEW ht \in Nat, NEW v, NEW cx \in Int, NEW cy \in Int, NEW b,
         NEW t \in WinColour, NEW k \in WinColour, NEW ls, LinesOK(ls, wd, ht)
  PROVE  WinOK(WinOf(x, y, wd, ht, v, cx, cy, b, t, k, ls))
<1> DEFINE w == WinOf(x, y, wd, ht, v, cx, cy, b, t, k, ls)
<1>1. /\ w.x = x /\ w.y = y /\ w.width = wd /\ w.height = ht /\ w.visible = v /\ w.cx = cx /\ w.cy = cy
      /\ w.blink = b /\ w.text = t /\ w.back = k /\ w.lines = ls
  BY WinOfFields
<1>2. w = WinOf(w.x, w.y, w.width, w.height, w.visible, w.cx, w.cy, w.blink, w.text, w.back, w.lines)
  BY <1>1
<1> HIDE DEF w
<1>3. WinOK(w)
  BY <1>1, <1>2 DEF WinOK
<1> QED
  BY <1>3 DEF w

(* A field of the window that is replaced, as the functions write it.      *)
SetAt(d, a, b) == [d EXCEPT !.win.cx = a, !.win.cy = b]
SetCx(d, a) == [d EXCEPT !.win.cx = a]
SetBlink(d, a) == [d EXCEPT !.win.blink = a]
SetText(d, a) == [d EXCEPT !.win.text = a]
SetBack(d, a) == [d EXCEPT !.win.back = a]
SetSeen(d, a) == [d EXCEPT !.win.visible = a]
SetLines(d, a) == [d EXCEPT !.win.lines = a]

(* They leave the window's other fields alone.                             *)
LEMMA FieldReplaced ==
  ASSUME NEW w, WinOK(w), NEW p, NEW a, NEW b
  PROVE  LET d == On(w, p)
         IN  /\ SetAt(d, a, b) = On(WAt(w, a, b), p)
             /\ SetCx(d, a) = On(WAt(w, a, w.cy), p)
             /\ SetBlink(d, a) = On(WBlink(w, a), p)
             /\ SetText(d, a) = On(WText(w, a), p)
             /\ SetBack(d, a) = On(WBack(w, a), p)
             /\ SetSeen(d, a) = On(WSeen(w, a), p)
             /\ SetLines(d, a) = On(WLines(w, a), p)
<1> DEFINE x == w.x  y == w.y  wd == w.width  ht == w.height  v == w.visible  cx == w.cx  cy == w.cy
           bl == w.blink  t == w.text  k == w.back  ls == w.lines  d == On(w, p)
<1>1. w = WinOf(x, y, wd, ht, v, cx, cy, bl, t, k, ls)
  BY DEF WinOK
<1> HIDE DEF x, y, wd, ht, v, cx, cy, bl, t, k, ls
<1>2. /\ [w EXCEPT !.cx = a] = WinOf(x, y, wd, ht, v, a, cy, bl, t, k, ls)
      /\ [w EXCEPT !.blink = a] = WinOf(x, y, wd, ht, v, cx, cy, a, t, k, ls)
      /\ [w EXCEPT !.text = a] = WinOf(x, y, wd, ht, v, cx, cy, bl, a, k, ls)
      /\ [w EXCEPT !.back = a] = WinOf(x, y, wd, ht, v, cx, cy, bl, t, a, ls)
      /\ [w EXCEPT !.visible = a] = WinOf(x, y, wd, ht, a, cx, cy, bl, t, k, ls)
      /\ [w EXCEPT !.lines = a] = WinOf(x, y, wd, ht, v, cx, cy, bl, t, k, a)
  BY <1>1 DEF WinOf
<1> DEFINE u == WinOf(x, y, wd, ht, v, a, cy, bl, t, k, ls)
<1>3. [u EXCEPT !.cy = b] = WinOf(x, y, wd, ht, v, a, b, bl, t, k, ls)
  BY DEF WinOf
<1>4. d.win = w /\ DOMAIN d = {"win", "par"}
  BY DEF On
<1>5. \A e : [d EXCEPT !.win = e] = On(e, p)
  BY DEF On
<1> HIDE DEF d
<1>6. /\ [d EXCEPT !.win.cx = a] = [d EXCEPT !.win = [d.win EXCEPT !.cx = a]]
      /\ [d EXCEPT !.win.blink = a] = [d EXCEPT !.win = [d.win EXCEPT !.blink = a]]
      /\ [d EXCEPT !.win.text = a] = [d EXCEPT !.win = [d.win EXCEPT !.text = a]]
      /\ [d EXCEPT !.win.back = a] = [d EXCEPT !.win = [d.win EXCEPT !.back = a]]
      /\ [d EXCEPT !.win.visible = a] = [d EXCEPT !.win = [d.win EXCEPT !.visible = a]]
      /\ [d EXCEPT !.win.lines = a] = [d EXCEPT !.win = [d.win EXCEPT !.lines = a]]
  OBVIOUS
<1>7. [d EXCEPT !.win.cx = a] = On(u, p)
  BY <1>2, <1>4, <1>5, <1>6
<1>8. [d EXCEPT !.win.cx = a, !.win.cy = b] = On(WinOf(x, y, wd, ht, v, a, b, bl, t, k, ls), p)
  <2> DEFINE e == [d EXCEPT !.win.cx = a]
  <2>1. [d EXCEPT !.win.cx = a, !.win.cy = b] = [e EXCEPT !.win = [e.win EXCEPT !.cy = b]]
    OBVIOUS
  <2> HIDE DEF e, u
  <2>2. e = On(u, p)
    BY <1>7 DEF e
  <2>3. e.win = u /\ \A g : [e EXCEPT !.win = g] = On(g, p)
    BY <2>2 DEF On
  <2> QED
    BY <1>3, <2>1, <2>3 DEF u
<1> QED
  BY <1>2, <1>4, <1>5, <1>6, <1>7, <1>8
     DEF d, WAt, WBlink, WText, WBack, WSeen, WLines, x, y, wd, ht, v, cx, cy, bl, t, k, ls,
         SetAt, SetCx, SetBlink, SetText, SetBack, SetSeen, SetLines

(* A window that has the same lines in the same place.                     *)
SameBody(u, w) == u.x = w.x /\ u.y = w.y /\ u.width = w.width /\ u.height = w.height /\ u.lines = w.lines

(* It lies on the same rows and is drawn if the other one is.              *)
LEMMA BodyKept ==
  ASSUME NEW u, NEW w, SameBody(u, w), NEW p, NEW h
  PROVE  (Within(w, h) => Within(u, h)) /\ (AllLinesIn(w, p) => AllLinesIn(u, p))
  BY DEF SameBody, Within, AllLinesIn, LineIn

(* What the replaced field leaves of a window.                             *)
LEMMA OtherField ==
  ASSUME NEW w, WinOK(w), NEW a \in Int, NEW b \in Int, NEW c \in WinColour, NEW v
  PROVE  /\ WinOK(WAt(w, a, b)) /\ SameBody(WAt(w, a, b), w) /\ WAt(w, a, b).visible = w.visible
         /\ WAt(w, a, b).blink = w.blink /\ WAt(w, a, b).text = w.text
         /\ WinOK(WText(w, c)) /\ SameBody(WText(w, c), w) /\ WText(w, c).visible = w.visible
         /\ WText(w, c).blink = w.blink /\ WText(w, c).text = c /\ U!Cursor(WText(w, c)) = U!Cursor(w)
         /\ WinOK(WBack(w, c)) /\ SameBody(WBack(w, c), w) /\ WBack(w, c).visible = w.visible
         /\ WBack(w, c).blink = w.blink /\ WBack(w, c).text = w.text /\ U!Cursor(WBack(w, c)) = U!Cursor(w)
<1>1. /\ w.x \in Int /\ w.y \in Int /\ w.cx \in Int /\ w.cy \in Int /\ w.width \in Nat /\ w.height \in Nat
      /\ w.text \in WinColour /\ w.back \in WinColour /\ LinesOK(w.lines, w.width, w.height)
  BY DEF WinOK
<1>2. WinOK(WAt(w, a, b)) /\ WinOK(WText(w, c)) /\ WinOK(WBack(w, c))
  BY <1>1, WinOfOK DEF WAt, WText, WBack
<1>3. SameBody(WAt(w, a, b), w) /\ WAt(w, a, b).visible = w.visible /\ WAt(w, a, b).blink = w.blink /\ WAt(w, a, b).text = w.text
  BY WinOfFields DEF WAt, SameBody
<1>4. /\ SameBody(WText(w, c), w) /\ WText(w, c).visible = w.visible /\ WText(w, c).blink = w.blink /\ WText(w, c).text = c
      /\ WText(w, c).cx = w.cx /\ WText(w, c).cy = w.cy
  BY WinOfFields DEF WText, SameBody
<1>5. /\ SameBody(WBack(w, c), w) /\ WBack(w, c).visible = w.visible /\ WBack(w, c).blink = w.blink /\ WBack(w, c).text = w.text
      /\ WBack(w, c).cx = w.cx /\ WBack(w, c).cy = w.cy
  BY WinOfFields DEF WBack, SameBody
<1>6. U!Cursor(WText(w, c)) = U!Cursor(w) /\ U!Cursor(WBack(w, c)) = U!Cursor(w)
  BY <1>4, <1>5 DEF U!Cursor, SameBody
<1> QED
  BY <1>2, <1>3, <1>4, <1>5, <1>6

(* The same for blinking and for being visible.                            *)
LEMMA OtherFlag ==
  ASSUME NEW w, WinOK(w), NEW v
  PROVE  /\ WinOK(WBlink(w, v)) /\ SameBody(WBlink(w, v), w) /\ WBlink(w, v).visible = w.visible
         /\ WBlink(w, v).blink = v /\ WBlink(w, v).text = w.text /\ U!Cursor(WBlink(w, v)) = U!Cursor(w)
         /\ WinOK(WSeen(w, v)) /\ SameBody(WSeen(w, v), w) /\ WSeen(w, v).visible = v
<1>1. /\ w.x \in Int /\ w.y \in Int /\ w.cx \in Int /\ w.cy \in Int /\ w.width \in Nat /\ w.height \in Nat
      /\ w.text \in WinColour /\ w.back \in WinColour /\ LinesOK(w.lines, w.width, w.height)
  BY DEF WinOK
<1>2. WinOK(WBlink(w, v)) /\ WinOK(WSeen(w, v))
  BY <1>1, WinOfOK DEF WBlink, WSeen
<1>3. /\ SameBody(WBlink(w, v), w) /\ WBlink(w, v).visible = w.visible /\ WBlink(w, v).blink = v /\ WBlink(w, v).text = w.text
      /\ WBlink(w, v).cx = w.cx /\ WBlink(w, v).cy = w.cy
  BY WinOfFields DEF WBlink, SameBody
<1>4. SameBody(WSeen(w, v), w) /\ WSeen(w, v).visible = v
  BY WinOfFields DEF WSeen, SameBody
<1>5. U!Cursor(WBlink(w, v)) = U!Cursor(w)
  BY <1>3 DEF U!Cursor, SameBody
<1> QED
  BY <1>2, <1>3, <1>4, <1>5

(* What a window that stands is.                                           *)
LEMMA StandsIs ==
  ASSUME NEW d, NEW h, Stands(d, h)
  PROVE  /\ d = On(d.win, d.par) /\ WinOK(d.win) /\ Within(d.win, h) /\ TermOK(d.par, h)
         /\ Drawable(d.win, d.par, h)
         /\ d.win.visible => /\ AllLinesIn(d.win, d.par) /\ U!CursorShown(d.win, d.par)
                             /\ d.par.blink = d.win.blink /\ d.par.text = d.win.text
                             /\ <<d.par.x, d.par.y>> = U!Cursor(d.win)
  BY DEF Stands, Drawable, IsShown, U!CursorShown

(* window.setCursorPos.                                                    *)
LEMMA SetCursorPosIs ==
  ASSUME NEW d, NEW h, Stands(d, h), NEW x \in Int, NEW y \in Int
  PROVE  DrawnAs(U!setCursorPos(d, x, y), WAt(d.win, x, y), d.par, h)
<1> DEFINE w == d.win  p == d.par  u == WAt(w, x, y)  r == U!setCursorPos(d, x, y)  q == AtCursor(u, p)
<1>1. /\ d = On(w, p) /\ WinOK(w) /\ Within(w, h) /\ TermOK(p, h)
      /\ w.visible => AllLinesIn(w, p) /\ p.blink = w.blink /\ p.text = w.text
  BY StandsIs
<1> HIDE DEF w, p
<1>2. SetAt(d, x, y) = On(u, p)
  BY <1>1, FieldReplaced
<1>3. WinOK(u) /\ SameBody(u, w) /\ u.visible = w.visible /\ u.blink = w.blink /\ u.text = w.text
  <2>1. \A c \in WinColour : WinOK(u) /\ SameBody(u, w) /\ u.visible = w.visible /\ u.blink = w.blink /\ u.text = w.text
    BY <1>1, OtherField
  <2>2. White \in WinColour
    BY DEF WinColour
  <2> QED
    BY <2>1, <2>2
<1> HIDE DEF u
<1>4. Within(u, h) /\ (AllLinesIn(w, p) => AllLinesIn(u, p))
  BY <1>1, <1>3, BodyKept
<1>5. U!updateCursorPos(On(u, p)) = On(u, q)
  BY <1>1, CursorPosIs
<1>6. TermOK(q, h) /\ q.cells = p.cells /\ SameLook(q, p) /\ <<q.x, q.y>> = U!Cursor(u)
  BY <1>1, CursorMoves
<1> HIDE DEF q
<1>7. r = IF u.visible THEN On(u, q) ELSE On(u, p)
  BY <1>2, <1>5, IfVisibleIs DEF U!setCursorPos, SetAt
<1> HIDE DEF r
<1>8. CASE u.visible
  <2>1. U!CursorShown(u, q) /\ AllLinesIn(u, q)
    BY <1>1, <1>3, <1>4, <1>6, <1>8, SameCells DEF U!CursorShown, SameLook
  <2>2. DrawnAs(On(u, q), u, p, h)
    BY <1>3, <1>4, <1>6, <1>8, <2>1, AroundSame, DrawnIs DEF IsShown
  <2> QED
    BY <1>7, <1>8, <2>2 DEF r, u, w, p
<1>9. CASE ~u.visible
  <2>1. DrawnAs(On(u, p), u, p, h)
    BY <1>1, <1>3, <1>4, <1>9, AroundSame, DrawnIs
  <2> QED
    BY <1>7, <1>9, <2>1 DEF r, u, w, p
<1> QED
  BY <1>8, <1>9

(* window.setCursorBlink.                                                  *)
LEMMA SetCursorBlinkIs ==
  ASSUME NEW d, NEW h, Stands(d, h), NEW b
  PROVE  DrawnAs(U!setCursorBlink(d, b), WBlink(d.win, b), d.par, h)
<1> DEFINE w == d.win  p == d.par  u == WBlink(w, b)  r == U!setCursorBlink(d, b)  q == WithBlink(p, u.blink)
<1>1. /\ d = On(w, p) /\ WinOK(w) /\ Within(w, h) /\ TermOK(p, h)
      /\ w.visible => AllLinesIn(w, p) /\ p.text = w.text /\ <<p.x, p.y>> = U!Cursor(w)
  BY StandsIs
<1> HIDE DEF w, p
<1>2. SetBlink(d, b) = On(u, p)
  <2>1. \A c : SetBlink(d, b) = On(u, p)
    BY <1>1, FieldReplaced
  <2> QED
    BY <2>1
<1>3. WinOK(u) /\ SameBody(u, w) /\ u.visible = w.visible /\ u.text = w.text /\ U!Cursor(u) = U!Cursor(w)
  BY <1>1, OtherFlag
<1> HIDE DEF u
<1>4. Within(u, h) /\ (AllLinesIn(w, p) => AllLinesIn(u, p))
  BY <1>1, <1>3, BodyKept
<1>5. U!updateCursorBlink(On(u, p)) = On(u, q)
  BY <1>1, CursorBlinkIs
<1>6. TermOK(q, h) /\ q.cells = p.cells /\ q.blink = u.blink /\ q.text = p.text /\ q.x = p.x /\ q.y = p.y
  BY <1>1, CursorKeeps
<1> HIDE DEF q
<1>7. r = IF u.visible THEN On(u, q) ELSE On(u, p)
  BY <1>2, <1>5, IfVisibleIs DEF U!setCursorBlink, SetBlink
<1> HIDE DEF r
<1>8. CASE u.visible
  <2>1. U!CursorShown(u, q) /\ AllLinesIn(u, q)
    BY <1>1, <1>3, <1>4, <1>6, <1>8, SameCells DEF U!CursorShown
  <2>2. DrawnAs(On(u, q), u, p, h)
    BY <1>3, <1>4, <1>6, <1>8, <2>1, AroundSame, DrawnIs DEF IsShown
  <2> QED
    BY <1>7, <1>8, <2>2 DEF r, u, w, p
<1>9. CASE ~u.visible
  <2>1. DrawnAs(On(u, p), u, p, h)
    BY <1>1, <1>3, <1>4, <1>9, AroundSame, DrawnIs
  <2> QED
    BY <1>7, <1>9, <2>1 DEF r, u, w, p
<1> QED
  BY <1>8, <1>9

(* One window that is replaced, for the fields with a single argument.     *)
LEMMA OneFieldReplaced ==
  ASSUME NEW d, NEW h, Stands(d, h), NEW a
  PROVE  /\ SetText(d, a) = On(WText(d.win, a), d.par) /\ SetBack(d, a) = On(WBack(d.win, a), d.par)
         /\ SetSeen(d, a) = On(WSeen(d.win, a), d.par) /\ SetLines(d, a) = On(WLines(d.win, a), d.par)
         /\ SetCx(d, a) = On(WAt(d.win, a, d.win.cy), d.par)
<1> DEFINE w == d.win  p == d.par
<1>1. d = On(w, p) /\ WinOK(w)
  BY StandsIs
<1> HIDE DEF w, p
<1>2. \A b : /\ SetText(d, a) = On(WText(w, a), p) /\ SetBack(d, a) = On(WBack(w, a), p)
             /\ SetSeen(d, a) = On(WSeen(w, a), p) /\ SetLines(d, a) = On(WLines(w, a), p)
             /\ SetCx(d, a) = On(WAt(w, a, w.cy), p)
  BY <1>1, FieldReplaced
<1> QED
  BY <1>2 DEF w, p

(* window.setTextColor.                                                    *)
LEMMA SetTextColorIs ==
  ASSUME NEW d, NEW h, Stands(d, h), NEW c \in WinColour
  PROVE  DrawnAs(U!setTextColor(d, c), WText(d.win, c), d.par, h)
<1> DEFINE w == d.win  p == d.par  u == WText(w, c)  r == U!setTextColor(d, c)  q == WithColour(p, u.text)
<1>1. /\ d = On(w, p) /\ WinOK(w) /\ Within(w, h) /\ TermOK(p, h)
      /\ w.visible => AllLinesIn(w, p) /\ p.blink = w.blink /\ <<p.x, p.y>> = U!Cursor(w)
  BY StandsIs
<1>2. SetText(d, c) = On(u, p)
  BY OneFieldReplaced
<1> HIDE DEF w, p
<1>3. WinOK(u) /\ SameBody(u, w) /\ u.visible = w.visible /\ u.blink = w.blink /\ U!Cursor(u) = U!Cursor(w)
  <2>1. 0 \in Int
    OBVIOUS
  <2> QED
    BY <1>1, <2>1, OtherField
<1> HIDE DEF u
<1>4. Within(u, h) /\ (AllLinesIn(w, p) => AllLinesIn(u, p))
  BY <1>1, <1>3, BodyKept
<1>5. U!updateCursorColor(On(u, p)) = On(u, q)
  BY <1>1, CursorColourIs
<1>6. TermOK(q, h) /\ q.cells = p.cells /\ q.blink = p.blink /\ q.text = u.text /\ q.x = p.x /\ q.y = p.y
  BY <1>1, CursorKeeps, SMTT(30)
<1> HIDE DEF q
<1>7. r = IF u.visible THEN On(u, q) ELSE On(u, p)
  BY <1>2, <1>5, IfVisibleIs DEF U!setTextColor, SetText
<1> HIDE DEF r
<1>8. CASE u.visible
  <2>1. U!CursorShown(u, q) /\ AllLinesIn(u, q)
    BY <1>1, <1>3, <1>4, <1>6, <1>8, SameCells DEF U!CursorShown
  <2>2. DrawnAs(On(u, q), u, p, h)
    BY <1>3, <1>4, <1>6, <1>8, <2>1, AroundSame, DrawnIs DEF IsShown
  <2> QED
    BY <1>7, <1>8, <2>2 DEF r, u, w, p
<1>9. CASE ~u.visible
  <2>1. DrawnAs(On(u, p), u, p, h)
    BY <1>1, <1>3, <1>4, <1>9, AroundSame, DrawnIs
  <2> QED
    BY <1>7, <1>9, <2>1 DEF r, u, w, p
<1> QED
  BY <1>8, <1>9

(* window.setBackgroundColor, which draws nothing.                         *)
LEMMA SetBackgroundColorIs ==
  ASSUME NEW d, NEW h, Stands(d, h), NEW c \in WinColour
  PROVE  DrawnAs(U!setBackgroundColor(d, c), WBack(d.win, c), d.par, h)
<1> DEFINE w == d.win  p == d.par  u == WBack(w, c)
<1>1. /\ WinOK(w) /\ Within(w, h) /\ TermOK(p, h)
      /\ w.visible => AllLinesIn(w, p) /\ U!CursorShown(w, p)
  BY StandsIs
<1>2. U!setBackgroundColor(d, c) = On(u, p)
  BY OneFieldReplaced DEF U!setBackgroundColor, SetBack
<1> HIDE DEF w, p
<1>3. WinOK(u) /\ SameBody(u, w) /\ u.visible = w.visible /\ u.blink = w.blink /\ u.text = w.text /\ U!Cursor(u) = U!Cursor(w)
  <2>1. 0 \in Int
    OBVIOUS
  <2> QED
    BY <1>1, <2>1, OtherField
<1> HIDE DEF u
<1>4. Within(u, h) /\ (AllLinesIn(w, p) => AllLinesIn(u, p))
  BY <1>1, <1>3, BodyKept
<1>5. u.visible => IsShown(u, p)
  BY <1>1, <1>3, <1>4 DEF IsShown, U!CursorShown
<1>6. DrawnAs(On(u, p), u, p, h)
  BY <1>1, <1>3, <1>4, <1>5, AroundSame, DrawnIs
<1> QED
  BY <1>2, <1>6 DEF u, w, p

(* window.setVisible.                                                      *)
LEMMA SetVisibleIs ==
  ASSUME NEW d, NEW h, Stands(d, h), NEW b
  PROVE  DrawnAs(U!setVisible(d, b), WSeen(d.win, b), d.par, h)
<1> DEFINE w == d.win  p == d.par  u == WSeen(w, b)
<1>1. d = On(w, p) /\ WinOK(w) /\ Within(w, h) /\ TermOK(p, h) /\ (w.visible => IsShown(w, p))
  BY StandsIs DEF IsShown
<1>2. SetSeen(d, b) = On(u, p)
  BY OneFieldReplaced
<1>3. CASE w.visible = b
  <2>1. U!setVisible(d, b) = d
    BY <1>3 DEF U!setVisible
  <2>2. u = w
    BY <1>1, <1>3 DEF WSeen, WinOK
  <2> HIDE DEF w, p, u
  <2>3. DrawnAs(On(w, p), w, p, h)
    BY <1>1, AroundSame, DrawnIs
  <2> QED
    BY <1>1, <2>1, <2>2, <2>3 DEF w, p, u
<1>4. CASE w.visible # b
  <2>1. U!setVisible(d, b) = U!redraw(On(u, p))
    BY <1>2, <1>4 DEF U!setVisible, SetSeen
  <2> HIDE DEF w, p
  <2>2. WinOK(u) /\ SameBody(u, w)
    BY <1>1, OtherFlag
  <2> HIDE DEF u
  <2>3. Drawable(u, p, h)
    BY <1>1, <2>2, BodyKept DEF Drawable
  <2>4. DrawnAs(U!redraw(On(u, p)), u, p, h)
    BY <2>3, RedrawnIs
  <2> QED
    BY <2>1, <2>4 DEF u, w, p
<1> QED
  BY <1>3, <1>4

(* window.redraw and window.restoreCursor, called by the program.          *)
LEMMA DrawAgainIs ==
  ASSUME NEW d, NEW h, Stands(d, h)
  PROVE  DrawnAs(U!redraw(d), d.win, d.par, h) /\ DrawnAs(U!restoreCursor(d), d.win, d.par, h)
<1> DEFINE w == d.win  p == d.par
<1>1. /\ d = On(w, p) /\ WinOK(w) /\ Within(w, h) /\ TermOK(p, h) /\ Drawable(w, p, h)
      /\ w.visible => AllLinesIn(w, p)
  BY StandsIs
<1> HIDE DEF w, p
<1>2. DrawnAs(U!redraw(d), w, p, h)
  BY <1>1, RedrawnIs
<1>3. PICK q : /\ U!restoreCursor(On(w, p)) = On(w, q) /\ TermOK(q, h)
               /\ w.visible => q.cells = p.cells /\ U!CursorShown(w, q)
               /\ ~w.visible => q = p
  BY <1>1, RestoreIs
<1>4. w.visible => IsShown(w, q)
  BY <1>1, <1>3, SameCells DEF IsShown
<1>5. DrawnAs(On(w, q), w, p, h)
  BY <1>1, <1>3, <1>4, AroundSame, DrawnIs
<1> QED
  BY <1>1, <1>2, <1>3, <1>5 DEF w, p

(* Other lines in a window.                                                *)
LEMMA NewLines ==
  ASSUME NEW d, NEW h, Stands(d, h), NEW ls, LinesOK(ls, d.win.width, d.win.height)
  PROVE  LET u == WLines(d.win, ls)
         IN  /\ SetLines(d, ls) = On(u, d.par) /\ Drawable(u, d.par, h)
             /\ u.visible = d.win.visible /\ (u.visible => d.par.blink = u.blink)
             /\ u.x = d.win.x /\ u.y = d.win.y /\ u.width = d.win.width /\ u.height = d.win.height /\ u.lines = ls
<1> DEFINE w == d.win  p == d.par  u == WLines(w, ls)
<1>1. /\ WinOK(w) /\ Within(w, h) /\ TermOK(p, h) /\ (w.visible => p.blink = w.blink)
  BY StandsIs
<1>2. SetLines(d, ls) = On(u, p)
  BY OneFieldReplaced
<1>3. /\ u.x = w.x /\ u.y = w.y /\ u.width = w.width /\ u.height = w.height /\ u.visible = w.visible
      /\ u.blink = w.blink /\ u.lines = ls
  BY WinOfFields DEF WLines
<1>4. WinOK(u)
  <2>1. /\ w.x \in Int /\ w.y \in Int /\ w.cx \in Int /\ w.cy \in Int /\ w.width \in Nat /\ w.height \in Nat
        /\ w.text \in WinColour /\ w.back \in WinColour
    BY <1>1 DEF WinOK
  <2> QED
    BY <2>1, WinOfOK DEF WLines
<1> HIDE DEF u, w, p
<1>5. Within(u, h)
  BY <1>1, <1>3 DEF Within
<1>6. Drawable(u, p, h) /\ (u.visible => p.blink = u.blink)
  BY <1>1, <1>3, <1>4, <1>5 DEF Drawable
<1> QED
  BY <1>2, <1>3, <1>6 DEF u, w, p

(* A line of blanks.                                                       *)
LEMMA EmptyLineIs ==
  ASSUME NEW n \in Nat, NEW fg \in WinColour, NEW bg \in WinColour
  PROVE  LET e == U!EmptyLine(n, fg, bg)
         IN  e \in Seq(WinCell) /\ Len(e) = n /\ \A i \in 1 .. n : e[i] = <<Space, fg, bg>>
<1> DEFINE e == U!EmptyLine(n, fg, bg)  c == <<Space, fg, bg>>
<1>1. c \in WinCell
  <2>1. Space \in WinChar
    BY DEF WinChar
  <2> QED
    BY <2>1 DEF WinCell
<1>2. e = [i \in 1 .. n |-> c]
  BY DEF U!EmptyLine
<1> HIDE DEF e, c
<1>3. e \in Seq(WinCell) /\ Len(e) = n /\ \A i \in 1 .. n : e[i] = c
  BY <1>1, <1>2
<1> QED
  BY <1>3 DEF e, c

(* All lines of a window replaced, and drawn again.                        *)
LEMMA LinesReplaced ==
  ASSUME NEW d, NEW h, Stands(d, h), NEW ls, LinesOK(ls, d.win.width, d.win.height)
  PROVE  DrawnAs(U!IfVisible(SetLines(d, ls), U!WithCursor(U!redrawLines(SetLines(d, ls)))), WLines(d.win, ls), d.par, h)
<1> DEFINE u == WLines(d.win, ls)  p == d.par
<1>1. SetLines(d, ls) = On(u, p) /\ Drawable(u, p, h) /\ (u.visible => p.blink = u.blink)
  BY NewLines
<1> HIDE DEF u, p
<1>2. DrawnAs(U!IfVisible(On(u, p), U!WithCursor(U!redrawLines(On(u, p)))), u, p, h)
  BY <1>1, RefreshedIs
<1> QED
  BY <1>1, <1>2 DEF u, p

(* The lines that clear, clearLine and scroll leave.                       *)
NoText(w) == U!EmptyLine(w.width, w.text, w.back)
Cleared(w) == [n \in 1 .. w.height |-> NoText(w)]
LineCleared(w) == [w.lines EXCEPT ![w.cy] = NoText(w)]
ScrolledBy(w, k) == [n \in 1 .. w.height |-> IF n + k \in 1 .. w.height THEN w.lines[n + k] ELSE NoText(w)]

(* They are lines of the window.                                           *)
LEMMA ClearedOK ==
  ASSUME NEW w, WinOK(w), NEW k \in Int
  PROVE  /\ LinesOK(Cleared(w), w.width, w.height) /\ LinesOK(ScrolledBy(w, k), w.width, w.height)
         /\ LinesOK(LineCleared(w), w.width, w.height)
         /\ DOMAIN w.lines = 1 .. w.height
         /\ \A i \in 1 .. w.width : NoText(w)[i] = <<Space, w.text, w.back>>
<1> DEFINE e == NoText(w)
<1>1. w.width \in Nat /\ w.height \in Nat /\ w.text \in WinColour /\ w.back \in WinColour /\ LinesOK(w.lines, w.width, w.height)
  BY DEF WinOK
<1>2. e \in Seq(WinCell) /\ Len(e) = w.width /\ \A i \in 1 .. w.width : e[i] = <<Space, w.text, w.back>>
  BY <1>1, EmptyLineIs DEF NoText
<1> HIDE DEF e
<1>3. DOMAIN w.lines = 1 .. w.height /\ \A n \in 1 .. w.height : w.lines[n] \in Seq(WinCell) /\ Len(w.lines[n]) = w.width
  BY <1>1 DEF LinesOK
<1>4. LinesOK(Cleared(w), w.width, w.height)
  BY <1>2 DEF LinesOK, Cleared, e
<1>5. LinesOK(ScrolledBy(w, k), w.width, w.height)
  <2> DEFINE ls == ScrolledBy(w, k)
  <2>1. \A n \in 1 .. w.height : ls[n] = IF n + k \in 1 .. w.height THEN w.lines[n + k] ELSE e
    BY DEF ScrolledBy, e
  <2>2. ls = [n \in 1 .. w.height |-> ls[n]]
    BY DEF ScrolledBy
  <2> HIDE DEF ls
  <2>3. ASSUME NEW n \in 1 .. w.height PROVE ls[n] \in Seq(WinCell) /\ Len(ls[n]) = w.width
    <3>1. CASE n + k \in 1 .. w.height
      BY <1>3, <2>1, <3>1
    <3>2. CASE n + k \notin 1 .. w.height
      BY <1>2, <2>1, <3>2
    <3> QED
      BY <3>1, <3>2
  <2>4. LinesOK(ls, w.width, w.height)
    BY <2>2, <2>3 DEF LinesOK
  <2> QED
    BY <2>4 DEF ls
<1>6. LinesOK(LineCleared(w), w.width, w.height)
  <2> DEFINE ls == LineCleared(w)
  <2>1. DOMAIN ls = 1 .. w.height /\ \A n \in 1 .. w.height : ls[n] = IF n = w.cy THEN e ELSE w.lines[n]
    BY <1>3 DEF LineCleared, e
  <2>2. ls = [n \in DOMAIN ls |-> ls[n]]
    BY DEF LineCleared
  <2> HIDE DEF ls
  <2>3. ASSUME NEW n \in 1 .. w.height PROVE ls[n] \in Seq(WinCell) /\ Len(ls[n]) = w.width
    BY <1>2, <1>3, <2>1
  <2>4. LinesOK(ls, w.width, w.height)
    BY <2>1, <2>2, <2>3 DEF LinesOK
  <2> QED
    BY <2>4 DEF ls
<1> QED
  BY <1>2, <1>3, <1>4, <1>5, <1>6 DEF e

(* window.clear and window.scroll.                                         *)
LEMMA ClearIs ==
  ASSUME NEW d, NEW h, Stands(d, h)
  PROVE  DrawnAs(U!clear(d), WLines(d.win, Cleared(d.win)), d.par, h)
<1> DEFINE ls == Cleared(d.win)
<1>1. WinOK(d.win)
  BY StandsIs
<1>2. LinesOK(ls, d.win.width, d.win.height) /\ DOMAIN d.win.lines = 1 .. d.win.height
  <2>1. 0 \in Int
    OBVIOUS
  <2> QED
    BY <1>1, <2>1, ClearedOK
<1>3. ls = [n \in DOMAIN d.win.lines |-> U!Empty(d)]
  BY <1>2 DEF Cleared, NoText, U!Empty
<1> HIDE DEF ls
<1>4. U!clear(d) = U!IfVisible(SetLines(d, ls), U!WithCursor(U!redrawLines(SetLines(d, ls))))
  BY <1>3 DEF U!clear, SetLines
<1>5. DrawnAs(U!IfVisible(SetLines(d, ls), U!WithCursor(U!redrawLines(SetLines(d, ls)))), WLines(d.win, ls), d.par, h)
  BY <1>2, LinesReplaced
<1> QED
  BY <1>4, <1>5 DEF ls

(* window.scroll.                                                          *)
LEMMA ScrollIs ==
  ASSUME NEW d, NEW h, Stands(d, h), NEW k \in Int, k # 0
  PROVE  DrawnAs(U!scroll(d, k), WLines(d.win, ScrolledBy(d.win, k)), d.par, h)
<1> DEFINE ls == ScrolledBy(d.win, k)
<1>1. WinOK(d.win)
  BY StandsIs
<1>2. LinesOK(ls, d.win.width, d.win.height) /\ DOMAIN d.win.lines = 1 .. d.win.height
  BY <1>1, ClearedOK
<1>3. ls = [y \in DOMAIN d.win.lines |-> IF y + k \in DOMAIN d.win.lines THEN d.win.lines[y + k] ELSE U!Empty(d)]
  BY <1>2 DEF ScrolledBy, NoText, U!Empty
<1> HIDE DEF ls
<1>4. U!scroll(d, k) = U!IfVisible(SetLines(d, ls), U!WithCursor(U!redrawLines(SetLines(d, ls))))
  BY <1>3 DEF U!scroll, SetLines
<1>5. DrawnAs(U!IfVisible(SetLines(d, ls), U!WithCursor(U!redrawLines(SetLines(d, ls)))), WLines(d.win, ls), d.par, h)
  BY <1>2, LinesReplaced
<1> QED
  BY <1>4, <1>5 DEF ls

(* One line of a window replaced, and drawn again.                         *)
LEMMA LineReplaced ==
  ASSUME NEW d, NEW h, Stands(d, h), NEW n \in 1 .. d.win.height,
         NEW ls, LinesOK(ls, d.win.width, d.win.height),
         \A m \in 1 .. d.win.height : m # n => ls[m] = d.win.lines[m]
  PROVE  LET u == WLines(d.win, ls)
         IN  /\ u.visible => \A m \in 1 .. u.height : m # n => LineIn(u, d.par, m)
             /\ DrawnAs(U!IfVisible(SetLines(d, ls), U!WithCursor(U!redrawLine(SetLines(d, ls), n))), u, d.par, h)
<1> DEFINE w == d.win  u == WLines(w, ls)  p == d.par
<1>1. /\ SetLines(d, ls) = On(u, p) /\ Drawable(u, p, h) /\ (u.visible => p.blink = u.blink)
      /\ u.visible = w.visible /\ u.x = w.x /\ u.y = w.y /\ u.width = w.width /\ u.height = w.height /\ u.lines = ls
  BY NewLines
<1>2. w.visible => AllLinesIn(w, p)
  BY StandsIs
<1>3. \A m \in 1 .. w.height : m # n => ls[m] = w.lines[m]
  OBVIOUS
<1> HIDE DEF u, p, w
<1>4. u.visible => \A m \in 1 .. u.height : m # n => LineIn(u, p, m)
  BY <1>1, <1>2, <1>3 DEF AllLinesIn, LineIn
<1>5. n \in 1 .. u.height
  BY <1>1 DEF w
<1>6. DrawnAs(U!IfVisible(On(u, p), U!WithCursor(U!redrawLine(On(u, p), n))), u, p, h)
  BY <1>1, <1>4, <1>5, LineRefreshedIs
<1> QED
  BY <1>1, <1>4, <1>6 DEF u, p, w

(* window.clearLine.                                                       *)
LEMMA ClearLineIs ==
  ASSUME NEW d, NEW h, Stands(d, h)
  PROVE  /\ d.win.cy \in 1 .. d.win.height => DrawnAs(U!clearLine(d), WLines(d.win, LineCleared(d.win)), d.par, h)
         /\ d.win.cy \notin 1 .. d.win.height => U!clearLine(d) = d
<1> DEFINE w == d.win  ls == LineCleared(w)
<1>1. WinOK(w)
  BY StandsIs
<1>2. LinesOK(ls, w.width, w.height) /\ DOMAIN w.lines = 1 .. w.height
  <2>1. 0 \in Int
    OBVIOUS
  <2> QED
    BY <1>1, <2>1, ClearedOK
<1>3. \A m \in 1 .. w.height : m # w.cy => ls[m] = w.lines[m]
  BY <1>2 DEF LineCleared
<1>4. [d EXCEPT !.win.lines[d.win.cy] = U!Empty(d)] = SetLines(d, ls)
  BY DEF SetLines, LineCleared, NoText, U!Empty
<1> HIDE DEF ls
<1>5. U!clearLine(d) = IF w.cy \in 1 .. w.height
                       THEN U!IfVisible(SetLines(d, ls), U!WithCursor(U!redrawLine(SetLines(d, ls), w.cy))) ELSE d
  BY <1>4 DEF U!clearLine
<1>6. w.cy \in 1 .. w.height =>
        DrawnAs(U!IfVisible(SetLines(d, ls), U!WithCursor(U!redrawLine(SetLines(d, ls), w.cy))), WLines(w, ls), d.par, h)
  BY <1>2, <1>3, LineReplaced
<1> QED
  BY <1>5, <1>6 DEF ls

(* The part of a sequence from one place to another.                       *)
IsPart(u, s, a, b, S) ==
  u \in Seq(S) /\ Len(u) = b - a /\ \A k \in 1 .. b - a : u[k] = s[a + k]

(* SubSeq is such a part.                                                  *)
LEMMA PartOf ==
  ASSUME NEW S, NEW s \in Seq(S), NEW a \in Nat, NEW b \in Nat, a <= b, b <= Len(s)
  PROVE  IsPart(SubSeq(s, a + 1, b), s, a, b, S)
<1> DEFINE u == SubSeq(s, a + 1, b)
<1>1. \A i \in a + 1 .. b : s[i] \in S
  OBVIOUS
<1>2. /\ u \in Seq(S) /\ Len(u) = IF a + 1 <= b THEN b - (a + 1) + 1 ELSE 0
      /\ \A i \in 1 .. b - (a + 1) + 1 : u[i] = s[(a + 1) + i - 1]
  <2>1. a + 1 \in Int /\ b \in Int
    OBVIOUS
  <2> QED
    BY <1>1, <2>1, SubSeqProperties
<1> HIDE DEF u
<1>3. u \in Seq(S) /\ Len(u) = b - a
  BY <1>2
<1>4. ASSUME NEW k \in 1 .. b - a PROVE u[k] = s[a + k]
  <2>1. k \in 1 .. b - (a + 1) + 1 /\ (a + 1) + k - 1 = a + k
    OBVIOUS
  <2> QED
    BY <1>2, <2>1
<1> QED
  BY <1>3, <1>4 DEF u, IsPart

(* string.sub, for a start inside the string.                              *)
LEMMA SubIs ==
  ASSUME NEW S, NEW s \in Seq(S), NEW a \in Nat, NEW j \in Int, NEW b \in Nat,
         b = (IF j > Len(s) THEN Len(s) ELSE j), a <= b
  PROVE  IsPart(U!sub(s, a + 1, j), s, a, b, S)
<1>1. Len(s) \in Nat
  OBVIOUS
<1>2. b <= Len(s) /\ ~(a + 1 < 1)
  BY <1>1
<1>3. U!sub(s, a + 1, j) = SubSeq(s, a + 1, b)
  BY <1>2 DEF U!sub
<1> QED
  BY <1>2, <1>3, PartOf

(* Two parts, one behind the other.                                        *)
LEMMA PartsJoined ==
  ASSUME NEW S, NEW a \in Seq(S), NEW b \in Seq(S)
  PROVE  /\ a \o b \in Seq(S) /\ Len(a \o b) = Len(a) + Len(b)
         /\ \A i \in 1 .. Len(a) : (a \o b)[i] = a[i]
         /\ \A i \in 1 .. Len(b) : (a \o b)[Len(a) + i] = b[i]
<1> DEFINE t == a \o b
<1>1. /\ t \in Seq(S) /\ Len(t) = Len(a) + Len(b) /\ Len(a) \in Nat /\ Len(b) \in Nat
      /\ \A i \in 1 .. Len(a) + Len(b) : t[i] = IF i <= Len(a) THEN a[i] ELSE b[i - Len(a)]
  BY ConcatProperties
<1> HIDE DEF t
<1>2. ASSUME NEW i \in 1 .. Len(a) PROVE t[i] = a[i]
  <2>1. i \in 1 .. Len(a) + Len(b) /\ i <= Len(a)
    BY <1>1
  <2> QED
    BY <1>1, <2>1
<1>3. ASSUME NEW i \in 1 .. Len(b) PROVE t[Len(a) + i] = b[i]
  <2>1. Len(a) + i \in 1 .. Len(a) + Len(b) /\ ~(Len(a) + i <= Len(a)) /\ (Len(a) + i) - Len(a) = i
    BY <1>1
  <2> QED
    BY <1>1, <2>1
<1> QED
  BY <1>1, <1>2, <1>3 DEF t

(* The line after text was put at a column: the text where it is, and the  *)
(* old line beside it.                                                     *)
PutOver(new, old, text, s, width) ==
  /\ new \in Seq(WinCell) /\ Len(new) = width
  /\ \A c \in 1 .. width : new[c] = IF c - s + 1 \in 1 .. Len(text) THEN text[c - s + 1] ELSE old[c]

(* Three parts that fill the width, of the old line, of the text and of    *)
(* the old line again.                                                     *)
LEMMA ThreeParts ==
  ASSUME NEW old \in Seq(WinCell), NEW text \in Seq(WinCell), NEW width \in Nat, Len(old) = width,
         NEW s \in Int, NEW m \in Nat, NEW e \in Nat, m <= e, e <= width,
         NEW A, NEW C, NEW B, IsPart(A, old, 0, m, WinCell), IsPart(C, text, m + 1 - s, e + 1 - s, WinCell),
         IsPart(B, old, e, width, WinCell),
         \A c \in 1 .. width : c - s + 1 \in 1 .. Len(text) <=> c > m /\ c <= e
  PROVE  PutOver((A \o C) \o B, old, text, s, width)
<1> DEFINE AC == A \o C  new == AC \o B
<1>1. /\ A \in Seq(WinCell) /\ Len(A) = m /\ \A k \in 1 .. m : A[k] = old[0 + k]
      /\ C \in Seq(WinCell) /\ Len(C) = e - m /\ \A k \in 1 .. e - m : C[k] = text[(m + 1 - s) + k]
      /\ B \in Seq(WinCell) /\ Len(B) = width - e /\ \A k \in 1 .. width - e : B[k] = old[e + k]
  <2>1. m - 0 = m /\ (e + 1 - s) - (m + 1 - s) = e - m
    OBVIOUS
  <2> QED
    BY <2>1 DEF IsPart
<1>2. /\ AC \in Seq(WinCell) /\ Len(AC) = Len(A) + Len(C)
      /\ \A i \in 1 .. Len(A) : AC[i] = A[i]
      /\ \A i \in 1 .. Len(C) : AC[Len(A) + i] = C[i]
  <2>1. A \in Seq(WinCell) /\ C \in Seq(WinCell)
    BY <1>1
  <2> QED
    BY ONLY <2>1, PartsJoined
<1> HIDE DEF AC
<1>3. /\ new \in Seq(WinCell) /\ Len(new) = Len(AC) + Len(B)
      /\ \A i \in 1 .. Len(AC) : new[i] = AC[i]
      /\ \A i \in 1 .. Len(B) : new[Len(AC) + i] = B[i]
  <2>1. AC \in Seq(WinCell) /\ B \in Seq(WinCell)
    BY <1>1, <1>2
  <2> QED
    BY ONLY <2>1, PartsJoined
<1> HIDE DEF new
<1>4. Len(AC) = e /\ Len(new) = width
  BY <1>1, <1>2, <1>3
<1>5. ASSUME NEW c \in 1 .. width
      PROVE  new[c] = IF c - s + 1 \in 1 .. Len(text) THEN text[c - s + 1] ELSE old[c]
  <2>0. c - s + 1 \in 1 .. Len(text) <=> c > m /\ c <= e
    OBVIOUS
  <2>1. CASE c <= m
    <3>1. c \in 1 .. m /\ 0 + c = c /\ c \in 1 .. e /\ ~(c > m)
      BY <2>1
    <3>2. new[c] = AC[c] /\ AC[c] = A[c] /\ A[c] = old[c]
      BY <1>1, <1>2, <1>3, <1>4, <3>1
    <3> QED
      BY <2>0, <3>1, <3>2
  <2>2. CASE c > m /\ c <= e
    <3>1. c - m \in 1 .. e - m /\ m + (c - m) = c /\ (m + 1 - s) + (c - m) = c - s + 1 /\ c \in 1 .. e
      BY <2>2
    <3>2. new[c] = AC[c] /\ AC[c] = C[c - m] /\ C[c - m] = text[c - s + 1]
      BY <1>1, <1>2, <1>3, <1>4, <3>1
    <3> QED
      BY <2>0, <2>2, <3>2
  <2>3. CASE c > e
    <3>1. c - e \in 1 .. width - e /\ e + (c - e) = c /\ ~(c <= e)
      BY <2>3
    <3>2. new[c] = B[c - e]
      BY <1>1, <1>3, <1>4, <3>1
    <3>3. B[c - e] = old[c]
      BY <1>1, <3>1
    <3> QED
      BY <2>0, <3>1, <3>2, <3>3
  <2> QED
    BY <2>1, <2>2, <2>3
<1> QED
  BY <1>3, <1>4, <1>5 DEF new, AC, PutOver

(* An empty part.                                                          *)
LEMMA NoPart ==
  ASSUME NEW s, NEW a \in Int, NEW S
  PROVE  IsPart(<<>>, s, a, a, S)
<1>1. a - a = 0 /\ 1 .. 0 = {} /\ <<>> \in Seq(S) /\ Len(<<>>) = 0
  OBVIOUS
<1> QED
  BY <1>1 DEF IsPart

(* internalBlit of window.lua cuts the text at both borders of the window  *)
(* and leaves the rest of the line as it was.                              *)
LEMMA SplicedIs ==
  ASSUME NEW old \in Seq(WinCell), NEW text \in Seq(WinCell), NEW width \in Nat, Len(old) = width,
         NEW s \in Int, s <= width, s + Len(text) - 1 >= 1
  PROVE  PutOver(U!Spliced(old, text, s, width), old, text, s, width)
<1> DEFINE L == Len(text)  E1 == s + L - 1  m == IF s > 1 THEN s - 1 ELSE 0  e == IF E1 < width THEN E1 ELSE width
           A == IF s > 1 THEN U!sub(old, 1, s - 1) ELSE <<>>
           C == U!Clipped(text, s, width)
           B == IF E1 < width THEN U!sub(old, E1 + 1, width) ELSE <<>>
<1>1. L \in Nat /\ E1 \in Int /\ E1 >= 1 /\ m \in Nat /\ e \in Nat /\ m <= e /\ e <= width
  OBVIOUS
<1>2. ASSUME NEW c \in 1 .. width PROVE c - s + 1 \in 1 .. L <=> c > m /\ c <= e
  <2> HIDE DEF L
  <2> QED
    BY <1>1
<1>3. IsPart(A, old, 0, m, WinCell)
  <2>1. CASE s > 1
    <3>1. 0 + 1 = 1 /\ m = s - 1 /\ 0 \in Nat /\ 0 <= m /\ s - 1 \in Int /\ m = (IF s - 1 > Len(old) THEN Len(old) ELSE s - 1)
      BY <2>1
    <3>2. A = U!sub(old, 0 + 1, s - 1)
      BY <2>1, <3>1
    <3> HIDE DEF m, A
    <3>3. IsPart(U!sub(old, 0 + 1, s - 1), old, 0, m, WinCell)
      BY <1>1, <3>1, SubIs
    <3> QED
      BY <3>2, <3>3
  <2>2. CASE ~(s > 1)
    <3>1. A = <<>> /\ m = 0
      BY <2>2
    <3> HIDE DEF A, m
    <3> QED
      BY <3>1, NoPart
  <2> QED
    BY <2>1, <2>2
<1>4. IsPart(B, old, e, width, WinCell)
  <2>1. CASE E1 < width
    <3>1. e = E1 /\ E1 \in Nat /\ E1 <= width /\ width \in Int /\ width = (IF width > Len(old) THEN Len(old) ELSE width)
      BY <1>1, <2>1
    <3>2. B = U!sub(old, E1 + 1, width)
      BY <2>1
    <3> HIDE DEF e, E1, B
    <3>3. IsPart(U!sub(old, E1 + 1, width), old, E1, width, WinCell)
      BY <3>1, SubIs
    <3> QED
      BY <3>1, <3>2, <3>3
  <2>2. CASE ~(E1 < width)
    <3>1. B = <<>> /\ e = width /\ width \in Int
      BY <2>2
    <3> HIDE DEF B, e
    <3> QED
      BY <3>1, NoPart
  <2> QED
    BY <2>1, <2>2
<1>5. IsPart(C, text, m + 1 - s, e + 1 - s, WinCell)
  <2>1. CASE s < 1
    <3> DEFINE a == 1 - s  j == width - s + 1  b == e + 1 - s
    <3>1. m + 1 - s = a /\ a + 1 = 2 - s /\ a \in Nat /\ j \in Int /\ b \in Nat /\ a <= b /\ b = (IF j > L THEN L ELSE j)
      <4> HIDE DEF L
      <4> QED
        BY <1>1, <2>1
    <3>2. C = U!sub(text, 2 - s, j)
      BY <2>1 DEF U!Clipped
    <3> HIDE DEF a, j, b, C, m, e
    <3>3. IsPart(U!sub(text, a + 1, j), text, a, b, WinCell)
      BY <3>1, SubIs
    <3>4. IsPart(C, text, a, b, WinCell)
      BY <3>1, <3>2, <3>3
    <3> QED
      BY <3>1, <3>4 DEF b
  <2>2. CASE s >= 1 /\ E1 > width
    <3> DEFINE j == width - s + 1
    <3>1. /\ m + 1 - s = 0 /\ 0 + 1 = 1 /\ 0 \in Nat /\ j \in Int /\ j \in Nat /\ 0 <= j /\ e + 1 - s = j
          /\ j = (IF j > L THEN L ELSE j)
      <4> HIDE DEF L
      <4> QED
        BY <1>1, <2>2
    <3>2. C = U!sub(text, 1, j)
      BY <2>2 DEF U!Clipped
    <3> HIDE DEF j, C, m, e
    <3>3. IsPart(U!sub(text, 0 + 1, j), text, 0, j, WinCell)
      BY <3>1, SubIs
    <3> QED
      BY <3>1, <3>2, <3>3
  <2>3. CASE s >= 1 /\ ~(E1 > width)
    <3>1. m + 1 - s = 0 /\ e + 1 - s = L
      <4> HIDE DEF L
      <4> QED
        BY <1>1, <2>3
    <3>2. C = text
      BY <2>3 DEF U!Clipped
    <3> HIDE DEF C, m, e
    <3>3. L - 0 = L /\ \A k \in 1 .. L : 0 + k = k
      BY <1>1
    <3>4. IsPart(text, text, 0, L, WinCell)
      BY <3>3 DEF IsPart
    <3> QED
      BY <3>1, <3>2, <3>4
  <2> QED
    BY <2>1, <2>2, <2>3
<1>6. U!Spliced(old, text, s, width) = IF s = 1 /\ E1 = width THEN text ELSE (A \o C) \o B
  BY DEF U!Spliced
<1>7. PutOver((A \o C) \o B, old, text, s, width)
  <2> HIDE DEF A, B, C, m, e
  <2> QED
    BY <1>1, <1>2, <1>3, <1>4, <1>5, ThreeParts
<1>8. s = 1 /\ E1 = width => PutOver(text, old, text, s, width)
  <2> SUFFICES ASSUME s = 1, E1 = width PROVE PutOver(text, old, text, s, width)
    OBVIOUS
  <2>1. L = width /\ \A c \in 1 .. width : c - s + 1 = c
    <3> HIDE DEF L
    <3> QED
      BY <1>1
  <2> QED
    BY <2>1 DEF PutOver
<1> QED
  BY <1>6, <1>7, <1>8

(* The lines after text was put at the cursor.                             *)
Hit(w, text) == w.cy \in 1 .. w.height /\ w.cx <= w.width /\ w.cx + Len(text) - 1 >= 1
PutLines(w, text) ==
  IF Hit(w, text) THEN [w.lines EXCEPT ![w.cy] = U!Spliced(w.lines[w.cy], text, w.cx, w.width)] ELSE w.lines

(* Only the cells under the text are other ones.                           *)
LEMMA PutLinesOK ==
  ASSUME NEW w, WinOK(w), NEW text \in Seq(WinCell)
  PROVE  LET ls == PutLines(w, text)
         IN  /\ LinesOK(ls, w.width, w.height)
             /\ \A n \in 1 .. w.height : n # w.cy => ls[n] = w.lines[n]
             /\ \A n \in 1 .. w.height, c \in 1 .. w.width :
                  ls[n][c] = IF n = w.cy /\ c - w.cx + 1 \in 1 .. Len(text) THEN text[c - w.cx + 1] ELSE w.lines[n][c]
<1> DEFINE ls == PutLines(w, text)  L == Len(text)  cx == w.cx  cy == w.cy  wd == w.width  ht == w.height
<1>1. cx \in Int /\ cy \in Int /\ wd \in Nat /\ ht \in Nat /\ LinesOK(w.lines, wd, ht) /\ L \in Nat
  BY DEF WinOK
<1>2. DOMAIN w.lines = 1 .. ht /\ \A n \in 1 .. ht : w.lines[n] \in Seq(WinCell) /\ Len(w.lines[n]) = wd
  BY <1>1 DEF LinesOK
<1>3. CASE Hit(w, text)
  <2> DEFINE new == U!Spliced(w.lines[cy], text, cx, wd)
  <2>1. ls = [w.lines EXCEPT ![cy] = new]
    BY <1>3 DEF PutLines
  <2>2. cy \in 1 .. ht /\ cx <= wd /\ cx + Len(text) - 1 >= 1
    BY <1>3 DEF Hit
  <2>3. PutOver(new, w.lines[cy], text, cx, wd)
    <3>1. w.lines[cy] \in Seq(WinCell) /\ Len(w.lines[cy]) = wd
      BY <1>2, <2>2
    <3> HIDE DEF cx, cy, wd, ht
    <3> QED
      BY <1>1, <2>2, <3>1, SplicedIs
  <2> HIDE DEF new, ls, L, cx, cy, wd, ht
  <2>4. new \in Seq(WinCell) /\ Len(new) = wd /\ \A c \in 1 .. wd : new[c] = IF c - cx + 1 \in 1 .. L THEN text[c - cx + 1] ELSE w.lines[cy][c]
    BY <2>3 DEF PutOver, L
  <2>5. DOMAIN ls = 1 .. ht /\ \A n \in 1 .. ht : ls[n] = IF n = cy THEN new ELSE w.lines[n]
    BY <1>2, <2>1
  <2>6. ls = [n \in DOMAIN ls |-> ls[n]]
    BY <2>1
  <2>7. LinesOK(ls, wd, ht)
    <3>1. \A n \in 1 .. ht : ls[n] \in Seq(WinCell) /\ Len(ls[n]) = wd
      BY <1>2, <2>4, <2>5
    <3> QED
      BY <2>5, <2>6, <3>1 DEF LinesOK
  <2>8. ASSUME NEW n \in 1 .. ht, NEW c \in 1 .. wd
        PROVE  ls[n][c] = IF n = cy /\ c - cx + 1 \in 1 .. L THEN text[c - cx + 1] ELSE w.lines[n][c]
    <3>1. CASE n = cy
      <4>1. ls[n] = new
        BY <2>5, <3>1
      <4> QED
        BY <2>4, <3>1, <4>1
    <3>2. CASE n # cy
      BY <2>5, <3>2
    <3> QED
      BY <3>1, <3>2
  <2> QED
    BY <2>5, <2>7, <2>8 DEF ls, L, cx, cy, wd, ht
<1>4. CASE ~Hit(w, text)
  <2>1. ls = w.lines
    BY <1>4 DEF PutLines
  <2>2. ~(cy \in 1 .. ht /\ cx <= wd /\ cx + L - 1 >= 1)
    BY <1>4 DEF Hit
  <2> HIDE DEF ls, L, cx, cy, wd, ht
  <2>3. ASSUME NEW n \in 1 .. ht, NEW c \in 1 .. wd, n = cy PROVE c - cx + 1 \notin 1 .. L
    BY <1>1, <2>2, <2>3
  <2> QED
    BY <1>1, <2>1, <2>3 DEF ls, L, cx, cy, wd, ht
<1> QED
  BY <1>3, <1>4

(* The cursor moves behind what was put, and is drawn there.               *)
LEMMA MovedBehind ==
  ASSUME NEW u, NEW q, NEW h, Drawable(u, q, h), u.visible => AllLinesIn(u, q) /\ q.blink = u.blink, NEW x \in Int
  PROVE  LET d == On(u, q)
         IN  DrawnAs(U!IfVisible(SetCx(d, x), U!WithCursor(SetCx(d, x))), WAt(u, x, u.cy), q, h)
<1> DEFINE v == WAt(u, x, u.cy)
<1>1. WinOK(u) /\ Within(u, h) /\ TermOK(q, h) /\ u.cy \in Int
  BY DEF Drawable, WinOK
<1>2. SetCx(On(u, q), x) = On(v, q)
  <2>1. \A b : SetCx(On(u, q), x) = On(v, q)
    BY <1>1, FieldReplaced
  <2> QED
    BY <2>1
<1>3. WinOK(v) /\ SameBody(v, u) /\ v.visible = u.visible /\ v.blink = u.blink
  <2>1. White \in WinColour
    BY DEF WinColour
  <2> QED
    BY <1>1, <2>1, OtherField
<1> HIDE DEF v
<1>4. Within(v, h) /\ (AllLinesIn(u, q) => AllLinesIn(v, q))
  BY <1>1, <1>3, BodyKept
<1>5. PICK r : /\ U!WithCursor(On(v, q)) = On(v, r) /\ TermOK(r, h) /\ r.cells = q.cells
               /\ q.blink = v.blink => U!CursorShown(v, r)
  BY <1>1, WithCursorIs
<1>6. U!IfVisible(On(v, q), U!WithCursor(On(v, q))) = IF v.visible THEN On(v, r) ELSE On(v, q)
  BY <1>5, IfVisibleIs
<1>7. CASE v.visible
  <2>1. IsShown(v, r)
    BY <1>3, <1>4, <1>5, <1>7, SameCells DEF IsShown
  <2>2. DrawnAs(On(v, r), v, q, h)
    BY <1>3, <1>4, <1>5, <1>7, <2>1, AroundSame, DrawnIs
  <2> QED
    BY <1>2, <1>6, <1>7, <2>2 DEF v
<1>8. CASE ~v.visible
  <2>1. DrawnAs(On(v, q), v, q, h)
    BY <1>1, <1>3, <1>4, <1>8, AroundSame, DrawnIs
  <2> QED
    BY <1>2, <1>6, <1>8, <2>1 DEF v
<1> QED
  BY <1>7, <1>8

(* window.write and window.blit.                                           *)
LEMMA InternalBlitIs ==
  ASSUME NEW d, NEW h, Stands(d, h), NEW text \in Seq(WinCell)
  PROVE  LET u == WLines(d.win, PutLines(d.win, text))
         IN  DrawnAs(U!internalBlit(d, text), WAt(u, d.win.cx + Len(text), u.cy), d.par, h)
<1> DEFINE w == d.win  p == d.par  ls == PutLines(w, text)  u == WLines(w, ls)  x == w.cx + Len(text)
           put == SetLines(d, ls)
           drawn == IF Hit(w, text) THEN U!IfVisible(put, U!redrawLine(put, w.cy)) ELSE d
<1>1. /\ d = On(w, p) /\ WinOK(w) /\ Within(w, h) /\ TermOK(p, h) /\ Drawable(w, p, h)
      /\ w.visible => AllLinesIn(w, p) /\ p.blink = w.blink
  BY StandsIs
<1>2. w.cx \in Int /\ Len(text) \in Nat /\ x \in Int /\ w.cx + Len(text) - 1 + 1 = x
  BY <1>1 DEF WinOK
<1>3. LinesOK(ls, w.width, w.height) /\ \A n \in 1 .. w.height : n # w.cy => ls[n] = w.lines[n]
  BY <1>1, PutLinesOK
<1>4. Hit(w, text) => [d EXCEPT !.win.lines[w.cy] = U!Spliced(d.win.lines[w.cy], text, w.cx, w.width)] = put
  BY DEF SetLines, PutLines
<1>5. U!internalBlit(d, text) = U!IfVisible(SetCx(drawn, w.cx + Len(text) - 1 + 1), U!WithCursor(SetCx(drawn, w.cx + Len(text) - 1 + 1)))
  <2> HIDE DEF put
  <2>1. CASE Hit(w, text)
    BY <1>4, <2>1 DEF U!internalBlit, SetCx, Hit
  <2>2. CASE ~Hit(w, text)
    BY <2>2 DEF U!internalBlit, SetCx, Hit
  <2> QED
    BY <2>1, <2>2
<1>6. /\ put = On(u, p) /\ Drawable(u, p, h)
      /\ u.visible = w.visible /\ (u.visible => p.blink = u.blink) /\ u.height = w.height
  BY <1>3, NewLines
<1>7. \E q : /\ drawn = On(u, q) /\ Drawable(u, q, h) /\ (u.visible => AllLinesIn(u, q) /\ q.blink = u.blink)
            /\ (~u.visible => q = p) /\ Around(q, p, u.y, h)
  <2>1. CASE ~Hit(w, text)
    <3>1. ls = w.lines
      BY <2>1 DEF PutLines
    <3>2. u = w
      BY <1>1, <3>1 DEF WLines, WinOK
    <3>3. drawn = On(w, p)
      BY <1>1, <2>1
    <3> QED
      BY <1>1, <3>2, <3>3, AroundSame
  <2>2. CASE Hit(w, text)
    <3> DEFINE n == w.cy
    <3>1. n \in 1 .. w.height
      BY <2>2 DEF Hit
    <3>2. u.visible => \A m \in 1 .. u.height : m # n => LineIn(u, p, m)
      BY <1>3, <3>1, LineReplaced
    <3> HIDE DEF u, p, w, n, put, ls
    <3>3. drawn = U!IfVisible(On(u, p), U!redrawLine(On(u, p), n))
      BY <1>6, <2>2 DEF n
    <3> HIDE DEF drawn
    <3> DEFINE q == LineDrawn(u, p, n)
    <3>4. U!redrawLine(On(u, p), n) = On(u, q)
      BY <1>1, RedrawLineIs
    <3>5. drawn = IF u.visible THEN On(u, q) ELSE On(u, p)
      BY <3>3, <3>4, IfVisibleIs
    <3>6. WinOK(u) /\ Within(u, h) /\ u.y \in Int /\ n \in 1 .. u.height /\ u.height \in Nat
      BY <1>6, <3>1 DEF Drawable, WinOK
    <3>7. /\ TermOK(q, h) /\ SameLook(q, p) /\ LineIn(u, q, n) /\ Around(q, p, u.y, h)
          /\ \A m \in 1 .. h : m # u.y + n - 1 => q.cells[m] = p.cells[m]
      BY <1>1, <3>6, DrawnLine
    <3> HIDE DEF q
    <3>8. ASSUME u.visible PROVE AllLinesIn(u, q)
      <4> SUFFICES ASSUME NEW m \in 1 .. u.height PROVE LineIn(u, q, m)
        BY DEF AllLinesIn
      <4>1. CASE m = n
        BY <3>7, <4>1
      <4>2. CASE m # n
        <5>1. u.y + m - 1 # u.y + n - 1 /\ u.y + m - 1 \in 1 .. h
          BY <3>6, <4>2 DEF Within
        <5>2. q.cells[u.y + m - 1] = p.cells[u.y + m - 1]
          BY <3>7, <5>1
        <5>3. LineIn(u, p, m)
          BY <3>2, <3>8, <4>2
        <5> QED
          BY <5>2, <5>3 DEF LineIn
      <4> QED
        BY <4>1, <4>2
    <3>9. CASE u.visible
      <4>1. Drawable(u, q, h) /\ q.blink = u.blink
        BY <1>6, <3>6, <3>7, <3>9 DEF Drawable, SameLook
      <4> QED
        BY <3>5, <3>7, <3>8, <3>9, <4>1
    <3>10. CASE ~u.visible
      BY <1>6, <3>5, <3>10, AroundSame
    <3> QED
      BY <3>9, <3>10
  <2> QED
    BY <2>1, <2>2
<1>8. PICK q : /\ drawn = On(u, q) /\ Drawable(u, q, h) /\ (u.visible => AllLinesIn(u, q) /\ q.blink = u.blink)
               /\ (~u.visible => q = p) /\ Around(q, p, u.y, h)
  BY <1>7
<1> HIDE DEF drawn, put, u, p, w, ls, x
<1>9. U!internalBlit(d, text) = U!IfVisible(SetCx(On(u, q), x), U!WithCursor(SetCx(On(u, q), x)))
  BY <1>2, <1>5, <1>8
<1>10. DrawnAs(U!IfVisible(SetCx(On(u, q), x), U!WithCursor(SetCx(On(u, q), x))), WAt(u, x, u.cy), q, h)
  BY <1>2, <1>8, MovedBehind
<1>11. WAt(u, x, u.cy).visible = u.visible /\ WAt(u, x, u.cy).y = u.y
  BY WinOfFields DEF WAt
<1>12. DrawnAs(U!internalBlit(d, text), WAt(u, x, u.cy), p, h)
  BY <1>8, <1>9, <1>10, <1>11, AroundBoth DEF DrawnAs
<1> QED
  BY <1>12 DEF u, p, w, ls, x

(* Text in one colour is a line of cells.                                  *)
LEMMA ColouredIs ==
  ASSUME NEW text \in Seq(STRING), NEW fg \in WinColour, NEW bg \in WinColour
  PROVE  U!Coloured(text, fg, bg) \in Seq(WinCell)
<1> DEFINE t == U!Coloured(text, fg, bg)
<1>1. Len(text) \in Nat /\ DOMAIN text = 1 .. Len(text) /\ \A i \in 1 .. Len(text) : text[i] \in STRING
  OBVIOUS
<1>2. \A i \in 1 .. Len(text) : <<text[i], fg, bg>> \in WinCell
  <2>1. \A i \in 1 .. Len(text) : text[i] \in WinChar
    BY <1>1 DEF WinChar
  <2> QED
    BY <2>1 DEF WinCell
<1>3. t = [i \in 1 .. Len(text) |-> <<text[i], fg, bg>>]
  BY <1>1 DEF U!Coloured
<1> HIDE DEF t
<1>4. t \in Seq(WinCell)
  BY <1>1, <1>2, <1>3
<1> QED
  BY <1>4 DEF t

(* A line of a window that is made narrower or wider.                      *)
NewWidth(line, old, wd, fg, bg) ==
  IF wd <= old THEN U!sub(line, 1, wd) ELSE line \o U!sub(U!EmptyLine(wd, fg, bg), old + 1, wd)

(* It keeps its cells, and gets blanks.                                    *)
LEMMA LineResized ==
  ASSUME NEW line \in Seq(WinCell), NEW old \in Nat, Len(line) = old, NEW wd \in Nat,
         NEW fg \in WinColour, NEW bg \in WinColour
  PROVE  LET new == NewWidth(line, old, wd, fg, bg)
         IN  /\ new \in Seq(WinCell) /\ Len(new) = wd
             /\ \A c \in 1 .. wd : new[c] = IF c \in 1 .. old THEN line[c] ELSE <<Space, fg, bg>>
<1> DEFINE e == U!EmptyLine(wd, fg, bg)  cell == <<Space, fg, bg>>  res == NewWidth(line, old, wd, fg, bg)
<1>1. e \in Seq(WinCell) /\ Len(e) = wd /\ \A i \in 1 .. wd : e[i] = cell
  BY EmptyLineIs
<1>0. res = IF wd <= old THEN U!sub(line, 1, wd) ELSE line \o U!sub(e, old + 1, wd)
  BY DEF NewWidth
<1> HIDE DEF e, cell, res
<1>2. CASE wd <= old
  <2> DEFINE new == U!sub(line, 1, wd)
  <2>1. IsPart(U!sub(line, 0 + 1, wd), line, 0, wd, WinCell)
    <3>1. wd = (IF wd > Len(line) THEN Len(line) ELSE wd) /\ 0 <= wd /\ 0 \in Nat /\ wd \in Int
      BY <1>2
    <3> QED
      BY <3>1, SubIs
  <2>2. 0 + 1 = 1 /\ wd - 0 = wd /\ \A c \in 1 .. wd : 0 + c = c /\ c \in 1 .. old
    BY <1>2
  <2>3. new \in Seq(WinCell) /\ Len(new) = wd /\ \A c \in 1 .. wd : new[c] = line[c]
    BY <2>1, <2>2 DEF IsPart
  <2> HIDE DEF new
  <2>4. \A c \in 1 .. wd : new[c] = IF c \in 1 .. old THEN line[c] ELSE cell
    BY <2>2, <2>3
  <2> QED
    BY <1>0, <1>2, <2>3, <2>4 DEF new, cell, res
<1>3. CASE ~(wd <= old)
  <2> DEFINE t == U!sub(e, old + 1, wd)  new == line \o t
  <2>1. IsPart(t, e, old, wd, WinCell)
    <3>1. wd = (IF wd > Len(e) THEN Len(e) ELSE wd) /\ old <= wd /\ wd \in Int
      BY <1>1, <1>3
    <3> QED
      BY <1>1, <3>1, SubIs
  <2>2. t \in Seq(WinCell) /\ Len(t) = wd - old /\ \A k \in 1 .. wd - old : t[k] = e[old + k]
    BY <2>1 DEF IsPart
  <2> HIDE DEF t
  <2>3. /\ new \in Seq(WinCell) /\ Len(new) = Len(line) + Len(t)
        /\ \A i \in 1 .. Len(line) : new[i] = line[i]
        /\ \A i \in 1 .. Len(t) : new[Len(line) + i] = t[i]
    <3>1. line \in Seq(WinCell) /\ t \in Seq(WinCell)
      BY <2>2
    <3> QED
      BY ONLY <3>1, PartsJoined
  <2> HIDE DEF new
  <2>4. Len(new) = wd
    BY <1>3, <2>2, <2>3
  <2>5. ASSUME NEW c \in 1 .. wd PROVE new[c] = IF c \in 1 .. old THEN line[c] ELSE cell
    <3>1. CASE c \in 1 .. old
      BY <2>3, <3>1
    <3>2. CASE c \notin 1 .. old
      <4> DEFINE k == c - old
      <4>1. k \in 1 .. wd - old /\ old + k = c
        BY <3>2
      <4> HIDE DEF k
      <4>2. new[old + k] = t[k]
        BY <2>2, <2>3, <4>1
      <4>3. t[k] = e[c]
        BY <2>2, <4>1
      <4> QED
        BY <1>1, <3>2, <4>1, <4>2, <4>3
    <3> QED
      BY <3>1, <3>2
  <2> QED
    BY <1>0, <1>3, <2>3, <2>4, <2>5 DEF new, t, cell, res
<1> QED
  BY <1>2, <1>3

(* The lines of a window in a new size: what there was, and blanks.        *)
LEMMA ResizedOK ==
  ASSUME NEW w, WinOK(w), NEW wd \in Nat, NEW ht \in Nat
  PROVE  LET ls == U!Resized(w, wd, ht)
         IN  /\ LinesOK(ls, wd, ht)
             /\ \A n \in 1 .. ht, c \in 1 .. wd :
                  ls[n][c] = IF n \in 1 .. w.height /\ c \in 1 .. w.width THEN w.lines[n][c] ELSE <<Space, w.text, w.back>>
<1> DEFINE ls == U!Resized(w, wd, ht)  cell == <<Space, w.text, w.back>>  e == U!EmptyLine(wd, w.text, w.back)
           New(n) == NewWidth(w.lines[n], w.width, wd, w.text, w.back)
<1>1. w.width \in Nat /\ w.height \in Nat /\ w.text \in WinColour /\ w.back \in WinColour /\ LinesOK(w.lines, w.width, w.height)
  BY DEF WinOK
<1>2. \A n \in 1 .. w.height : w.lines[n] \in Seq(WinCell) /\ Len(w.lines[n]) = w.width
  BY <1>1 DEF LinesOK
<1>3. e \in Seq(WinCell) /\ Len(e) = wd /\ \A i \in 1 .. wd : e[i] = cell
  BY <1>1, EmptyLineIs
<1>4. ASSUME NEW n \in 1 .. w.height
      PROVE  /\ New(n) \in Seq(WinCell) /\ Len(New(n)) = wd
             /\ \A c \in 1 .. wd : New(n)[c] = IF c \in 1 .. w.width THEN w.lines[n][c] ELSE cell
  <2> DEFINE line == w.lines[n]
  <2>1. line \in Seq(WinCell) /\ Len(line) = w.width
    BY <1>2
  <2> DEFINE old == w.width  fg == w.text  bg == w.back  new == NewWidth(line, old, wd, fg, bg)
  <2>2. line \in Seq(WinCell) /\ old \in Nat /\ Len(line) = old /\ fg \in WinColour /\ bg \in WinColour /\ wd \in Nat
    BY <1>1, <2>1
  <2> HIDE DEF line, old, fg, bg
  <2>3. /\ new \in Seq(WinCell) /\ Len(new) = wd
        /\ \A c \in 1 .. wd : new[c] = IF c \in 1 .. old THEN line[c] ELSE <<Space, fg, bg>>
    BY ONLY <2>2, LineResized
  <2> QED
    BY <2>3 DEF line, old, fg, bg
<1>5. ls = [n \in 1 .. ht |-> IF n > w.height THEN e ELSE New(n)]
  BY DEF U!Resized, NewWidth
<1> HIDE DEF ls, e, cell, New
<1>6. ls = [n \in 1 .. ht |-> ls[n]] /\ \A n \in 1 .. ht : ls[n] = IF n > w.height THEN e ELSE New(n)
  BY <1>5
<1>7. ASSUME NEW n \in 1 .. ht
      PROVE  /\ ls[n] \in Seq(WinCell) /\ Len(ls[n]) = wd
             /\ \A c \in 1 .. wd : ls[n][c] = IF n \in 1 .. w.height /\ c \in 1 .. w.width THEN w.lines[n][c] ELSE cell
  <2>1. CASE n > w.height
    <3>1. ls[n] = e /\ n \notin 1 .. w.height
      BY <1>1, <1>6, <2>1
    <3> QED
      BY <1>3, <3>1
  <2>2. CASE ~(n > w.height)
    <3>1. ls[n] = New(n) /\ n \in 1 .. w.height
      BY <1>1, <1>6, <2>2
    <3> QED
      BY <1>4, <3>1
  <2> QED
    BY <2>1, <2>2
<1>8. LinesOK(ls, wd, ht)
  BY <1>6, <1>7 DEF LinesOK
<1> QED
  BY <1>7, <1>8 DEF ls, cell

(* A window put in another place.                                          *)
SetPlace(w, x, y, wd, ht, ls) == [w EXCEPT !.x = x, !.y = y, !.width = wd, !.height = ht, !.lines = ls]

(* It is a window with the same cursor, colours and visibility.            *)
LEMMA PlaceReplaced ==
  ASSUME NEW w, WinOK(w), NEW x, NEW y, NEW wd, NEW ht, NEW ls
  PROVE  SetPlace(w, x, y, wd, ht, ls) = WPlace(w, x, y, wd, ht, ls)
<1> DEFINE x0 == w.x  y0 == w.y  wd0 == w.width  ht0 == w.height  v == w.visible  cx == w.cx  cy == w.cy
           bl == w.blink  t == w.text  k == w.back  ls0 == w.lines
<1>1. w = WinOf(x0, y0, wd0, ht0, v, cx, cy, bl, t, k, ls0)
  BY DEF WinOK
<1> HIDE DEF x0, y0, wd0, ht0, v, cx, cy, bl, t, k, ls0
<1> DEFINE a == [w EXCEPT !.x = x]  b == [a EXCEPT !.y = y]  c == [b EXCEPT !.width = wd]  e == [c EXCEPT !.height = ht]
<1>2. SetPlace(w, x, y, wd, ht, ls) = [e EXCEPT !.lines = ls]
  BY DEF SetPlace
<1>3. a = WinOf(x, y0, wd0, ht0, v, cx, cy, bl, t, k, ls0)
  BY <1>1 DEF WinOf
<1> HIDE DEF a
<1>4. b = WinOf(x, y, wd0, ht0, v, cx, cy, bl, t, k, ls0)
  BY <1>3 DEF WinOf
<1> HIDE DEF b
<1>5. c = WinOf(x, y, wd, ht0, v, cx, cy, bl, t, k, ls0)
  BY <1>4 DEF WinOf
<1> HIDE DEF c
<1>6. e = WinOf(x, y, wd, ht, v, cx, cy, bl, t, k, ls0)
  BY <1>5 DEF WinOf
<1> HIDE DEF e
<1>7. [e EXCEPT !.lines = ls] = WinOf(x, y, wd, ht, v, cx, cy, bl, t, k, ls)
  BY <1>6 DEF WinOf
<1> QED
  BY <1>2, <1>7 DEF WPlace, v, cx, cy, bl, t, k

(* A place for a window on a parent with h rows.                           *)
PlaceOK(pl, h) == /\ pl[1] \in Int /\ pl[2] \in Nat \ {0} /\ pl[3] \in Nat /\ pl[4] \in Nat
                  /\ pl[2] + pl[4] - 1 <= h

(* A window that lies there is on rows of the parent.                      *)
LEMMA PlaceWithin ==
  ASSUME NEW w, NEW h \in Nat, w.y \in Nat \ {0}, w.height \in Nat, w.y + w.height - 1 <= h
  PROVE  Within(w, h)
<1> DEFINE y == w.y  ht == w.height
<1>1. y \in Nat \ {0} /\ ht \in Nat /\ y + ht - 1 <= h
  OBVIOUS
<1> HIDE DEF y, ht
<1>2. \A n \in 1 .. ht : y + n - 1 \in 1 .. h
  BY <1>1
<1> QED
  BY <1>2 DEF Within, y, ht

(* window.reposition.                                                      *)
LEMMA RepositionIs ==
  ASSUME NEW d, NEW h \in Nat, Stands(d, h), NEW pl, PlaceOK(pl, h)
  PROVE  DrawnAs(U!reposition(d, pl[1], pl[2], pl[3], pl[4]),
                 WPlace(d.win, pl[1], pl[2], pl[3], pl[4], U!Resized(d.win, pl[3], pl[4])), d.par, h)
<1> DEFINE w == d.win  p == d.par  x == pl[1]  y == pl[2]  wd == pl[3]  ht == pl[4]  ls == U!Resized(w, wd, ht)
           u == WPlace(w, x, y, wd, ht, ls)
<1>1. d = On(w, p) /\ WinOK(w) /\ TermOK(p, h)
  BY StandsIs
<1>2. x \in Int /\ y \in Nat \ {0} /\ wd \in Nat /\ ht \in Nat /\ y + ht - 1 <= h
  BY DEF PlaceOK
<1> HIDE DEF w, p, x, y, wd, ht
<1>3. LinesOK(ls, wd, ht)
  BY <1>1, <1>2, ResizedOK
<1>4. SetPlace(w, x, y, wd, ht, ls) = u
  BY <1>1, PlaceReplaced
<1>5. U!reposition(d, x, y, wd, ht) = U!redraw([d EXCEPT !.win = SetPlace(w, x, y, wd, ht, ls)])
  BY DEF U!reposition, SetPlace, w
<1> HIDE DEF ls
<1>6. /\ u.y = y /\ u.height = ht
  BY WinOfFields DEF WPlace
<1>7. WinOK(u)
  <2>1. w.cx \in Int /\ w.cy \in Int /\ w.text \in WinColour /\ w.back \in WinColour /\ y \in Int
    BY <1>1, <1>2 DEF WinOK
  <2> QED
    BY <1>2, <1>3, <2>1, WinOfOK DEF WPlace
<1> HIDE DEF u
<1>8. [d EXCEPT !.win = u] = On(u, p)
  BY <1>1 DEF On
<1>9. Within(u, h)
  BY <1>2, <1>6, PlaceWithin
<1>10. DrawnAs(U!redraw(On(u, p)), u, p, h)
  BY <1>1, <1>7, <1>9, RedrawnIs DEF Drawable
<1>11. DrawnAs(U!reposition(d, x, y, wd, ht), u, p, h)
  BY <1>4, <1>5, <1>8, <1>10
<1> QED
  BY <1>11 DEF u, ls, w, p, x, y, wd, ht

(* A new terminal is one.                                                  *)
LEMMA NewTermOK ==
  ASSUME NEW W, NEW h \in Nat
  PROVE  TermOK(U!NewTerm(W, h), h)
<1> DEFINE cs == [n \in 1 .. h |-> U!EmptyLine(W, White, Black)]  off == FALSE  p == U!NewTerm(W, h)
<1>1. p = TermOf(cs, 1, 1, off, White, Black)
  BY DEF U!NewTerm, TermOf
<1>2. cs = [n \in 1 .. h |-> cs[n]]
  OBVIOUS
<1> HIDE DEF cs, p, off
<1>3. TermOK(p, h)
  BY <1>1, <1>2, TermOfOK
<1> QED
  BY <1>3 DEF p

(* window.create, on a new terminal.                                       *)
LEMMA CreateIs ==
  ASSUME NEW h \in Nat, NEW p, TermOK(p, h), NEW pl, PlaceOK(pl, h), NEW b
  PROVE  LET lines == [n \in 1 .. pl[4] |-> U!EmptyLine(pl[3], White, Black)]
             w == WinOf(pl[1], pl[2], pl[3], pl[4], b, 1, 1, FALSE, White, Black, lines)
         IN  /\ DrawnAs(U!create(p, pl[1], pl[2], pl[3], pl[4], b), w, p, h)
             /\ \A n \in 1 .. pl[4], c \in 1 .. pl[3] : lines[n][c] = <<Space, White, Black>>
<1> DEFINE x == pl[1]  y == pl[2]  wd == pl[3]  ht == pl[4]  e == U!EmptyLine(wd, White, Black)
           lines == [n \in 1 .. ht |-> e]  off == FALSE
           w == WinOf(x, y, wd, ht, b, 1, 1, off, White, Black, lines)
<1>1. x \in Int /\ y \in Nat \ {0} /\ wd \in Nat /\ ht \in Nat /\ y + ht - 1 <= h
  BY DEF PlaceOK
<1>2. White \in WinColour /\ Black \in WinColour
  BY DEF WinColour
<1> HIDE DEF x, y, wd, ht
<1>3. e \in Seq(WinCell) /\ Len(e) = wd /\ \A i \in 1 .. wd : e[i] = <<Space, White, Black>>
  BY <1>1, <1>2, EmptyLineIs
<1>4. U!create(p, x, y, wd, ht, b) = U!redraw(On(w, p))
  BY DEF U!create, On, WinOf
<1> HIDE DEF e
<1>6. LinesOK(lines, wd, ht) /\ \A n \in 1 .. ht, c \in 1 .. wd : lines[n][c] = <<Space, White, Black>>
  BY <1>3 DEF LinesOK
<1> HIDE DEF lines, off
<1>7. WinOK(w)
  <2>1. y \in Int /\ 1 \in Int
    BY <1>1
  <2> QED
    BY <1>1, <1>2, <1>6, <2>1, WinOfOK
<1>8. w.y = y /\ w.height = ht
  BY WinOfFields
<1> HIDE DEF w
<1>9. Within(w, h)
  BY <1>1, <1>8, PlaceWithin
<1>10. DrawnAs(U!redraw(On(w, p)), w, p, h)
  BY <1>7, <1>9, RedrawnIs DEF Drawable
<1>11. DrawnAs(U!create(p, x, y, wd, ht, b), w, p, h)
  BY <1>4, <1>10
<1> QED
  BY <1>6, <1>11 DEF w, lines, e, off, x, y, wd, ht

(* The window of the program stands, holds what was written, and while it  *)
(* is hidden its parent is as it was.                                      *)
UseHolds(z) ==
  /\ Stands(z.d, WindowScreen[2])
  /\ z.want = U!Cells(z.d.win)
  /\ ~z.d.win.visible => z.d.par = z.hidden

(* Cells are as the lines are.                                             *)
LEMMA CellsAre ==
  ASSUME NEW w
  PROVE  /\ DOMAIN U!Cells(w) = U!Grid(w)
         /\ \A n \in 1 .. w.height, c \in 1 .. w.width : <<n, c>> \in U!Grid(w) /\ U!Cells(w)[<<n, c>>] = w.lines[n][c]
         /\ \A at \in U!Grid(w) : at = <<at[1], at[2]>> /\ at[1] \in 1 .. w.height /\ at[2] \in 1 .. w.width
  BY DEF U!Cells, U!Grid

(* What holds the same cells is the same.                                  *)
LEMMA SameGrid ==
  ASSUME NEW w, NEW f, f = [at \in U!Grid(w) |-> f[at]],
         \A n \in 1 .. w.height, c \in 1 .. w.width : f[<<n, c>>] = w.lines[n][c]
  PROVE  f = U!Cells(w)
<1>1. ASSUME NEW at \in U!Grid(w) PROVE f[at] = w.lines[at[1]][at[2]]
  <2>1. at = <<at[1], at[2]>> /\ at[1] \in 1 .. w.height /\ at[2] \in 1 .. w.width
    BY CellsAre
  <2>2. f[<<at[1], at[2]>>] = w.lines[at[1]][at[2]]
    BY <2>1
  <2> QED
    BY <2>1, <2>2
<1> QED
  BY <1>1 DEF U!Cells

(* A call that draws the window keeps what holds.                          *)
LEMMA CallHolds ==
  ASSUME UseHolds(use), NEW r, NEW w, NEW want, DrawnAs(r, w, use.d.par, WindowScreen[2]), want = U!Cells(w), U!Called(r, want)
  PROVE  UseHolds(use')
<1> DEFINE hid == IF use.d.win.visible /\ ~r.win.visible THEN use.d.par ELSE use.hidden
<1>1. use' = [d |-> r, want |-> want, calls |-> use.calls + 1, hidden |-> hid]
  BY DEF U!Called
<1>2. use'.d = r /\ use'.want = want /\ use'.hidden = hid
  BY <1>1
<1>3. r.win = w /\ Stands(r, WindowScreen[2]) /\ (~r.win.visible => r.par = use.d.par)
  BY DEF DrawnAs
<1>4. ~r.win.visible => r.par = hid
  BY <1>3 DEF UseHolds
<1> QED
  BY <1>2, <1>3, <1>4 DEF UseHolds

(* A window with the same lines has the same cells.                        *)
LEMMA BodyCells ==
  ASSUME NEW u, NEW w, SameBody(u, w)
  PROVE  U!Cells(u) = U!Cells(w) /\ U!Grid(u) = U!Grid(w)
  BY DEF U!Cells, U!Grid, SameBody

(* What the program has written, cell by cell.                             *)
LEMMA WantIs ==
  ASSUME UseHolds(use)
  PROVE  /\ Stands(use.d, WindowScreen[2]) /\ WinOK(use.d.win) /\ use.want = U!Cells(use.d.win)
         /\ DOMAIN use.want = U!Grid(use.d.win)
         /\ \A n \in 1 .. use.d.win.height, c \in 1 .. use.d.win.width :
              <<n, c>> \in U!Grid(use.d.win) /\ use.want[<<n, c>>] = use.d.win.lines[n][c]
<1>1. Stands(use.d, WindowScreen[2]) /\ use.want = U!Cells(use.d.win)
  BY DEF UseHolds
<1>2. WinOK(use.d.win)
  BY <1>1, StandsIs
<1> QED
  BY <1>1, <1>2, CellsAre

(* Calls that leave the lines alone.                                       *)
LEMMA PlainCallHolds ==
  ASSUME UseHolds(use), NEW r, NEW w, DrawnAs(r, w, use.d.par, WindowScreen[2]), SameBody(w, use.d.win), U!Called(r, use.want)
  PROVE  UseHolds(use')
<1>1. use.want = U!Cells(w)
  BY WantIs, BodyCells
<1> QED
  BY <1>1, CallHolds

(* Calls that leave other lines of the same size.                          *)
LEMMA LinesCallHolds ==
  ASSUME UseHolds(use), NEW r, NEW w, NEW want, DrawnAs(r, w, use.d.par, WindowScreen[2]),
         w.width = use.d.win.width, w.height = use.d.win.height,
         want = [at \in DOMAIN use.want |-> want[at]],
         \A n \in 1 .. w.height, c \in 1 .. w.width : want[<<n, c>>] = w.lines[n][c],
         U!Called(r, want)
  PROVE  UseHolds(use')
<1>1. DOMAIN use.want = U!Grid(w)
  BY WantIs DEF U!Grid
<1>2. want = U!Cells(w)
  BY <1>1, SameGrid
<1> QED
  BY <1>2, CallHolds

(* window.write and window.blit.                                           *)
LEMMA BlitHolds ==
  ASSUME UseHolds(use), NEW text \in Seq(WinCell), U!Called(U!internalBlit(use.d, text), U!WithText(text))
  PROVE  UseHolds(use')
<1> DEFINE w == use.d.win  ls == PutLines(w, text)  u == WLines(w, ls)  v == WAt(u, w.cx + Len(text), u.cy)
           want == U!WithText(text)  r == U!internalBlit(use.d, text)
<1>1. /\ Stands(use.d, WindowScreen[2]) /\ WinOK(w) /\ DOMAIN use.want = U!Grid(w)
      /\ \A n \in 1 .. w.height, c \in 1 .. w.width : <<n, c>> \in U!Grid(w) /\ use.want[<<n, c>>] = w.lines[n][c]
  BY WantIs
<1>2. DrawnAs(r, v, use.d.par, WindowScreen[2])
  BY <1>1, InternalBlitIs
<1>3. \A n \in 1 .. w.height, c \in 1 .. w.width :
        ls[n][c] = IF n = w.cy /\ c - w.cx + 1 \in 1 .. Len(text) THEN text[c - w.cx + 1] ELSE w.lines[n][c]
  BY <1>1, PutLinesOK
<1>4. u.width = w.width /\ u.height = w.height /\ u.lines = ls
  BY WinOfFields DEF WLines
<1>5. v.width = u.width /\ v.height = u.height /\ v.lines = u.lines
  BY WinOfFields DEF WAt
<1>6. DOMAIN text = 1 .. Len(text)
  OBVIOUS
<1>7. /\ want = [at \in DOMAIN use.want |-> want[at]]
      /\ \A n \in 1 .. w.height, c \in 1 .. w.width :
           want[<<n, c>>] = IF n = w.cy /\ c - w.cx + 1 \in 1 .. Len(text) THEN text[c - w.cx + 1] ELSE w.lines[n][c]
  <2>1. want = [at \in DOMAIN use.want |->
           IF at[1] = w.cy /\ at[2] - w.cx + 1 \in DOMAIN text THEN text[at[2] - w.cx + 1] ELSE use.want[at]]
    BY DEF U!WithText, U!win
  <2> HIDE DEF w, want, ls, u, v, r
  <2>2. want = [at \in DOMAIN use.want |-> want[at]]
    BY <2>1
  <2>3. ASSUME NEW n \in 1 .. w.height, NEW c \in 1 .. w.width
        PROVE  want[<<n, c>>] = IF n = w.cy /\ c - w.cx + 1 \in 1 .. Len(text) THEN text[c - w.cx + 1] ELSE w.lines[n][c]
    <3>1. <<n, c>> \in DOMAIN use.want /\ use.want[<<n, c>>] = w.lines[n][c]
      BY <1>1
    <3> QED
      BY <1>6, <2>1, <3>1
  <2> QED
    BY <2>2, <2>3
<1>8. U!Called(r, want)
  OBVIOUS
<1> HIDE DEF r, want, v, u, ls
<1>9. ASSUME NEW n \in 1 .. v.height, NEW c \in 1 .. v.width PROVE want[<<n, c>>] = v.lines[n][c]
  <2>1. n \in 1 .. w.height /\ c \in 1 .. w.width /\ v.lines = ls
    BY <1>4, <1>5
  <2> HIDE DEF w
  <2>2. want[<<n, c>>] = ls[n][c]
    BY <1>3, <1>7, <2>1
  <2> QED
    BY <2>1, <2>2
<1> QED
  BY <1>2, <1>4, <1>5, <1>7, <1>8, <1>9, LinesCallHolds

(* The program's text, and the places of its windows.                      *)
LEMMA ProgramOK ==
  ASSUME NEW text \in WindowTexts, NEW fg \in WinColour, NEW bg \in WinColour
  PROVE  U!Coloured(text, fg, bg) \in Seq(WinCell)
<1>1. text \in Seq(STRING)
  BY WindowsAssumption
<1> QED
  BY <1>1, ColouredIs

(* A call that replaces the lines.                                         *)
LEMMA LinesHold ==
  ASSUME UseHolds(use), NEW r, NEW ls, NEW want, DrawnAs(r, WLines(use.d.win, ls), use.d.par, WindowScreen[2]),
         want = [at \in DOMAIN use.want |-> want[at]],
         \A n \in 1 .. use.d.win.height, c \in 1 .. use.d.win.width : want[<<n, c>>] = ls[n][c],
         U!Called(r, want)
  PROVE  UseHolds(use')
<1> DEFINE w == use.d.win  u == WLines(w, ls)
<1>1. u.width = w.width /\ u.height = w.height /\ u.lines = ls
  BY WinOfFields DEF WLines
<1>2. DrawnAs(r, u, use.d.par, WindowScreen[2])
  OBVIOUS
<1> HIDE DEF u
<1>3. \A n \in 1 .. u.height, c \in 1 .. u.width : want[<<n, c>>] = u.lines[n][c]
  BY <1>1
<1> QED
  BY <1>1, <1>2, <1>3, LinesCallHolds

(* window.clear.                                                           *)
LEMMA ClearHolds ==
  ASSUME UseHolds(use), U!Called(U!clear(use.d), [at \in DOMAIN use.want |-> U!Nothing(U!win.text)])
  PROVE  UseHolds(use')
<1> DEFINE w == use.d.win  ls == Cleared(w)  want == [at \in DOMAIN use.want |-> U!Nothing(U!win.text)]  r == U!clear(use.d)
<1>1. /\ Stands(use.d, WindowScreen[2]) /\ WinOK(w) /\ DOMAIN use.want = U!Grid(w)
      /\ \A n \in 1 .. w.height, c \in 1 .. w.width : <<n, c>> \in U!Grid(w)
  BY WantIs
<1>2. DrawnAs(r, WLines(w, ls), use.d.par, WindowScreen[2])
  BY <1>1, ClearIs
<1>3. \A i \in 1 .. w.width : NoText(w)[i] = <<Space, w.text, w.back>>
  <2>1. 0 \in Int
    OBVIOUS
  <2> QED
    BY <1>1, <2>1, ClearedOK
<1>4. \A n \in 1 .. w.height : ls[n] = NoText(w)
  BY DEF Cleared
<1>5. U!Nothing(U!win.text) = <<Space, w.text, w.back>>
  BY DEF U!Nothing, U!win
<1>6. want = [at \in DOMAIN use.want |-> want[at]] /\ U!Called(r, want)
  OBVIOUS
<1>7. \A n \in 1 .. w.height, c \in 1 .. w.width : want[<<n, c>>] = ls[n][c]
  <2> HIDE DEF ls, w
  <2> QED
    BY <1>1, <1>3, <1>4, <1>5
<1> HIDE DEF r, want, ls
<1> QED
  BY <1>2, <1>6, <1>7, LinesHold

(* window.clearLine.                                                       *)
LEMMA ClearLineHolds ==
  ASSUME UseHolds(use),
         U!Called(U!clearLine(use.d),
                  [at \in DOMAIN use.want |-> IF at[1] = U!win.cy THEN U!Nothing(U!win.text) ELSE use.want[at]])
  PROVE  UseHolds(use')
<1> DEFINE w == use.d.win  ls == LineCleared(w)  r == U!clearLine(use.d)
           want == [at \in DOMAIN use.want |-> IF at[1] = U!win.cy THEN U!Nothing(U!win.text) ELSE use.want[at]]
<1>1. /\ Stands(use.d, WindowScreen[2]) /\ WinOK(w) /\ DOMAIN use.want = U!Grid(w)
      /\ \A n \in 1 .. w.height, c \in 1 .. w.width : <<n, c>> \in U!Grid(w) /\ use.want[<<n, c>>] = w.lines[n][c]
  BY WantIs
<1>2. DOMAIN w.lines = 1 .. w.height /\ \A i \in 1 .. w.width : NoText(w)[i] = <<Space, w.text, w.back>>
  <2>1. 0 \in Int
    OBVIOUS
  <2> QED
    BY <1>1, <2>1, ClearedOK
<1>3. U!Nothing(U!win.text) = <<Space, w.text, w.back>> /\ U!win.cy = w.cy
  BY DEF U!Nothing, U!win
<1>4. want = [at \in DOMAIN use.want |-> want[at]] /\ U!Called(r, want)
  OBVIOUS
<1>5. \A n \in 1 .. w.height, c \in 1 .. w.width : want[<<n, c>>] = IF n = w.cy THEN <<Space, w.text, w.back>> ELSE w.lines[n][c]
  <2> HIDE DEF w, ls
  <2>1. ASSUME NEW n \in 1 .. w.height, NEW c \in 1 .. w.width
        PROVE  want[<<n, c>>] = IF n = w.cy THEN <<Space, w.text, w.back>> ELSE w.lines[n][c]
    <3>1. <<n, c>> \in DOMAIN use.want /\ use.want[<<n, c>>] = w.lines[n][c]
      BY <1>1
    <3> QED
      BY <1>3, <3>1
  <2> QED
    BY <2>1
<1> HIDE DEF want
<1>6. CASE w.cy \in 1 .. w.height
  <2>1. DrawnAs(r, WLines(w, ls), use.d.par, WindowScreen[2])
    BY <1>1, <1>6, ClearLineIs
  <2>2. \A n \in 1 .. w.height : ls[n] = IF n = w.cy THEN NoText(w) ELSE w.lines[n]
    BY <1>2 DEF LineCleared
  <2> HIDE DEF r, ls
  <2>3. ASSUME NEW n \in 1 .. w.height, NEW c \in 1 .. w.width PROVE want[<<n, c>>] = ls[n][c]
    <3> HIDE DEF w
    <3>1. CASE n = w.cy
      <4>1. ls[n] = NoText(w) /\ NoText(w)[c] = <<Space, w.text, w.back>>
        BY <1>2, <2>2, <3>1
      <4>2. want[<<n, c>>] = <<Space, w.text, w.back>>
        BY <1>5, <3>1
      <4> QED
        BY <4>1, <4>2
    <3>2. CASE n # w.cy
      BY <1>5, <2>2, <3>2
    <3> QED
      BY <3>1, <3>2
  <2> QED
    BY <1>4, <2>1, <2>3, LinesHold
<1>7. CASE w.cy \notin 1 .. w.height
  <2>1. r = use.d
    BY <1>1, <1>7, ClearLineIs
  <2>2. DrawnAs(r, w, use.d.par, WindowScreen[2])
    BY <1>1, <2>1, AroundSame DEF DrawnAs
  <2>3. \A n \in 1 .. w.height, c \in 1 .. w.width : want[<<n, c>>] = w.lines[n][c]
    BY <1>5, <1>7
  <2> HIDE DEF r
  <2> QED
    BY <1>4, <2>2, <2>3, LinesCallHolds
<1> QED
  BY <1>6, <1>7

(* window.scroll.                                                          *)
LEMMA ScrollHolds ==
  ASSUME UseHolds(use), NEW k \in Int,
         U!Called(U!scroll(use.d, k), [at \in DOMAIN use.want |->
           IF <<at[1] + k, at[2]>> \in DOMAIN use.want THEN use.want[<<at[1] + k, at[2]>>] ELSE U!Nothing(U!win.text)])
  PROVE  UseHolds(use')
<1> DEFINE w == use.d.win  ls == ScrolledBy(w, k)  r == U!scroll(use.d, k)  e == <<Space, w.text, w.back>>
           want == [at \in DOMAIN use.want |->
             IF <<at[1] + k, at[2]>> \in DOMAIN use.want THEN use.want[<<at[1] + k, at[2]>>] ELSE U!Nothing(U!win.text)]
<1>1. /\ Stands(use.d, WindowScreen[2]) /\ WinOK(w) /\ DOMAIN use.want = U!Grid(w)
      /\ \A n \in 1 .. w.height, c \in 1 .. w.width : <<n, c>> \in U!Grid(w) /\ use.want[<<n, c>>] = w.lines[n][c]
  BY WantIs
<1>2. \A n, c : <<n, c>> \in U!Grid(w) => n \in 1 .. w.height
  BY DEF U!Grid
<1>3. w.height \in Nat /\ \A i \in 1 .. w.width : NoText(w)[i] = e
  BY <1>1, ClearedOK DEF WinOK
<1>4. U!Nothing(U!win.text) = e
  BY DEF U!Nothing, U!win
<1>5. want = [at \in DOMAIN use.want |-> want[at]] /\ U!Called(r, want)
  OBVIOUS
<1> HIDE DEF e
<1>6. ASSUME NEW n \in 1 .. w.height, NEW c \in 1 .. w.width
      PROVE  want[<<n, c>>] = IF n + k \in 1 .. w.height THEN w.lines[n + k][c] ELSE e
  <2> HIDE DEF w
  <2>1. <<n, c>> \in DOMAIN use.want
    BY <1>1
  <2>2. want[<<n, c>>] = IF <<n + k, c>> \in DOMAIN use.want THEN use.want[<<n + k, c>>] ELSE e
    BY <1>4, <2>1
  <2> HIDE DEF want
  <2>3. CASE n + k \in 1 .. w.height
    BY <1>1, <2>2, <2>3
  <2>4. CASE n + k \notin 1 .. w.height
    BY <1>1, <1>2, <2>2, <2>4
  <2> QED
    BY <2>3, <2>4
<1> HIDE DEF want
<1>7. CASE k = 0
  <2>1. r = use.d
    BY <1>7 DEF U!scroll
  <2>2. DrawnAs(r, w, use.d.par, WindowScreen[2])
    BY <1>1, <2>1, AroundSame DEF DrawnAs
  <2>3. ASSUME NEW n \in 1 .. w.height, NEW c \in 1 .. w.width PROVE want[<<n, c>>] = w.lines[n][c]
    <3>1. n + k = n
      BY <1>7
    <3> QED
      BY <1>6, <3>1
  <2> HIDE DEF r
  <2> QED
    BY <1>5, <2>2, <2>3, LinesCallHolds
<1>8. CASE k # 0
  <2>1. DrawnAs(r, WLines(w, ls), use.d.par, WindowScreen[2])
    BY <1>1, <1>8, ScrollIs
  <2>2. \A n \in 1 .. w.height : ls[n] = IF n + k \in 1 .. w.height THEN w.lines[n + k] ELSE NoText(w)
    BY DEF ScrolledBy
  <2> HIDE DEF r, ls
  <2>3. ASSUME NEW n \in 1 .. w.height, NEW c \in 1 .. w.width PROVE want[<<n, c>>] = ls[n][c]
    <3>1. NoText(w)[c] = e
      BY <1>3
    <3>2. want[<<n, c>>] = IF n + k \in 1 .. w.height THEN w.lines[n + k][c] ELSE e
      BY <1>6
    <3>3. ls[n] = IF n + k \in 1 .. w.height THEN w.lines[n + k] ELSE NoText(w)
      BY <2>2
    <3> QED
      BY ONLY <3>1, <3>2, <3>3
  <2> QED
    BY <1>5, <2>1, <2>3, LinesHold
<1> QED
  BY <1>7, <1>8

(* window.reposition.                                                      *)
LEMMA RepositionHolds ==
  ASSUME UseHolds(use), NEW pl \in Places, NEW r, r = U!reposition(use.d, pl[1], pl[2], pl[3], pl[4]),
         U!Called(r, [at \in U!Grid(r.win) |-> IF at \in DOMAIN use.want THEN use.want[at] ELSE U!Nothing(U!win.text)])
  PROVE  UseHolds(use')
<1> DEFINE w == use.d.win  x == pl[1]  y == pl[2]  wd == pl[3]  ht == pl[4]  ls == U!Resized(w, wd, ht)
           u == WPlace(w, x, y, wd, ht, ls)  e == <<Space, w.text, w.back>>
           want == [at \in U!Grid(r.win) |-> IF at \in DOMAIN use.want THEN use.want[at] ELSE U!Nothing(U!win.text)]
<1>1. /\ Stands(use.d, WindowScreen[2]) /\ WinOK(w) /\ DOMAIN use.want = U!Grid(w)
      /\ \A n \in 1 .. w.height, c \in 1 .. w.width : <<n, c>> \in U!Grid(w) /\ use.want[<<n, c>>] = w.lines[n][c]
  BY WantIs
<1>2. PlaceOK(pl, WindowScreen[2]) /\ WindowScreen[2] \in Nat /\ wd \in Nat /\ ht \in Nat
  BY WindowsAssumption DEF PlaceOK
<1>3. DrawnAs(r, u, use.d.par, WindowScreen[2])
  BY <1>1, <1>2, RepositionIs
<1>4. \A n \in 1 .. ht, c \in 1 .. wd : ls[n][c] = IF n \in 1 .. w.height /\ c \in 1 .. w.width THEN w.lines[n][c] ELSE e
  <2> HIDE DEF ht, wd, w
  <2> QED
    BY <1>1, <1>2, ResizedOK
<1>5. u.width = wd /\ u.height = ht /\ u.lines = ls
  BY WinOfFields DEF WPlace
<1>6. U!Nothing(U!win.text) = e
  BY DEF U!Nothing, U!win
<1>7. \A n, c : <<n, c>> \in U!Grid(w) => n \in 1 .. w.height /\ c \in 1 .. w.width
  BY DEF U!Grid
<1> HIDE DEF w, ls, e, x, y, wd, ht, u
<1>8. r.win = u
  BY <1>3 DEF DrawnAs
<1>9. want = [at \in U!Grid(u) |-> want[at]]
  BY <1>8
<1>10. ASSUME NEW n \in 1 .. u.height, NEW c \in 1 .. u.width PROVE want[<<n, c>>] = u.lines[n][c]
  <2>1. n \in 1 .. ht /\ c \in 1 .. wd
    BY <1>5
  <2>2. <<n, c>> \in U!Grid(r.win)
    BY <1>8, CellsAre
  <2>3. want[<<n, c>>] = IF <<n, c>> \in U!Grid(w) THEN use.want[<<n, c>>] ELSE e
    BY <1>1, <1>6, <2>2
  <2>4. u.lines[n][c] = IF n \in 1 .. w.height /\ c \in 1 .. w.width THEN w.lines[n][c] ELSE e
    BY <1>4, <1>5, <2>1
  <2> HIDE DEF want
  <2>5. CASE n \in 1 .. w.height /\ c \in 1 .. w.width
    BY <1>1, <2>3, <2>4, <2>5
  <2>6. CASE ~(n \in 1 .. w.height /\ c \in 1 .. w.width)
    BY <1>7, <2>3, <2>4, <2>6
  <2> QED
    BY <2>5, <2>6
<1>11. U!Called(r, want)
  OBVIOUS
<1> HIDE DEF want
<1>12. want = U!Cells(u)
  BY <1>9, <1>10, SameGrid
<1> QED
  BY <1>3, <1>11, <1>12, CallHolds

(* The calls that only set something, and those that draw again.           *)
LEMMA SettingsHold ==
  ASSUME UseHolds(use), NEW x \in Int, NEW y \in Int, NEW c \in WinColour, NEW b
  PROVE  /\ U!Called(U!setCursorPos(use.d, x, y), use.want) => UseHolds(use')
         /\ U!Called(U!setCursorBlink(use.d, b), use.want) => UseHolds(use')
         /\ U!Called(U!setTextColor(use.d, c), use.want) => UseHolds(use')
         /\ U!Called(U!setBackgroundColor(use.d, c), use.want) => UseHolds(use')
         /\ U!Called(U!setVisible(use.d, b), use.want) => UseHolds(use')
         /\ U!Called(U!redraw(use.d), use.want) => UseHolds(use')
         /\ U!Called(U!restoreCursor(use.d), use.want) => UseHolds(use')
<1> DEFINE d == use.d  w == d.win  h == WindowScreen[2]
<1>1. Stands(d, h) /\ WinOK(w)
  BY WantIs
<1> HIDE DEF d, h
<1>2. /\ DrawnAs(U!setCursorPos(d, x, y), WAt(w, x, y), d.par, h)
      /\ DrawnAs(U!setCursorBlink(d, b), WBlink(w, b), d.par, h)
      /\ DrawnAs(U!setTextColor(d, c), WText(w, c), d.par, h)
      /\ DrawnAs(U!setBackgroundColor(d, c), WBack(w, c), d.par, h)
      /\ DrawnAs(U!setVisible(d, b), WSeen(w, b), d.par, h)
      /\ DrawnAs(U!redraw(d), w, d.par, h)
      /\ DrawnAs(U!restoreCursor(d), w, d.par, h)
  BY <1>1, SetCursorPosIs, SetCursorBlinkIs, SetTextColorIs, SetBackgroundColorIs, SetVisibleIs, DrawAgainIs
<1> HIDE DEF w
<1>3. /\ SameBody(WAt(w, x, y), w) /\ SameBody(WText(w, c), w) /\ SameBody(WBack(w, c), w)
  BY <1>1, OtherField
<1>4. SameBody(WBlink(w, b), w) /\ SameBody(WSeen(w, b), w) /\ SameBody(w, w)
  BY <1>1, OtherFlag DEF SameBody
<1> QED
  BY <1>2, <1>3, <1>4, PlainCallHolds DEF d, w, h

(* Whatever the program calls.                                             *)
LEMMA UseStep ==
  ASSUME UseHolds(use), U!Use
  PROVE  UseHolds(use')
<1>1. White \in WinColour /\ Black \in WinColour /\ {White, Black} = WinColour
  BY DEF WinColour
<1>2. /\ WinOK(use.d.win) /\ U!win = use.d.win
      /\ use.d.win.text \in WinColour /\ use.d.win.back \in WinColour /\ use.d.win.width \in Nat /\ use.d.win.height \in Nat
  BY WantIs DEF WinOK, U!win
<1>3. ASSUME NEW text \in WindowTexts, U!Called(U!write(use.d, text), U!WithText(U!Coloured(text, U!win.text, U!win.back)))
      PROVE  UseHolds(use')
  <2> DEFINE t == U!Coloured(text, use.d.win.text, use.d.win.back)
  <2>1. t \in Seq(WinCell)
    BY <1>2, ProgramOK
  <2>2. U!Called(U!internalBlit(use.d, t), U!WithText(t))
    BY <1>2, <1>3 DEF U!write
  <2> HIDE DEF t
  <2> QED
    BY <2>1, <2>2, BlitHolds
<1>4. ASSUME NEW text \in WindowTexts, NEW c \in WinColour,
             U!Called(U!blit(use.d, U!Coloured(text, c, White)), U!WithText(U!Coloured(text, c, White)))
      PROVE  UseHolds(use')
  <2> DEFINE t == U!Coloured(text, c, White)
  <2>1. t \in Seq(WinCell)
    BY <1>1, ProgramOK
  <2>2. U!Called(U!internalBlit(use.d, t), U!WithText(t))
    BY <1>4 DEF U!blit
  <2> HIDE DEF t
  <2> QED
    BY <2>1, <2>2, BlitHolds
<1>5. ASSUME U!Called(U!clear(use.d), [at \in DOMAIN use.want |-> U!Nothing(U!win.text)]) PROVE UseHolds(use')
  BY <1>5, ClearHolds
<1>6. ASSUME U!Called(U!clearLine(use.d),
               [at \in DOMAIN use.want |-> IF at[1] = U!win.cy THEN U!Nothing(U!win.text) ELSE use.want[at]])
      PROVE  UseHolds(use')
  BY <1>6, ClearLineHolds
<1>7. ASSUME NEW x \in -1 .. U!win.width + 1, NEW y \in 0 .. U!win.height + 1, U!Called(U!setCursorPos(use.d, x, y), use.want)
      PROVE  UseHolds(use')
  <2>1. x \in Int /\ y \in Int
    BY <1>2
  <2>2. \A b : UseHolds(use')
    BY <1>1, <1>7, <2>1, SettingsHold
  <2> QED
    BY <2>2
<1>8. ASSUME NEW b \in BOOLEAN, U!Called(U!setCursorBlink(use.d, b), use.want) \/ U!Called(U!setVisible(use.d, b), use.want)
      PROVE  UseHolds(use')
  <2>1. 0 \in Int
    OBVIOUS
  <2> QED
    BY <1>1, <1>8, <2>1, SettingsHold
<1>9. ASSUME NEW c \in WinColour, U!Called(U!setTextColor(use.d, c), use.want) \/ U!Called(U!setBackgroundColor(use.d, c), use.want)
      PROVE  UseHolds(use')
  <2>1. 0 \in Int
    OBVIOUS
  <2>2. \A b : UseHolds(use')
    BY <1>9, <2>1, SettingsHold
  <2> QED
    BY <2>2
<1>10. ASSUME NEW k \in {-1, 0, 1},
              U!Called(U!scroll(use.d, k), [at \in DOMAIN use.want |->
                IF <<at[1] + k, at[2]>> \in DOMAIN use.want THEN use.want[<<at[1] + k, at[2]>>] ELSE U!Nothing(U!win.text)])
       PROVE  UseHolds(use')
  <2>1. k \in Int
    OBVIOUS
  <2> QED
    BY <1>10, <2>1, ScrollHolds
<1>11. ASSUME U!Called(U!redraw(use.d), use.want) \/ U!Called(U!restoreCursor(use.d), use.want) PROVE UseHolds(use')
  <2>1. 0 \in Int
    OBVIOUS
  <2>2. \A b : UseHolds(use')
    BY <1>1, <1>11, <2>1, SettingsHold
  <2> QED
    BY <2>2
<1>12. ASSUME NEW pl \in Places,
              LET new == U!reposition(use.d, pl[1], pl[2], pl[3], pl[4])
              IN U!Called(new, [at \in U!Grid(new.win) |-> IF at \in DOMAIN use.want THEN use.want[at] ELSE U!Nothing(U!win.text)])
       PROVE  UseHolds(use')
  <2> DEFINE r == U!reposition(use.d, pl[1], pl[2], pl[3], pl[4])
  <2>1. U!Called(r, [at \in U!Grid(r.win) |-> IF at \in DOMAIN use.want THEN use.want[at] ELSE U!Nothing(U!win.text)])
    BY <1>12
  <2>2. r = U!reposition(use.d, pl[1], pl[2], pl[3], pl[4])
    OBVIOUS
  <2> HIDE DEF r
  <2> QED
    BY <2>1, <2>2, RepositionHolds
<1> QED
  BY <1>1, <1>3, <1>4, <1>5, <1>6, <1>7, <1>8, <1>9, <1>10, <1>11, <1>12 DEF U!Use

(* A new window is empty, and stands.                                      *)
LEMMA UseStarts ==
  ASSUME U!UseInit
  PROVE  UseHolds(use)
<1>1. PICK pl \in Places, b \in BOOLEAN :
        use = U!Start(U!create(U!NewTerm(WindowScreen[1], WindowScreen[2]), pl[1], pl[2], pl[3], pl[4], b))
  BY DEF U!UseInit
<1> DEFINE h == WindowScreen[2]  p == U!NewTerm(WindowScreen[1], h)  r == U!create(p, pl[1], pl[2], pl[3], pl[4], b)
           lines == [n \in 1 .. pl[4] |-> U!EmptyLine(pl[3], White, Black)]
           w == WinOf(pl[1], pl[2], pl[3], pl[4], b, 1, 1, FALSE, White, Black, lines)
           want == [at \in U!Grid(r.win) |-> <<Space, White, Black>>]
<1>2. PlaceOK(pl, h) /\ h \in Nat
  BY WindowsAssumption DEF PlaceOK
<1>3. DrawnAs(r, w, p, h) /\ \A n \in 1 .. pl[4], c \in 1 .. pl[3] : lines[n][c] = <<Space, White, Black>>
  BY <1>2, NewTermOK, CreateIs
<1>4. w.width = pl[3] /\ w.height = pl[4] /\ w.lines = lines
  <2> HIDE DEF lines
  <2> QED
    BY DEF WinOf
<1>5. use = [d |-> r, want |-> want, hidden |-> r.par, calls |-> 0]
  BY <1>1 DEF U!Start
<1> HIDE DEF w, lines, r, p, h
<1>6. r.win = w /\ Stands(r, h)
  BY <1>3 DEF DrawnAs
<1>7. want = [at \in U!Grid(w) |-> want[at]]
  BY <1>6
<1>8. ASSUME NEW n \in 1 .. w.height, NEW c \in 1 .. w.width PROVE want[<<n, c>>] = w.lines[n][c]
  <2>1. <<n, c>> \in U!Grid(r.win)
    BY <1>6, CellsAre
  <2> QED
    BY <1>3, <1>4, <2>1
<1> HIDE DEF want
<1>9. want = U!Cells(w)
  BY <1>7, <1>8, SameGrid
<1>10. use.d = r /\ use.want = want /\ use.hidden = r.par
  BY <1>5
<1> QED
  BY <1>6, <1>9, <1>10 DEF UseHolds, h

(* What holds is what the property says.                                   *)
LEMMA HeldIs ==
  ASSUME UseHolds(use)
  PROVE  U!WindowHolds
<1>1. /\ Stands(use.d, WindowScreen[2]) /\ WinOK(use.d.win) /\ use.want = U!Cells(use.d.win)
  BY WantIs
<1>2. LinesOK(use.d.win.lines, use.d.win.width, use.d.win.height)
  BY <1>1 DEF WinOK
<1>3. \A n \in DOMAIN use.d.win.lines : Len(use.d.win.lines[n]) = use.d.win.width
  BY <1>2 DEF LinesOK
<1>4. use.d.win.visible => U!LinesShown(use.d.win, use.d.par) /\ U!CursorShown(use.d.win, use.d.par)
  BY <1>1, LinesShownIs DEF Stands, IsShown
<1>5. ~use.d.win.visible => use.d.par = use.hidden
  BY DEF UseHolds
<1> QED
  BY <1>1, <1>3, <1>4, <1>5 DEF U!WindowHolds, U!win

UseInv == use # Off => UseHolds(use)

(* Whatever functions a program calls, in any order, its window holds what *)
(* was written on it, clipped at its border, the parent shows it and its   *)
(* cursor while it is visible, and is left alone while it is not           *)
(* (window.lua), for every size, place and text.                           *)
THEOREM WindowIsHeld == DesktopSpec => [](use # Off => U!WindowHolds)
<1>1. DesktopInit => UseInv
  BY UseStarts DEF DesktopInit, UseInv
<1>2. UseInv /\ [DesktopNext]_<<vars, scripts>> => UseInv'
  <2> SUFFICES ASSUME UseInv, [DesktopNext]_<<vars, scripts>> PROVE UseInv'
    OBVIOUS
  <2>1. CASE use # Off /\ U!Use
    <3>1. UseHolds(use)
      BY <2>1 DEF UseInv
    <3>2. UseHolds(use')
      BY <2>1, <3>1, UseStep
    <3> QED
      BY <3>2 DEF UseInv
  <2>2. CASE use' = use
    BY <2>2 DEF UseInv
  <2>3. (use # Off /\ U!Use) \/ use' = use
    BY DEF DesktopNext, scripts
  <2> QED
    BY <2>1, <2>2, <2>3
<1>3. UseInv => (use # Off => U!WindowHolds)
  BY HeldIs DEF UseInv
<1> QED
  BY <1>1, <1>2, <1>3, PTL DEF DesktopSpec

-----------------------------------------------------------------------------
(* Multishell.  Its windows are the same windows.                          *)

(* How it draws on its parent.                                             *)
LEMMA SameDrawing ==
  /\ \A p, x, y : M!term_setCursorPos(p, x, y) = U!term_setCursorPos(p, x, y)
  /\ \A p, line : M!term_blit(p, line) = U!term_blit(p, line)
  /\ \A d, n : M!redrawLine(d, n) = U!redrawLine(d, n)
  /\ \A d : M!redrawLines(d) = U!redrawLines(d)
  /\ \A d, e : M!IfVisible(d, e) = U!IfVisible(d, e)
  /\ \A d : M!restoreCursor(d) = U!restoreCursor(d)
  /\ \A d : M!redraw(d) = U!redraw(d)
  /\ \A d : M!WithCursor(d) = U!WithCursor(d)
  /\ \A d : M!updateCursorPos(d) = U!updateCursorPos(d)
  /\ \A d : M!updateCursorBlink(d) = U!updateCursorBlink(d)
<1>1. \A p, x, y : M!term_setCursorPos(p, x, y) = U!term_setCursorPos(p, x, y)
  BY DEF M!term_setCursorPos, U!term_setCursorPos
<1>2. \A p, line : M!term_blit(p, line) = U!term_blit(p, line)
  BY DEF M!term_blit, U!term_blit
<1>3. \A d, n : M!redrawLine(d, n) = U!redrawLine(d, n)
  BY <1>1, <1>2 DEF M!redrawLine, U!redrawLine
<1>4. \A d : M!redrawLines(d) = U!redrawLines(d)
  BY <1>3 DEF M!redrawLines, U!redrawLines
<1>5. \A d, e : M!IfVisible(d, e) = U!IfVisible(d, e)
  BY DEF M!IfVisible, U!IfVisible
<1>6. \A d : M!updateCursorPos(d) = U!updateCursorPos(d)
  BY <1>1 DEF M!updateCursorPos, U!updateCursorPos
<1>7. \A d : M!updateCursorBlink(d) = U!updateCursorBlink(d)
  BY DEF M!updateCursorBlink, U!updateCursorBlink
<1>8. \A d : M!updateCursorColor(d) = U!updateCursorColor(d)
  BY DEF M!updateCursorColor, U!updateCursorColor
<1>9. \A d : M!restoreCursor(d) = U!restoreCursor(d)
  BY <1>5, <1>6, <1>7, <1>8 DEF M!restoreCursor, U!restoreCursor
<1>10. \A d : M!redraw(d) = U!redraw(d)
  BY <1>4, <1>5, <1>9 DEF M!redraw, U!redraw
<1>11. \A d : M!WithCursor(d) = U!WithCursor(d)
  BY <1>6, <1>8 DEF M!WithCursor, U!WithCursor
<1> QED
  BY <1>1, <1>2, <1>3, <1>4, <1>5, <1>6, <1>7, <1>9, <1>10, <1>11

(* The functions of a window that multishell and its programs call.        *)
LEMMA SameFunctions ==
  /\ \A d, x, y : M!setCursorPos(d, x, y) = U!setCursorPos(d, x, y)
  /\ \A d, b : M!setCursorBlink(d, b) = U!setCursorBlink(d, b)
  /\ \A d, b : M!setVisible(d, b) = U!setVisible(d, b)
  /\ \A d, n : M!scroll(d, n) = U!scroll(d, n)
  /\ \A d, text : M!write(d, text) = U!write(d, text)
  /\ \A d, x, y, w, h : M!reposition(d, x, y, w, h) = U!reposition(d, x, y, w, h)
  /\ \A p, x, y, w, h, b : M!create(p, x, y, w, h, b) = U!create(p, x, y, w, h, b)
  /\ \A w, h : M!NewTerm(w, h) = U!NewTerm(w, h)
<1>1. \A d, x, y : M!setCursorPos(d, x, y) = U!setCursorPos(d, x, y)
  BY SameDrawing DEF M!setCursorPos, U!setCursorPos
<1>2. \A d, b : M!setCursorBlink(d, b) = U!setCursorBlink(d, b)
  BY SameDrawing DEF M!setCursorBlink, U!setCursorBlink
<1>3. \A d, b : M!setVisible(d, b) = U!setVisible(d, b)
  BY SameDrawing DEF M!setVisible, U!setVisible
<1>4. \A w, f, g : M!EmptyLine(w, f, g) = U!EmptyLine(w, f, g)
  BY DEF M!EmptyLine, U!EmptyLine
<1>5. \A d : M!Empty(d) = U!Empty(d)
  BY <1>4 DEF M!Empty, U!Empty
<1>6. \A d, n : M!scroll(d, n) = U!scroll(d, n)
  BY <1>5, SameDrawing DEF M!scroll, U!scroll
<1>7. \A s, i, j : M!sub(s, i, j) = U!sub(s, i, j)
  BY DEF M!sub, U!sub
<1>8. \A text, n, w : M!Clipped(text, n, w) = U!Clipped(text, n, w)
  BY <1>7 DEF M!Clipped, U!Clipped
<1>9. \A old, text, n, w : M!Spliced(old, text, n, w) = U!Spliced(old, text, n, w)
  BY <1>7, <1>8 DEF M!Spliced, U!Spliced
<1>10. ASSUME NEW d, NEW text PROVE M!internalBlit(d, text) = U!internalBlit(d, text)
  <2> DEFINE w == d.win  x == w.cx + Len(text) - 1 + 1
             putM == [d EXCEPT !.win.lines[w.cy] = M!Spliced(d.win.lines[w.cy], text, w.cx, w.width)]
             putU == [d EXCEPT !.win.lines[w.cy] = U!Spliced(d.win.lines[w.cy], text, w.cx, w.width)]
             drawnM == IF Hit(w, text) THEN M!IfVisible(putM, M!redrawLine(putM, w.cy)) ELSE d
             drawnU == IF Hit(w, text) THEN U!IfVisible(putU, U!redrawLine(putU, w.cy)) ELSE d
  <2>1. putM = putU
    BY <1>9
  <2>2. M!internalBlit(d, text) = M!IfVisible(SetCx(drawnM, x), M!WithCursor(SetCx(drawnM, x)))
    BY DEF M!internalBlit, SetCx, Hit
  <2>3. U!internalBlit(d, text) = U!IfVisible(SetCx(drawnU, x), U!WithCursor(SetCx(drawnU, x)))
    BY DEF U!internalBlit, SetCx, Hit
  <2> HIDE DEF putM, putU, x, w
  <2>4. drawnM = drawnU
    BY <2>1, SameDrawing
  <2> HIDE DEF drawnM, drawnU
  <2> QED
    BY <2>2, <2>3, <2>4, SameDrawing
<1>11. \A text, f, g : M!Coloured(text, f, g) = U!Coloured(text, f, g)
  BY DEF M!Coloured, U!Coloured
<1>12. \A d, text : M!write(d, text) = U!write(d, text)
  BY <1>10, <1>11 DEF M!write, U!write
<1>13. \A w, wd, ht : M!Resized(w, wd, ht) = U!Resized(w, wd, ht)
  BY <1>4, <1>7 DEF M!Resized, U!Resized
<1>14. \A d, x, y, w, h : M!reposition(d, x, y, w, h) = U!reposition(d, x, y, w, h)
  BY <1>13, SameDrawing DEF M!reposition, U!reposition
<1>15. ASSUME NEW p, NEW x, NEW y, NEW w, NEW h, NEW b PROVE M!create(p, x, y, w, h, b) = U!create(p, x, y, w, h, b)
  <2> DEFINE linesM == [n \in 1 .. h |-> M!EmptyLine(w, White, Black)]
             linesU == [n \in 1 .. h |-> U!EmptyLine(w, White, Black)]
             New(lines) == [win |-> WinOf(x, y, w, h, b, 1, 1, FALSE, White, Black, lines), par |-> p]
  <2>1. linesM = linesU
    BY <1>4
  <2>2. M!create(p, x, y, w, h, b) = M!redraw(New(linesM))
    BY DEF M!create, WinOf
  <2>3. U!create(p, x, y, w, h, b) = U!redraw(New(linesU))
    BY DEF U!create, WinOf
  <2> HIDE DEF linesM, linesU, New
  <2> QED
    BY <2>1, <2>2, <2>3, SameDrawing
<1>16. \A w, h : M!NewTerm(w, h) = U!NewTerm(w, h)
  BY <1>4 DEF M!NewTerm, U!NewTerm
<1> QED
  BY <1>1, <1>2, <1>3, <1>6, <1>12, <1>14, <1>15, <1>16

(* What is shown of a window.                                              *)
LEMMA SameShown ==
  ASSUME NEW w, NEW p
  PROVE  (M!LinesShown(w, p) <=> U!LinesShown(w, p)) /\ (M!CursorShown(w, p) <=> U!CursorShown(w, p))
<1>1. M!Cursor(w) = U!Cursor(w)
  BY DEF M!Cursor, U!Cursor
<1> QED
  BY <1>1 DEF M!LinesShown, U!LinesShown, M!CursorShown, U!CursorShown

-----------------------------------------------------------------------------
(* The state of multishell as a record, and one field of it replaced.      *)

ShOf(tps, proc, front, run, menu, resized, par, cur, stack, loop, slipped) ==
  [tProcesses |-> tps, proc |-> proc, nCurrentProcess |-> front, nRunningProcess |-> run, bShowMenu |-> menu,
   bWindowsResized |-> resized, par |-> par, current |-> cur, stack |-> stack, loop |-> loop, slipped |-> slipped]

IsSh(s) ==
  s = ShOf(s.tProcesses, s.proc, s.nCurrentProcess, s.nRunningProcess, s.bShowMenu, s.bWindowsResized, s.par,
           s.current, s.stack, s.loop, s.slipped)

PutTasks(s, v) == [s EXCEPT !.tProcesses = v]
PutProc(s, v) == [s EXCEPT !.proc = v]
PutFront(s, v) == [s EXCEPT !.nCurrentProcess = v]
PutRun(s, v) == [s EXCEPT !.nRunningProcess = v]
PutMenu(s, v) == [s EXCEPT !.bShowMenu = v]
PutResized(s, v) == [s EXCEPT !.bWindowsResized = v]
PutPar(s, v) == [s EXCEPT !.par = v]
PutCurrent(s, v) == [s EXCEPT !.current = v]
PutStack(s, v) == [s EXCEPT !.stack = v]
PutLoop(s, v) == [s EXCEPT !.loop = v]
PutSlipped(s, v) == [s EXCEPT !.slipped = v]

(* Who runs, and what is on the screen.                                    *)
SameRuns(r, s) ==
  /\ r.nRunningProcess = s.nRunningProcess /\ r.current = s.current /\ r.stack = s.stack /\ r.loop = s.loop
SameScreen(r, s) == r.nCurrentProcess = s.nCurrentProcess /\ r.bShowMenu = s.bShowMenu /\ r.par = s.par
SameList(r, s) == r.tProcesses = s.tProcesses /\ r.slipped = s.slipped

(* Its fields.                                                             *)
LEMMA ShFields ==
  ASSUME NEW a, NEW b, NEW c, NEW d, NEW e, NEW f, NEW g, NEW h, NEW i, NEW j, NEW k
  PROVE  LET s == ShOf(a, b, c, d, e, f, g, h, i, j, k)
         IN  /\ s.tProcesses = a /\ s.proc = b /\ s.nCurrentProcess = c /\ s.nRunningProcess = d /\ s.bShowMenu = e
             /\ s.bWindowsResized = f /\ s.par = g /\ s.current = h /\ s.stack = i /\ s.loop = j /\ s.slipped = k
  BY DEF ShOf

(* A record of such fields is one.                                         *)
LEMMA ShOfIs ==
  ASSUME NEW a, NEW b, NEW c, NEW d, NEW e, NEW f, NEW g, NEW h, NEW i, NEW j, NEW k
  PROVE  IsSh(ShOf(a, b, c, d, e, f, g, h, i, j, k))
<1> DEFINE s == ShOf(a, b, c, d, e, f, g, h, i, j, k)
<1>1. /\ s.tProcesses = a /\ s.proc = b /\ s.nCurrentProcess = c /\ s.nRunningProcess = d /\ s.bShowMenu = e
      /\ s.bWindowsResized = f /\ s.par = g /\ s.current = h /\ s.stack = i /\ s.loop = j /\ s.slipped = k
  BY ShFields
<1> HIDE DEF s
<1>2. IsSh(s)
  BY <1>1 DEF IsSh, s
<1> QED
  BY <1>2 DEF s

(* One field of explicit ones replaced.                                    *)
LEMMA ShReplaced ==
  ASSUME NEW a, NEW b, NEW c, NEW d, NEW e, NEW f, NEW g, NEW h, NEW i, NEW j, NEW k, NEW v
  PROVE  LET s == ShOf(a, b, c, d, e, f, g, h, i, j, k)
         IN  /\ PutTasks(s, v) = ShOf(v, b, c, d, e, f, g, h, i, j, k)
             /\ PutProc(s, v) = ShOf(a, v, c, d, e, f, g, h, i, j, k)
             /\ PutFront(s, v) = ShOf(a, b, v, d, e, f, g, h, i, j, k)
             /\ PutRun(s, v) = ShOf(a, b, c, v, e, f, g, h, i, j, k)
             /\ PutMenu(s, v) = ShOf(a, b, c, d, v, f, g, h, i, j, k)
             /\ PutResized(s, v) = ShOf(a, b, c, d, e, v, g, h, i, j, k)
             /\ PutPar(s, v) = ShOf(a, b, c, d, e, f, v, h, i, j, k)
             /\ PutCurrent(s, v) = ShOf(a, b, c, d, e, f, g, v, i, j, k)
             /\ PutStack(s, v) = ShOf(a, b, c, d, e, f, g, h, v, j, k)
             /\ PutLoop(s, v) = ShOf(a, b, c, d, e, f, g, h, i, v, k)
             /\ PutSlipped(s, v) = ShOf(a, b, c, d, e, f, g, h, i, j, v)
<1> DEFINE s == ShOf(a, b, c, d, e, f, g, h, i, j, k)
<1>1. PutTasks(s, v) = ShOf(v, b, c, d, e, f, g, h, i, j, k)
  BY DEF PutTasks, ShOf
<1>2. PutProc(s, v) = ShOf(a, v, c, d, e, f, g, h, i, j, k)
  BY DEF PutProc, ShOf
<1>3. PutFront(s, v) = ShOf(a, b, v, d, e, f, g, h, i, j, k)
  BY DEF PutFront, ShOf
<1>4. PutRun(s, v) = ShOf(a, b, c, v, e, f, g, h, i, j, k)
  BY DEF PutRun, ShOf
<1>5. PutMenu(s, v) = ShOf(a, b, c, d, v, f, g, h, i, j, k)
  BY DEF PutMenu, ShOf
<1>6. PutResized(s, v) = ShOf(a, b, c, d, e, v, g, h, i, j, k)
  BY DEF PutResized, ShOf
<1>7. PutPar(s, v) = ShOf(a, b, c, d, e, f, v, h, i, j, k)
  BY DEF PutPar, ShOf
<1>8. PutCurrent(s, v) = ShOf(a, b, c, d, e, f, g, v, i, j, k)
  BY DEF PutCurrent, ShOf
<1>9. PutStack(s, v) = ShOf(a, b, c, d, e, f, g, h, v, j, k)
  BY DEF PutStack, ShOf
<1>10. PutLoop(s, v) = ShOf(a, b, c, d, e, f, g, h, i, v, k)
  BY DEF PutLoop, ShOf
<1>11. PutSlipped(s, v) = ShOf(a, b, c, d, e, f, g, h, i, j, v)
  BY DEF PutSlipped, ShOf
<1> QED
  BY <1>1, <1>2, <1>3, <1>4, <1>5, <1>6, <1>7, <1>8, <1>9, <1>10, <1>11

(* What replacing a field leaves alone: the fields of the screen.          *)
LEMMA PutsScreen ==
  ASSUME NEW s, IsSh(s), NEW v
  PROVE  /\ LET r == PutProc(s, v) IN IsSh(r) /\ r.proc = v /\ SameList(r, s) /\ SameRuns(r, s) /\ SameScreen(r, s)
         /\ LET r == PutFront(s, v) IN /\ IsSh(r) /\ r.nCurrentProcess = v /\ SameList(r, s) /\ SameRuns(r, s)
                                       /\ r.proc = s.proc /\ r.par = s.par /\ r.bShowMenu = s.bShowMenu
         /\ LET r == PutMenu(s, v) IN /\ IsSh(r) /\ r.bShowMenu = v /\ SameList(r, s) /\ SameRuns(r, s)
                                      /\ r.proc = s.proc /\ r.par = s.par /\ r.nCurrentProcess = s.nCurrentProcess
         /\ LET r == PutPar(s, v) IN /\ IsSh(r) /\ r.par = v /\ SameList(r, s) /\ SameRuns(r, s)
                                     /\ r.proc = s.proc /\ r.bShowMenu = s.bShowMenu /\ r.nCurrentProcess = s.nCurrentProcess
         /\ LET r == PutResized(s, v) IN IsSh(r) /\ r.proc = s.proc /\ SameList(r, s) /\ SameRuns(r, s) /\ SameScreen(r, s)
<1> DEFINE a == s.tProcesses  b == s.proc  c == s.nCurrentProcess  d == s.nRunningProcess  e == s.bShowMenu
           f == s.bWindowsResized  g == s.par  h == s.current  i == s.stack  j == s.loop  k == s.slipped
<1>1. s = ShOf(a, b, c, d, e, f, g, h, i, j, k)
  BY DEF IsSh
<1> DEFINE p == ShOf(a, v, c, d, e, f, g, h, i, j, k)  fr == ShOf(a, b, v, d, e, f, g, h, i, j, k)
           m == ShOf(a, b, c, d, v, f, g, h, i, j, k)  re == ShOf(a, b, c, d, e, v, g, h, i, j, k)
           t == ShOf(a, b, c, d, e, f, v, h, i, j, k)
<1>2. PutProc(s, v) = p /\ PutFront(s, v) = fr /\ PutMenu(s, v) = m /\ PutResized(s, v) = re /\ PutPar(s, v) = t
  <2> HIDE DEF a, b, c, d, e, f, g, h, i, j, k
  <2> QED
    BY <1>1, ShReplaced
<1>3. IsSh(p) /\ p.proc = v /\ SameList(p, s) /\ SameRuns(p, s) /\ SameScreen(p, s)
  BY ShFields, ShOfIs DEF SameList, SameRuns, SameScreen
<1>4. /\ IsSh(fr) /\ fr.nCurrentProcess = v /\ SameList(fr, s) /\ SameRuns(fr, s)
      /\ fr.proc = s.proc /\ fr.par = s.par /\ fr.bShowMenu = s.bShowMenu
  BY ShFields, ShOfIs DEF SameList, SameRuns, SameScreen
<1>5. /\ IsSh(m) /\ m.bShowMenu = v /\ SameList(m, s) /\ SameRuns(m, s)
      /\ m.proc = s.proc /\ m.par = s.par /\ m.nCurrentProcess = s.nCurrentProcess
  BY ShFields, ShOfIs DEF SameList, SameRuns, SameScreen
<1>6. /\ IsSh(t) /\ t.par = v /\ SameList(t, s) /\ SameRuns(t, s)
      /\ t.proc = s.proc /\ t.bShowMenu = s.bShowMenu /\ t.nCurrentProcess = s.nCurrentProcess
  BY ShFields, ShOfIs DEF SameList, SameRuns, SameScreen
<1>7. IsSh(re) /\ re.proc = s.proc /\ SameList(re, s) /\ SameRuns(re, s) /\ SameScreen(re, s)
  BY ShFields, ShOfIs DEF SameList, SameRuns, SameScreen
<1> HIDE DEF p, fr, m, re, t
<1> QED
  BY <1>2, <1>3, <1>4, <1>5, <1>6, <1>7

(* The fields of who runs.                                                 *)
LEMMA PutsRuns ==
  ASSUME NEW s, IsSh(s), NEW v
  PROVE  /\ LET r == PutTasks(s, v) IN /\ IsSh(r) /\ r.tProcesses = v /\ r.slipped = s.slipped
                                       /\ SameRuns(r, s) /\ SameScreen(r, s) /\ r.proc = s.proc
         /\ LET r == PutSlipped(s, v) IN /\ IsSh(r) /\ r.slipped = v /\ r.tProcesses = s.tProcesses
                                         /\ SameRuns(r, s) /\ SameScreen(r, s) /\ r.proc = s.proc
         /\ LET r == PutRun(s, v) IN /\ IsSh(r) /\ r.nRunningProcess = v /\ SameList(r, s) /\ SameScreen(r, s)
                                     /\ r.proc = s.proc /\ r.current = s.current /\ r.stack = s.stack /\ r.loop = s.loop
         /\ LET r == PutCurrent(s, v) IN /\ IsSh(r) /\ r.current = v /\ SameList(r, s) /\ SameScreen(r, s) /\ r.proc = s.proc
                                         /\ r.nRunningProcess = s.nRunningProcess /\ r.stack = s.stack /\ r.loop = s.loop
         /\ LET r == PutStack(s, v) IN /\ IsSh(r) /\ r.stack = v /\ SameList(r, s) /\ SameScreen(r, s) /\ r.proc = s.proc
                                       /\ r.nRunningProcess = s.nRunningProcess /\ r.current = s.current /\ r.loop = s.loop
         /\ LET r == PutLoop(s, v) IN /\ IsSh(r) /\ r.loop = v /\ SameList(r, s) /\ SameScreen(r, s) /\ r.proc = s.proc
                                      /\ r.nRunningProcess = s.nRunningProcess /\ r.current = s.current /\ r.stack = s.stack
<1> DEFINE a == s.tProcesses  b == s.proc  c == s.nCurrentProcess  d == s.nRunningProcess  e == s.bShowMenu
           f == s.bWindowsResized  g == s.par  h == s.current  i == s.stack  j == s.loop  k == s.slipped
<1>1. s = ShOf(a, b, c, d, e, f, g, h, i, j, k)
  BY DEF IsSh
<1> DEFINE t == ShOf(v, b, c, d, e, f, g, h, i, j, k)  sl == ShOf(a, b, c, d, e, f, g, h, i, j, v)
           ru == ShOf(a, b, c, v, e, f, g, h, i, j, k)  cu == ShOf(a, b, c, d, e, f, g, v, i, j, k)
           st == ShOf(a, b, c, d, e, f, g, h, v, j, k)  lo == ShOf(a, b, c, d, e, f, g, h, i, v, k)
<1>2. /\ PutTasks(s, v) = t /\ PutSlipped(s, v) = sl /\ PutRun(s, v) = ru /\ PutCurrent(s, v) = cu
      /\ PutStack(s, v) = st /\ PutLoop(s, v) = lo
  <2> HIDE DEF a, b, c, d, e, f, g, h, i, j, k
  <2> QED
    BY <1>1, ShReplaced
<1>3. IsSh(t) /\ t.tProcesses = v /\ t.slipped = s.slipped /\ SameRuns(t, s) /\ SameScreen(t, s) /\ t.proc = s.proc
  BY ShFields, ShOfIs DEF SameList, SameRuns, SameScreen
<1>4. IsSh(sl) /\ sl.slipped = v /\ sl.tProcesses = s.tProcesses /\ SameRuns(sl, s) /\ SameScreen(sl, s) /\ sl.proc = s.proc
  BY ShFields, ShOfIs DEF SameList, SameRuns, SameScreen
<1>5. /\ IsSh(ru) /\ ru.nRunningProcess = v /\ SameList(ru, s) /\ SameScreen(ru, s)
      /\ ru.proc = s.proc /\ ru.current = s.current /\ ru.stack = s.stack /\ ru.loop = s.loop
  BY ShFields, ShOfIs DEF SameList, SameRuns, SameScreen
<1>6. /\ IsSh(cu) /\ cu.current = v /\ SameList(cu, s) /\ SameScreen(cu, s) /\ cu.proc = s.proc
      /\ cu.nRunningProcess = s.nRunningProcess /\ cu.stack = s.stack /\ cu.loop = s.loop
  BY ShFields, ShOfIs DEF SameList, SameRuns, SameScreen
<1>7. /\ IsSh(st) /\ st.stack = v /\ SameList(st, s) /\ SameScreen(st, s) /\ st.proc = s.proc
      /\ st.nRunningProcess = s.nRunningProcess /\ st.current = s.current /\ st.loop = s.loop
  BY ShFields, ShOfIs DEF SameList, SameRuns, SameScreen
<1>8. /\ IsSh(lo) /\ lo.loop = v /\ SameList(lo, s) /\ SameScreen(lo, s) /\ lo.proc = s.proc
      /\ lo.nRunningProcess = s.nRunningProcess /\ lo.current = s.current /\ lo.stack = s.stack
  BY ShFields, ShOfIs DEF SameList, SameRuns, SameScreen
<1> HIDE DEF t, sl, ru, cu, st, lo
<1> QED
  BY <1>2, <1>3, <1>4, <1>5, <1>6, <1>7, <1>8

(* A process.                                                              *)
ProcOf(window, co, filter, terminal, seen, title) ==
  [window |-> window, co |-> co, sFilter |-> filter, terminal |-> terminal, bInteracted |-> seen, sTitle |-> title]

IsProc(z) == z = ProcOf(z.window, z.co, z.sFilter, z.terminal, z.bInteracted, z.sTitle)

PutWindow(z, v) == [z EXCEPT !.window = v]
PutCo(z, v) == [z EXCEPT !.co = v]
PutFilter(z, v) == [z EXCEPT !.sFilter = v]
PutTerminal(z, v) == [z EXCEPT !.terminal = v]
PutSeen(z, v) == [z EXCEPT !.bInteracted = v]
PutTitle(z, v) == [z EXCEPT !.sTitle = v]

(* Its fields.                                                             *)
LEMMA ProcFields ==
  ASSUME NEW a, NEW b, NEW c, NEW d, NEW e, NEW f
  PROVE  LET z == ProcOf(a, b, c, d, e, f)
         IN  /\ IsProc(z) /\ z.window = a /\ z.co = b /\ z.sFilter = c /\ z.terminal = d /\ z.bInteracted = e /\ z.sTitle = f
<1> DEFINE z == ProcOf(a, b, c, d, e, f)
<1>1. z.window = a /\ z.co = b /\ z.sFilter = c /\ z.terminal = d /\ z.bInteracted = e /\ z.sTitle = f
  BY DEF ProcOf
<1> HIDE DEF z
<1>2. IsProc(z)
  BY <1>1 DEF IsProc, z
<1> QED
  BY <1>1, <1>2 DEF z

(* What replacing one leaves alone.                                        *)
LEMMA ProcPuts ==
  ASSUME NEW z, IsProc(z), NEW v
  PROVE  /\ LET y == PutWindow(z, v) IN IsProc(y) /\ y.window = v /\ y.co = z.co /\ y.terminal = z.terminal /\ y.sTitle = z.sTitle
         /\ LET y == PutCo(z, v) IN IsProc(y) /\ y.window = z.window /\ y.co = v /\ y.terminal = z.terminal /\ y.sTitle = z.sTitle
         /\ LET y == PutFilter(z, v) IN IsProc(y) /\ y.window = z.window /\ y.co = z.co /\ y.terminal = z.terminal /\ y.sTitle = z.sTitle
         /\ LET y == PutTerminal(z, v) IN IsProc(y) /\ y.window = z.window /\ y.co = z.co /\ y.terminal = v /\ y.sTitle = z.sTitle
         /\ LET y == PutSeen(z, v) IN IsProc(y) /\ y.window = z.window /\ y.co = z.co /\ y.terminal = z.terminal /\ y.sTitle = z.sTitle
         /\ LET y == PutTitle(z, v) IN IsProc(y) /\ y.window = z.window /\ y.co = z.co /\ y.terminal = z.terminal /\ y.sTitle = v
<1> DEFINE a == z.window  b == z.co  c == z.sFilter  d == z.terminal  e == z.bInteracted  f == z.sTitle
<1>1. z = ProcOf(a, b, c, d, e, f)
  BY DEF IsProc
<1> HIDE DEF a, b, c, d, e, f
<1>2. /\ PutWindow(z, v) = ProcOf(v, b, c, d, e, f) /\ PutCo(z, v) = ProcOf(a, v, c, d, e, f)
      /\ PutFilter(z, v) = ProcOf(a, b, v, d, e, f)
  BY <1>1 DEF PutWindow, PutCo, PutFilter, ProcOf
<1>3. /\ PutTerminal(z, v) = ProcOf(a, b, c, v, e, f) /\ PutSeen(z, v) = ProcOf(a, b, c, d, v, f)
      /\ PutTitle(z, v) = ProcOf(a, b, c, d, e, v)
  BY <1>1 DEF PutTerminal, PutSeen, PutTitle, ProcOf
<1> QED
  BY <1>2, <1>3, ProcFields DEF a, b, c, d, e, f

(* All processes, and one of them replaced.                                *)
Procs(f) == f = [p \in Pid |-> f[p]] /\ \A p \in Pid : IsProc(f[p])
PutAt(f, p, z) == [f EXCEPT ![p] = z]

(* The others stay.                                                        *)
LEMMA PutsAt ==
  ASSUME NEW f, Procs(f), NEW p \in Pid, NEW z, IsProc(z)
  PROVE  /\ Procs(PutAt(f, p, z)) /\ PutAt(f, p, z)[p] = z
         /\ \A q \in Pid : q # p => PutAt(f, p, z)[q] = f[q]
<1>1. f = [q \in Pid |-> f[q]]
  BY DEF Procs
<1>2. DOMAIN f = Pid
  BY <1>1
<1> DEFINE g == PutAt(f, p, z)
<1>3. DOMAIN g = Pid /\ g[p] = z /\ \A q \in Pid : q # p => g[q] = f[q]
  BY <1>2 DEF PutAt
<1>4. g = [q \in DOMAIN g |-> g[q]]
  BY DEF PutAt
<1> HIDE DEF g
<1>5. Procs(g)
  BY <1>3, <1>4 DEF Procs
<1> QED
  BY <1>3, <1>5 DEF g

-----------------------------------------------------------------------------
(* Functions of windows one after the other.  Redrawn: a window in the     *)
(* same place; Drew: one that may lie elsewhere afterwards.                *)

SameFrame(u, w) == u.x = w.x /\ u.y = w.y /\ u.width = w.width /\ u.height = w.height /\ u.visible = w.visible
Redrawn(r, d, h) == DrawnAs(r, r.win, d.par, h) /\ SameFrame(r.win, d.win)
Drew(r, p, h) == Stands(r, h) /\ (~r.win.visible => r.par = p) /\ Around(r.par, p, 0, h)

(* A window by itself.                                                     *)
LEMMA RedrawnSame ==
  ASSUME NEW d, NEW h, Stands(d, h)
  PROVE  Redrawn(d, d, h)
  BY AroundSame DEF Redrawn, DrawnAs, SameFrame

(* Two functions.                                                          *)
LEMMA RedrawnBoth ==
  ASSUME NEW d, NEW e, NEW f, NEW h, Redrawn(e, d, h), Redrawn(f, e, h)
  PROVE  Redrawn(f, d, h)
<1>1. /\ Stands(f, h) /\ (~f.win.visible => f.par = e.par) /\ Around(f.par, e.par, f.win.y, h)
      /\ (~e.win.visible => e.par = d.par) /\ Around(e.par, d.par, e.win.y, h)
  BY DEF Redrawn, DrawnAs
<1>2. SameFrame(f.win, d.win) /\ f.win.y = e.win.y /\ f.win.visible = e.win.visible
  BY DEF Redrawn, SameFrame
<1>3. Around(f.par, d.par, f.win.y, h)
  BY <1>1, <1>2, AroundBoth
<1> QED
  BY <1>1, <1>2, <1>3 DEF Redrawn, DrawnAs

(* What is drawn as a window in the same place.                            *)
LEMMA RedrawnIs2 ==
  ASSUME NEW r, NEW w, NEW d, NEW h, DrawnAs(r, w, d.par, h), SameFrame(w, d.win)
  PROVE  Redrawn(r, d, h)
  BY DEF Redrawn, DrawnAs

(* Rows keep their length.                                                 *)
LEMMA DrawnDrew ==
  ASSUME NEW r, NEW w, NEW p, NEW h, DrawnAs(r, w, p, h)
  PROVE  Drew(r, p, h) /\ r.win = w
<1>1. Around(r.par, p, 0, h)
  BY DEF DrawnAs, Around
<1> QED
  BY <1>1 DEF DrawnAs, Drew

(* Two such functions.                                                     *)
LEMMA DrewBoth ==
  ASSUME NEW e, NEW f, NEW p, NEW h, Drew(e, p, h), Drew(f, e.par, h), f.win.visible = e.win.visible
  PROVE  Drew(f, p, h)
<1>1. Around(f.par, p, 0, h)
  BY AroundBoth DEF Drew
<1> QED
  BY <1>1 DEF Drew

(* The cursor elsewhere.                                                   *)
LEMMA MovedRedrawn ==
  ASSUME NEW d, NEW h, Stands(d, h), NEW x \in Int, NEW y \in Int
  PROVE  LET r == M!setCursorPos(d, x, y) IN Redrawn(r, d, h) /\ r.win.cx = x /\ r.win.cy = y
<1> DEFINE r == M!setCursorPos(d, x, y)  w == WAt(d.win, x, y)
<1>1. r = U!setCursorPos(d, x, y)
  BY SameFunctions
<1>2. DrawnAs(r, w, d.par, h)
  BY <1>1, SetCursorPosIs
<1>3. SameFrame(w, d.win) /\ w.cx = x /\ w.cy = y
  BY WinOfFields DEF WAt, SameFrame
<1> HIDE DEF r, w
<1>4. Redrawn(r, d, h) /\ r.win = w
  BY <1>2, <1>3, RedrawnIs2, DrawnDrew
<1> QED
  BY <1>3, <1>4 DEF r

(* Scrolled.                                                               *)
LEMMA ScrollRedrawn ==
  ASSUME NEW d, NEW h, Stands(d, h), NEW k \in Int, k # 0
  PROVE  Redrawn(M!scroll(d, k), d, h)
<1> DEFINE r == M!scroll(d, k)  w == WLines(d.win, ScrolledBy(d.win, k))
<1>1. r = U!scroll(d, k)
  BY SameFunctions
<1>2. DrawnAs(r, w, d.par, h)
  BY <1>1, ScrollIs
<1>3. SameFrame(w, d.win)
  BY WinOfFields DEF WLines, SameFrame
<1> HIDE DEF r, w
<1>4. Redrawn(r, d, h)
  BY <1>2, <1>3, RedrawnIs2
<1> QED
  BY <1>4 DEF r

(* The cursor on or off.                                                   *)
LEMMA BlinkRedrawn ==
  ASSUME NEW d, NEW h, Stands(d, h), NEW b
  PROVE  Redrawn(M!setCursorBlink(d, b), d, h)
<1> DEFINE r == M!setCursorBlink(d, b)  w == WBlink(d.win, b)
<1>1. r = U!setCursorBlink(d, b)
  BY SameFunctions
<1>2. DrawnAs(r, w, d.par, h)
  BY <1>1, SetCursorBlinkIs
<1>3. SameFrame(w, d.win)
  BY WinOfFields DEF WBlink, SameFrame
<1> HIDE DEF r, w
<1>4. Redrawn(r, d, h)
  BY <1>2, <1>3, RedrawnIs2
<1> QED
  BY <1>4 DEF r

(* A character written.                                                    *)
LEMMA WriteRedrawn ==
  ASSUME NEW d, NEW h, Stands(d, h)
  PROVE  Redrawn(M!write(d, <<"x">>), d, h)
<1> DEFINE text == <<"x">>  t == U!Coloured(text, d.win.text, d.win.back)  r == M!write(d, text)
           u == WLines(d.win, PutLines(d.win, t))  w == WAt(u, d.win.cx + Len(t), u.cy)
<1>1. r = U!internalBlit(d, t)
  BY SameFunctions DEF U!write
<1>2. t \in Seq(WinCell)
  <2>1. d.win.text \in WinColour /\ d.win.back \in WinColour
    BY StandsIs DEF WinOK
  <2>2. <<"x", d.win.text, d.win.back>> \in WinCell
    BY <2>1 DEF WinCell, WinChar
  <2>3. t = [i \in DOMAIN text |-> <<text[i], d.win.text, d.win.back>>]
    BY DEF U!Coloured
  <2>4. DOMAIN text = 1 .. 1 /\ text[1] = "x"
    OBVIOUS
  <2> DEFINE c == <<"x", d.win.text, d.win.back>>
  <2>5. t = [i \in 1 .. 1 |-> c]
    BY <2>3, <2>4
  <2> HIDE DEF t, text, c
  <2>6. c \in WinCell
    BY <2>2 DEF c
  <2> QED
    BY <2>5, <2>6
<1> HIDE DEF t
<1>3. DrawnAs(r, w, d.par, h)
  BY <1>1, <1>2, InternalBlitIs
<1>4. SameFrame(u, d.win)
  BY WinOfFields DEF WLines, SameFrame
<1> HIDE DEF u
<1>5. SameFrame(w, u)
  BY WinOfFields DEF WAt, SameFrame
<1> HIDE DEF r, w
<1>6. Redrawn(r, d, h)
  BY <1>3, <1>4, <1>5, RedrawnIs2 DEF SameFrame
<1> QED
  BY <1>6 DEF r

(* A new line.                                                             *)
LEMMA NewLineRedrawn ==
  ASSUME NEW d, NEW h, Stands(d, h)
  PROVE  Redrawn(M!NewLine(d), d, h)
<1> DEFINE a == M!setCursorPos(d, 1, d.win.cy + 1)  b == M!setCursorPos(d, 1, d.win.height)  c == M!scroll(b, 1)
<1>1. d.win.cy + 1 \in Int /\ d.win.height \in Int /\ 1 \in Int
  BY StandsIs DEF WinOK
<1>2. Redrawn(a, d, h) /\ Redrawn(b, d, h)
  BY <1>1, MovedRedrawn
<1> HIDE DEF a, b
<1>3. Redrawn(c, b, h)
  BY <1>1, <1>2, ScrollRedrawn DEF Redrawn, DrawnAs
<1>4. Redrawn(c, d, h)
  BY <1>2, <1>3, RedrawnBoth
<1>5. M!NewLine(d) = IF d.win.cy + 1 <= d.win.height THEN a ELSE c
  BY DEF M!NewLine, a, b
<1> HIDE DEF c
<1> QED
  BY <1>2, <1>4, <1>5

(* print of bios.lua.                                                      *)
LEMMA PrintRedrawn ==
  ASSUME NEW d, NEW h, Stands(d, h)
  PROVE  Redrawn(M!print(d), d, h)
<1> DEFINE a == IF d.win.cx > d.win.width THEN M!NewLine(d) ELSE d  b == M!write(a, <<"x">>)  c == M!NewLine(b)
<1>1. Redrawn(a, d, h)
  BY NewLineRedrawn, RedrawnSame
<1>2. M!print(d) = c
  BY DEF M!print
<1> HIDE DEF a
<1>3. Redrawn(b, a, h)
  BY <1>1, WriteRedrawn DEF Redrawn, DrawnAs
<1> HIDE DEF b
<1>4. Redrawn(c, b, h)
  BY <1>3, NewLineRedrawn DEF Redrawn, DrawnAs
<1> HIDE DEF c
<1> QED
  BY <1>1, <1>2, <1>3, <1>4, RedrawnBoth

(* The room that the menu leaves.                                          *)
RoomY(menu) == IF menu THEN 2 ELSE 1
RoomHeight(menu) == IF menu THEN Height - 1 ELSE Height
PlacedIn(w, menu) == w.x = 1 /\ w.y = RoomY(menu) /\ w.width = Width /\ w.height = RoomHeight(menu)

(* It lies on the screen.                                                  *)
LEMMA RoomOK ==
  ASSUME NEW menu
  PROVE  /\ RoomY(menu) \in Nat \ {0} /\ RoomHeight(menu) \in Nat /\ RoomY(menu) + RoomHeight(menu) - 1 <= Height
         /\ Height \in Nat /\ Width \in Nat
  BY ShellAssumption DEF RoomY, RoomHeight

(* A window in the room.                                                   *)
LEMMA PlacedRedrawn ==
  ASSUME NEW r, NEW d, NEW h, Redrawn(r, d, h), NEW menu, PlacedIn(d.win, menu)
  PROVE  PlacedIn(r.win, menu)
  BY DEF Redrawn, SameFrame, PlacedIn

(* window.reposition, into the room.                                       *)
LEMMA RepositionDrew ==
  ASSUME NEW d, Stands(d, Height), NEW menu
  PROVE  LET r == M!reposition(d, 1, RoomY(menu), Width, RoomHeight(menu))
         IN  Drew(r, d.par, Height) /\ PlacedIn(r.win, menu) /\ r.win.visible = d.win.visible
<1> DEFINE y == RoomY(menu)  ht == RoomHeight(menu)  pl == <<1, y, Width, ht>>  h == Height
           r == M!reposition(d, 1, y, Width, ht)  w == WPlace(d.win, 1, y, Width, ht, U!Resized(d.win, Width, ht))
<1>1. y \in Nat \ {0} /\ ht \in Nat /\ y + ht - 1 <= h /\ h \in Nat /\ Width \in Nat
  BY RoomOK
<1> HIDE DEF y, ht, h
<1>2. pl[1] = 1 /\ pl[2] = y /\ pl[3] = Width /\ pl[4] = ht
  OBVIOUS
<1> HIDE DEF pl
<1>3. PlaceOK(pl, h)
  BY <1>1, <1>2 DEF PlaceOK
<1>4. Stands(d, h)
  BY DEF h
<1>5. DrawnAs(U!reposition(d, pl[1], pl[2], pl[3], pl[4]),
              WPlace(d.win, pl[1], pl[2], pl[3], pl[4], U!Resized(d.win, pl[3], pl[4])), d.par, h)
  BY <1>1, <1>3, <1>4, RepositionIs
<1>6. r = U!reposition(d, 1, y, Width, ht)
  BY SameFunctions
<1>7. DrawnAs(r, w, d.par, h)
  BY <1>2, <1>5, <1>6
<1>8. w.x = 1 /\ w.y = y /\ w.width = Width /\ w.height = ht /\ w.visible = d.win.visible
  BY WinOfFields DEF WPlace
<1> HIDE DEF r, w
<1>9. Drew(r, d.par, h) /\ r.win = w
  BY <1>7, DrawnDrew
<1>10. Drew(r, d.par, h) /\ PlacedIn(r.win, menu) /\ r.win.visible = d.win.visible
  BY <1>8, <1>9 DEF PlacedIn, y, ht
<1> QED
  BY <1>10 DEF r, y, ht, h

(* A window whose last lines the menu takes away is scrolled before.       *)
Fitted(d, ht) == IF d.win.cy - ht > 0 THEN M!setCursorPos(M!scroll(d, d.win.cy - ht), d.win.cx, ht) ELSE d

(* It stays where it is.                                                   *)
LEMMA FittedRedrawn ==
  ASSUME NEW d, NEW h, Stands(d, h), NEW ht \in Nat
  PROVE  Redrawn(Fitted(d, ht), d, h)
<1> DEFINE k == d.win.cy - ht  x == d.win.cx  a == M!scroll(d, k)  b == M!setCursorPos(a, x, ht)
<1>1. d.win.cy \in Int /\ x \in Int
  BY StandsIs DEF WinOK
<1>2. CASE k > 0
  <2>1. Redrawn(a, d, h)
    BY <1>1, <1>2, ScrollRedrawn
  <2>2. Fitted(d, ht) = b
    BY <1>2 DEF Fitted
  <2> HIDE DEF a, x
  <2>3. Redrawn(b, a, h)
    BY <1>1, <2>1, MovedRedrawn DEF Redrawn, DrawnAs
  <2> HIDE DEF b
  <2> QED
    BY <2>1, <2>2, <2>3, RedrawnBoth
<1>3. CASE ~(k > 0)
  BY <1>3, RedrawnSame DEF Fitted
<1> QED
  BY <1>2, <1>3

(* A window moved into the room.                                           *)
Roomed(d, menu) == M!reposition(Fitted(d, RoomHeight(menu)), 1, RoomY(menu), Width, RoomHeight(menu))

(* What it is.                                                             *)
LEMMA RoomedDrew ==
  ASSUME NEW d, Stands(d, Height), NEW menu
  PROVE  LET r == Roomed(d, menu)
         IN  Drew(r, d.par, Height) /\ PlacedIn(r.win, menu) /\ r.win.visible = d.win.visible
<1> DEFINE f == Fitted(d, RoomHeight(menu))  r == M!reposition(f, 1, RoomY(menu), Width, RoomHeight(menu))
<1>1. Redrawn(f, d, Height)
  BY RoomOK, FittedRedrawn
<1> HIDE DEF f
<1>2. Stands(f, Height) /\ f.win.visible = d.win.visible
  BY <1>1 DEF Redrawn, DrawnAs, SameFrame
<1>3. Drew(f, d.par, Height)
  BY <1>1, DrawnDrew DEF Redrawn
<1>4. Drew(r, f.par, Height) /\ PlacedIn(r.win, menu) /\ r.win.visible = f.win.visible
  BY <1>2, RepositionDrew
<1>5. Roomed(d, menu) = r
  BY DEF Roomed, f
<1> HIDE DEF r
<1>6. Drew(r, d.par, Height)
  BY <1>3, <1>4, DrewBoth
<1> QED
  BY <1>2, <1>4, <1>5, <1>6

(* Shown or hidden.                                                        *)
LEMMA SeenDrew ==
  ASSUME NEW d, NEW h, Stands(d, h), NEW b
  PROVE  LET r == M!setVisible(d, b)
         IN  /\ Drew(r, d.par, h) /\ r.win.visible = b
             /\ \A menu : PlacedIn(d.win, menu) => PlacedIn(r.win, menu)
<1> DEFINE r == M!setVisible(d, b)  w == WSeen(d.win, b)
<1>1. r = U!setVisible(d, b)
  BY SameFunctions
<1>2. DrawnAs(r, w, d.par, h)
  BY <1>1, SetVisibleIs
<1>3. w.x = d.win.x /\ w.y = d.win.y /\ w.width = d.win.width /\ w.height = d.win.height /\ w.visible = b
  BY WinOfFields DEF WSeen
<1> HIDE DEF r, w
<1>4. Drew(r, d.par, h) /\ r.win = w
  BY <1>2, DrawnDrew
<1>5. Drew(r, d.par, h) /\ r.win.visible = b /\ \A menu : PlacedIn(d.win, menu) => PlacedIn(r.win, menu)
  BY <1>3, <1>4 DEF PlacedIn
<1> QED
  BY <1>5 DEF r

-----------------------------------------------------------------------------
(* The shape of the state, and what a function that only draws keeps of    *)
(* it: who runs, the list of processes, and of these all but the windows.  *)

Shape(s) == IsSh(s) /\ Procs(s.proc) /\ s.tProcesses \in Seq(Pid)
SameProcs(f, g) == \A p \in Pid : f[p].co = g[p].co /\ f[p].terminal = g[p].terminal /\ f[p].sTitle = g[p].sTitle
Kept(r, s) == Shape(r) /\ SameList(r, s) /\ SameRuns(r, s) /\ SameProcs(r.proc, s.proc)

(* Nothing is kept.                                                        *)
LEMMA KeptSame ==
  ASSUME NEW s, Shape(s)
  PROVE  Kept(s, s)
  BY DEF Kept, SameList, SameRuns, SameProcs

(* One function after the other.                                           *)
LEMMA KeptBoth ==
  ASSUME NEW s, NEW t, NEW r, Kept(t, s), Kept(r, t)
  PROVE  Kept(r, s)
<1>1. SameList(r, s) /\ SameRuns(r, s)
  BY DEF Kept, SameList, SameRuns
<1>2. SameProcs(r.proc, s.proc)
  BY DEF Kept, SameProcs
<1> QED
  BY <1>1, <1>2 DEF Kept

(* What is on the screen: no row has another length, every window can be   *)
(* drawn, and the one that is visible is shown.                            *)
Base(s) ==
  /\ \A m \in 1 .. Height : DOMAIN s.par.cells[m] = 1 .. Width
  /\ \A p \in Pid : Stands(On(s.proc[p].window, s.par), Height)

(* The window of p is as the canvas d.                                     *)
LEMMA DrawnKept ==
  ASSUME NEW s, Shape(s), NEW p \in Pid, NEW d
  PROVE  LET r == M!Drawn(s, p, d)
         IN  /\ Kept(r, s) /\ r.par = d.par /\ r.nCurrentProcess = s.nCurrentProcess /\ r.bShowMenu = s.bShowMenu
             /\ r.proc[p].window = d.win /\ \A q \in Pid : q # p => r.proc[q].window = s.proc[q].window
<1> DEFINE z == PutWindow(s.proc[p], d.win)  f == PutAt(s.proc, p, z)  t == PutProc(s, f)  r == PutPar(t, d.par)
<1>1. M!Drawn(s, p, d) = r
  BY DEF M!Drawn, PutPar, PutProc, PutAt, PutWindow
<1>2. IsSh(s) /\ Procs(s.proc) /\ IsProc(s.proc[p]) /\ s.tProcesses \in Seq(Pid)
  BY DEF Shape, Procs
<1>3. /\ IsProc(z) /\ z.window = d.win /\ z.co = s.proc[p].co /\ z.terminal = s.proc[p].terminal
      /\ z.sTitle = s.proc[p].sTitle
  BY <1>2, ProcPuts
<1> HIDE DEF z
<1>4. Procs(f) /\ f[p] = z /\ \A q \in Pid : q # p => f[q] = s.proc[q]
  BY <1>2, <1>3, PutsAt
<1> HIDE DEF f
<1>5. SameProcs(f, s.proc)
  BY <1>3, <1>4 DEF SameProcs
<1>6. IsSh(t) /\ t.proc = f /\ SameList(t, s) /\ SameRuns(t, s) /\ SameScreen(t, s)
  BY <1>2, PutsScreen
<1> HIDE DEF t
<1>7. /\ IsSh(r) /\ r.par = d.par /\ SameList(r, t) /\ SameRuns(r, t) /\ r.proc = t.proc
      /\ r.bShowMenu = t.bShowMenu /\ r.nCurrentProcess = t.nCurrentProcess
  BY <1>6, PutsScreen
<1> HIDE DEF r
<1>8. SameList(r, s) /\ SameRuns(r, s) /\ r.tProcesses \in Seq(Pid)
  BY <1>2, <1>6, <1>7 DEF SameList, SameRuns
<1>9. Kept(r, s)
  BY <1>4, <1>5, <1>6, <1>7, <1>8 DEF Kept, Shape
<1> QED
  BY <1>1, <1>3, <1>4, <1>6, <1>7, <1>9 DEF SameScreen

(* It is on the screen, if none but it is visible.                         *)
LEMMA DrawnBase ==
  ASSUME NEW s, Shape(s), Base(s), NEW p \in Pid, NEW d, Drew(d, s.par, Height),
         d.win.visible => \A q \in Pid : q # p => ~s.proc[q].window.visible
  PROVE  Base(M!Drawn(s, p, d))
<1> DEFINE r == M!Drawn(s, p, d)
<1>1. /\ r.par = d.par /\ r.proc[p].window = d.win /\ \A q \in Pid : q # p => r.proc[q].window = s.proc[q].window
  BY DrawnKept
<1> HIDE DEF r
<1>2. Stands(d, Height) /\ (~d.win.visible => d.par = s.par) /\ Around(d.par, s.par, 0, Height)
  BY DEF Drew
<1>3. \A m \in 1 .. Height : DOMAIN r.par.cells[m] = 1 .. Width
  BY <1>1, <1>2 DEF Around, Base
<1>4. ASSUME NEW q \in Pid PROVE Stands(On(r.proc[q].window, r.par), Height)
  <2>1. CASE q = p
    <3>1. d = On(d.win, d.par)
      BY <1>2 DEF Stands
    <3> QED
      BY <1>1, <1>2, <2>1, <3>1
  <2>2. CASE q # p
    <3> DEFINE w == s.proc[q].window  e == On(w, s.par)  g == On(w, d.par)
    <3>1. e.win = w /\ e.par = s.par /\ g.win = w /\ g.par = d.par
      BY DEF On
    <3>2. Stands(e, Height)
      BY DEF Base
    <3>3. r.proc[q].window = w
      BY <1>1, <2>2
    <3>4. d.win.visible => ~w.visible
      BY <2>2
    <3>5. TermOK(d.par, Height)
      BY <1>2 DEF Stands, Drawable
    <3> HIDE DEF e, w
    <3>6. g = On(g.win, g.par)
      BY <3>1
    <3> HIDE DEF g
    <3>7. CASE d.win.visible
      <4>1. Stands(g, Height)
        BY <3>1, <3>2, <3>4, <3>5, <3>6, <3>7 DEF Stands, Drawable
      <4> QED
        BY <1>1, <3>3, <4>1 DEF g
    <3>8. CASE ~d.win.visible
      <4>1. On(w, d.par) = e
        BY <1>2, <3>8 DEF e
      <4> QED
        BY <1>1, <3>2, <3>3, <4>1
    <3> QED
      BY <3>7, <3>8
  <2> QED
    BY <2>1, <2>2
<1>5. Base(r)
  BY <1>3, <1>4 DEF Base
<1> QED
  BY <1>5 DEF r

(* The canvas of a process.                                                *)
LEMMA CanvasIs ==
  ASSUME NEW s, NEW p
  PROVE  LET d == M!Canvas(s, p)
         IN  /\ d = On(s.proc[p].window, s.par) /\ d.win = s.proc[p].window /\ d.par = s.par
             /\ (Base(s) /\ p \in Pid => Stands(d, Height))
<1>1. M!Canvas(s, p) = On(s.proc[p].window, s.par)
  BY DEF M!Canvas, On
<1>2. On(s.proc[p].window, s.par).win = s.proc[p].window /\ On(s.proc[p].window, s.par).par = s.par
  BY DEF On
<1> QED
  BY <1>1, <1>2 DEF Base

(* One window is visible, the one in front, and all lie in the room that   *)
(* the menu leaves.                                                        *)
Placed(s) == \A n \in 1 .. Len(s.tProcesses) : PlacedIn(s.proc[s.tProcesses[n]].window, s.bShowMenu)
NoneSeen(s) == \A p \in Pid : ~s.proc[p].window.visible
Only(s) == \A p \in Pid : s.proc[p].window.visible <=> s.nCurrentProcess # 0 /\ p = s.tProcesses[s.nCurrentProcess]
FrontOK(s) == s.nCurrentProcess = 0 \/ s.nCurrentProcess \in 1 .. Len(s.tProcesses)
Core(s) == Base(s) /\ Placed(s) /\ Only(s) /\ FrontOK(s)

(* These depend on the windows, the parent and the numbers alone.          *)
SameWindows(r, s) == SameScreen(r, s) /\ r.tProcesses = s.tProcesses /\ \A p \in Pid : r.proc[p].window = s.proc[p].window

(* What is on the screen then is, too.                                     *)
LEMMA CoreSame ==
  ASSUME NEW s, NEW r, SameWindows(r, s), s.tProcesses \in Seq(Pid)
  PROVE  /\ Base(s) => Base(r)
         /\ Core(s) => Core(r)
<1>1. /\ r.par = s.par /\ r.bShowMenu = s.bShowMenu /\ r.nCurrentProcess = s.nCurrentProcess
      /\ r.tProcesses = s.tProcesses /\ \A p \in Pid : r.proc[p].window = s.proc[p].window
  BY DEF SameWindows, SameScreen
<1>2. Base(s) => Base(r)
  BY <1>1 DEF Base
<1>3. Placed(s) => Placed(r)
  <2>1. \A n \in 1 .. Len(s.tProcesses) : s.tProcesses[n] \in Pid
    OBVIOUS
  <2> QED
    BY <1>1, <2>1 DEF Placed
<1>4. Only(s) => Only(r)
  BY <1>1 DEF Only
<1>5. FrontOK(s) => FrontOK(r)
  BY <1>1 DEF FrontOK
<1> QED
  BY <1>2, <1>3, <1>4, <1>5 DEF Core

(* A field of one process replaced, other than its window.                 *)
LEMMA ProcKept ==
  ASSUME NEW s, Shape(s), NEW p \in Pid, NEW z, IsProc(z), z.window = s.proc[p].window
  PROVE  LET r == PutProc(s, PutAt(s.proc, p, z))
         IN  /\ Shape(r) /\ SameList(r, s) /\ SameRuns(r, s) /\ SameScreen(r, s) /\ SameWindows(r, s)
             /\ r.proc[p] = z /\ \A q \in Pid : q # p => r.proc[q] = s.proc[q]
<1> DEFINE f == PutAt(s.proc, p, z)  r == PutProc(s, f)
<1>1. IsSh(s) /\ Procs(s.proc) /\ s.tProcesses \in Seq(Pid)
  BY DEF Shape
<1>2. Procs(f) /\ f[p] = z /\ \A q \in Pid : q # p => f[q] = s.proc[q]
  BY <1>1, PutsAt
<1> HIDE DEF f
<1>3. IsSh(r) /\ r.proc = f /\ SameList(r, s) /\ SameRuns(r, s) /\ SameScreen(r, s)
  BY <1>1, PutsScreen
<1> HIDE DEF r
<1>4. Shape(r) /\ SameWindows(r, s)
  BY <1>1, <1>2, <1>3 DEF Shape, SameList, SameWindows
<1>5. r.proc[p] = z /\ \A q \in Pid : q # p => r.proc[q] = s.proc[q]
  BY <1>2, <1>3
<1>6. /\ Shape(r) /\ SameList(r, s) /\ SameRuns(r, s) /\ SameScreen(r, s) /\ SameWindows(r, s)
      /\ r.proc[p] = z /\ \A q \in Pid : q # p => r.proc[q] = s.proc[q]
  BY <1>3, <1>4, <1>5
<1> QED
  BY <1>6 DEF r, f

(* The window in front is hidden.                                          *)
Hidden(s) ==
  IF s.nCurrentProcess = 0 THEN s
  ELSE M!Drawn(s, s.tProcesses[s.nCurrentProcess], M!setVisible(M!Canvas(s, s.tProcesses[s.nCurrentProcess]), FALSE))

(* Then no window is visible.                                              *)
LEMMA HiddenIs ==
  ASSUME NEW s, Shape(s), FrontOK(s)
  PROVE  LET r == Hidden(s)
         IN  /\ Kept(r, s) /\ r.nCurrentProcess = s.nCurrentProcess /\ r.bShowMenu = s.bShowMenu
             /\ Core(s) => Base(r) /\ Placed(r) /\ NoneSeen(r)
<1>1. CASE s.nCurrentProcess = 0
  <2>1. Hidden(s) = s
    BY <1>1 DEF Hidden
  <2>2. Core(s) => Base(s) /\ Placed(s) /\ NoneSeen(s)
    BY <1>1 DEF Core, Only, NoneSeen
  <2> QED
    BY <2>1, <2>2, KeptSame
<1>2. CASE s.nCurrentProcess # 0
  <2> DEFINE p == s.tProcesses[s.nCurrentProcess]  off == FALSE  d == M!setVisible(M!Canvas(s, p), off)  r == M!Drawn(s, p, d)
  <2>1. p \in Pid
    BY <1>2 DEF FrontOK, Shape
  <2>2. Hidden(s) = r
    BY <1>2 DEF Hidden
  <2> HIDE DEF p
  <2>3. /\ Kept(r, s) /\ r.par = d.par /\ r.nCurrentProcess = s.nCurrentProcess /\ r.bShowMenu = s.bShowMenu
        /\ r.proc[p].window = d.win /\ \A q \in Pid : q # p => r.proc[q].window = s.proc[q].window
    <3> HIDE DEF d
    <3> QED
      BY <2>1, DrawnKept
  <2>4. ASSUME Core(s) PROVE Base(r) /\ Placed(r) /\ NoneSeen(r)
    <3>1. Base(s) /\ Placed(s) /\ Only(s)
      BY <2>4 DEF Core
    <3>2. Stands(M!Canvas(s, p), Height) /\ M!Canvas(s, p).win = s.proc[p].window /\ M!Canvas(s, p).par = s.par
      BY <2>1, <3>1, CanvasIs
    <3> HIDE DEF off
    <3>3. /\ Drew(d, s.par, Height) /\ d.win.visible = off
          /\ \A menu : PlacedIn(s.proc[p].window, menu) => PlacedIn(d.win, menu)
      BY <3>2, SeenDrew
    <3>4. ~d.win.visible
      BY <3>3 DEF off
    <3> HIDE DEF d
    <3>5. Base(r)
      BY <2>1, <3>1, <3>3, <3>4, DrawnBase
    <3> HIDE DEF r
    <3>6. NoneSeen(r)
      <4> SUFFICES ASSUME NEW q \in Pid PROVE ~r.proc[q].window.visible
        BY DEF NoneSeen
      <4>1. CASE q = p
        BY <2>3, <3>4, <4>1
      <4>2. CASE q # p
        BY <2>3, <3>1, <4>2 DEF Only, p
      <4> QED
        BY <4>1, <4>2
    <3>7. Placed(r)
      <4> SUFFICES ASSUME NEW n \in 1 .. Len(s.tProcesses) PROVE PlacedIn(r.proc[s.tProcesses[n]].window, s.bShowMenu)
        BY <2>3 DEF Placed, Kept, SameList
      <4>1. PlacedIn(s.proc[s.tProcesses[n]].window, s.bShowMenu) /\ s.tProcesses[n] \in Pid
        BY <3>1 DEF Placed, Shape
      <4>2. CASE s.tProcesses[n] = p
        BY <2>3, <3>3, <4>1, <4>2
      <4>3. CASE s.tProcesses[n] # p
        BY <2>3, <4>1, <4>3
      <4> QED
        BY <4>2, <4>3
    <3> QED
      BY <3>5, <3>6, <3>7
  <2> QED
    BY <2>2, <2>3, <2>4
<1> QED
  BY <1>1, <1>2

(* The window of q is shown, when none is.                                 *)
Revealed(t, q) == M!Drawn(t, q, M!setVisible(M!Canvas(t, q), TRUE))
Looked(t, q) == [t EXCEPT !.proc[q].bInteracted = TRUE]

(* It is the one that is visible.                                          *)
LEMMA RevealedIs ==
  ASSUME NEW t, Shape(t), t.nCurrentProcess \in 1 .. Len(t.tProcesses)
  PROVE  LET r == Revealed(t, t.tProcesses[t.nCurrentProcess])
         IN  /\ Kept(r, t) /\ r.nCurrentProcess = t.nCurrentProcess /\ r.bShowMenu = t.bShowMenu
             /\ Base(t) /\ Placed(t) /\ NoneSeen(t) => Core(r)
<1> DEFINE q == t.tProcesses[t.nCurrentProcess]  on == TRUE  d == M!setVisible(M!Canvas(t, q), on)  r == M!Drawn(t, q, d)
<1>1. q \in Pid
  BY DEF Shape
<1>2. Revealed(t, q) = r
  BY DEF Revealed
<1> HIDE DEF q
<1>3. /\ Kept(r, t) /\ r.par = d.par /\ r.nCurrentProcess = t.nCurrentProcess /\ r.bShowMenu = t.bShowMenu
      /\ r.proc[q].window = d.win /\ \A p \in Pid : p # q => r.proc[p].window = t.proc[p].window
  <2> HIDE DEF d
  <2> QED
    BY <1>1, DrawnKept
<1>4. ASSUME Base(t), Placed(t), NoneSeen(t) PROVE Core(r)
  <2>1. Stands(M!Canvas(t, q), Height) /\ M!Canvas(t, q).win = t.proc[q].window /\ M!Canvas(t, q).par = t.par
    BY <1>1, <1>4, CanvasIs
  <2> HIDE DEF on
  <2>2. /\ Drew(d, t.par, Height) /\ d.win.visible = on
        /\ \A menu : PlacedIn(t.proc[q].window, menu) => PlacedIn(d.win, menu)
    BY <2>1, SeenDrew
  <2>3. d.win.visible
    BY <2>2 DEF on
  <2> HIDE DEF d
  <2>4. \A p \in Pid : p # q => ~t.proc[p].window.visible
    BY <1>4 DEF NoneSeen
  <2>5. Base(r)
    BY <1>1, <1>4, <2>2, <2>4, DrawnBase
  <2> HIDE DEF r
  <2>6. Only(r)
    <3> SUFFICES ASSUME NEW p \in Pid PROVE r.proc[p].window.visible <=> p = q
      BY <1>3 DEF Only, q, Kept, SameList
    <3>1. CASE p = q
      BY <1>3, <2>3, <3>1
    <3>2. CASE p # q
      BY <1>3, <2>4, <3>2
    <3> QED
      BY <3>1, <3>2
  <2>7. Placed(r)
    <3> SUFFICES ASSUME NEW n \in 1 .. Len(t.tProcesses) PROVE PlacedIn(r.proc[t.tProcesses[n]].window, t.bShowMenu)
      BY <1>3 DEF Placed, Kept, SameList
    <3>1. PlacedIn(t.proc[t.tProcesses[n]].window, t.bShowMenu) /\ t.tProcesses[n] \in Pid
      BY <1>4 DEF Placed, Shape
    <3>2. CASE t.tProcesses[n] = q
      BY <1>3, <2>2, <3>1, <3>2
    <3>3. CASE t.tProcesses[n] # q
      BY <1>3, <3>1, <3>3
    <3> QED
      BY <3>2, <3>3
  <2>8. FrontOK(r)
    BY <1>3 DEF FrontOK, Kept, SameList
  <2> QED
    BY <2>5, <2>6, <2>7, <2>8 DEF Core
<1> QED
  BY <1>2, <1>3, <1>4 DEF q

(* That it was looked at is noted.                                         *)
LEMMA LookedIs ==
  ASSUME NEW t, Shape(t), NEW q \in Pid
  PROVE  Kept(Looked(t, q), t) /\ SameWindows(Looked(t, q), t)
<1> DEFINE on == TRUE  z == PutSeen(t.proc[q], on)  r == PutProc(t, PutAt(t.proc, q, z))
<1>1. Looked(t, q) = r
  BY DEF Looked, PutProc, PutAt, PutSeen
<1>2. IsProc(t.proc[q])
  BY DEF Shape, Procs
<1> HIDE DEF on
<1>3. IsProc(z) /\ z.window = t.proc[q].window /\ z.co = t.proc[q].co /\ z.terminal = t.proc[q].terminal /\ z.sTitle = t.proc[q].sTitle
  BY <1>2, ProcPuts
<1> HIDE DEF z
<1>4. /\ Shape(r) /\ SameList(r, t) /\ SameRuns(r, t) /\ SameWindows(r, t)
      /\ r.proc[q] = z /\ \A p \in Pid : p # q => r.proc[p] = t.proc[p]
  BY <1>3, ProcKept
<1> HIDE DEF r
<1>5. SameProcs(r.proc, t.proc)
  BY <1>3, <1>4 DEF SameProcs
<1> QED
  BY <1>1, <1>4, <1>5 DEF Kept

(* selectProcess.                                                          *)
LEMMA SelectIs ==
  ASSUME NEW s, Shape(s), FrontOK(s), NEW n \in 0 .. Len(s.tProcesses)
  PROVE  LET r == M!selectProcess(s, n)
         IN  /\ Kept(r, s) /\ r.nCurrentProcess = n /\ r.bShowMenu = s.bShowMenu
             /\ Core(s) => Core(r)
<1> DEFINE o == Hidden(s)  t == PutFront(o, n)  q == s.tProcesses[n]
<1>1. M!selectProcess(s, n) = IF s.nCurrentProcess = n THEN s ELSE IF n = 0 THEN t ELSE Looked(Revealed(t, q), q)
  BY DEF M!selectProcess, M!None, Hidden, PutFront, Looked, Revealed
<1>2. CASE s.nCurrentProcess = n
  <2>1. M!selectProcess(s, n) = s
    BY <1>1, <1>2
  <2> QED
    BY <1>2, <2>1, KeptSame
<1>3. CASE s.nCurrentProcess # n
  <2>1. /\ Kept(o, s) /\ o.bShowMenu = s.bShowMenu
        /\ Core(s) => Base(o) /\ Placed(o) /\ NoneSeen(o)
    BY HiddenIs
  <2> HIDE DEF o
  <2>2. /\ IsSh(t) /\ t.nCurrentProcess = n /\ SameList(t, o) /\ SameRuns(t, o)
        /\ t.proc = o.proc /\ t.par = o.par /\ t.bShowMenu = o.bShowMenu
    <3>1. IsSh(o)
      BY <2>1 DEF Kept, Shape
    <3> QED
      BY <3>1, PutsScreen
  <2> HIDE DEF t
  <2>3. t.tProcesses = s.tProcesses /\ s.tProcesses \in Seq(Pid) /\ t.bShowMenu = s.bShowMenu /\ o.tProcesses = s.tProcesses
    BY <2>1, <2>2 DEF Kept, SameList, Shape
  <2>4. Kept(t, s)
    <3>1. Shape(t) /\ Kept(t, o)
      BY <2>1, <2>2, <2>3 DEF Kept, Shape, SameProcs
    <3> QED
      BY <2>1, <3>1, KeptBoth
  <2>5. Core(s) => Base(t) /\ Placed(t) /\ NoneSeen(t)
    BY <2>1, <2>2, <2>3 DEF Base, Placed, NoneSeen
  <2>6. CASE n = 0
    <3>1. M!selectProcess(s, n) = t
      BY <1>1, <1>3, <2>6
    <3>2. Core(s) => Core(t)
      BY <2>2, <2>5, <2>6 DEF Core, Only, NoneSeen, FrontOK
    <3> QED
      BY <2>2, <2>3, <2>4, <3>1, <3>2
  <2>7. CASE n # 0
    <3> DEFINE u == Revealed(t, q)  r == Looked(u, q)
    <3>1. M!selectProcess(s, n) = r
      BY <1>1, <1>3, <2>7
    <3>2. n \in 1 .. Len(s.tProcesses) /\ q = t.tProcesses[t.nCurrentProcess] /\ q \in Pid
      BY <2>2, <2>3, <2>7
    <3> HIDE DEF q
    <3>3. /\ Kept(u, t) /\ u.nCurrentProcess = n /\ u.bShowMenu = s.bShowMenu
          /\ Core(s) => Core(u)
      BY <2>2, <2>3, <2>4, <2>5, <3>2, RevealedIs DEF Kept
    <3> HIDE DEF u
    <3>4. Kept(r, u) /\ SameWindows(r, u)
      BY <3>2, <3>3, LookedIs DEF Kept
    <3> HIDE DEF r
    <3>5. Core(u) => Core(r)
      BY <3>3, <3>4, CoreSame DEF Kept, Shape
    <3>6. Kept(r, s)
      BY <2>4, <3>3, <3>4, KeptBoth
    <3>7. r.nCurrentProcess = n /\ r.bShowMenu = s.bShowMenu
      BY <3>3, <3>4 DEF SameWindows, SameScreen
    <3> QED
      BY <3>1, <3>3, <3>5, <3>6, <3>7
  <2> QED
    BY <2>6, <2>7
<1> QED
  BY <1>2, <1>3

(* The parent of all is another one.                                       *)
LEMMA OtherParent ==
  ASSUME NEW s, Base(s), NEW r, \A p \in Pid : r.proc[p].window = s.proc[p].window, TermOK(r.par, Height),
         \A m \in 1 .. Height : DOMAIN r.par.cells[m] = 1 .. Width,
         \A p \in Pid : s.proc[p].window.visible => IsShown(s.proc[p].window, r.par)
  PROVE  Base(r)
<1> SUFFICES ASSUME NEW p \in Pid PROVE Stands(On(r.proc[p].window, r.par), Height)
  BY DEF Base
<1> DEFINE w == s.proc[p].window  e == On(w, s.par)  g == On(w, r.par)
<1>1. e.win = w /\ e.par = s.par /\ g.win = w /\ g.par = r.par
  BY DEF On
<1>2. Stands(e, Height) /\ r.proc[p].window = w /\ (w.visible => IsShown(w, r.par))
  BY DEF Base
<1> HIDE DEF e, w
<1>3. g = On(g.win, g.par)
  BY <1>1
<1> HIDE DEF g
<1>4. Stands(g, Height)
  BY <1>1, <1>2, <1>3 DEF Stands, Drawable
<1> QED
  BY <1>2, <1>4 DEF g

(* The parent with the menu drawn on its first row.                        *)
MenuCells(s) == OverCells(s.par.cells, 1, 1, M!MenuLine(s))
WithMenu(s) == TermOf(MenuCells(s), 1 + Len(M!MenuLine(s)), 1, s.par.blink, "menu", "menu")

(* It is.                                                                  *)
LEMMA MenuDrawn ==
  ASSUME NEW s, TermOK(s.par, Height)
  PROVE  LET row == M!term_blit(M!term_setCursorPos(s.par, 1, 1), M!MenuLine(s))
         IN  [row EXCEPT !.text = "menu", !.back = "menu"] = WithMenu(s)
<1> DEFINE p == s.par  line == M!MenuLine(s)  cs == MenuCells(s)  x == 1 + Len(line)
           row == M!term_blit(M!term_setCursorPos(p, 1, 1), line)
<1>1. p = TermOf(p.cells, p.x, p.y, p.blink, p.text, p.back)
  BY DEF TermOK
<1> HIDE DEF line
<1>2. M!term_setCursorPos(p, 1, 1) = TermOf(p.cells, 1, 1, p.blink, p.text, p.back)
  BY <1>1, ParentMoved, SameDrawing
<1>3. row = TermOf(OverCells(p.cells, 1, 1, line), x, 1, p.blink, p.text, p.back)
  BY <1>2, ParentBlit, SameDrawing
<1>4. row = TermOf(cs, x, 1, p.blink, p.text, p.back)
  BY <1>3 DEF MenuCells, line
<1> HIDE DEF row, cs, x
<1> DEFINE b == p.blink  t == p.text  k == p.back
<1> HIDE DEF b, t, k
<1> DEFINE u == [row EXCEPT !.text = "menu"]
<1>5. u = TermOf(cs, x, 1, b, "menu", k)
  BY <1>4 DEF TermOf, b, t, k
<1> HIDE DEF u
<1>6. [u EXCEPT !.back = "menu"] = TermOf(cs, x, 1, b, "menu", "menu")
  BY <1>5 DEF TermOf
<1>7. [row EXCEPT !.text = "menu", !.back = "menu"] = [u EXCEPT !.back = "menu"]
  BY DEF u
<1> QED
  BY <1>6, <1>7 DEF row, cs, x, b, WithMenu, line

(* The first row is the menu, and the others are as they were.             *)
LEMMA WithMenuIs ==
  ASSUME NEW s, TermOK(s.par, Height), DOMAIN s.par.cells[1] = 1 .. Width
  PROVE  LET q == WithMenu(s)
         IN  /\ TermOK(q, Height) /\ q.cells[1] = M!MenuLine(s) /\ DOMAIN q.cells[1] = 1 .. Width
             /\ \A m \in 1 .. Height : m # 1 => q.cells[m] = s.par.cells[m]
<1> DEFINE cs == s.par.cells  line == M!MenuLine(s)  row == OverLine(cs[1], 1, line)  cs2 == MenuCells(s)  q == WithMenu(s)
<1>1. cs = [m \in 1 .. Height |-> cs[m]]
  BY DEF TermOK
<1>2. DOMAIN cs = 1 .. Height /\ 1 \in 1 .. Height
  BY <1>1, ShellAssumption
<1>3. cs2 = [cs EXCEPT ![1] = row]
  BY DEF MenuCells, OverCells
<1>4. \E f : line = [c \in 1 .. Width |-> f[c]]
  <2>1. line = [c \in 1 .. Width |-> <<[n \in 1 .. M!Count(s) |-> M!tProcess(s, n).sTitle], s.nCurrentProcess, "menu">>]
    BY DEF M!MenuLine
  <2>2. line = [c \in 1 .. Width |-> line[c]]
    BY <2>1
  <2> QED
    BY <2>2
<1> HIDE DEF line
<1>5. DOMAIN line = 1 .. Width /\ line = [c \in 1 .. Width |-> line[c]]
  BY <1>4
<1>6. row = line
  <2>1. \A c \in 1 .. Width : c - 1 + 1 = c
    BY ShellAssumption
  <2>2. row = [c \in 1 .. Width |-> line[c]]
    BY <1>5, <2>1 DEF OverLine
  <2> QED
    BY <1>5, <2>2
<1> HIDE DEF row
<1>7. DOMAIN cs2 = 1 .. Height /\ cs2[1] = line /\ \A m \in 1 .. Height : m # 1 => cs2[m] = cs[m]
  BY <1>2, <1>3, <1>6
<1>8. cs2 = [m \in 1 .. Height |-> cs2[m]]
  <2>1. cs2 = [m \in DOMAIN cs2 |-> cs2[m]]
    BY <1>3
  <2> QED
    BY <1>7, <2>1
<1> HIDE DEF cs2, cs
<1>9. q.cells = cs2
  BY TermOfFields DEF WithMenu, cs2
<1>10. TermOK(q, Height)
  BY <1>8, TermOfOK DEF WithMenu, cs2
<1> HIDE DEF q
<1>11. /\ TermOK(q, Height) /\ q.cells[1] = line /\ DOMAIN q.cells[1] = 1 .. Width
       /\ \A m \in 1 .. Height : m # 1 => q.cells[m] = cs[m]
  BY <1>5, <1>7, <1>9, <1>10
<1> QED
  BY <1>11 DEF q, line, cs

(* The menu that is shown is up to date.                                   *)
MenuUp(s) == s.bShowMenu => s.par.cells[1] = M!MenuLine(s)

(* What the menu shows.                                                    *)
LEMMA MenuLineSame ==
  ASSUME NEW s, NEW r, s.tProcesses \in Seq(Pid), r.tProcesses = s.tProcesses, r.nCurrentProcess = s.nCurrentProcess,
         \A p \in Pid : r.proc[p].sTitle = s.proc[p].sTitle
  PROVE  M!MenuLine(r) = M!MenuLine(s)
<1> DEFINE T(z) == [n \in 1 .. M!Count(z) |-> M!tProcess(z, n).sTitle]
<1>1. M!Count(r) = M!Count(s)
  BY DEF M!Count
<1>2. ASSUME NEW n \in 1 .. M!Count(s) PROVE M!tProcess(r, n).sTitle = M!tProcess(s, n).sTitle
  BY DEF M!tProcess, M!Count
<1>3. T(r) = T(s)
  BY <1>1, <1>2
<1>4. M!MenuLine(r) = [c \in 1 .. Width |-> <<T(r), r.nCurrentProcess, "menu">>]
  BY DEF M!MenuLine
<1>5. M!MenuLine(s) = [c \in 1 .. Width |-> <<T(s), s.nCurrentProcess, "menu">>]
  BY DEF M!MenuLine
<1> HIDE DEF T
<1> QED
  BY <1>3, <1>4, <1>5

(* The menu, and then the cursor of the window in front.                   *)
MenuPut(s) == PutPar(s, [M!term_blit(M!term_setCursorPos(s.par, 1, 1), M!MenuLine(s)) EXCEPT !.text = "menu", !.back = "menu"])
CursorBack(s) == M!Drawn(s, s.tProcesses[s.nCurrentProcess], M!restoreCursor(M!Canvas(s, s.tProcesses[s.nCurrentProcess])))

(* redrawMenu in these words.                                              *)
LEMMA RedrawMenuIs ==
  ASSUME NEW s, Shape(s)
  PROVE  /\ Shape(MenuPut(s)) /\ Kept(MenuPut(s), s) /\ MenuPut(s).proc = s.proc
         /\ MenuPut(s).nCurrentProcess = s.nCurrentProcess /\ MenuPut(s).bShowMenu = s.bShowMenu
         /\ MenuPut(s).par = [M!term_blit(M!term_setCursorPos(s.par, 1, 1), M!MenuLine(s)) EXCEPT !.text = "menu", !.back = "menu"]
         /\ M!redrawMenu(s) = IF ~s.bShowMenu THEN s
                              ELSE IF s.nCurrentProcess \in 1 .. Len(s.tProcesses) THEN CursorBack(MenuPut(s))
                              ELSE MenuPut(s)
<1> DEFINE v == [M!term_blit(M!term_setCursorPos(s.par, 1, 1), M!MenuLine(s)) EXCEPT !.text = "menu", !.back = "menu"]
           t == PutPar(s, v)  p == s.tProcesses[s.nCurrentProcess]
<1>1. MenuPut(s) = t
  BY DEF MenuPut
<1>2. M!redrawMenu(s) = IF ~s.bShowMenu THEN s
                        ELSE IF s.nCurrentProcess \in 1 .. Len(s.tProcesses) THEN M!Drawn(t, p, M!restoreCursor(M!Canvas(t, p)))
                        ELSE t
  BY DEF M!redrawMenu, M!Count, PutPar
<1> HIDE DEF v
<1>3. /\ IsSh(t) /\ t.par = v /\ SameList(t, s) /\ SameRuns(t, s)
      /\ t.proc = s.proc /\ t.bShowMenu = s.bShowMenu /\ t.nCurrentProcess = s.nCurrentProcess
  BY PutsScreen DEF Shape
<1> HIDE DEF t
<1>4. Shape(t) /\ Kept(t, s) /\ t.tProcesses = s.tProcesses
  BY <1>3 DEF Shape, Kept, SameList, SameProcs
<1>5. CursorBack(t) = M!Drawn(t, p, M!restoreCursor(M!Canvas(t, p)))
  BY <1>3, <1>4 DEF CursorBack
<1>6. M!redrawMenu(s) = IF ~s.bShowMenu THEN s
                        ELSE IF s.nCurrentProcess \in 1 .. Len(s.tProcesses) THEN CursorBack(t) ELSE t
  BY <1>2, <1>5
<1> QED
  BY <1>1, <1>3, <1>4, <1>6 DEF v

(* redrawMenu only draws.                                                  *)
LEMMA RedrawMenuKept ==
  ASSUME NEW s, Shape(s)
  PROVE  LET r == M!redrawMenu(s) IN Kept(r, s) /\ r.nCurrentProcess = s.nCurrentProcess /\ r.bShowMenu = s.bShowMenu
<1> DEFINE t == MenuPut(s)  p == t.tProcesses[t.nCurrentProcess]  d == M!restoreCursor(M!Canvas(t, p))  r == M!Drawn(t, p, d)
<1>1. /\ Shape(t) /\ Kept(t, s) /\ t.nCurrentProcess = s.nCurrentProcess /\ t.bShowMenu = s.bShowMenu
      /\ M!redrawMenu(s) = IF ~s.bShowMenu THEN s
                           ELSE IF s.nCurrentProcess \in 1 .. Len(s.tProcesses) THEN r ELSE t
  BY RedrawMenuIs DEF CursorBack
<1> HIDE DEF t, d
<1>2. CASE ~s.bShowMenu
  BY <1>1, <1>2, KeptSame
<1>3. CASE s.bShowMenu /\ s.nCurrentProcess \in 1 .. Len(s.tProcesses)
  <2>1. p \in Pid
    BY <1>1, <1>3 DEF Shape, Kept, SameList
  <2> HIDE DEF p
  <2>2. Kept(r, t) /\ r.nCurrentProcess = t.nCurrentProcess /\ r.bShowMenu = t.bShowMenu
    BY <1>1, <2>1, DrawnKept
  <2> HIDE DEF r
  <2>3. Kept(r, s)
    BY <1>1, <2>2, KeptBoth
  <2> QED
    BY <1>1, <1>3, <2>2, <2>3
<1>4. CASE s.bShowMenu /\ s.nCurrentProcess \notin 1 .. Len(s.tProcesses)
  BY <1>1, <1>4
<1> QED
  BY <1>2, <1>3, <1>4

(* The lines of a window below the first row are still there.              *)
LEMMA LinesBelow ==
  ASSUME NEW w, WinOK(w), NEW h, Within(w, h), w.y = 2, NEW p, NEW q, AllLinesIn(w, p),
         \A m \in 1 .. h : m # 1 => q.cells[m] = p.cells[m]
  PROVE  AllLinesIn(w, q)
<1> SUFFICES ASSUME NEW n \in 1 .. w.height PROVE LineIn(w, q, n)
  BY DEF AllLinesIn
<1>1. w.y + n - 1 \in 1 .. h /\ LineIn(w, p, n)
  BY DEF Within, AllLinesIn
<1>2. w.height \in Nat
  BY DEF WinOK
<1>3. w.y + n - 1 # 1
  BY <1>2
<1>4. q.cells[w.y + n - 1] = p.cells[w.y + n - 1]
  BY <1>1, <1>3
<1> QED
  BY <1>1, <1>4 DEF LineIn

(* redrawMenu puts the menu on the first row and the cursor back.          *)
LEMMA RedrawMenuCore ==
  ASSUME NEW s, Shape(s), Core(s)
  PROVE  Core(M!redrawMenu(s)) /\ MenuUp(M!redrawMenu(s))
<1> DEFINE t == MenuPut(s)  q == WithMenu(s)  r == M!redrawMenu(s)
<1>1. Base(s) /\ Placed(s) /\ Only(s) /\ FrontOK(s) /\ s.tProcesses \in Seq(Pid)
  BY DEF Core, Shape
<1>2. TermOK(s.par, Height)
  <2>1. Stands(On(s.proc[1].window, s.par), Height) /\ On(s.proc[1].window, s.par).par = s.par
    BY <1>1, ShellAssumption DEF Base, On
  <2> QED
    BY <2>1, StandsIs
<1>3. DOMAIN s.par.cells[1] = 1 .. Width
  BY <1>1, ShellAssumption DEF Base
<1>4. /\ TermOK(q, Height) /\ q.cells[1] = M!MenuLine(s) /\ DOMAIN q.cells[1] = 1 .. Width
      /\ \A m \in 1 .. Height : m # 1 => q.cells[m] = s.par.cells[m]
  BY <1>2, <1>3, WithMenuIs
<1>5. \A m \in 1 .. Height : DOMAIN q.cells[m] = 1 .. Width
  BY <1>1, <1>4 DEF Base
<1>6. /\ Shape(t) /\ Kept(t, s) /\ t.proc = s.proc /\ t.nCurrentProcess = s.nCurrentProcess /\ t.bShowMenu = s.bShowMenu
      /\ t.par = q /\ t.tProcesses = s.tProcesses
      /\ r = IF ~s.bShowMenu THEN s ELSE IF s.nCurrentProcess \in 1 .. Len(s.tProcesses) THEN CursorBack(t) ELSE t
  BY <1>2, MenuDrawn, RedrawMenuIs DEF Kept, SameList
<1>7. Kept(r, s) /\ r.nCurrentProcess = s.nCurrentProcess /\ r.bShowMenu = s.bShowMenu
  BY RedrawMenuKept
<1> HIDE DEF t, q, r
<1>8. r.tProcesses = s.tProcesses /\ \A p \in Pid : r.proc[p].sTitle = s.proc[p].sTitle
  BY <1>7 DEF Kept, SameList, SameProcs
<1>9. M!MenuLine(r) = M!MenuLine(s)
  BY <1>1, <1>7, <1>8, MenuLineSame
<1>10. ASSUME Base(r), \A p \in Pid : r.proc[p].window = s.proc[p].window PROVE Core(r)
  <2>1. Placed(r)
    <3>1. \A n \in 1 .. Len(s.tProcesses) : s.tProcesses[n] \in Pid
      BY <1>1
    <3> QED
      BY <1>1, <1>7, <1>8, <1>10, <3>1 DEF Placed
  <2>2. Only(r)
    BY <1>1, <1>7, <1>8, <1>10 DEF Only
  <2>3. FrontOK(r)
    BY <1>1, <1>7, <1>8 DEF FrontOK
  <2> QED
    BY <1>10, <2>1, <2>2, <2>3 DEF Core
<1>11. CASE ~s.bShowMenu
  <2>1. r = s
    BY <1>6, <1>11
  <2>2. Core(r) /\ MenuUp(r)
    BY <1>11, <2>1 DEF MenuUp
  <2> QED
    BY <2>2 DEF r
<1>12. CASE s.bShowMenu /\ s.nCurrentProcess \in 1 .. Len(s.tProcesses)
  <2> DEFINE p == s.tProcesses[s.nCurrentProcess]  w == s.proc[p].window  d == M!restoreCursor(M!Canvas(t, p))
  <2>1. p \in Pid /\ PlacedIn(w, s.bShowMenu)
    <3> DEFINE n == s.nCurrentProcess
    <3>1. n \in 1 .. Len(s.tProcesses)
      BY <1>12
    <3> HIDE DEF n
    <3>2. s.tProcesses[n] \in Pid
      BY <1>1, <3>1
    <3>3. PlacedIn(s.proc[s.tProcesses[n]].window, s.bShowMenu)
      BY <1>1, <3>1 DEF Placed
    <3> QED
      BY <3>2, <3>3 DEF n
  <2>2. \A o \in Pid : s.proc[o].window.visible <=> o = p
    BY <1>1, <1>12, ShellAssumption DEF Only, Shape
  <2>3. r = M!Drawn(t, p, d)
    BY <1>6, <1>12 DEF CursorBack
  <2> HIDE DEF p
  <2>4. w.visible /\ w.y = 2
    BY <1>12, <2>1, <2>2 DEF PlacedIn, RoomY
  <2>5. WinOK(w) /\ Within(w, Height) /\ AllLinesIn(w, s.par)
    <3>1. Stands(On(w, s.par), Height) /\ On(w, s.par).win = w /\ On(w, s.par).par = s.par
      BY <1>1, <2>1 DEF Base, On
    <3> QED
      BY <2>4, <3>1, StandsIs
  <2>6. M!Canvas(t, p) = On(w, q)
    BY <1>6, CanvasIs
  <2> HIDE DEF w
  <2>7. PICK q2 : /\ U!restoreCursor(On(w, q)) = On(w, q2) /\ TermOK(q2, Height)
                  /\ w.visible => q2.cells = q.cells /\ U!CursorShown(w, q2)
    BY <1>4, RestoreIs
  <2>8. d = On(w, q2)
    BY <2>6, <2>7, SameDrawing
  <2>9. d.win = w /\ d.par = q2
    BY <2>8 DEF On
  <2> HIDE DEF d
  <2>10. r.par = q2 /\ \A o \in Pid : r.proc[o].window = s.proc[o].window
    <3>1. /\ r.par = d.par /\ r.proc[p].window = d.win /\ \A o \in Pid : o # p => r.proc[o].window = t.proc[o].window
      <4> DEFINE v == M!Drawn(t, p, d)
      <4>1. v.par = d.par /\ v.proc[p].window = d.win /\ \A o \in Pid : o # p => v.proc[o].window = t.proc[o].window
        <5>1. Shape(t) /\ p \in Pid
          BY <1>6, <2>1
        <5> QED
          BY ONLY <5>1, DrawnKept
      <4> HIDE DEF v
      <4>2. r = v
        BY <2>3 DEF v
      <4> QED
        BY <4>1, <4>2
    <3> QED
      BY <1>6, <2>9, <3>1 DEF w
  <2>11. IsShown(w, q2)
    <3>1. AllLinesIn(w, q)
      BY <1>4, <2>4, <2>5, LinesBelow
    <3> QED
      BY <2>4, <2>7, <3>1, SameCells DEF IsShown
  <2>12. \A m \in 1 .. Height : DOMAIN r.par.cells[m] = 1 .. Width
    BY <1>5, <2>4, <2>7, <2>10
  <2>13. \A o \in Pid : s.proc[o].window.visible => IsShown(s.proc[o].window, r.par)
    BY <2>2, <2>10, <2>11 DEF w
  <2>14. Base(r)
    BY <1>1, <2>7, <2>10, <2>12, <2>13, OtherParent
  <2>15. MenuUp(r)
    BY <1>4, <1>9, <2>4, <2>7, <2>10 DEF MenuUp
  <2> QED
    BY <1>10, <2>10, <2>14, <2>15 DEF r
<1>13. CASE s.bShowMenu /\ s.nCurrentProcess \notin 1 .. Len(s.tProcesses)
  <2>1. r = t /\ s.nCurrentProcess = 0
    BY <1>1, <1>6, <1>13 DEF FrontOK
  <2>2. \A o \in Pid : s.proc[o].window.visible => IsShown(s.proc[o].window, r.par)
    BY <1>1, <2>1 DEF Only
  <2>3. Base(r)
    BY <1>1, <1>4, <1>5, <1>6, <2>1, <2>2, OtherParent
  <2>4. MenuUp(r)
    BY <1>4, <1>6, <1>9, <2>1 DEF MenuUp
  <2> QED
    BY <1>6, <1>10, <2>1, <2>3, <2>4 DEF r
<1> QED
  BY <1>11, <1>12, <1>13

-----------------------------------------------------------------------------
(* Windows that are given another room: no two windows are visible, and    *)
(* none is shown or hidden.                                                *)
Lone(s) == \A p, q \in Pid : s.proc[p].window.visible /\ s.proc[q].window.visible => p = q
SameSeen(r, s) == \A p \in Pid : r.proc[p].window.visible = s.proc[p].window.visible
SameNumbers(r, s) == r.nCurrentProcess = s.nCurrentProcess /\ r.bShowMenu = s.bShowMenu

(* resizeWindow in the words of canvases.                                  *)
LEMMA ResizeWindowSays ==
  ASSUME NEW s, NEW p
  PROVE  M!resizeWindow(s, p) = M!Drawn(s, p, Roomed(M!Canvas(s, p), s.bShowMenu))
<1>1. M!windowY(s) = RoomY(s.bShowMenu) /\ M!windowHeight(s) = RoomHeight(s.bShowMenu)
  BY DEF M!windowY, M!windowHeight, RoomY, RoomHeight
<1> QED
  BY <1>1 DEF M!resizeWindow, Roomed, Fitted

(* resizeWindow moves one window into the room.                            *)
LEMMA ResizeWindowIs ==
  ASSUME NEW s, Shape(s), NEW p \in Pid
  PROVE  LET r == M!resizeWindow(s, p)
         IN  /\ Kept(r, s) /\ SameNumbers(r, s)
             /\ \A q \in Pid : q # p => r.proc[q].window = s.proc[q].window
             /\ Base(s) /\ Lone(s) => Base(r) /\ SameSeen(r, s) /\ PlacedIn(r.proc[p].window, s.bShowMenu)
<1> DEFINE d == Roomed(M!Canvas(s, p), s.bShowMenu)  r == M!Drawn(s, p, d)
<1>1. M!resizeWindow(s, p) = r
  BY ResizeWindowSays
<1>2. /\ Kept(r, s) /\ r.par = d.par /\ r.nCurrentProcess = s.nCurrentProcess /\ r.bShowMenu = s.bShowMenu
      /\ r.proc[p].window = d.win /\ \A q \in Pid : q # p => r.proc[q].window = s.proc[q].window
  <2> HIDE DEF d
  <2> QED
    BY DrawnKept
<1>3. ASSUME Base(s), Lone(s) PROVE Base(r) /\ SameSeen(r, s) /\ PlacedIn(r.proc[p].window, s.bShowMenu)
  <2>1. Stands(M!Canvas(s, p), Height) /\ M!Canvas(s, p).win = s.proc[p].window /\ M!Canvas(s, p).par = s.par
    BY <1>3, CanvasIs
  <2>2. Drew(d, s.par, Height) /\ PlacedIn(d.win, s.bShowMenu) /\ d.win.visible = s.proc[p].window.visible
    BY <2>1, RoomedDrew
  <2> HIDE DEF d
  <2>3. d.win.visible => \A q \in Pid : q # p => ~s.proc[q].window.visible
    BY <1>3, <2>2 DEF Lone
  <2>4. Base(r)
    BY <1>3, <2>2, <2>3, DrawnBase
  <2> HIDE DEF r
  <2>5. SameSeen(r, s)
    BY <1>2, <2>2 DEF SameSeen
  <2> QED
    BY <1>2, <2>2, <2>4, <2>5
<1> HIDE DEF r
<1> QED
  BY <1>1, <1>2, <1>3 DEF SameNumbers

(* The loop over the processes.                                            *)
ResizeBody(s, f, n) == IF n = 0 THEN s ELSE M!resizeWindow(f[n - 1], s.tProcesses[n])

(* There is such a loop.                                                   *)
LEMMA ResizeDefined ==
  ASSUME NEW s, NEW n \in Nat
  PROVE  \E f : f = [i \in 0 .. n |-> ResizeBody(s, f, i)]
<1> DEFINE Ok(m) == \E f : f = [i \in 0 .. m |-> ResizeBody(s, f, i)]
           Bad == {m \in Nat : ~Ok(m)}
<1> SUFFICES ASSUME Bad # {} PROVE FALSE
  OBVIOUS
<1>1. PICK m \in Bad : \A k \in Bad : m <= k
  <2>1. Bad \subseteq Nat
    OBVIOUS
  <2> HIDE DEF Bad
  <2> QED
    BY <2>1, LeastNumber
<1>2. m \in Nat /\ ~Ok(m)
  OBVIOUS
<1>3. CASE m = 0
  <2> DEFINE g == [i \in 0 .. m |-> s]
  <2>1. \A i \in 0 .. m : g[i] = ResizeBody(s, g, i)
    BY <1>3 DEF ResizeBody
  <2>2. g = [i \in 0 .. m |-> ResizeBody(s, g, i)]
    BY <2>1
  <2> QED
    BY <1>2, <2>2
<1>4. CASE m # 0
  <2>1. m - 1 \in Nat /\ m - 1 \notin Bad
    BY <1>1, <1>2, <1>4
  <2>2. PICK f : f = [i \in 0 .. m - 1 |-> ResizeBody(s, f, i)]
    BY <2>1
  <2> DEFINE g == [i \in 0 .. m |-> IF i = m THEN ResizeBody(s, f, m) ELSE f[i]]
  <2>3. \A i \in 0 .. m : g[i] = ResizeBody(s, g, i)
    <3> SUFFICES ASSUME NEW i \in 0 .. m PROVE g[i] = ResizeBody(s, g, i)
      OBVIOUS
    <3>1. i # 0 => i - 1 \in 0 .. m - 1 /\ g[i - 1] = f[i - 1]
      BY <1>2
    <3>2. ResizeBody(s, g, i) = ResizeBody(s, f, i)
      <4> HIDE DEF g
      <4> QED
        BY <3>1 DEF ResizeBody
    <3>3. i # m => i \in 0 .. m - 1
      BY <1>2
    <3>4. i \in 0 .. m - 1 => f[i] = ResizeBody(s, f, i)
      BY <2>2
    <3> QED
      BY <3>2, <3>3, <3>4
  <2>4. g = [i \in 0 .. m |-> ResizeBody(s, g, i)]
    BY <2>3
  <2> QED
    BY <1>2, <2>4
<1> QED
  BY <1>3, <1>4

(* The function behind it.                                                 *)
LEMMA ResizeFunction ==
  ASSUME NEW s, NEW n \in Nat, M!Count(s) = n
  PROVE  \E f : /\ M!resizeWindows(s) = PutResized(f[n], TRUE) /\ f[0] = s
                /\ \A i \in 1 .. n : f[i] = M!resizeWindow(f[i - 1], s.tProcesses[i])
<1> DEFINE g == CHOOSE f : f = [i \in 0 .. M!Count(s) |-> IF i = 0 THEN s ELSE M!resizeWindow(f[i - 1], s.tProcesses[i])]
<1>1. M!resizeWindows(s) = PutResized(g[M!Count(s)], TRUE)
  BY DEF M!resizeWindows, PutResized
<1>2. \E f : f = [i \in 0 .. M!Count(s) |-> IF i = 0 THEN s ELSE M!resizeWindow(f[i - 1], s.tProcesses[i])]
  <2>1. \E f : f = [i \in 0 .. n |-> ResizeBody(s, f, i)]
    BY ResizeDefined
  <2> QED
    BY <2>1 DEF ResizeBody
<1>3. g = [i \in 0 .. M!Count(s) |-> IF i = 0 THEN s ELSE M!resizeWindow(g[i - 1], s.tProcesses[i])]
  BY <1>2
<1> HIDE DEF g
<1>4. \A i \in 0 .. n : g[i] = IF i = 0 THEN s ELSE M!resizeWindow(g[i - 1], s.tProcesses[i])
  BY <1>3
<1>5. g[0] = s /\ \A i \in 1 .. n : g[i] = M!resizeWindow(g[i - 1], s.tProcesses[i])
  BY <1>4
<1> QED
  BY <1>1, <1>5


(* The windows 1 to n are in the room.                                     *)
ResizedTo(t, s, n) ==
  /\ Kept(t, s) /\ SameNumbers(t, s)
  /\ Base(s) /\ Lone(s) => /\ Base(t) /\ SameSeen(t, s)
                           /\ \A i \in 1 .. n : PlacedIn(t.proc[s.tProcesses[i]].window, s.bShowMenu)

(* One more.                                                               *)
LEMMA ResizeStep ==
  ASSUME NEW s, Shape(s), NEW n \in 1 .. Len(s.tProcesses), NEW t, ResizedTo(t, s, n - 1)
  PROVE  ResizedTo(M!resizeWindow(t, s.tProcesses[n]), s, n)
<1> DEFINE p == s.tProcesses[n]  r == M!resizeWindow(t, p)
<1>1. p \in Pid /\ n \in Nat /\ Shape(t) /\ Kept(t, s) /\ SameNumbers(t, s)
  BY DEF Shape, Kept, ResizedTo
<1> HIDE DEF p
<1>2. /\ Kept(r, t) /\ SameNumbers(r, t)
      /\ \A q \in Pid : q # p => r.proc[q].window = t.proc[q].window
      /\ Base(t) /\ Lone(t) => Base(r) /\ SameSeen(r, t) /\ PlacedIn(r.proc[p].window, t.bShowMenu)
  BY <1>1, ResizeWindowIs
<1> HIDE DEF r
<1>3. Kept(r, s) /\ SameNumbers(r, s)
  BY <1>1, <1>2, KeptBoth DEF SameNumbers
<1>4. ASSUME Base(s), Lone(s)
      PROVE  /\ Base(r) /\ SameSeen(r, s)
             /\ \A i \in 1 .. n : PlacedIn(r.proc[s.tProcesses[i]].window, s.bShowMenu)
  <2>1. Base(t) /\ SameSeen(t, s) /\ \A i \in 1 .. n - 1 : PlacedIn(t.proc[s.tProcesses[i]].window, s.bShowMenu)
    BY <1>4 DEF ResizedTo
  <2>2. Lone(t)
    BY <1>4, <2>1 DEF Lone, SameSeen
  <2>3. Base(r) /\ SameSeen(r, t) /\ PlacedIn(r.proc[p].window, s.bShowMenu)
    BY <1>1, <1>2, <2>1, <2>2 DEF SameNumbers
  <2>4. SameSeen(r, s)
    BY <2>1, <2>3 DEF SameSeen
  <2>5. ASSUME NEW i \in 1 .. n PROVE PlacedIn(r.proc[s.tProcesses[i]].window, s.bShowMenu)
    <3> DEFINE q == s.tProcesses[i]
    <3>1. q \in Pid
      BY <1>1 DEF Shape
    <3>2. i \in 1 .. n - 1 \/ i = n
      BY <1>1
    <3>3. q = p \/ PlacedIn(t.proc[q].window, s.bShowMenu)
      BY <2>1, <3>2 DEF p
    <3> HIDE DEF q
    <3>4. PlacedIn(r.proc[q].window, s.bShowMenu)
      BY <1>2, <2>3, <3>1, <3>3
    <3> QED
      BY <3>4 DEF q
  <2> QED
    BY <2>3, <2>4, <2>5
<1>5. ResizedTo(r, s, n)
  BY <1>3, <1>4 DEF ResizedTo
<1> QED
  BY <1>5 DEF r, p

(* resizeWindows puts every window into the room.                          *)
LEMMA ResizeWindowsIs ==
  ASSUME NEW s, Shape(s)
  PROVE  LET r == M!resizeWindows(s)
         IN  /\ Kept(r, s) /\ SameNumbers(r, s)
             /\ Base(s) /\ Only(s) /\ FrontOK(s) => Core(r)
<1> DEFINE k == Len(s.tProcesses)  r == M!resizeWindows(s)
<1>1. k \in Nat /\ M!Count(s) = k
  BY DEF Shape, M!Count
<1> DEFINE on == TRUE
<1>2. PICK f : /\ r = PutResized(f[k], on) /\ f[0] = s
               /\ \A i \in 1 .. k : f[i] = M!resizeWindow(f[i - 1], s.tProcesses[i])
  BY <1>1, ResizeFunction
<1> HIDE DEF r, on
<1>3. ResizedTo(f[k], s, k)
  <2> DEFINE Bad == {m \in 0 .. k : ~ResizedTo(f[m], s, m)}
  <2> SUFFICES ASSUME Bad # {} PROVE FALSE
    BY <1>1
  <2>1. PICK m \in Bad : \A j \in Bad : m <= j
    <3>1. Bad \subseteq Nat
      BY <1>1
    <3> HIDE DEF Bad
    <3> QED
      BY <3>1, LeastNumber
  <2>2. m \in 0 .. k /\ ~ResizedTo(f[m], s, m)
    BY <2>1
  <2>3. CASE m = 0
    <3>1. ResizedTo(s, s, 0)
      BY KeptSame DEF ResizedTo, SameNumbers, SameSeen
    <3> QED
      BY <1>2, <2>2, <2>3, <3>1
  <2>4. CASE m # 0
    <3>1. m - 1 \in 0 .. k /\ m \in 1 .. k /\ m - 1 \notin Bad
      BY <1>1, <2>1, <2>2, <2>4
    <3>2. ResizedTo(f[m - 1], s, m - 1)
      BY <3>1
    <3>3. ResizedTo(M!resizeWindow(f[m - 1], s.tProcesses[m]), s, m)
      <4> HIDE DEF Bad
      <4> QED
        BY <3>1, <3>2, ResizeStep
    <3> QED
      BY <1>2, <2>2, <3>1, <3>3
  <2> QED
    BY <2>3, <2>4
<1> DEFINE t == f[k]
<1>4. ResizedTo(t, s, k) /\ r = PutResized(t, on)
  BY <1>2, <1>3
<1> HIDE DEF t
<1>5. Kept(t, s) /\ Shape(t) /\ SameNumbers(t, s)
  BY <1>4 DEF ResizedTo, Kept
<1>6. IsSh(r) /\ r.proc = t.proc /\ SameList(r, t) /\ SameRuns(r, t) /\ SameScreen(r, t)
  BY <1>4, <1>5, PutsScreen DEF Shape
<1>7. Kept(r, t) /\ SameNumbers(r, t) /\ SameWindows(r, t)
  BY <1>5, <1>6 DEF Kept, Shape, SameNumbers, SameScreen, SameList, SameProcs, SameWindows
<1>8. Kept(r, s) /\ SameNumbers(r, s)
  BY <1>5, <1>7, KeptBoth DEF SameNumbers
<1>9. ASSUME Base(s), Only(s), FrontOK(s) PROVE Core(r)
  <2>1. Lone(s)
    BY <1>9 DEF Only, Lone
  <2>2. Base(t) /\ SameSeen(t, s) /\ \A i \in 1 .. k : PlacedIn(t.proc[s.tProcesses[i]].window, s.bShowMenu)
    BY <1>4, <1>9, <2>1 DEF ResizedTo
  <2>3. t.tProcesses = s.tProcesses /\ t.nCurrentProcess = s.nCurrentProcess /\ t.bShowMenu = s.bShowMenu
    BY <1>5 DEF Kept, SameList, SameNumbers
  <2>4. Placed(t)
    BY <2>2, <2>3 DEF Placed
  <2>5. Only(t)
    BY <1>9, <2>2, <2>3 DEF Only, SameSeen
  <2>6. FrontOK(t)
    BY <1>9, <2>3 DEF FrontOK
  <2>7. Core(t)
    BY <2>2, <2>4, <2>5, <2>6 DEF Core
  <2> QED
    BY <1>5, <1>7, <2>7, CoreSame DEF Shape
<1> QED
  BY <1>8, <1>9 DEF r

(* setMenuVisible shows the menu or hides it.                              *)
LEMMA SetMenuVisibleIs ==
  ASSUME NEW s, Shape(s), NEW b
  PROVE  LET r == M!setMenuVisible(s, b)
         IN  /\ Kept(r, s) /\ r.nCurrentProcess = s.nCurrentProcess /\ r.bShowMenu = b
             /\ Core(s) => Core(r)
             /\ Core(s) /\ MenuUp(s) => MenuUp(r)
<1> DEFINE t == PutMenu(s, b)  u == M!resizeWindows(t)  v == M!redrawMenu(u)
<1>1. M!setMenuVisible(s, b) = IF s.bShowMenu = b THEN s ELSE v
  BY DEF M!setMenuVisible, PutMenu
<1>2. CASE s.bShowMenu = b
  BY <1>1, <1>2, KeptSame
<1>3. CASE s.bShowMenu # b
  <2>1. /\ IsSh(t) /\ t.bShowMenu = b /\ SameList(t, s) /\ SameRuns(t, s)
        /\ t.proc = s.proc /\ t.par = s.par /\ t.nCurrentProcess = s.nCurrentProcess
    BY PutsScreen DEF Shape
  <2> HIDE DEF t
  <2>2. Shape(t) /\ Kept(t, s) /\ t.tProcesses = s.tProcesses
    BY <2>1 DEF Shape, Kept, SameList, SameProcs
  <2>3. Core(s) => Base(t) /\ Only(t) /\ FrontOK(t)
    BY <2>1, <2>2 DEF Core, Base, Only, FrontOK
  <2>4. Kept(u, t) /\ SameNumbers(u, t) /\ (Core(s) => Core(u))
    BY <2>2, <2>3, ResizeWindowsIs
  <2> HIDE DEF u
  <2>5. Shape(u)
    BY <2>4 DEF Kept
  <2>6. Kept(v, u) /\ v.nCurrentProcess = u.nCurrentProcess /\ v.bShowMenu = u.bShowMenu
    BY <2>5, RedrawMenuKept
  <2>7. Core(s) => Core(v) /\ MenuUp(v)
    BY <2>4, <2>5, RedrawMenuCore
  <2> HIDE DEF v
  <2>8. Kept(v, s)
    BY <2>2, <2>4, <2>6, KeptBoth
  <2>9. v.nCurrentProcess = s.nCurrentProcess /\ v.bShowMenu = b
    BY <2>1, <2>4, <2>6 DEF SameNumbers
  <2> QED
    BY <1>1, <1>3, <2>7, <2>8, <2>9
<1> QED
  BY <1>2, <1>3

-----------------------------------------------------------------------------
(* A program writes on a window: what is in front stays, and so does the   *)
(* menu above it.                                                          *)
LEMMA RedrawnCore ==
  ASSUME NEW s, Shape(s), NEW p \in Pid, NEW d, Core(s) => Redrawn(d, M!Canvas(s, p), Height)
  PROVE  LET r == M!Drawn(s, p, d)
         IN  /\ Kept(r, s) /\ SameNumbers(r, s)
             /\ Core(s) => Core(r)
             /\ Core(s) /\ MenuUp(s) => MenuUp(r)
<1> DEFINE r == M!Drawn(s, p, d)  e == M!Canvas(s, p)  w == s.proc[p].window
<1>1. /\ Kept(r, s) /\ r.par = d.par /\ r.nCurrentProcess = s.nCurrentProcess /\ r.bShowMenu = s.bShowMenu
      /\ r.proc[p].window = d.win /\ \A q \in Pid : q # p => r.proc[q].window = s.proc[q].window
  BY DrawnKept
<1>2. ASSUME Core(s) PROVE Core(r) /\ (MenuUp(s) => MenuUp(r))
  <2>1. Base(s) /\ Placed(s) /\ Only(s) /\ FrontOK(s) /\ s.tProcesses \in Seq(Pid)
    BY <1>2 DEF Core, Shape
  <2>2. e.win = w /\ e.par = s.par
    BY CanvasIs
  <2>3. Redrawn(d, e, Height)
    BY <1>2
  <2> HIDE DEF e, w
  <2>4. SameFrame(d.win, w) /\ DrawnAs(d, d.win, s.par, Height)
    BY <2>2, <2>3 DEF Redrawn
  <2>5. Drew(d, s.par, Height)
    BY <2>4, DrawnDrew
  <2>6. d.win.visible = w.visible /\ \A menu : PlacedIn(w, menu) => PlacedIn(d.win, menu)
    BY <2>4 DEF SameFrame, PlacedIn
  <2>7. d.win.visible => \A q \in Pid : q # p => ~s.proc[q].window.visible
    BY <2>1, <2>6 DEF Only, w
  <2>8. Base(r)
    BY <2>1, <2>5, <2>7, DrawnBase
  <2> HIDE DEF r
  <2>9. SameSeen(r, s)
    BY <1>1, <2>6 DEF SameSeen, w
  <2>10. r.tProcesses = s.tProcesses /\ \A q \in Pid : r.proc[q].sTitle = s.proc[q].sTitle
    BY <1>1 DEF Kept, SameList, SameProcs
  <2>11. Only(r)
    BY <1>1, <2>1, <2>9, <2>10 DEF Only, SameSeen
  <2>12. FrontOK(r)
    BY <1>1, <2>1, <2>10 DEF FrontOK
  <2>13. Placed(r)
    <3> SUFFICES ASSUME NEW n \in 1 .. Len(s.tProcesses) PROVE PlacedIn(r.proc[s.tProcesses[n]].window, s.bShowMenu)
      BY <1>1, <2>10 DEF Placed
    <3> DEFINE q == s.tProcesses[n]
    <3>1. q \in Pid /\ PlacedIn(s.proc[q].window, s.bShowMenu)
      BY <2>1 DEF Placed
    <3> HIDE DEF q
    <3>2. PlacedIn(r.proc[q].window, s.bShowMenu)
      BY <1>1, <2>6, <3>1 DEF w
    <3> QED
      BY <3>2 DEF q
  <2>14. Core(r)
    BY <2>8, <2>11, <2>12, <2>13 DEF Core
  <2>15. ASSUME s.bShowMenu PROVE r.par.cells[1] = s.par.cells[1]
    <3>1. CASE ~w.visible
      <4>1. d.par = s.par
        BY <2>4, <2>6, <3>1 DEF DrawnAs
      <4> QED
        BY <1>1, <4>1
    <3>2. CASE w.visible
      <4>1. s.nCurrentProcess # 0 /\ p = s.tProcesses[s.nCurrentProcess]
        BY <2>1, <3>2 DEF Only, w
      <4>2. s.nCurrentProcess \in 1 .. Len(s.tProcesses)
        BY <2>1, <4>1 DEF FrontOK
      <4> DEFINE n == s.nCurrentProcess
      <4>3. n \in 1 .. Len(s.tProcesses) /\ p = s.tProcesses[n]
        BY <4>1, <4>2
      <4> HIDE DEF n
      <4>4. PlacedIn(w, s.bShowMenu)
        BY <2>1, <4>3 DEF Placed, w
      <4>5. d.win.y = 2
        BY <2>4, <2>15, <4>4 DEF SameFrame, PlacedIn, RoomY
      <4>6. Around(d.par, s.par, 2, Height)
        BY <2>4, <4>5 DEF DrawnAs
      <4>7. 1 \in 1 .. Height /\ 1 < 2
        BY ShellAssumption
      <4> QED
        BY <1>1, <4>6, <4>7 DEF Around
    <3> QED
      BY <3>1, <3>2
  <2>16. M!MenuLine(r) = M!MenuLine(s)
    BY <1>1, <2>1, <2>10, MenuLineSame
  <2>17. MenuUp(s) => MenuUp(r)
    BY <1>1, <2>15, <2>16 DEF MenuUp
  <2> QED
    BY <2>14, <2>17
<1> HIDE DEF r
<1>3. Kept(r, s) /\ SameNumbers(r, s)
  BY <1>1 DEF SameNumbers
<1> QED
  BY <1>2, <1>3 DEF r

(* What a function that draws on the screen promises.                      *)
Draws(r, s) ==
  /\ Kept(r, s) /\ SameNumbers(r, s)
  /\ Core(s) => Core(r)
  /\ Core(s) /\ MenuUp(s) => MenuUp(r)

(* Text that is printed.                                                   *)
LEMMA PrintTextIs ==
  ASSUME NEW s, Shape(s), s.current \in Pid
  PROVE  Draws(M!PrintText(s), s)
<1> DEFINE p == s.current  e == M!Canvas(s, p)  d == M!print(e)  r == M!Drawn(s, p, d)
<1>1. p \in Pid /\ p # 0
  BY ShellAssumption
<1>2. M!PrintText(s) = r
  BY <1>1 DEF M!PrintText
<1> HIDE DEF p
<1>3. Core(s) => Redrawn(d, e, Height)
  <2>1. Core(s) => Stands(e, Height)
    BY <1>1, CanvasIs DEF Core
  <2> HIDE DEF e
  <2> QED
    BY <2>1, PrintRedrawn
<1> HIDE DEF d
<1>4. Draws(r, s)
  BY <1>1, <1>3, RedrawnCore DEF Draws
<1> QED
  BY <1>2, <1>4

(* The cursor that no longer blinks.                                       *)
LEMMA BlinkOffIs ==
  ASSUME NEW s, Shape(s), NEW p \in Pid
  PROVE  Draws(M!Drawn(s, p, M!setCursorBlink(M!Canvas(s, p), FALSE)), s)
<1> DEFINE off == FALSE  e == M!Canvas(s, p)  d == M!setCursorBlink(e, off)  r == M!Drawn(s, p, d)
<1>1. M!Drawn(s, p, M!setCursorBlink(M!Canvas(s, p), FALSE)) = r
  OBVIOUS
<1> HIDE DEF off
<1>2. Core(s) => Redrawn(d, e, Height)
  <2>1. Core(s) => Stands(e, Height)
    BY CanvasIs DEF Core
  <2> HIDE DEF e
  <2> QED
    BY <2>1, BlinkRedrawn
<1> HIDE DEF d
<1>3. Draws(r, s)
  BY <1>2, RedrawnCore DEF Draws
<1> QED
  BY <1>1, <1>3

(* One after the other.                                                    *)
LEMMA DrawsBoth ==
  ASSUME NEW s, NEW t, NEW r, Draws(t, s), Draws(r, t)
  PROVE  Draws(r, s)
<1>1. Kept(r, s)
  BY KeptBoth DEF Draws
<1> QED
  BY <1>1 DEF Draws, SameNumbers

(* Nothing is drawn.                                                       *)
LEMMA DrawsSame ==
  ASSUME NEW s, Shape(s)
  PROVE  Draws(s, s)
  BY KeptSame DEF Draws, SameNumbers

-----------------------------------------------------------------------------
(* The invariant of multishell.  Control: who is listed, who runs, and     *)
(* what is done when he returns.                                           *)

Events == {"none", "char", "timer", "terminate", "term_resize"}
Afters == [go : {"front", "round", "begin"}] \union [go : {"launch"}, previousTerm : Pid]
Frame == [pid : Pid, event : Events, previous : Nat, after : Afters]
Rounds == {"all", "resize"}
Round(at, n, limit, e) == [at |-> at, n |-> n, limit |-> limit, event |-> e]

Top(s) == s.stack[Len(s.stack)]
Inside(s, n) == n \in 1 .. Len(s.tProcesses)

(* A process that is listed was launched, and has its own window.          *)
Known(s) == \A n \in 1 .. Len(s.tProcesses) :
              s.proc[s.tProcesses[n]].co # "never" /\ s.proc[s.tProcesses[n]].terminal = s.tProcesses[n]

(* Every call but the first is by multishell.launch in the one before it.  *)
Link(s, i) ==
  /\ s.stack[i].after.go = "launch" /\ s.stack[i].after.previousTerm = s.stack[i - 1].pid
  /\ Inside(s, s.stack[i].previous) /\ s.tProcesses[s.stack[i].previous] = s.stack[i - 1].pid
Chain(s) == \A i \in 2 .. Len(s.stack) : Link(s, i)

(* The last call is of the process that runs.                              *)
TopRuns(s) == s.current = Top(s).pid /\ Inside(s, s.nRunningProcess) /\ s.tProcesses[s.nRunningProcess] = Top(s).pid

(* The first is by the loop over events, where the loop is.                *)
CallerIs(s) ==
  /\ s.stack[1].after.go # "launch"
  /\ s.stack[1].after.go = "begin" => s.loop.at = "begin" /\ FrontOK(s)
  /\ s.stack[1].after.go = "front" => s.loop.at = "wait" /\ Inside(s, s.nCurrentProcess)
  /\ s.stack[1].after.go = "round" => s.loop.at \in Rounds

Calls(s) ==
  /\ s.stack \in Seq(Frame) /\ s.nRunningProcess \in Nat
  /\ s.stack # <<>> => Chain(s) /\ TopRuns(s) /\ CallerIs(s)
  /\ s.stack = <<>> => s.loop.at # "begin"

(* A round is over processes that are listed.                              *)
LoopOK(s) ==
  /\ s.loop.at \in {"begin", "wait", "all", "resize", "error"}
  /\ s.loop.at \in Rounds => /\ s.loop = Round(s.loop.at, s.loop.n, s.loop.limit, s.loop.event)
                             /\ s.loop.n \in Nat \ {0} /\ s.loop.limit \in 0 .. Len(s.tProcesses) /\ s.loop.event \in Events

Control(s) == Shape(s) /\ Known(s) /\ Calls(s) /\ LoopOK(s)

(* View: what is on the screen, as long as numbers are what they were.     *)
Fronted(s) == s.nCurrentProcess = 0 => s.loop.at = "begin" \/ s.tProcesses = <<>>
View(s) == Core(s) /\ Fronted(s) /\ (Len(s.stack) <= 1 => MenuUp(s))

ShellInv(s) == Control(s) /\ (~s.slipped => View(s))

(* What a program may do without a call: draw, and change what its         *)
(* coroutine is.                                                           *)
SameNames(f, g) == \A p \in Pid : (f[p].co = "never" => g[p].co = "never") /\ f[p].terminal = g[p].terminal /\ f[p].sTitle = g[p].sTitle
Works(r, s) ==
  /\ Shape(r) /\ SameList(r, s) /\ SameRuns(r, s) /\ SameNumbers(r, s) /\ SameNames(r.proc, s.proc)
  /\ Core(s) => Core(r)
  /\ Core(s) /\ MenuUp(s) => MenuUp(r)

(* Drawing is such a thing.                                                *)
LEMMA DrawsWorks ==
  ASSUME NEW s, NEW r, Draws(r, s)
  PROVE  Works(r, s)
<1>1. SameNames(r.proc, s.proc)
  BY DEF Draws, Kept, SameProcs, SameNames
<1> QED
  BY <1>1 DEF Draws, Kept, Works

(* One after the other.                                                    *)
LEMMA WorksBoth ==
  ASSUME NEW s, NEW t, NEW r, Works(t, s), Works(r, t)
  PROVE  Works(r, s)
<1>1. SameNames(r.proc, s.proc)
  BY DEF Works, SameNames
<1>2. SameList(r, s) /\ SameRuns(r, s) /\ SameNumbers(r, s)
  BY DEF Works, SameList, SameRuns, SameNumbers
<1> QED
  BY <1>1, <1>2 DEF Works

(* A process changed, other than in its window, names and being launched.  *)
LEMMA ProcWorks ==
  ASSUME NEW s, Shape(s), NEW p \in Pid, NEW z, IsProc(z), z.window = s.proc[p].window,
         z.co = "never" => s.proc[p].co = "never", z.terminal = s.proc[p].terminal, z.sTitle = s.proc[p].sTitle
  PROVE  Works(PutProc(s, PutAt(s.proc, p, z)), s)
<1> DEFINE r == PutProc(s, PutAt(s.proc, p, z))
<1>1. /\ Shape(r) /\ SameList(r, s) /\ SameRuns(r, s) /\ SameScreen(r, s) /\ SameWindows(r, s)
      /\ r.proc[p] = z /\ \A q \in Pid : q # p => r.proc[q] = s.proc[q]
  BY ProcKept
<1> HIDE DEF r
<1>2. SameNames(r.proc, s.proc)
  BY <1>1 DEF SameNames
<1>3. Core(s) => Core(r)
  BY <1>1, CoreSame DEF Shape
<1>4. MenuUp(s) => MenuUp(r)
  <2>1. M!MenuLine(r) = M!MenuLine(s)
    BY <1>1, <1>2, MenuLineSame DEF Shape, SameList, SameScreen, SameNames
  <2> QED
    BY <1>1, <2>1 DEF MenuUp, SameScreen
<1>5. Works(r, s)
  BY <1>1, <1>2, <1>3, <1>4 DEF Works, SameNumbers, SameScreen
<1> QED
  BY <1>5 DEF r

(* Who has a process and its window.                                       *)
SameOwners(f, g) == \A p \in Pid : (f[p].co = "never" => g[p].co = "never") /\ f[p].terminal = g[p].terminal

(* Control depends on the list, who runs and whose the windows are.        *)
LEMMA ControlSame ==
  ASSUME NEW s, Control(s), NEW r, Shape(r), SameList(r, s), SameRuns(r, s), SameOwners(r.proc, s.proc),
         r.nCurrentProcess = s.nCurrentProcess \/ Inside(r, r.nCurrentProcess)
  PROVE  Control(r)
<1>1. /\ r.tProcesses = s.tProcesses /\ r.nRunningProcess = s.nRunningProcess /\ r.current = s.current
      /\ r.stack = s.stack /\ r.loop = s.loop
  BY DEF SameList, SameRuns
<1>2. Known(r)
  <2>1. \A n \in 1 .. Len(s.tProcesses) : s.tProcesses[n] \in Pid
    BY DEF Control, Shape
  <2> QED
    BY <1>1, <2>1 DEF Control, Known, SameOwners
<1>3. Calls(r)
  <2>1. Calls(s)
    BY DEF Control
  <2>2. Chain(s) => Chain(r)
    BY <1>1 DEF Chain, Link, Inside
  <2>3. TopRuns(s) => TopRuns(r)
    BY <1>1 DEF TopRuns, Top, Inside
  <2>4. CallerIs(s) => CallerIs(r)
    BY <1>1 DEF CallerIs, Inside, FrontOK
  <2> QED
    BY <1>1, <2>1, <2>2, <2>3, <2>4 DEF Calls
<1>4. LoopOK(r)
  BY <1>1 DEF Control, LoopOK
<1> QED
  BY <1>2, <1>3, <1>4 DEF Control

(* The invariant stays while a program works.                              *)
LEMMA WorksInv ==
  ASSUME NEW s, ShellInv(s), NEW r, Works(r, s)
  PROVE  ShellInv(r)
<1>1. Control(r)
  <2>1. SameOwners(r.proc, s.proc)
    BY DEF Works, SameNames, SameOwners
  <2> QED
    BY <2>1, ControlSame DEF Works, SameNumbers, ShellInv
<1>2. r.slipped = s.slipped /\ r.nCurrentProcess = s.nCurrentProcess /\ r.loop = s.loop /\ r.tProcesses = s.tProcesses
      /\ r.stack = s.stack
  BY DEF Works, SameList, SameNumbers, SameRuns
<1>3. View(s) => View(r)
  BY <1>2 DEF View, Fronted, Works
<1> QED
  BY <1>1, <1>2, <1>3 DEF ShellInv


(* The process that runs.                                                  *)
LEMMA TopIs ==
  ASSUME NEW s, Control(s), s.stack # <<>>
  PROVE  /\ Len(s.stack) \in Nat \ {0} /\ Top(s) \in Frame /\ M!Last(s.stack) = Top(s)
         /\ Top(s).pid \in Pid /\ Top(s).previous \in Nat /\ Top(s).after \in Afters
         /\ s.current = Top(s).pid /\ s.proc[Top(s).pid].terminal = Top(s).pid
         /\ s.proc[Top(s).pid].co # "never"
<1>1. s.stack \in Seq(Frame) /\ TopRuns(s) /\ Known(s)
  BY DEF Control, Calls
<1>2. Len(s.stack) \in Nat \ {0} /\ Top(s) \in Frame
  BY <1>1 DEF Top
<1>3. Top(s).pid \in Pid /\ Top(s).previous \in Nat /\ Top(s).after \in Afters
  BY <1>2 DEF Frame
<1>4. M!Last(s.stack) = Top(s)
  BY DEF M!Last, Top
<1> DEFINE n == s.nRunningProcess  p == Top(s).pid
<1>5. s.current = p /\ n \in 1 .. Len(s.tProcesses) /\ s.tProcesses[n] = p
  BY <1>1 DEF TopRuns, Inside
<1> HIDE DEF n, p
<1>6. s.proc[p].terminal = p /\ s.proc[p].co # "never"
  BY <1>1, <1>5 DEF Known
<1> QED
  BY <1>2, <1>3, <1>4, <1>5, <1>6 DEF p

(* A coroutine is suspended, runs or is dead.                              *)
LEMMA CoWorks ==
  ASSUME NEW s, Shape(s), NEW p \in Pid, NEW c, c # "never"
  PROVE  Works([s EXCEPT !.proc[p].co = c], s)
<1> DEFINE z == PutCo(s.proc[p], c)
<1>1. [s EXCEPT !.proc[p].co = c] = PutProc(s, PutAt(s.proc, p, z))
  BY DEF PutProc, PutAt, PutCo
<1>2. IsProc(s.proc[p])
  BY DEF Shape, Procs
<1>3. IsProc(z) /\ z.window = s.proc[p].window /\ z.co = c /\ z.terminal = s.proc[p].terminal /\ z.sTitle = s.proc[p].sTitle
  BY <1>2, ProcPuts
<1> HIDE DEF z
<1> QED
  BY <1>1, <1>3, ProcWorks

(* Its terminal is what it was.                                            *)
LEMMA TerminalWorks ==
  ASSUME NEW s, Shape(s), NEW p \in Pid, NEW v, v = s.proc[p].terminal
  PROVE  Works([s EXCEPT !.proc[p].terminal = v], s)
<1> DEFINE z == PutTerminal(s.proc[p], v)
<1>1. [s EXCEPT !.proc[p].terminal = v] = PutProc(s, PutAt(s.proc, p, z))
  BY DEF PutProc, PutAt, PutTerminal
<1>2. IsProc(s.proc[p])
  BY DEF Shape, Procs
<1>3. /\ IsProc(z) /\ z.window = s.proc[p].window /\ z.co = s.proc[p].co /\ z.terminal = v
      /\ z.sTitle = s.proc[p].sTitle
  BY <1>2, ProcPuts
<1> HIDE DEF z
<1> QED
  BY <1>1, <1>3, ProcWorks

(* What it waits for.                                                      *)
LEMMA FilterWorks ==
  ASSUME NEW s, Shape(s), NEW p \in Pid, NEW v
  PROVE  Works([s EXCEPT !.proc[p].sFilter = v], s)
<1> DEFINE z == PutFilter(s.proc[p], v)
<1>1. [s EXCEPT !.proc[p].sFilter = v] = PutProc(s, PutAt(s.proc, p, z))
  BY DEF PutProc, PutAt, PutFilter
<1>2. IsProc(s.proc[p])
  BY DEF Shape, Procs
<1>3. /\ IsProc(z) /\ z.window = s.proc[p].window /\ z.co = s.proc[p].co /\ z.terminal = s.proc[p].terminal
      /\ z.sTitle = s.proc[p].sTitle
  BY <1>2, ProcPuts
<1> HIDE DEF z
<1> QED
  BY <1>1, <1>3, ProcWorks

(* The call returns.                                                       *)
Popped(s) == PutStack(PutRun(s, Top(s).previous), M!Front(s.stack))

(* After what resumeProcess does when coroutine.resume has returned.       *)
LEMMA ResumedIs ==
  ASSUME NEW s, ShellInv(s), s.stack # <<>>, NEW filter
  PROVE  \E t : Works(t, s) /\ M!Resumed(s, filter) = Popped(t)
<1> DEFINE p == Top(s).pid  v == s.current  t == [s EXCEPT !.proc[p].terminal = v]  u == [t EXCEPT !.proc[p].sFilter = filter]
<1>1. Control(s) /\ Shape(s)
  BY DEF ShellInv, Control
<1>2. p \in Pid /\ v = s.proc[p].terminal /\ M!Last(s.stack) = Top(s)
  BY <1>1, TopIs
<1>3. M!Resumed(s, filter) = PutStack(PutRun(u, Top(s).previous), M!Front(s.stack))
  BY <1>2 DEF M!Resumed, PutStack, PutRun
<1> HIDE DEF p, v
<1>4. Works(t, s)
  BY <1>1, <1>2, TerminalWorks
<1> HIDE DEF t
<1>5. Works(u, t)
  BY <1>2, <1>4, FilterWorks DEF Works
<1> HIDE DEF u
<1>6. Works(u, s)
  BY <1>4, <1>5, WorksBoth
<1>7. u.stack = s.stack
  BY <1>6 DEF Works, SameRuns
<1>8. M!Resumed(s, filter) = Popped(u)
  BY <1>3, <1>7 DEF Popped, Top
<1> QED
  BY <1>6, <1>8

(* And when the coroutine has failed.                                      *)
LEMMA FailedIs ==
  ASSUME NEW s, ShellInv(s), s.stack # <<>>
  PROVE  \E t : Works(t, s) /\ M!Failed(s) = Popped(t)
<1> DEFINE p == Top(s).pid  v == s.current  t == [s EXCEPT !.proc[p].terminal = v]  u == M!PrintText(t)  f == s.proc[p].sFilter
<1>1. Control(s) /\ Shape(s)
  BY DEF ShellInv, Control
<1>2. p \in Pid /\ v = s.proc[p].terminal /\ M!Last(s.stack) = Top(s) /\ v = p
  BY <1>1, TopIs
<1>3. M!Failed(s) = M!Resumed(u, f)
  BY <1>2 DEF M!Failed
<1> HIDE DEF p, f
<1>4. Works(t, s)
  <2> HIDE DEF v
  <2> QED
    BY <1>1, <1>2, TerminalWorks
<1> HIDE DEF t
<1>5. Works(u, t)
  BY <1>2, <1>4, PrintTextIs, DrawsWorks DEF Works, SameRuns
<1> HIDE DEF u
<1>6. Works(u, s)
  BY <1>4, <1>5, WorksBoth
<1>7. ShellInv(u) /\ u.stack # <<>>
  BY <1>6, WorksInv DEF Works, SameRuns
<1>8. PICK w : Works(w, u) /\ M!Resumed(u, f) = Popped(w)
  BY <1>7, ResumedIs
<1>9. Works(w, s)
  BY <1>6, <1>8, WorksBoth
<1> QED
  BY <1>3, <1>8, <1>9


(* What the return of a call leaves.                                       *)
LEMMA PoppedIs ==
  ASSUME NEW s, Control(s), s.stack # <<>>
  PROVE  LET r == Popped(s)  k == Len(s.stack)
         IN  /\ Shape(r) /\ Known(r) /\ LoopOK(r) /\ SameList(r, s) /\ SameScreen(r, s) /\ SameWindows(r, s)
             /\ r.proc = s.proc /\ r.current = s.current /\ r.loop = s.loop
             /\ r.nRunningProcess = Top(s).previous /\ r.nRunningProcess \in Nat
             /\ k \in Nat \ {0} /\ r.stack \in Seq(Frame) /\ Len(r.stack) = k - 1
             /\ \A i \in 1 .. k - 1 : r.stack[i] = s.stack[i]
<1> DEFINE v == Top(s).previous  f == M!Front(s.stack)  t == PutRun(s, v)  r == PutStack(t, f)  k == Len(s.stack)
<1>1. Shape(s) /\ Known(s) /\ LoopOK(s) /\ s.stack \in Seq(Frame)
  BY DEF Control, Calls
<1>2. k \in Nat \ {0} /\ v \in Nat
  BY TopIs
<1>3. f \in Seq(Frame) /\ Len(f) = k - 1 /\ \A i \in 1 .. k - 1 : f[i] = s.stack[i]
  BY <1>1, <1>2 DEF M!Front
<1>4. Popped(s) = r
  BY DEF Popped
<1> HIDE DEF v, f
<1>5. /\ IsSh(t) /\ t.nRunningProcess = v /\ SameList(t, s) /\ SameScreen(t, s)
      /\ t.proc = s.proc /\ t.current = s.current /\ t.stack = s.stack /\ t.loop = s.loop
  BY <1>1, PutsRuns DEF Shape
<1> HIDE DEF t
<1>6. /\ IsSh(r) /\ r.stack = f /\ SameList(r, t) /\ SameScreen(r, t) /\ r.proc = t.proc
      /\ r.nRunningProcess = t.nRunningProcess /\ r.current = t.current /\ r.loop = t.loop
  BY <1>5, PutsRuns
<1> HIDE DEF r
<1>7. SameList(r, s) /\ SameScreen(r, s) /\ r.proc = s.proc /\ r.current = s.current /\ r.loop = s.loop
  BY <1>5, <1>6 DEF SameList, SameScreen
<1>8. Shape(r) /\ SameWindows(r, s) /\ Known(r) /\ LoopOK(r)
  BY <1>1, <1>6, <1>7 DEF Shape, SameList, SameWindows, Known, LoopOK
<1> HIDE DEF k
<1>9. /\ r.nRunningProcess = v /\ r.nRunningProcess \in Nat
      /\ k \in Nat \ {0} /\ r.stack \in Seq(Frame) /\ Len(r.stack) = k - 1 /\ \A i \in 1 .. k - 1 : r.stack[i] = s.stack[i]
  BY <1>2, <1>3, <1>5, <1>6
<1> QED
  BY <1>4, <1>7, <1>8, <1>9 DEF v, k

(* No call: the loop over events is what goes on.                          *)
Idle(s) == Shape(s) /\ Known(s) /\ s.stack = <<>> /\ s.nRunningProcess \in Nat
Manned(s) == s.nCurrentProcess = 0 => s.tProcesses = <<>>
Resting(s) == Idle(s) /\ (~s.slipped => Core(s) /\ MenuUp(s) /\ Manned(s))

(* The invariant says this.                                                *)
LEMMA InvResting ==
  ASSUME NEW s, ShellInv(s), s.stack = <<>>
  PROVE  Resting(s) /\ LoopOK(s) /\ s.loop.at # "begin"
<1>1. Idle(s) /\ LoopOK(s) /\ s.loop.at # "begin"
  BY DEF ShellInv, Control, Calls, Idle
<1>2. Len(s.stack) <= 1
  OBVIOUS
<1>3. ~s.slipped => Core(s) /\ MenuUp(s) /\ Manned(s)
  BY <1>1, <1>2 DEF ShellInv, View, Fronted, Manned
<1> QED
  BY <1>1, <1>3 DEF Resting

(* And follows from it.                                                    *)
LEMMA RestingInv ==
  ASSUME NEW s, Resting(s), LoopOK(s), s.loop.at # "begin"
  PROVE  ShellInv(s)
<1>1. Control(s)
  BY DEF Resting, Idle, Control, Calls
<1>2. ~s.slipped => View(s)
  BY DEF Resting, Manned, View, Fronted
<1> QED
  BY <1>1, <1>2 DEF ShellInv

(* The loop goes elsewhere.                                                *)
LEMMA LoopResting ==
  ASSUME NEW s, Resting(s), NEW l
  PROVE  LET r == PutLoop(s, l) IN Resting(r) /\ r.loop = l /\ r.tProcesses = s.tProcesses
<1> DEFINE r == PutLoop(s, l)
<1>1. /\ IsSh(r) /\ r.loop = l /\ SameList(r, s) /\ SameScreen(r, s) /\ r.proc = s.proc
      /\ r.nRunningProcess = s.nRunningProcess /\ r.current = s.current /\ r.stack = s.stack
  BY PutsRuns DEF Resting, Idle, Shape
<1> HIDE DEF r
<1>2. Idle(r) /\ SameWindows(r, s)
  BY <1>1 DEF Resting, Idle, Shape, Known, SameList, SameWindows
<1>3. Core(s) => Core(r)
  BY <1>2, CoreSame DEF Resting, Idle, Shape
<1>4. MenuUp(s) => MenuUp(r)
  <2>1. M!MenuLine(r) = M!MenuLine(s)
    BY <1>1, MenuLineSame DEF SameList, SameScreen, Resting, Idle, Shape
  <2> QED
    BY <1>1, <2>1 DEF MenuUp, SameScreen
<1>5. Manned(s) => Manned(r)
  BY <1>1 DEF Manned, SameList, SameScreen
<1>6. Resting(r) /\ r.loop = l /\ r.tProcesses = s.tProcesses
  BY <1>1, <1>2, <1>3, <1>4, <1>5 DEF Resting, SameList
<1> QED
  BY <1>6 DEF r

(* The loop waits for an event.                                            *)
LEMMA WaitInv ==
  ASSUME NEW s, Resting(s)
  PROVE  ShellInv([s EXCEPT !.loop = [at |-> "wait"]])
<1> DEFINE l == [at |-> "wait"]  r == PutLoop(s, l)
<1>1. [s EXCEPT !.loop = [at |-> "wait"]] = r
  BY DEF PutLoop
<1>2. l.at = "wait"
  OBVIOUS
<1> HIDE DEF l
<1>3. Resting(r) /\ r.loop = l
  BY LoopResting
<1> HIDE DEF r
<1>4. LoopOK(r) /\ r.loop.at # "begin"
  BY <1>2, <1>3 DEF LoopOK, Rounds
<1> QED
  BY <1>1, <1>3, <1>4, RestingInv

(* A round begins.                                                         *)
LEMMA RoundInv ==
  ASSUME NEW s, Resting(s), NEW at \in Rounds, NEW e \in Events
  PROVE  ShellInv([s EXCEPT !.loop = [at |-> at, n |-> 1, limit |-> M!Count(s), event |-> e]])
<1> DEFINE l == [at |-> at, n |-> 1, limit |-> M!Count(s), event |-> e]  r == PutLoop(s, l)
<1>1. [s EXCEPT !.loop = [at |-> at, n |-> 1, limit |-> M!Count(s), event |-> e]] = r
  BY DEF PutLoop
<1>2. l.at = at /\ l.n = 1 /\ l.limit = Len(s.tProcesses) /\ l.event = e /\ l = Round(at, 1, Len(s.tProcesses), e)
  BY DEF M!Count, Round
<1> HIDE DEF l
<1>3. Resting(r) /\ r.loop = l /\ r.tProcesses = s.tProcesses
  BY LoopResting
<1> HIDE DEF r
<1>4. Len(s.tProcesses) \in Nat
  BY DEF Resting, Idle, Shape
<1>5. at \in {"begin", "wait", "all", "resize", "error"} /\ at # "begin"
  BY DEF Rounds
<1>6. LoopOK(r) /\ r.loop.at # "begin"
  BY <1>2, <1>3, <1>4, <1>5 DEF LoopOK
<1> QED
  BY <1>1, <1>3, <1>6, RestingInv

(* What happens after an event.                                            *)
LEMMA StartResizeRoundInv ==
  ASSUME NEW s, Resting(s)
  PROVE  ShellInv(M!StartResizeRound(s))
<1>1. "resize" \in Rounds /\ "term_resize" \in Events
  BY DEF Rounds, Events
<1>2. CASE s.bWindowsResized
  <2>1. M!StartResizeRound(s) = [s EXCEPT !.loop = [at |-> "resize", n |-> 1, limit |-> M!Count(s), event |-> "term_resize"]]
    BY <1>2 DEF M!StartResizeRound
  <2> QED
    BY <1>1, <2>1, RoundInv
<1>3. CASE ~s.bWindowsResized
  <2>1. M!StartResizeRound(s) = [s EXCEPT !.loop = [at |-> "wait"]]
    BY <1>3 DEF M!StartResizeRound
  <2> QED
    BY <2>1, WaitInv
<1> QED
  BY <1>2, <1>3

-----------------------------------------------------------------------------
(* Culling.                                                                *)

(* Drawing changes nothing about calls.                                    *)
LEMMA KeptIdle ==
  ASSUME NEW s, Idle(s), NEW r, Kept(r, s)
  PROVE  Idle(r)
<1>1. /\ Shape(r) /\ r.tProcesses = s.tProcesses /\ r.stack = s.stack /\ r.nRunningProcess = s.nRunningProcess
      /\ \A p \in Pid : r.proc[p].co = s.proc[p].co /\ r.proc[p].terminal = s.proc[p].terminal
  BY DEF Kept, SameList, SameRuns, SameProcs
<1>2. \A n \in 1 .. Len(s.tProcesses) : s.tProcesses[n] \in Pid
  BY DEF Idle, Shape
<1>3. Known(r)
  BY <1>1, <1>2 DEF Idle, Known
<1> QED
  BY <1>1, <1>3 DEF Idle

(* A sequence without one element.                                         *)
LEMMA RemovedIs ==
  ASSUME NEW q \in Seq(Pid), NEW n \in 1 .. Len(q)
  PROVE  LET r == M!RemoveAt(q, n)
         IN  /\ r \in Seq(Pid) /\ Len(r) = Len(q) - 1
             /\ \A i \in 1 .. Len(q) - 1 : r[i] = IF i < n THEN q[i] ELSE q[i + 1]
<1> DEFINE k == Len(q)  a == SubSeq(q, 1, n - 1)  b == SubSeq(q, n + 1, k)  r == a \o b
<1>1. k \in Nat /\ n \in Nat /\ n >= 1 /\ n <= k
  OBVIOUS
<1>2. M!RemoveAt(q, n) = r
  BY DEF M!RemoveAt
<1>3. a \in Seq(Pid) /\ Len(a) = n - 1 /\ \A i \in 1 .. n - 1 : a[i] = q[i]
  BY <1>1
<1>4. b \in Seq(Pid) /\ Len(b) = k - n /\ \A i \in 1 .. k - n : b[i] = q[n + i]
  BY <1>1
<1> HIDE DEF a, b
<1>5. r \in Seq(Pid) /\ Len(r) = k - 1
  <2>1. a \in Seq(Pid) /\ b \in Seq(Pid)
    BY <1>3, <1>4
  <2>2. r \in Seq(Pid) /\ Len(r) = Len(a) + Len(b)
    BY ONLY <2>1
  <2> QED
    BY <1>1, <1>3, <1>4, <2>2
<1>6. ASSUME NEW i \in 1 .. k - 1 PROVE r[i] = IF i < n THEN q[i] ELSE q[i + 1]
  <2>1. CASE i < n
    <3>1. i \in 1 .. Len(a)
      BY <1>1, <1>3, <2>1
    <3> QED
      BY <1>3, <1>4, <2>1, <3>1
  <2>2. CASE ~(i < n)
    <3>1. i - Len(a) \in 1 .. Len(b) /\ i - Len(a) = i - n + 1 /\ n + (i - n + 1) = i + 1
      BY <1>1, <1>3, <1>4, <2>2
    <3>2. r[i] = b[i - Len(a)]
      BY <1>1, <1>3, <1>4, <2>2, <3>1
    <3> QED
      BY <1>4, <2>2, <3>1, <3>2
  <2> QED
    BY <2>1, <2>2
<1> QED
  BY <1>2, <1>5, <1>6

(* The process leaves the list.                                            *)
Removed(s, n) == PutSlipped(PutTasks(s, M!RemoveAt(s.tProcesses, n)), s.slipped \/ s.nCurrentProcess > n)

(* The others stay, and unless it slips the one in front does.             *)
LEMMA RemovedCore ==
  ASSUME NEW s, Idle(s), NEW n \in 1 .. Len(s.tProcesses), s.nCurrentProcess # n
  PROVE  LET r == Removed(s, n)
         IN  /\ Idle(r) /\ SameScreen(r, s) /\ r.proc = s.proc /\ Len(r.tProcesses) = Len(s.tProcesses) - 1
             /\ ~r.slipped => ~s.slipped
             /\ ~r.slipped /\ Core(s) => Core(r)
<1> DEFINE q == M!RemoveAt(s.tProcesses, n)  b == s.slipped \/ s.nCurrentProcess > n
           t == PutTasks(s, q)  r == PutSlipped(t, b)  k == Len(s.tProcesses)
<1>1. Shape(s) /\ Known(s) /\ s.stack = <<>> /\ s.nRunningProcess \in Nat /\ s.tProcesses \in Seq(Pid) /\ k \in Nat
  BY DEF Idle, Shape
<1>2. q \in Seq(Pid) /\ Len(q) = k - 1 /\ \A i \in 1 .. k - 1 : q[i] = IF i < n THEN s.tProcesses[i] ELSE s.tProcesses[i + 1]
  BY <1>1, RemovedIs
<1>3. Removed(s, n) = r
  BY DEF Removed
<1> HIDE DEF q
<1>4. IsSh(t) /\ t.tProcesses = q /\ t.slipped = s.slipped /\ SameRuns(t, s) /\ SameScreen(t, s) /\ t.proc = s.proc
  BY <1>1, PutsRuns DEF Shape
<1> HIDE DEF t
<1>5. IsSh(r) /\ r.slipped = b /\ r.tProcesses = t.tProcesses /\ SameRuns(r, t) /\ SameScreen(r, t) /\ r.proc = t.proc
  <2> HIDE DEF b
  <2> QED
    BY <1>4, PutsRuns
<1> HIDE DEF r
<1>6. /\ r.tProcesses = q /\ r.proc = s.proc /\ SameScreen(r, s) /\ r.stack = s.stack /\ r.nRunningProcess = s.nRunningProcess
  BY <1>4, <1>5 DEF SameRuns, SameScreen
<1>7. ASSUME NEW i \in 1 .. k - 1 PROVE \E j \in 1 .. k : q[i] = s.tProcesses[j]
  <2>1. i \in 1 .. k /\ i + 1 \in 1 .. k
    BY <1>1
  <2> QED
    BY <1>2, <2>1
<1>8. Known(r)
  <2> SUFFICES ASSUME NEW i \in 1 .. k - 1 PROVE s.proc[q[i]].co # "never" /\ s.proc[q[i]].terminal = q[i]
    BY <1>2, <1>6 DEF Known
  <2>1. PICK j \in 1 .. k : q[i] = s.tProcesses[j]
    BY <1>7
  <2> QED
    BY <1>1, <2>1 DEF Known
<1>9. Idle(r)
  BY <1>1, <1>2, <1>5, <1>6, <1>8 DEF Idle, Shape
<1>10. ~r.slipped => ~s.slipped /\ ~(s.nCurrentProcess > n)
  BY <1>5
<1>11. ASSUME ~r.slipped, Core(s) PROVE Core(r)
  <2>1. Base(s) /\ Placed(s) /\ Only(s) /\ FrontOK(s)
    BY <1>11 DEF Core
  <2>2. Base(r)
    BY <1>6, <2>1 DEF Base, SameScreen
  <2>3. Placed(r)
    <3> SUFFICES ASSUME NEW i \in 1 .. k - 1 PROVE PlacedIn(s.proc[q[i]].window, s.bShowMenu)
      BY <1>2, <1>6 DEF Placed, SameScreen
    <3>1. PICK j \in 1 .. k : q[i] = s.tProcesses[j]
      BY <1>7
    <3> QED
      BY <2>1, <3>1 DEF Placed
  <2> DEFINE c == s.nCurrentProcess
  <2>4. r.nCurrentProcess = c
    BY <1>6 DEF SameScreen
  <2>5. c = 0 \/ c \in 1 .. n - 1
    BY <1>1, <1>10, <1>11, <2>1 DEF FrontOK
  <2>6. c # 0 => c \in 1 .. k - 1 /\ c < n
    BY <1>1, <2>5
  <2> HIDE DEF c
  <2>7. c # 0 => q[c] = s.tProcesses[c]
    BY <1>2, <2>6
  <2>8. Only(r)
    BY <1>6, <2>1, <2>4, <2>7 DEF Only, c
  <2>9. FrontOK(r)
    BY <1>2, <1>6, <2>4, <2>6 DEF FrontOK
  <2> QED
    BY <2>2, <2>3, <2>8, <2>9 DEF Core
<1> HIDE DEF k
<1>12. /\ Idle(r) /\ SameScreen(r, s) /\ r.proc = s.proc /\ Len(r.tProcesses) = k - 1
       /\ ~r.slipped => ~s.slipped
       /\ ~r.slipped /\ Core(s) => Core(r)
  BY <1>2, <1>6, <1>9, <1>10, <1>11
<1> QED
  BY <1>3, <1>12 DEF k


(* cullProcess removes a process that is dead, and one of the others is    *)
(* in front then.                                                          *)
LEMMA CullIs ==
  ASSUME NEW s, Idle(s), NEW n \in 1 .. Len(s.tProcesses)
  PROVE  LET r == M!cullProcess(s, n)
         IN  \/ r = s
             \/ /\ Idle(r) /\ Manned(r) /\ Len(r.tProcesses) = Len(s.tProcesses) - 1
                /\ ~r.slipped => ~s.slipped
                /\ ~r.slipped /\ Core(s) => Core(r)
<1> DEFINE k == Len(s.tProcesses)  gone == IF s.nCurrentProcess = n THEN M!selectProcess(s, 0) ELSE s
           left == Removed(gone, n)  r == M!cullProcess(s, n)
<1>1. r = IF M!tProcess(s, n).co # "dead" THEN s
          ELSE IF left.nCurrentProcess # 0 THEN left
          ELSE IF n > 1 THEN M!selectProcess(left, n - 1)
          ELSE IF Len(left.tProcesses) > 0 THEN M!selectProcess(left, 1)
          ELSE left
  BY DEF M!cullProcess, M!None, M!Count, Removed, PutSlipped, PutTasks
<1>2. k \in Nat /\ n \in Nat /\ n >= 1 /\ n <= k /\ Shape(s)
  BY DEF Idle, Shape
<1>3. Kept(gone, s) /\ (Core(s) => Core(gone)) /\ gone.nCurrentProcess # n
  <2>1. CASE s.nCurrentProcess = n
    <3>1. FrontOK(s) /\ 0 \in 0 .. Len(s.tProcesses)
      BY <1>2, <2>1 DEF FrontOK
    <3>2. gone = M!selectProcess(s, 0)
      BY <2>1
    <3> DEFINE g == M!selectProcess(s, 0)
    <3>3. Kept(g, s) /\ g.nCurrentProcess = 0 /\ (Core(s) => Core(g))
      BY <1>2, <3>1, SelectIs
    <3> HIDE DEF g
    <3>4. gone = g
      BY <3>2 DEF g
    <3> HIDE DEF gone
    <3> QED
      BY <1>2, <3>3, <3>4
  <2>2. CASE s.nCurrentProcess # n
    BY <1>2, <2>2, KeptSame
  <2> QED
    BY <2>1, <2>2
<1> HIDE DEF r, gone
<1>4. Idle(gone) /\ gone.tProcesses = s.tProcesses /\ gone.slipped = s.slipped
  BY <1>3, KeptIdle DEF Kept, SameList
<1>5. /\ Idle(left) /\ Len(left.tProcesses) = k - 1
      /\ ~left.slipped => ~s.slipped
      /\ ~left.slipped /\ Core(s) => Core(left)
  BY <1>3, <1>4, RemovedCore
<1> HIDE DEF left
<1>6. CASE M!tProcess(s, n).co # "dead"
  <2>1. r = s
    BY <1>1, <1>6
  <2> QED
    BY <2>1 DEF r
<1>7. CASE ~(M!tProcess(s, n).co # "dead") /\ left.nCurrentProcess # 0
  <2>1. r = left
    BY <1>1, <1>7
  <2>2. Manned(r)
    BY <1>7, <2>1 DEF Manned
  <2> QED
    BY <1>5, <2>1, <2>2 DEF r
<1>8. ASSUME NEW m \in 1 .. Len(left.tProcesses), left.nCurrentProcess = 0, r = M!selectProcess(left, m)
      PROVE  /\ Idle(r) /\ Manned(r) /\ Len(r.tProcesses) = k - 1
             /\ ~r.slipped => ~s.slipped
             /\ ~r.slipped /\ Core(s) => Core(r)
  <2>1. FrontOK(left) /\ Shape(left) /\ m \in 0 .. Len(left.tProcesses) /\ m # 0
    BY <1>2, <1>5, <1>8 DEF FrontOK, Idle
  <2>2. Kept(r, left) /\ r.nCurrentProcess = m /\ (Core(left) => Core(r))
    BY <1>8, <2>1, SelectIs
  <2>3. Idle(r) /\ r.tProcesses = left.tProcesses /\ r.slipped = left.slipped
    BY <1>5, <2>2, KeptIdle DEF Kept, SameList
  <2>4. Manned(r)
    BY <2>1, <2>2 DEF Manned
  <2> QED
    BY <1>5, <2>2, <2>3, <2>4
<1>9. CASE ~(M!tProcess(s, n).co # "dead") /\ left.nCurrentProcess = 0 /\ n > 1
  <2>1. r = M!selectProcess(left, n - 1)
    BY <1>1, <1>9
  <2>2. n - 1 \in 1 .. Len(left.tProcesses)
    BY <1>2, <1>5, <1>9
  <2> QED
    BY <1>8, <1>9, <2>1, <2>2 DEF r
<1>10. CASE ~(M!tProcess(s, n).co # "dead") /\ left.nCurrentProcess = 0 /\ ~(n > 1) /\ Len(left.tProcesses) > 0
  <2>1. r = M!selectProcess(left, 1)
    BY <1>1, <1>10
  <2>2. 1 \in 1 .. Len(left.tProcesses)
    BY <1>2, <1>5, <1>10
  <2> QED
    BY <1>8, <1>10, <2>1, <2>2 DEF r
<1>11. CASE ~(M!tProcess(s, n).co # "dead") /\ left.nCurrentProcess = 0 /\ ~(n > 1) /\ ~(Len(left.tProcesses) > 0)
  <2>1. r = left
    BY <1>1, <1>11
  <2>2. left.tProcesses = <<>>
    <3> DEFINE q == left.tProcesses
    <3>1. q \in Seq(Pid)
      BY <1>5 DEF Idle, Shape
    <3>2. ~(Len(q) > 0)
      BY <1>11
    <3> HIDE DEF q
    <3>3. q = <<>>
      BY ONLY <3>1, <3>2
    <3> QED
      BY <3>3 DEF q
  <2>3. Manned(r)
    BY <2>1, <2>2 DEF Manned
  <2> QED
    BY <1>5, <2>1, <2>3 DEF r
<1> QED
  BY <1>6, <1>7, <1>9, <1>10, <1>11

(* The menu is drawn again after it.                                       *)
LEMMA MenuResting ==
  ASSUME NEW s, Idle(s), ~s.slipped => Core(s) /\ Manned(s)
  PROVE  Resting(M!redrawMenu(s))
<1> DEFINE r == M!redrawMenu(s)
<1>1. Kept(r, s) /\ r.nCurrentProcess = s.nCurrentProcess
  BY RedrawMenuKept DEF Idle
<1>2. ~s.slipped => Core(r) /\ MenuUp(r)
  BY RedrawMenuCore DEF Idle
<1> HIDE DEF r
<1>3. Idle(r) /\ r.slipped = s.slipped /\ r.tProcesses = s.tProcesses
  BY <1>1, KeptIdle DEF Kept, SameList
<1>4. Resting(r)
  BY <1>1, <1>2, <1>3 DEF Resting, Manned
<1> QED
  BY <1>4 DEF r

(* What multishell does after culling.                                     *)
LEMMA AfterCullIs ==
  ASSUME NEW s, Resting(s), NEW n \in 1 .. Len(s.tProcesses)
  PROVE  Resting(M!AfterCull(s, M!cullProcess(s, n)))
<1> DEFINE t == M!cullProcess(s, n)  b == M!Count(t) >= 2  u == M!setMenuVisible(t, b)  v == M!redrawMenu(u)
<1>1. M!AfterCull(s, t) = IF Len(t.tProcesses) < Len(s.tProcesses) THEN v ELSE t
  BY DEF M!AfterCull, M!Culled, M!Count
<1>2. Idle(s) /\ Len(s.tProcesses) \in Nat
  BY DEF Resting, Idle, Shape
<1>3. \/ t = s
      \/ /\ Idle(t) /\ Manned(t) /\ Len(t.tProcesses) = Len(s.tProcesses) - 1
         /\ ~t.slipped => ~s.slipped
         /\ ~t.slipped /\ Core(s) => Core(t)
  BY <1>2, CullIs
<1> HIDE DEF t
<1>4. CASE t = s
  <2>1. M!AfterCull(s, t) = s
    BY <1>1, <1>2, <1>4
  <2> QED
    BY <2>1 DEF t
<1>5. CASE t # s
  <2>1. /\ Idle(t) /\ Manned(t) /\ Len(t.tProcesses) = Len(s.tProcesses) - 1
        /\ ~t.slipped => ~s.slipped
        /\ ~t.slipped /\ Core(s) => Core(t)
    BY <1>3, <1>5
  <2>2. M!AfterCull(s, t) = v
    BY <1>1, <1>2, <2>1
  <2>3. ~t.slipped => Core(t)
    BY <2>1 DEF Resting
  <2> HIDE DEF b
  <2>4. Kept(u, t) /\ u.nCurrentProcess = t.nCurrentProcess /\ (Core(t) => Core(u))
    BY <2>1, SetMenuVisibleIs DEF Idle
  <2> HIDE DEF u
  <2>5. Idle(u) /\ u.slipped = t.slipped /\ u.tProcesses = t.tProcesses
    BY <2>1, <2>4, KeptIdle DEF Kept, SameList
  <2>6. ~u.slipped => Core(u) /\ Manned(u)
    BY <2>1, <2>3, <2>4, <2>5 DEF Manned
  <2>7. Resting(v)
    BY <2>5, <2>6, MenuResting
  <2> QED
    BY <2>2, <2>7 DEF t
<1> QED
  BY <1>4, <1>5

(* The same for the last process that is dead.                             *)
LEMMA AfterCullsIs ==
  ASSUME NEW s, Resting(s)
  PROVE  Resting(M!AfterCull(s, M!cullProcesses(s)))
<1> DEFINE dead == {n \in 1 .. M!Count(s) : M!tProcess(s, n).co = "dead"}
           m == CHOOSE n \in dead : \A j \in dead : j <= n
<1>1. M!cullProcesses(s) = IF dead = {} THEN s ELSE M!cullProcess(s, m)
  BY DEF M!cullProcesses
<1>2. M!Count(s) = Len(s.tProcesses) /\ Len(s.tProcesses) \in Nat
  BY DEF M!Count, Resting, Idle, Shape
<1>3. dead \subseteq 1 .. Len(s.tProcesses)
  BY <1>2
<1>4. CASE dead = {}
  <2>1. M!cullProcesses(s) = s
    BY <1>1, <1>4
  <2>2. M!AfterCull(s, s) = s
    BY <1>2 DEF M!AfterCull, M!Culled
  <2> QED
    BY <2>1, <2>2
<1>5. CASE dead # {}
  <2>1. \E n \in dead : \A j \in dead : j <= n
    <3> DEFINE k == Len(s.tProcesses)  T == {i \in 0 .. k : k - i \in dead}
    <3> HIDE DEF dead
    <3>1. T \subseteq Nat /\ T # {}
      <4>1. PICK j : j \in dead
        BY <1>5
      <4>2. j \in 1 .. k
        BY <1>3, <4>1
      <4>3. k - j \in 0 .. k /\ k - (k - j) = j
        BY <1>2, <4>2
      <4>4. k - j \in T
        BY <4>1, <4>3
      <4> QED
        BY <1>2, <4>4
    <3>2. PICK i \in T : \A j \in T : i <= j
      <4> HIDE DEF T
      <4> QED
        BY <3>1, LeastNumber
    <3>3. i \in 0 .. k /\ k - i \in dead
      BY <3>2
    <3>4. ASSUME NEW j \in dead PROVE j <= k - i
      <4>1. j \in 1 .. k
        BY <1>3
      <4>2. k - j \in 0 .. k /\ k - (k - j) = j
        BY <1>2, <4>1
      <4>3. k - j \in T
        BY <4>2
      <4>4. i <= k - j
        BY <3>2, <4>3
      <4> QED
        BY <1>2, <3>3, <4>1, <4>4
    <3> QED
      BY <3>3, <3>4
  <2>2. m \in dead
    <3> HIDE DEF dead
    <3> QED
      BY <2>1
  <2>3. m \in 1 .. Len(s.tProcesses)
    BY <1>3, <2>2
  <2>4. M!cullProcesses(s) = M!cullProcess(s, m)
    BY <1>1, <1>5
  <2> HIDE DEF m, dead
  <2> QED
    BY <2>3, <2>4, AfterCullIs
<1> QED
  BY <1>4, <1>5

-----------------------------------------------------------------------------
(* Calls that return, and calls that are made.                             *)

(* To the loop over events.                                                *)
LEMMA BackOuter ==
  ASSUME NEW s, ShellInv(s), s.stack # <<>>, Len(s.stack) = 1
  PROVE  ShellInv(M!Back(Popped(s), Top(s).after))
<1> DEFINE r == Popped(s)  a == Top(s).after
<1>1. Control(s) /\ CallerIs(s) /\ (~s.slipped => View(s)) /\ LoopOK(s)
  BY DEF ShellInv, Control, Calls
<1>2. /\ Shape(r) /\ Known(r) /\ LoopOK(r) /\ SameList(r, s) /\ SameScreen(r, s) /\ SameWindows(r, s)
      /\ r.proc = s.proc /\ r.loop = s.loop /\ r.nRunningProcess \in Nat /\ r.stack \in Seq(Frame) /\ Len(r.stack) = 0
  <2>1. 1 - 1 = 0
    OBVIOUS
  <2> QED
    BY <1>1, <2>1, PoppedIs
<1>3. Top(s) = s.stack[1] /\ a \in Afters
  BY <1>1, TopIs DEF Top
<1> HIDE DEF r
<1>4. r.stack = <<>>
  BY ONLY <1>2
<1>5. Idle(r)
  BY <1>2, <1>4 DEF Idle
<1>6. ~r.slipped => Core(r) /\ MenuUp(r) /\ Fronted(r)
  <2> SUFFICES ASSUME ~r.slipped PROVE Core(r) /\ MenuUp(r) /\ Fronted(r)
    OBVIOUS
  <2>1. Core(s) /\ MenuUp(s) /\ Fronted(s)
    BY <1>1, <1>2 DEF View, SameList
  <2>2. Core(r)
    BY <1>1, <1>2, <2>1, CoreSame DEF Control, Shape
  <2>3. M!MenuLine(r) = M!MenuLine(s)
    BY <1>1, <1>2, MenuLineSame DEF Control, Shape, SameList, SameScreen
  <2> QED
    BY <1>2, <2>1, <2>2, <2>3 DEF MenuUp, Fronted, SameList, SameScreen
<1>7. /\ a.go # "launch"
      /\ a.go = "begin" => FrontOK(r) /\ r.loop.at = "begin"
      /\ a.go = "front" => r.loop.at = "wait" /\ r.nCurrentProcess \in 1 .. Len(r.tProcesses)
      /\ a.go = "round" => r.loop.at \in Rounds
  BY <1>1, <1>2, <1>3 DEF CallerIs, FrontOK, Inside, SameList, SameScreen
<1>8. a.go \in {"front", "round", "begin"}
  BY <1>3, <1>7 DEF Afters
<1>9. CASE a.go = "round"
  <2>1. M!Back(r, a) = r
    BY <1>9 DEF M!Back
  <2>2. r.loop.at # "begin"
    BY <1>7, <1>9 DEF Rounds
  <2>3. Resting(r)
    BY <1>5, <1>6, <2>2 DEF Resting, Manned, Fronted
  <2> QED
    BY <1>2, <2>1, <2>2, <2>3, RestingInv DEF r
<1>10. CASE a.go = "front"
  <2> DEFINE n == r.nCurrentProcess  t == M!AfterCull(r, M!cullProcess(r, n))
  <2>1. M!Back(r, a) = M!StartResizeRound(t)
    BY <1>10 DEF M!Back
  <2>2. n \in 1 .. Len(r.tProcesses) /\ Resting(r)
    BY <1>5, <1>6, <1>7, <1>10 DEF Resting, Manned, Fronted
  <2> HIDE DEF n
  <2>3. Resting(t)
    BY <2>2, AfterCullIs
  <2> HIDE DEF t
  <2> QED
    BY <2>1, <2>3, StartResizeRoundInv DEF r
<1>11. CASE a.go = "begin"
  <2> DEFINE t == M!selectProcess(r, 1)  u == M!redrawMenu(t)
  <2>1. M!Back(r, a) = [u EXCEPT !.loop = [at |-> "wait"]]
    BY <1>11 DEF M!Back
  <2>2. FrontOK(r) /\ 1 \in 0 .. Len(r.tProcesses)
    <3>1. TopRuns(s) /\ Len(s.tProcesses) \in Nat
      BY <1>1 DEF Control, Calls, Shape
    <3> QED
      BY <1>2, <1>7, <1>11, <3>1 DEF TopRuns, Inside, SameList
  <2>3. Kept(t, r) /\ t.nCurrentProcess = 1 /\ (Core(r) => Core(t))
    BY <1>2, <2>2, SelectIs
  <2> HIDE DEF t
  <2>4. Idle(t) /\ t.slipped = r.slipped /\ Manned(t)
    BY <1>5, <2>3, KeptIdle DEF Kept, SameList, Manned
  <2>5. Resting(u)
    BY <1>6, <2>3, <2>4, MenuResting
  <2> HIDE DEF u
  <2> QED
    BY <2>1, <2>5, WaitInv DEF r
<1> QED
  BY <1>8, <1>9, <1>10, <1>11

(* To multishell.launch.                                                   *)
LEMMA BackInner ==
  ASSUME NEW s, ShellInv(s), s.stack # <<>>, Len(s.stack) # 1
  PROVE  ShellInv(M!Back(Popped(s), Top(s).after))
<1> DEFINE r == Popped(s)  a == Top(s).after  pt == a.previousTerm  u == M!redrawMenu(r)  v == PutCurrent(u, pt)
           k == Len(s.stack)
<1>1. Control(s) /\ Chain(s) /\ CallerIs(s) /\ (~s.slipped => View(s)) /\ LoopOK(s)
  BY DEF ShellInv, Control, Calls
<1>2. /\ Shape(r) /\ Known(r) /\ LoopOK(r) /\ SameList(r, s) /\ SameScreen(r, s) /\ SameWindows(r, s)
      /\ r.proc = s.proc /\ r.loop = s.loop /\ r.nRunningProcess = Top(s).previous /\ r.nRunningProcess \in Nat
      /\ r.stack \in Seq(Frame) /\ Len(r.stack) = k - 1 /\ k \in Nat \ {0}
      /\ \A i \in 1 .. k - 1 : r.stack[i] = s.stack[i]
  BY <1>1, PoppedIs
<1>3. k \in 2 .. k /\ k - 1 \in 1 .. k - 1 /\ 1 \in 1 .. k - 1
  <2>1. k \in Nat \ {0} /\ k # 1
    BY <1>2
  <2> HIDE DEF k
  <2> QED
    BY ONLY <2>1
<1>4. Link(s, k) /\ Top(s) = s.stack[k]
  BY <1>1, <1>3 DEF Chain, Top
<1>5. a.go = "launch" /\ pt = s.stack[k - 1].pid /\ Inside(s, r.nRunningProcess) /\ s.tProcesses[r.nRunningProcess] = s.stack[k - 1].pid
  BY <1>2, <1>4 DEF Link
<1>6. M!Back(r, a) = v
  BY <1>5 DEF M!Back, PutCurrent
<1> HIDE DEF r, pt, k
<1>7. /\ Kept(u, r) /\ u.nCurrentProcess = r.nCurrentProcess /\ (Core(r) => Core(u) /\ MenuUp(u))
  BY <1>2, RedrawMenuKept, RedrawMenuCore
<1> HIDE DEF u
<1>8. /\ IsSh(v) /\ v.current = pt /\ SameList(v, u) /\ SameScreen(v, u) /\ v.proc = u.proc
      /\ v.nRunningProcess = u.nRunningProcess /\ v.stack = u.stack /\ v.loop = u.loop
  BY <1>7, PutsRuns DEF Kept, Shape
<1> HIDE DEF v
<1>9. /\ v.tProcesses = s.tProcesses /\ v.slipped = s.slipped /\ v.nRunningProcess = r.nRunningProcess /\ v.stack = r.stack
      /\ v.loop = s.loop /\ v.nCurrentProcess = s.nCurrentProcess
  BY <1>2, <1>7, <1>8 DEF Kept, SameList, SameRuns, SameScreen
<1>10. Shape(v) /\ Shape(u)
  BY <1>7, <1>8 DEF Kept, Shape, SameList
<1>11. Known(v)
  <2>1. \A p \in Pid : v.proc[p].co = s.proc[p].co /\ v.proc[p].terminal = s.proc[p].terminal
    BY <1>2, <1>7, <1>8 DEF Kept, SameProcs
  <2>2. \A n \in 1 .. Len(s.tProcesses) : s.tProcesses[n] \in Pid
    BY <1>1 DEF Control, Shape
  <2> QED
    BY <1>1, <1>9, <2>1, <2>2 DEF Control, Known
<1>12. LoopOK(v)
  BY <1>1, <1>9 DEF LoopOK
<1>13. Chain(v)
  <2> SUFFICES ASSUME NEW i \in 2 .. k - 1 PROVE Link(v, i)
    BY <1>2, <1>9 DEF Chain
  <2>1. i \in 1 .. k - 1 /\ i - 1 \in 1 .. k - 1 /\ i \in 2 .. k
    BY <1>2
  <2>2. Link(s, i)
    BY <1>1, <2>1 DEF Chain, k
  <2>3. v.stack[i] = s.stack[i] /\ v.stack[i - 1] = s.stack[i - 1]
    BY <1>2, <1>9, <2>1
  <2> QED
    BY <1>9, <2>2, <2>3 DEF Link, Inside
<1>14. TopRuns(v)
  <2>1. Top(v) = s.stack[k - 1]
    BY <1>2, <1>3, <1>9 DEF Top
  <2> QED
    BY <1>5, <1>8, <1>9, <2>1 DEF TopRuns, Inside
<1>15. CallerIs(v)
  <2>1. v.stack[1] = s.stack[1]
    BY <1>2, <1>3, <1>9
  <2> QED
    BY <1>1, <1>9, <2>1 DEF CallerIs, Inside, FrontOK
<1>16. v.stack # <<>> /\ v.stack \in Seq(Frame) /\ v.nRunningProcess \in Nat
  <2>1. Len(v.stack) # 0 /\ v.stack \in Seq(Frame) /\ v.nRunningProcess \in Nat
    BY <1>2, <1>3, <1>9
  <2> QED
    BY <2>1
<1>17. Control(v)
  BY <1>10, <1>11, <1>12, <1>13, <1>14, <1>15, <1>16 DEF Control, Calls
<1>18. ASSUME ~v.slipped PROVE View(v)
  <2>1. Core(s) /\ Fronted(s)
    BY <1>1, <1>9, <1>18 DEF View
  <2>2. Core(r)
    BY <1>1, <1>2, <2>1, CoreSame DEF Control, Shape
  <2>3. Core(u) /\ MenuUp(u) /\ SameWindows(v, u)
    BY <1>7, <1>8, <2>2 DEF SameWindows, SameList
  <2>4. Core(v)
    BY <1>10, <2>3, CoreSame DEF Shape
  <2>5. M!MenuLine(v) = M!MenuLine(u)
    BY <1>8, <1>10, MenuLineSame DEF Shape, SameList, SameScreen
  <2>6. MenuUp(v) /\ Fronted(v)
    BY <1>8, <1>9, <2>1, <2>3, <2>5 DEF MenuUp, Fronted, SameScreen
  <2> QED
    BY <2>4, <2>6 DEF View
<1>19. ShellInv(v)
  BY <1>17, <1>18 DEF ShellInv
<1> QED
  BY <1>6, <1>19 DEF r

(* A call that returns, after what its program did last.                   *)
LEMMA BackInv ==
  ASSUME NEW s, ShellInv(s), s.stack # <<>>, NEW t, Works(t, s)
  PROVE  ShellInv(M!Back(Popped(t), Top(s).after))
<1>1. ShellInv(t) /\ t.stack = s.stack
  BY WorksInv DEF Works, SameRuns
<1>2. Top(t) = Top(s)
  BY <1>1 DEF Top
<1>3. ShellInv(M!Back(Popped(t), Top(t).after))
  BY <1>1, BackOuter, BackInner
<1> QED
  BY <1>2, <1>3


(* A call may be made: from the loop, or from the process that runs.       *)
CallerAt(s, go) ==
  /\ go # "launch"
  /\ go = "begin" => s.loop.at = "begin" /\ FrontOK(s)
  /\ go = "front" => s.loop.at = "wait" /\ Inside(s, s.nCurrentProcess)
  /\ go = "round" => s.loop.at \in Rounds
LaunchAt(s, a) ==
  /\ a.go = "launch" /\ a.previousTerm = Top(s).pid
  /\ Inside(s, s.nRunningProcess) /\ s.tProcesses[s.nRunningProcess] = Top(s).pid
MayCall(s, a) ==
  /\ Shape(s) /\ Known(s) /\ LoopOK(s) /\ s.stack \in Seq(Frame) /\ s.nRunningProcess \in Nat /\ a \in Afters
  /\ s.stack = <<>> => CallerAt(s, a.go)
  /\ s.stack # <<>> => Chain(s) /\ CallerIs(s) /\ LaunchAt(s, a)
  /\ ~s.slipped => Core(s) /\ Fronted(s) /\ (s.stack = <<>> => MenuUp(s))

(* resumeProcess up to coroutine.resume.                                   *)
LEMMA ResumeInv ==
  ASSUME NEW s, NEW a, MayCall(s, a), NEW n \in 1 .. Len(s.tProcesses), NEW e \in Events
  PROVE  ShellInv(M!Resume(s, n, e, a))
<1> DEFINE p == s.tProcesses[n]  f == [pid |-> p, event |-> e, previous |-> s.nRunningProcess, after |-> a]
           q == Append(s.stack, f)  t == PutRun(s, n)  u == PutCurrent(t, p)  r == PutStack(u, q)  k == Len(s.stack)
<1>1. /\ Shape(s) /\ Known(s) /\ LoopOK(s) /\ s.stack \in Seq(Frame) /\ s.nRunningProcess \in Nat /\ a \in Afters
      /\ s.stack = <<>> => CallerAt(s, a.go)
      /\ s.stack # <<>> => Chain(s) /\ CallerIs(s) /\ LaunchAt(s, a)
      /\ ~s.slipped => Core(s) /\ Fronted(s) /\ (s.stack = <<>> => MenuUp(s))
  BY DEF MayCall
<1>2. p \in Pid /\ s.proc[p].terminal = p /\ n \in Nat
  BY <1>1 DEF Shape, Known
<1>3. M!Resume(s, n, e, a) = r
  BY <1>2 DEF M!Resume, M!tProcess, PutRun, PutCurrent, PutStack
<1>4. f.pid = p /\ f.previous = s.nRunningProcess /\ f.after = a
  OBVIOUS
<1>5. f \in Frame
  BY <1>1, <1>2 DEF Frame
<1> HIDE DEF f
<1>6. k \in Nat /\ (s.stack = <<>> <=> k = 0)
  BY <1>1
<1>7. q \in Seq(Frame) /\ Len(q) = k + 1 /\ q[k + 1] = f /\ \A i \in 1 .. k : q[i] = s.stack[i]
  BY <1>1, <1>5
<1> HIDE DEF q, k
<1>8. /\ IsSh(t) /\ t.nRunningProcess = n /\ SameList(t, s) /\ SameScreen(t, s)
      /\ t.proc = s.proc /\ t.current = s.current /\ t.stack = s.stack /\ t.loop = s.loop
  BY <1>1, PutsRuns DEF Shape
<1> HIDE DEF t
<1>9. /\ IsSh(u) /\ u.current = p /\ SameList(u, t) /\ SameScreen(u, t) /\ u.proc = t.proc
      /\ u.nRunningProcess = t.nRunningProcess /\ u.stack = t.stack /\ u.loop = t.loop
  BY <1>8, PutsRuns
<1> HIDE DEF u
<1>10. /\ IsSh(r) /\ r.stack = q /\ SameList(r, u) /\ SameScreen(r, u) /\ r.proc = u.proc
       /\ r.nRunningProcess = u.nRunningProcess /\ r.current = u.current /\ r.loop = u.loop
  BY <1>9, PutsRuns
<1> HIDE DEF r
<1>11. SameList(r, s) /\ SameScreen(r, s) /\ r.proc = s.proc /\ r.nRunningProcess = n /\ r.current = p /\ r.loop = s.loop
  BY <1>8, <1>9, <1>10 DEF SameList, SameScreen
<1>12. r.tProcesses = s.tProcesses /\ r.nCurrentProcess = s.nCurrentProcess /\ r.slipped = s.slipped
  BY <1>11 DEF SameList, SameScreen
<1>13. Shape(r) /\ Known(r) /\ LoopOK(r) /\ SameWindows(r, s)
  BY <1>1, <1>10, <1>11, <1>12 DEF Shape, Known, LoopOK, SameWindows
<1>14. r.stack # <<>> /\ r.stack \in Seq(Frame) /\ r.nRunningProcess \in Nat
  <2>1. Len(r.stack) # 0
    BY <1>6, <1>7, <1>10
  <2> QED
    BY <1>2, <1>7, <1>10, <1>11, <2>1
<1>15. TopRuns(r)
  <2>1. Top(r) = f
    BY <1>7, <1>10 DEF Top
  <2> QED
    BY <1>4, <1>11, <1>12, <2>1 DEF TopRuns, Inside
<1>16. Chain(r)
  <2> SUFFICES ASSUME NEW i \in 2 .. k + 1 PROVE Link(r, i)
    BY <1>7, <1>10 DEF Chain
  <2>1. i - 1 \in 1 .. k /\ k # 0
    BY <1>6
  <2>2. Chain(s) /\ LaunchAt(s, a) /\ r.stack[i - 1] = s.stack[i - 1]
    BY <1>1, <1>6, <1>7, <1>10, <2>1
  <2>3. CASE i = k + 1
    <3>1. i - 1 = k /\ r.stack[i] = f /\ Top(s) = s.stack[k]
      BY <1>6, <1>7, <1>10, <2>3 DEF Top, k
    <3> QED
      BY <1>4, <1>12, <2>2, <3>1 DEF LaunchAt, Link, Inside
  <2>4. CASE i # k + 1
    <3>1. i \in 2 .. k /\ i \in 1 .. k
      BY <1>6, <2>4
    <3>2. Link(s, i) /\ r.stack[i] = s.stack[i]
      BY <1>7, <1>10, <2>2, <3>1 DEF Chain, k
    <3> QED
      BY <1>12, <2>2, <3>2 DEF Link, Inside
  <2> QED
    BY <2>3, <2>4
<1>17. CallerIs(r)
  <2>1. CASE k = 0
    <3>1. r.stack[1] = f /\ CallerAt(s, a.go)
      BY <1>1, <1>6, <1>7, <1>10, <2>1
    <3> QED
      BY <1>4, <1>11, <1>12, <3>1 DEF CallerAt, CallerIs, Inside, FrontOK
  <2>2. CASE k # 0
    <3>1. r.stack[1] = s.stack[1] /\ CallerIs(s)
      BY <1>1, <1>6, <1>7, <1>10, <2>2
    <3> QED
      BY <1>11, <1>12, <3>1 DEF CallerIs, Inside, FrontOK
  <2> QED
    BY <2>1, <2>2
<1>18. Control(r)
  BY <1>13, <1>14, <1>15, <1>16, <1>17 DEF Control, Calls
<1>19. ASSUME ~r.slipped PROVE View(r)
  <2>1. Core(s) /\ Fronted(s) /\ (s.stack = <<>> => MenuUp(s))
    BY <1>1, <1>12, <1>19
  <2>2. Core(r)
    BY <1>1, <1>13, <2>1, CoreSame DEF Shape
  <2>3. M!MenuLine(r) = M!MenuLine(s)
    BY <1>1, <1>11, <1>12, MenuLineSame DEF Shape
  <2>4. MenuUp(s) => MenuUp(r)
    BY <1>11, <2>3 DEF MenuUp, SameScreen
  <2>5. Len(r.stack) <= 1 => s.stack = <<>>
    BY <1>6, <1>7, <1>10
  <2>6. Fronted(r)
    BY <1>11, <1>12, <2>1 DEF Fronted
  <2> QED
    BY <2>1, <2>2, <2>4, <2>5, <2>6 DEF View
<1> QED
  BY <1>3, <1>18, <1>19 DEF ShellInv

-----------------------------------------------------------------------------
(* Launching.                                                              *)

(* A new window that is hidden.                                            *)
LEMMA CreateDrew ==
  ASSUME NEW p, TermOK(p, Height), NEW menu
  PROVE  LET d == M!create(p, 1, RoomY(menu), Width, RoomHeight(menu), FALSE)
         IN  Stands(d, Height) /\ d.par = p /\ PlacedIn(d.win, menu) /\ ~d.win.visible
<1> DEFINE y == RoomY(menu)  ht == RoomHeight(menu)  pl == <<1, y, Width, ht>>  h == Height  off == FALSE  no == FALSE
           d == M!create(p, 1, y, Width, ht, off)
           lines == [n \in 1 .. pl[4] |-> U!EmptyLine(pl[3], White, Black)]
           w == WinOf(pl[1], pl[2], pl[3], pl[4], off, 1, 1, no, White, Black, lines)
<1>1. y \in Nat \ {0} /\ ht \in Nat /\ y + ht - 1 <= h /\ h \in Nat /\ Width \in Nat
  BY RoomOK
<1> HIDE DEF y, ht
<1>2. pl[1] = 1 /\ pl[2] = y /\ pl[3] = Width /\ pl[4] = ht
  OBVIOUS
<1> HIDE DEF pl, h
<1>3. PlaceOK(pl, h)
  BY <1>1, <1>2 DEF PlaceOK
<1>4. TermOK(p, h)
  BY DEF h
<1>5. ~off
  OBVIOUS
<1> HIDE DEF off
<1>6. DrawnAs(U!create(p, pl[1], pl[2], pl[3], pl[4], off), w, p, h)
  BY <1>1, <1>3, <1>4, CreateIs
<1>7. d = U!create(p, pl[1], pl[2], pl[3], pl[4], off)
  BY <1>2, SameFunctions
<1> HIDE DEF lines, no
<1>8. w.x = 1 /\ w.y = y /\ w.width = Width /\ w.height = ht /\ w.visible = off
  BY <1>2, WinOfFields
<1> HIDE DEF w, d
<1>9. Stands(d, h) /\ d.win = w /\ d.par = p
  BY <1>5, <1>6, <1>7, <1>8 DEF DrawnAs
<1>10. Stands(d, h) /\ d.par = p /\ PlacedIn(d.win, menu) /\ ~d.win.visible
  BY <1>5, <1>8, <1>9 DEF PlacedIn, y, ht
<1> QED
  BY <1>10 DEF d, y, ht, off, h

(* A process with a new window, last in the list.                          *)
Fresh(s) == M!create(s.par, 1, RoomY(s.bShowMenu), Width, RoomHeight(s.bShowMenu), FALSE)
Starts(d, p) == ProcOf(d.win, "suspended", "none", p, FALSE, 1)
Launched(s, p) == PutTasks(PutPar(PutProc(s, PutAt(s.proc, p, Starts(Fresh(s), p))), Fresh(s).par), Append(s.tProcesses, p))

(* launchProcess makes it, and resumes it.                                 *)
LEMMA LaunchSays ==
  ASSUME NEW s, NEW p, NEW a
  PROVE  M!launchProcess(s, p, a) = M!Resume(Launched(s, p), M!Count(Launched(s, p)), "none", a)
<1>1. M!windowY(s) = RoomY(s.bShowMenu) /\ M!windowHeight(s) = RoomHeight(s.bShowMenu)
  BY DEF M!windowY, M!windowHeight, RoomY, RoomHeight
<1> QED
  BY <1>1 DEF M!launchProcess, Launched, Fresh, Starts, ProcOf, PutTasks, PutPar, PutProc, PutAt

(* What this changes.                                                      *)
LEMMA LaunchedIs ==
  ASSUME NEW s, Shape(s), Known(s), NEW p \in Pid, \A n \in 1 .. Len(s.tProcesses) : s.tProcesses[n] # p
  PROVE  LET r == Launched(s, p)
         IN  /\ Shape(r) /\ Known(r) /\ SameRuns(r, s) /\ SameNumbers(r, s) /\ r.slipped = s.slipped
             /\ r.tProcesses = Append(s.tProcesses, p)
             /\ Core(s) => Core(r)
<1> DEFINE d == Fresh(s)  z == Starts(d, p)  f == PutAt(s.proc, p, z)  t == PutProc(s, f)  u == PutPar(t, d.par)
           q == Append(s.tProcesses, p)  r == PutTasks(u, q)  k == Len(s.tProcesses)
<1>1. Launched(s, p) = r
  BY DEF Launched
<1>2. IsSh(s) /\ Procs(s.proc) /\ s.tProcesses \in Seq(Pid) /\ k \in Nat
  BY DEF Shape
<1>3. q \in Seq(Pid) /\ Len(q) = k + 1 /\ q[k + 1] = p /\ \A n \in 1 .. k : q[n] = s.tProcesses[n]
  BY <1>2
<1> HIDE DEF q, d
<1>4. IsProc(z) /\ z.window = d.win /\ z.co = "suspended" /\ z.terminal = p
  <2> DEFINE no == FALSE
  <2>1. z = ProcOf(d.win, "suspended", "none", p, no, 1)
    BY DEF Starts
  <2> HIDE DEF no, z
  <2> QED
    BY <2>1, ProcFields
<1> HIDE DEF z
<1>5. Procs(f) /\ f[p] = z /\ \A o \in Pid : o # p => f[o] = s.proc[o]
  BY <1>2, <1>4, PutsAt
<1> HIDE DEF f
<1>6. IsSh(t) /\ t.proc = f /\ SameList(t, s) /\ SameRuns(t, s) /\ SameScreen(t, s)
  BY <1>2, PutsScreen
<1> HIDE DEF t
<1>7. /\ IsSh(u) /\ u.par = d.par /\ SameList(u, t) /\ SameRuns(u, t)
      /\ u.proc = t.proc /\ u.bShowMenu = t.bShowMenu /\ u.nCurrentProcess = t.nCurrentProcess
  BY <1>6, PutsScreen
<1> HIDE DEF u
<1>8. IsSh(r) /\ r.tProcesses = q /\ r.slipped = u.slipped /\ SameRuns(r, u) /\ SameScreen(r, u) /\ r.proc = u.proc
  BY <1>7, PutsRuns
<1> HIDE DEF r
<1>9. /\ r.proc = f /\ r.par = d.par /\ SameRuns(r, s) /\ SameNumbers(r, s) /\ r.slipped = s.slipped
  BY <1>6, <1>7, <1>8 DEF SameList, SameRuns, SameScreen, SameNumbers
<1>10. Shape(r)
  BY <1>3, <1>5, <1>8, <1>9 DEF Shape
<1>11. Known(r)
  <2> SUFFICES ASSUME NEW n \in 1 .. k + 1 PROVE f[q[n]].co # "never" /\ f[q[n]].terminal = q[n]
    BY <1>3, <1>8, <1>9 DEF Known
  <2>1. CASE n = k + 1
    BY <1>3, <1>4, <1>5, <2>1
  <2>2. CASE n # k + 1
    <3>1. n \in 1 .. k
      BY <1>2, <2>2
    <3>2. q[n] = s.tProcesses[n] /\ s.tProcesses[n] \in Pid /\ s.tProcesses[n] # p
      BY <1>2, <1>3, <3>1
    <3> QED
      BY <1>5, <3>1, <3>2 DEF Known
  <2> QED
    BY <2>1, <2>2
<1>12. ASSUME Core(s) PROVE Core(r)
  <2>1. Base(s) /\ Placed(s) /\ Only(s) /\ FrontOK(s)
    BY <1>12 DEF Core
  <2>2. TermOK(s.par, Height)
    <3>1. Stands(On(s.proc[p].window, s.par), Height) /\ On(s.proc[p].window, s.par).par = s.par
      BY <2>1 DEF Base, On
    <3> QED
      BY <3>1, StandsIs
  <2>3. Stands(d, Height) /\ d.par = s.par /\ PlacedIn(d.win, s.bShowMenu) /\ ~d.win.visible
    BY <2>2, CreateDrew DEF d, Fresh
  <2>4. r.proc[p].window = d.win /\ \A o \in Pid : o # p => r.proc[o].window = s.proc[o].window
    BY <1>4, <1>5, <1>9
  <2>5. r.par = s.par /\ r.nCurrentProcess = s.nCurrentProcess /\ r.bShowMenu = s.bShowMenu
    BY <1>9, <2>3 DEF SameNumbers
  <2>6. Base(r)
    <3>1. d = On(d.win, d.par)
      BY <2>3 DEF Stands
    <3>2. ASSUME NEW o \in Pid PROVE Stands(On(r.proc[o].window, r.par), Height)
      <4>1. CASE o = p
        BY <2>3, <2>4, <2>5, <3>1, <4>1
      <4>2. CASE o # p
        BY <2>1, <2>4, <2>5, <4>2 DEF Base
      <4> QED
        BY <4>1, <4>2
    <3> QED
      BY <2>1, <2>5, <3>2 DEF Base
  <2>7. Placed(r)
    <3> SUFFICES ASSUME NEW n \in 1 .. k + 1 PROVE PlacedIn(r.proc[q[n]].window, s.bShowMenu)
      BY <1>3, <1>8, <2>5 DEF Placed
    <3>1. CASE n = k + 1
      BY <1>3, <2>3, <2>4, <3>1
    <3>2. CASE n # k + 1
      <4>1. n \in 1 .. k
        BY <1>2, <3>2
      <4>2. q[n] = s.tProcesses[n] /\ s.tProcesses[n] \in Pid /\ s.tProcesses[n] # p
        BY <1>2, <1>3, <4>1
      <4> QED
        BY <2>1, <2>4, <4>1, <4>2 DEF Placed
    <3> QED
      BY <3>1, <3>2
  <2> DEFINE c == s.nCurrentProcess
  <2>8. c = 0 \/ (c \in 1 .. k /\ q[c] = s.tProcesses[c] /\ s.tProcesses[c] # p)
    <3>1. c = 0 \/ c \in 1 .. k
      BY <2>1 DEF FrontOK
    <3> HIDE DEF c
    <3> QED
      BY <1>3, <3>1
  <2>9. Only(r)
    <3> SUFFICES ASSUME NEW o \in Pid PROVE r.proc[o].window.visible <=> c # 0 /\ o = q[c]
      BY <1>8, <2>5 DEF Only
    <3>1. s.proc[o].window.visible <=> c # 0 /\ o = s.tProcesses[c]
      BY <2>1 DEF Only
    <3> HIDE DEF c
    <3>2. CASE o = p
      BY <2>3, <2>4, <2>8, <3>2
    <3>3. CASE o # p
      BY <2>4, <2>8, <3>1, <3>3
    <3> QED
      BY <3>2, <3>3
  <2>10. FrontOK(r)
    <3>1. c = 0 \/ c \in 1 .. k + 1
      BY <1>2, <2>8
    <3> QED
      BY <1>3, <1>8, <2>5, <3>1 DEF FrontOK
  <2> QED
    BY <2>6, <2>7, <2>9, <2>10 DEF Core
<1> QED
  BY <1>1, <1>8, <1>9, <1>10, <1>11, <1>12 DEF q


(* With a longer list, calls are still as they were.                       *)
LEMMA GrownCalls ==
  ASSUME NEW s, Control(s), s.stack # <<>>, NEW p \in Pid, NEW r, SameRuns(r, s), r.nCurrentProcess = s.nCurrentProcess,
         r.tProcesses = Append(s.tProcesses, p)
  PROVE  /\ LoopOK(r) /\ Chain(r) /\ CallerIs(r)
         /\ Inside(r, r.nRunningProcess) /\ r.tProcesses[r.nRunningProcess] = Top(r).pid /\ Top(r).pid = s.current
<1> DEFINE k == Len(s.tProcesses)
<1>1. s.tProcesses \in Seq(Pid) /\ k \in Nat /\ Chain(s) /\ TopRuns(s) /\ CallerIs(s) /\ LoopOK(s)
  BY DEF Control, Shape, Calls
<1>2. Len(r.tProcesses) = k + 1 /\ \A n \in 1 .. k : r.tProcesses[n] = s.tProcesses[n]
  BY <1>1
<1>3. r.nRunningProcess = s.nRunningProcess /\ r.current = s.current /\ r.stack = s.stack /\ r.loop = s.loop
  BY DEF SameRuns
<1> HIDE DEF k
<1>4. \A n : Inside(s, n) => Inside(r, n) /\ r.tProcesses[n] = s.tProcesses[n]
  <2> SUFFICES ASSUME NEW n, Inside(s, n) PROVE Inside(r, n) /\ r.tProcesses[n] = s.tProcesses[n]
    OBVIOUS
  <2>1. n \in 1 .. k
    BY DEF Inside, k
  <2>2. n \in 1 .. k + 1
    BY <1>1, <2>1
  <2> QED
    BY <1>2, <2>1, <2>2 DEF Inside
<1>5. LoopOK(r)
  <2>1. \A m \in 0 .. k : m \in 0 .. k + 1
    BY <1>1
  <2> QED
    BY <1>1, <1>2, <1>3, <2>1 DEF LoopOK, k
<1>6. Chain(r)
  BY <1>1, <1>3, <1>4 DEF Chain, Link
<1>7. FrontOK(s) => FrontOK(r)
  <2>1. FrontOK(s) => s.nCurrentProcess = 0 \/ Inside(s, s.nCurrentProcess)
    BY DEF FrontOK, Inside
  <2> QED
    BY <1>4, <2>1 DEF FrontOK, Inside
<1>8. CallerIs(r)
  BY <1>1, <1>3, <1>4, <1>7 DEF CallerIs
<1>9. Top(r) = Top(s) /\ s.current = Top(s).pid /\ Inside(s, s.nRunningProcess) /\ s.tProcesses[s.nRunningProcess] = Top(s).pid
  BY <1>1, <1>3 DEF TopRuns, Top
<1> QED
  BY <1>3, <1>4, <1>5, <1>6, <1>8, <1>9

(* multishell.launch in a process that runs.                               *)
LEMMA LaunchInv ==
  ASSUME NEW s, ShellInv(s), s.stack # <<>>, NEW p \in Pid, s.proc[p].co = "never", NEW b
  PROVE  ShellInv(M!launchProcess(M!setMenuVisible(s, b), p, [go |-> "launch", previousTerm |-> s.current]))
<1> DEFINE t == M!setMenuVisible(s, b)  r == Launched(t, p)  a == [go |-> "launch", previousTerm |-> s.current]
           n == M!Count(r)
<1>1. Control(s) /\ Shape(s) /\ Known(s) /\ (~s.slipped => View(s))
  BY DEF ShellInv, Control
<1>2. s.current \in Pid
  BY <1>1, TopIs
<1>3. M!launchProcess(t, p, a) = M!Resume(r, n, "none", a)
  BY LaunchSays
<1>4. a \in Afters /\ a.go = "launch" /\ a.previousTerm = s.current
  BY <1>2 DEF Afters
<1> HIDE DEF a
<1>5. Kept(t, s) /\ t.nCurrentProcess = s.nCurrentProcess /\ (Core(s) => Core(t))
  BY <1>1, SetMenuVisibleIs
<1> HIDE DEF t
<1>6. /\ Shape(t) /\ t.tProcesses = s.tProcesses /\ t.slipped = s.slipped /\ SameRuns(t, s)
      /\ \A q \in Pid : t.proc[q].co = s.proc[q].co /\ t.proc[q].terminal = s.proc[q].terminal
  BY <1>5 DEF Kept, SameList, SameProcs
<1>7. Known(t) /\ \A m \in 1 .. Len(t.tProcesses) : t.tProcesses[m] # p
  <2>1. \A m \in 1 .. Len(s.tProcesses) : s.tProcesses[m] \in Pid
    BY <1>1 DEF Shape
  <2> QED
    BY <1>1, <1>6, <2>1 DEF Known
<1>8. /\ Shape(r) /\ Known(r) /\ SameRuns(r, t) /\ SameNumbers(r, t) /\ r.slipped = t.slipped
      /\ r.tProcesses = Append(t.tProcesses, p)
      /\ Core(t) => Core(r)
  BY <1>6, <1>7, LaunchedIs
<1> HIDE DEF r
<1>9. SameRuns(r, s) /\ r.nCurrentProcess = s.nCurrentProcess /\ r.tProcesses = Append(s.tProcesses, p)
  BY <1>5, <1>6, <1>8 DEF SameRuns, SameNumbers
<1>10. /\ LoopOK(r) /\ Chain(r) /\ CallerIs(r)
       /\ Inside(r, r.nRunningProcess) /\ r.tProcesses[r.nRunningProcess] = Top(r).pid /\ Top(r).pid = s.current
  BY <1>1, <1>9, GrownCalls
<1>11. r.stack \in Seq(Frame) /\ r.nRunningProcess \in Nat /\ r.stack # <<>> /\ r.loop = s.loop
  BY <1>1, <1>9 DEF Control, Calls, SameRuns
<1>12. LaunchAt(r, a)
  BY <1>4, <1>10 DEF LaunchAt
<1>13. ASSUME ~r.slipped PROVE Core(r) /\ Fronted(r)
  <2>1. Core(s) /\ Fronted(s)
    BY <1>1, <1>6, <1>8, <1>13 DEF View
  <2>2. s.tProcesses # <<>>
    <3>1. Inside(s, s.nRunningProcess)
      BY <1>1 DEF Control, Calls, TopRuns
    <3> QED
      BY <3>1 DEF Inside
  <2> QED
    BY <1>5, <1>8, <1>9, <1>11, <2>1, <2>2 DEF Fronted
<1>14. MayCall(r, a)
  BY <1>4, <1>8, <1>10, <1>11, <1>12, <1>13 DEF MayCall
<1>15. n \in 1 .. Len(r.tProcesses) /\ "none" \in Events
  <2>1. s.tProcesses \in Seq(Pid)
    BY <1>1 DEF Shape
  <2> QED
    BY <1>9, <2>1 DEF M!Count, Events
<1> HIDE DEF n
<1>16. ShellInv(M!Resume(r, n, "none", a))
  BY <1>14, <1>15, ResumeInv
<1> QED
  BY <1>3, <1>16 DEF t, a

(* The screen before anything is launched.                                 *)
LEMMA BlankIs ==
  LET p == M!term_clear(M!NewTerm(Width, Height))
  IN  TermOK(p, Height) /\ \A m \in 1 .. Height : DOMAIN p.cells[m] = 1 .. Width
<1> DEFINE e == M!EmptyLine(Width, White, Black)  cs == [y \in 1 .. Height |-> e]  no == FALSE
           t == TermOf(cs, 1, 1, no, White, Black)  p == M!term_clear(t)
           cs2 == [y \in 1 .. Height |-> M!EmptyLine(Len(e), White, Black)]
<1>1. Width \in Nat /\ Height \in Nat
  BY ShellAssumption
<1>2. M!NewTerm(Width, Height) = t
  BY DEF M!NewTerm, TermOf
<1>3. DOMAIN e = 1 .. Width /\ Len(e) = Width
  <2>1. e = [i \in 1 .. Width |-> <<Space, White, Black>>]
    BY DEF M!EmptyLine
  <2> QED
    BY <1>1, <2>1
<1> HIDE DEF e
<1>4. DOMAIN cs = 1 .. Height /\ \A y \in 1 .. Height : cs[y] = e
  OBVIOUS
<1>5. t.cells = cs /\ t.text = White /\ t.back = Black
  BY DEF TermOf
<1>6. p = [t EXCEPT !.cells = [y \in DOMAIN t.cells |-> M!EmptyLine(Len(t.cells[y]), t.text, t.back)]]
  BY DEF M!term_clear
<1>7. [y \in DOMAIN t.cells |-> M!EmptyLine(Len(t.cells[y]), t.text, t.back)] = cs2
  <2> HIDE DEF t, cs
  <2> QED
    BY <1>4, <1>5
<1>8. p = TermOf(cs2, 1, 1, no, White, Black)
  <2>1. p = [t EXCEPT !.cells = cs2]
    <3> HIDE DEF p, t, cs2
    <3> QED
      BY <1>6, <1>7
  <2> HIDE DEF p, cs2, cs, no
  <2> QED
    BY <2>1 DEF TermOf
<1>9. cs2 = [y \in 1 .. Height |-> e]
  BY <1>3 DEF e
<1>10. cs2 = [y \in 1 .. Height |-> cs2[y]] /\ \A y \in 1 .. Height : DOMAIN cs2[y] = 1 .. Width
  BY <1>3, <1>9
<1> HIDE DEF p, cs2, no
<1>11. TermOK(p, Height) /\ p.cells = cs2
  <2>1. TermOf(cs2, 1, 1, no, White, Black).cells = cs2
    BY TermOfFields
  <2>2. cs2 = [y \in 1 .. Height |-> cs2[y]]
    BY <1>10
  <2>3. TermOK(TermOf(cs2, 1, 1, no, White, Black), Height)
    BY ONLY <2>2, TermOfOK
  <2> QED
    BY <1>8, <2>1, <2>3
<1>12. M!term_clear(M!NewTerm(Width, Height)) = p
  BY <1>2 DEF p
<1> QED
  BY <1>10, <1>11, <1>12


(* Multishell before its first process.                                    *)
LEMMA BeginIs ==
  LET s == M!Begin
  IN  /\ Shape(s) /\ Known(s) /\ s.tProcesses = <<>> /\ s.stack = <<>> /\ s.loop.at = "begin" /\ s.nRunningProcess = 0
      /\ s.nCurrentProcess = 0 /\ ~s.bShowMenu /\ ~s.slipped /\ Core(s)
<1> DEFINE no == FALSE  f == [p \in Pid |-> M!NoProcess]  t == M!term_clear(M!NewTerm(Width, Height))  l == [at |-> "begin"]
           s == ShOf(<<>>, f, 0, 0, no, no, t, 0, <<>>, l, no)
           d == M!create(M!NewTerm(Width, Height), 1, 1, Width, Height, FALSE)
<1>1. M!Begin = s
  BY DEF M!Begin, M!None, ShOf
<1>2. ~no /\ l.at = "begin"
  OBVIOUS
<1>3. TermOK(t, Height) /\ \A m \in 1 .. Height : DOMAIN t.cells[m] = 1 .. Width
  BY BlankIs
<1>4. Stands(d, Height) /\ ~d.win.visible
  <2> DEFINE p == M!NewTerm(Width, Height)
  <2>1. TermOK(p, Height)
    BY ShellAssumption, NewTermOK, SameFunctions
  <2>2. RoomY(no) = 1 /\ RoomHeight(no) = Height
    BY DEF RoomY, RoomHeight
  <2> HIDE DEF p, no
  <2> DEFINE g == M!create(p, 1, RoomY(no), Width, RoomHeight(no), FALSE)
  <2>3. Stands(g, Height) /\ ~g.win.visible
    BY <2>1, CreateDrew
  <2>4. d = g
    BY <2>2 DEF p
  <2> HIDE DEF g, d
  <2> QED
    BY <2>3, <2>4
<1>5. M!NoProcess = ProcOf(d.win, "never", "none", 0, no, 1)
  BY DEF M!NoProcess, ProcOf
<1> HIDE DEF no, t, l, d
<1>6. /\ IsSh(s) /\ s.tProcesses = <<>> /\ s.proc = f /\ s.nCurrentProcess = 0 /\ s.nRunningProcess = 0 /\ s.bShowMenu = no
      /\ s.par = t /\ s.stack = <<>> /\ s.loop = l /\ s.slipped = no
  <2> HIDE DEF f
  <2> QED
    BY ShFields, ShOfIs
<1>7. IsProc(M!NoProcess) /\ M!NoProcess.window = d.win
  BY <1>5, ProcFields
<1>8. \A p \in Pid : f[p] = M!NoProcess
  OBVIOUS
<1>9. Procs(f)
  BY <1>7, <1>8 DEF Procs
<1> HIDE DEF s, f
<1>10. Shape(s)
  BY <1>6, <1>9 DEF Shape
<1>11. Known(s)
  BY <1>6 DEF Known
<1>12. \A p \in Pid : s.proc[p].window = d.win
  BY <1>6, <1>7, <1>8
<1>13. Base(s)
  <2> DEFINE w == d.win  g == On(w, t)
  <2>1. g.win = w /\ g.par = t
    BY DEF On
  <2>2. g = On(g.win, g.par)
    BY <2>1
  <2>3. WinOK(w) /\ Within(w, Height)
    BY <1>4 DEF Stands, Drawable
  <2>4. ~w.visible
    BY <1>4
  <2> HIDE DEF g, w
  <2>5. Stands(g, Height)
    BY <1>3, <2>1, <2>2, <2>3, <2>4 DEF Stands, Drawable
  <2>6. \A p \in Pid : On(s.proc[p].window, s.par) = g
    BY <1>6, <1>12 DEF g, w
  <2> QED
    BY <1>3, <1>6, <2>5, <2>6 DEF Base
<1>14. Placed(s) /\ Only(s) /\ FrontOK(s)
  BY <1>4, <1>6, <1>12 DEF Placed, Only, FrontOK
<1>15. Core(s)
  BY <1>13, <1>14 DEF Core
<1>16. s.loop.at = "begin" /\ ~s.bShowMenu /\ ~s.slipped
  BY <1>2, <1>6
<1> QED
  BY <1>1, <1>6, <1>10, <1>11, <1>15, <1>16

(* Multishell begins with a shell.                                         *)
LEMMA ShellStarts ==
  ASSUME M!ShellInit
  PROVE  ShellInv(sh)
<1> DEFINE s == M!Begin  a == M!Then("begin")  r == Launched(s, 1)  n == M!Count(r)
<1>1. sh = M!Resume(r, n, "none", a)
  BY LaunchSays DEF M!ShellInit
<1>2. a \in Afters /\ a.go = "begin"
  BY DEF M!Then, Afters
<1>3. /\ Shape(s) /\ Known(s) /\ s.tProcesses = <<>> /\ s.stack = <<>> /\ s.loop.at = "begin" /\ s.nRunningProcess = 0
      /\ s.nCurrentProcess = 0 /\ ~s.bShowMenu /\ ~s.slipped /\ Core(s)
  BY BeginIs
<1>4. 1 \in Pid
  BY ShellAssumption
<1> HIDE DEF s, a
<1>5. /\ Shape(r) /\ Known(r) /\ SameRuns(r, s) /\ SameNumbers(r, s) /\ r.slipped = s.slipped
      /\ r.tProcesses = Append(s.tProcesses, 1) /\ Core(r)
  BY <1>3, <1>4, LaunchedIs
<1> HIDE DEF r
<1>6. /\ r.stack = <<>> /\ r.loop.at = "begin" /\ r.nRunningProcess = 0 /\ r.nCurrentProcess = 0 /\ ~r.bShowMenu
      /\ r.tProcesses = Append(<<>>, 1)
  BY <1>3, <1>5 DEF SameRuns, SameNumbers
<1>7. LoopOK(r) /\ FrontOK(r) /\ MenuUp(r) /\ Fronted(r)
  BY <1>6 DEF LoopOK, FrontOK, MenuUp, Fronted, Rounds
<1>8. CallerAt(r, a.go)
  BY <1>2, <1>6, <1>7 DEF CallerAt
<1>9. r.stack \in Seq(Frame) /\ r.nRunningProcess \in Nat
  BY <1>6
<1>10. MayCall(r, a)
  BY <1>2, <1>5, <1>6, <1>7, <1>8, <1>9 DEF MayCall
<1>11. n \in 1 .. Len(r.tProcesses) /\ "none" \in Events
  BY <1>6 DEF M!Count, Events
<1> HIDE DEF n
<1> QED
  BY <1>1, <1>10, <1>11, ResumeInv

-----------------------------------------------------------------------------
(* The loop over events keeps the invariant.                               *)

(* From the loop a process may be resumed.                                 *)
LEMMA LoopCalls ==
  ASSUME NEW s, ShellInv(s), s.stack = <<>>, NEW go \in {"front", "round"}, CallerAt(s, go)
  PROVE  MayCall(s, M!Then(go))
<1> DEFINE a == M!Then(go)
<1>1. a \in Afters /\ a.go = go
  BY DEF M!Then, Afters
<1> HIDE DEF a
<1>2. Control(s) /\ (~s.slipped => View(s)) /\ Len(s.stack) <= 1
  BY DEF ShellInv
<1>3. Shape(s) /\ Known(s) /\ LoopOK(s) /\ s.stack \in Seq(Frame) /\ s.nRunningProcess \in Nat
  BY <1>2 DEF Control, Calls
<1>4. ~s.slipped => Core(s) /\ Fronted(s) /\ MenuUp(s)
  BY <1>2 DEF View
<1>5. MayCall(s, a)
  BY <1>1, <1>3, <1>4 DEF MayCall
<1> QED
  BY <1>5 DEF a

(* An event for the process in front.                                      *)
LEMMA KeyInv ==
  ASSUME ShellInv(sh), NEW e \in {"char", "terminate"}, M!KeyEvent(e)
  PROVE  ShellInv(sh')
<1> DEFINE n == sh.nCurrentProcess  t == M!AfterCull(sh, M!cullProcess(sh, n))
<1>1. sh.stack = <<>> /\ sh.loop.at = "wait" /\ sh' = M!Passthrough(sh, e)
  BY DEF M!KeyEvent, M!Waiting
<1>2. sh' = IF ~(n \in 1 .. Len(sh.tProcesses)) THEN [sh EXCEPT !.loop = [at |-> "error"]]
            ELSE IF ~M!Hears(sh, n, e) THEN M!StartResizeRound(t)
            ELSE M!Resume(sh, n, e, M!Then("front"))
  BY <1>1 DEF M!Passthrough, M!InRange, M!Stopped, M!Count
<1>3. Resting(sh)
  BY <1>1, InvResting
<1> HIDE DEF n
<1>4. CASE ~(n \in 1 .. Len(sh.tProcesses))
  <2> DEFINE l == [at |-> "error"]  r == PutLoop(sh, l)
  <2>1. sh' = r
    BY <1>2, <1>4 DEF PutLoop
  <2>2. l.at = "error"
    OBVIOUS
  <2> HIDE DEF l
  <2>3. Resting(r) /\ r.loop = l
    BY <1>3, LoopResting
  <2> HIDE DEF r
  <2>4. LoopOK(r) /\ r.loop.at # "begin"
    BY <2>2, <2>3 DEF LoopOK, Rounds
  <2> QED
    BY <2>1, <2>3, <2>4, RestingInv
<1>5. CASE n \in 1 .. Len(sh.tProcesses) /\ ~M!Hears(sh, n, e)
  <2>1. Resting(t)
    BY <1>3, <1>5, AfterCullIs
  <2> HIDE DEF t
  <2> QED
    BY <1>2, <1>5, <2>1, StartResizeRoundInv
<1>6. CASE n \in 1 .. Len(sh.tProcesses) /\ M!Hears(sh, n, e)
  <2>1. CallerAt(sh, "front") /\ e \in Events
    BY <1>1, <1>6 DEF CallerAt, Inside, Events, n
  <2>2. MayCall(sh, M!Then("front"))
    BY <1>1, <2>1, LoopCalls
  <2>3. ShellInv(M!Resume(sh, n, e, M!Then("front")))
    BY <1>6, <2>1, <2>2, ResumeInv
  <2> QED
    BY <1>2, <1>6, <2>3
<1> QED
  BY <1>4, <1>5, <1>6

(* The size of the screen.                                                 *)
LEMMA ResizeInv ==
  ASSUME ShellInv(sh), M!ResizeEvent
  PROVE  ShellInv(sh')
<1> DEFINE t == M!resizeWindows(sh)  u == M!redrawMenu(t)
<1>1. sh.stack = <<>> /\ sh' = M!StartResizeRound(u)
  BY DEF M!ResizeEvent, M!Waiting
<1>2. Resting(sh) /\ Idle(sh) /\ Shape(sh)
  BY <1>1, InvResting DEF Resting, Idle
<1>3. Kept(t, sh) /\ SameNumbers(t, sh) /\ (Core(sh) => Core(t))
  BY <1>2, ResizeWindowsIs DEF Core
<1> HIDE DEF t
<1>4. Idle(t) /\ t.slipped = sh.slipped /\ t.tProcesses = sh.tProcesses /\ t.nCurrentProcess = sh.nCurrentProcess
  BY <1>2, <1>3, KeptIdle DEF Kept, SameList, SameNumbers
<1>5. ~t.slipped => Core(t) /\ Manned(t)
  BY <1>2, <1>3, <1>4 DEF Resting, Manned
<1>6. Resting(u)
  BY <1>4, <1>5, MenuResting
<1> QED
  BY <1>1, <1>6, StartResizeRoundInv

(* A click on the menu.                                                    *)
LEMMA ClickInv ==
  ASSUME ShellInv(sh), NEW n, M!Click(n)
  PROVE  ShellInv(sh')
<1> DEFINE t == M!selectProcess(sh, n)  u == M!redrawMenu(t)
<1>1. /\ sh.stack = <<>> /\ n \in 1 .. Len(sh.tProcesses)
      /\ sh' = IF sh.nCurrentProcess \in 1 .. Len(sh.tProcesses) THEN M!StartResizeRound(u)
               ELSE [sh EXCEPT !.loop = [at |-> "error"]]
  BY DEF M!Click, M!Waiting, M!InRange, M!Count, M!Stopped
<1>2. Resting(sh) /\ Idle(sh) /\ Shape(sh) /\ Len(sh.tProcesses) \in Nat
  BY <1>1, InvResting DEF Resting, Idle, Shape
<1>3. CASE sh.nCurrentProcess \in 1 .. Len(sh.tProcesses)
  <2>1. FrontOK(sh) /\ n \in 0 .. Len(sh.tProcesses) /\ n # 0
    BY <1>1, <1>2, <1>3 DEF FrontOK
  <2>2. Kept(t, sh) /\ t.nCurrentProcess = n /\ (Core(sh) => Core(t))
    BY <1>2, <2>1, SelectIs
  <2> HIDE DEF t
  <2>3. Idle(t) /\ t.slipped = sh.slipped /\ Manned(t)
    BY <1>2, <2>1, <2>2, KeptIdle DEF Kept, SameList, Manned
  <2>4. Resting(u)
    BY <1>2, <2>2, <2>3, MenuResting DEF Resting
  <2> QED
    BY <1>1, <1>3, <2>4, StartResizeRoundInv
<1>4. CASE ~(sh.nCurrentProcess \in 1 .. Len(sh.tProcesses))
  <2> DEFINE l == [at |-> "error"]  r == PutLoop(sh, l)
  <2>1. sh' = r
    BY <1>1, <1>4 DEF PutLoop
  <2>2. l.at = "error"
    OBVIOUS
  <2> HIDE DEF l
  <2>3. Resting(r) /\ r.loop = l
    BY <1>2, LoopResting
  <2> HIDE DEF r
  <2>4. LoopOK(r) /\ r.loop.at # "begin"
    BY <2>2, <2>3 DEF LoopOK, Rounds
  <2> QED
    BY <2>1, <2>3, <2>4, RestingInv
<1> QED
  BY <1>3, <1>4

(* An event for all.                                                       *)
LEMMA OtherInv ==
  ASSUME ShellInv(sh), M!OtherEvent("timer")
  PROVE  ShellInv(sh')
<1>1. sh.stack = <<>> /\ sh' = [sh EXCEPT !.loop = [at |-> "all", n |-> 1, limit |-> M!Count(sh), event |-> "timer"]]
  BY DEF M!OtherEvent, M!Waiting
<1>2. Resting(sh)
  BY <1>1, InvResting
<1>3. "all" \in Rounds /\ "timer" \in Events
  BY DEF Rounds, Events
<1> QED
  BY <1>1, <1>2, <1>3, RoundInv

(* One turn of a round.                                                    *)
LEMMA TurnInv ==
  ASSUME ShellInv(sh), M!Turn
  PROVE  ShellInv(sh')
<1> DEFINE l == sh.loop  n == l.n  e == l.event  m == Round(l.at, n + 1, l.limit, e)  next == PutLoop(sh, m)
           ended == M!AfterCull(sh, M!cullProcesses(sh))  told == PutResized(sh, FALSE)
           over == M!AfterCull(told, M!cullProcesses(told))
<1>1. sh.stack = <<>> /\ l.at \in Rounds
  BY DEF M!Turn, Rounds
<1>2. Resting(sh) /\ Idle(sh) /\ Shape(sh) /\ LoopOK(sh)
  BY <1>1, InvResting DEF Resting, Idle
<1>3. /\ l = Round(l.at, n, l.limit, e) /\ n \in Nat \ {0} /\ l.limit \in 0 .. Len(sh.tProcesses) /\ e \in Events
      /\ Len(sh.tProcesses) \in Nat
  BY <1>1, <1>2 DEF LoopOK, Shape
<1>4. [sh EXCEPT !.loop.n = @ + 1] = next
  <2>1. [l EXCEPT !.n = l.n + 1] = m
    <3> DEFINE at == l.at  lim == l.limit
    <3>1. l = Round(at, n, lim, e)
      BY <1>3
    <3> DEFINE w == n + 1
    <3>2. m = Round(at, w, lim, e) /\ [l EXCEPT !.n = l.n + 1] = [l EXCEPT !.n = w]
      OBVIOUS
    <3> HIDE DEF at, lim, n, e, w, m, l
    <3>3. [l EXCEPT !.n = w] = Round(at, w, lim, e)
      BY <3>1 DEF Round
    <3> QED
      BY <3>2, <3>3
  <2>2. [sh EXCEPT !.loop.n = @ + 1] = PutLoop(sh, [l EXCEPT !.n = l.n + 1])
    BY DEF PutLoop
  <2> QED
    BY <2>1, <2>2
<1>5. sh' = IF n <= l.limit
            THEN IF M!Hears(sh, n, e) THEN M!Resume(next, n, e, M!Then("round")) ELSE next
            ELSE IF l.at = "all" THEN M!StartResizeRound(ended)
            ELSE [over EXCEPT !.loop = [at |-> "wait"]]
  BY <1>4 DEF M!Turn, PutResized
<1>6. m.at = l.at /\ m.n = n + 1 /\ m.limit = l.limit /\ m.event = e
  BY DEF Round
<1>7. ShellInv(next) /\ next.stack = <<>> /\ next.loop.at \in Rounds /\ next.tProcesses = sh.tProcesses
  <2>1. m = Round(m.at, m.n, m.limit, m.event)
    BY <1>6
  <2> HIDE DEF m
  <2>2. Resting(next) /\ next.loop = m /\ next.tProcesses = sh.tProcesses
    BY <1>2, LoopResting
  <2> HIDE DEF next
  <2>3. m.at \in {"begin", "wait", "all", "resize", "error"} /\ m.at # "begin" /\ m.n \in Nat \ {0}
    BY <1>1, <1>3, <1>6 DEF Rounds
  <2>4. LoopOK(next) /\ next.loop.at # "begin"
    BY <1>3, <1>6, <2>1, <2>2, <2>3 DEF LoopOK
  <2>5. ShellInv(next)
    BY <2>2, <2>4, RestingInv
  <2> QED
    BY <1>1, <1>6, <2>2, <2>5 DEF Resting, Idle
<1> HIDE DEF next, m
<1>8. CASE n <= l.limit /\ M!Hears(sh, n, e)
  <2>1. CallerAt(next, "round")
    BY <1>7 DEF CallerAt
  <2>2. MayCall(next, M!Then("round"))
    BY <1>7, <2>1, LoopCalls
  <2>3. n \in 1 .. Len(next.tProcesses)
    BY <1>3, <1>7, <1>8
  <2>4. ShellInv(M!Resume(next, n, e, M!Then("round")))
    BY <1>3, <2>2, <2>3, ResumeInv
  <2> QED
    BY <1>5, <1>8, <2>4
<1>9. CASE n <= l.limit /\ ~M!Hears(sh, n, e)
  BY <1>5, <1>7, <1>9
<1>10. CASE ~(n <= l.limit) /\ l.at = "all"
  <2>1. Resting(ended)
    BY <1>2, AfterCullsIs
  <2> HIDE DEF ended
  <2> QED
    BY <1>5, <1>10, <2>1, StartResizeRoundInv
<1>11. CASE ~(n <= l.limit) /\ l.at # "all"
  <2> DEFINE no == FALSE
  <2>1. told = PutResized(sh, no)
    OBVIOUS
  <2> HIDE DEF told, no
  <2>2. IsSh(told) /\ told.proc = sh.proc /\ SameList(told, sh) /\ SameRuns(told, sh) /\ SameScreen(told, sh)
    BY <1>2, <2>1, PutsScreen DEF Shape
  <2>3. Idle(told) /\ SameWindows(told, sh)
    BY <1>2, <2>2 DEF Idle, Shape, Known, SameList, SameRuns, SameWindows
  <2>4. Core(sh) => Core(told)
    BY <1>2, <2>3, CoreSame DEF Shape
  <2>5. M!MenuLine(told) = M!MenuLine(sh)
    BY <1>2, <2>2, MenuLineSame DEF Shape, SameList, SameScreen
  <2>6. Resting(told)
    BY <1>2, <2>2, <2>3, <2>4, <2>5 DEF Resting, MenuUp, Manned, SameList, SameScreen
  <2>7. Resting(over)
    BY <2>6, AfterCullsIs
  <2> HIDE DEF over
  <2> QED
    BY <1>5, <1>11, <2>7, WaitInv
<1> QED
  BY <1>8, <1>9, <1>10, <1>11

-----------------------------------------------------------------------------
(* Programs keep the invariant.                                            *)

(* The program that runs.                                                  *)
LEMMA MeIs ==
  ASSUME ShellInv(sh), sh.stack # <<>>
  PROVE  /\ M!me = Top(sh).pid /\ M!me \in Pid /\ M!Last(sh.stack) = Top(sh) /\ sh.current = M!me
         /\ Shape(sh) /\ Control(sh)
<1>1. Control(sh) /\ Shape(sh)
  BY DEF ShellInv, Control
<1>2. M!Last(sh.stack) = Top(sh) /\ Top(sh).pid \in Pid /\ sh.current = Top(sh).pid
  BY <1>1, TopIs
<1> QED
  BY <1>1, <1>2 DEF M!me

(* Entering a coroutine.                                                   *)
LEMMA EnterInv ==
  ASSUME ShellInv(sh), M!Enter
  PROVE  ShellInv(sh')
<1> DEFINE p == M!me  a == Top(sh).after  over == [sh EXCEPT !.proc[p].co = "dead"]  run == [sh EXCEPT !.proc[p].co = "running"]
<1>1. sh.stack # <<>>
  BY DEF M!Enter
<1>2. p \in Pid /\ M!Last(sh.stack) = Top(sh) /\ Shape(sh)
  BY <1>1, MeIs
<1>3. sh' = CASE sh.proc[p].co = "dead" -> M!Back(M!Failed(sh), a)
              [] sh.proc[p].co = "press" ->
                   M!Back(IF Top(sh).event = "terminate" THEN M!Failed(over) ELSE M!Resumed(over, "none"), a)
              [] OTHER -> run
  BY <1>2 DEF M!Enter
<1> HIDE DEF p
<1>4. Works(over, sh) /\ Works(run, sh)
  BY <1>2, CoWorks
<1> HIDE DEF over, run
<1>5. CASE sh.proc[p].co = "dead"
  <2>1. PICK t : Works(t, sh) /\ M!Failed(sh) = Popped(t)
    BY <1>1, FailedIs
  <2>2. ShellInv(M!Back(Popped(t), a))
    BY <1>1, <2>1, BackInv
  <2>3. sh' = M!Back(M!Failed(sh), a)
    BY <1>3, <1>5
  <2> QED
    BY <2>1, <2>2, <2>3
<1>6. CASE sh.proc[p].co = "press"
  <2>1. ShellInv(over) /\ over.stack # <<>>
    BY <1>1, <1>4, WorksInv DEF Works, SameRuns
  <2> DEFINE u == IF Top(sh).event = "terminate" THEN M!Failed(over) ELSE M!Resumed(over, "none")
  <2>2. PICK t : Works(t, over) /\ u = Popped(t)
    <3>1. \E t : Works(t, over) /\ M!Failed(over) = Popped(t)
      BY <2>1, FailedIs
    <3>2. \E t : Works(t, over) /\ M!Resumed(over, "none") = Popped(t)
      BY <2>1, ResumedIs
    <3> QED
      BY <3>1, <3>2
  <2>3. Works(t, sh)
    BY <1>4, <2>2, WorksBoth
  <2>4. ShellInv(M!Back(Popped(t), a))
    BY <1>1, <2>3, BackInv
  <2>5. sh' = M!Back(u, a)
    BY <1>3, <1>6
  <2> HIDE DEF u
  <2> QED
    BY <2>2, <2>4, <2>5
<1>7. CASE sh.proc[p].co # "dead" /\ sh.proc[p].co # "press"
  <2>1. sh' = run
    BY <1>3, <1>7
  <2> QED
    BY <1>4, <2>1, WorksInv
<1> QED
  BY <1>5, <1>6, <1>7

(* A program prints.                                                       *)
LEMMA PrintsInv ==
  ASSUME ShellInv(sh), M!ProgramPrints
  PROVE  ShellInv(sh')
<1>1. sh.stack # <<>> /\ sh' = M!PrintText(sh)
  BY DEF M!ProgramPrints, M!Do, M!Runs
<1>2. Shape(sh) /\ sh.current \in Pid
  BY <1>1, MeIs
<1>3. Works(M!PrintText(sh), sh)
  BY <1>2, PrintTextIs, DrawsWorks
<1> QED
  BY <1>1, <1>3, WorksInv

(* It returns after working.                                               *)
LEMMA ReturnInv ==
  ASSUME ShellInv(sh), sh.stack # <<>>, NEW t, Works(t, sh), NEW filter
  PROVE  ShellInv(M!Back(M!Resumed(t, filter), Top(sh).after))
<1>1. ShellInv(t) /\ t.stack # <<>>
  BY WorksInv DEF Works, SameRuns
<1>2. PICK u : Works(u, t) /\ M!Resumed(t, filter) = Popped(u)
  BY <1>1, ResumedIs
<1>3. Works(u, sh)
  BY <1>2, WorksBoth
<1>4. ShellInv(M!Back(Popped(u), Top(sh).after))
  BY <1>3, BackInv
<1> QED
  BY <1>2, <1>4

(* It waits for an event.                                                  *)
LEMMA YieldInv ==
  ASSUME ShellInv(sh), NEW filter, M!Yield(filter)
  PROVE  ShellInv(sh')
<1> DEFINE p == M!me  t == [sh EXCEPT !.proc[p].co = "suspended"]
<1>1. sh.stack # <<>>
  BY DEF M!Yield, M!Do, M!Runs
<1>2. p \in Pid /\ M!Last(sh.stack) = Top(sh) /\ Shape(sh)
  BY <1>1, MeIs
<1>3. sh' = M!Back(M!Resumed(t, filter), Top(sh).after)
  BY <1>2 DEF M!Yield, M!Do
<1> HIDE DEF p
<1>4. Works(t, sh)
  BY <1>2, CoWorks
<1> HIDE DEF t
<1> QED
  BY <1>1, <1>3, <1>4, ReturnInv

(* It is over.                                                             *)
LEMMA EndInv ==
  ASSUME ShellInv(sh), M!End
  PROVE  ShellInv(sh')
<1> DEFINE p == M!me  t == [sh EXCEPT !.proc[p].co = "dead"]  b == M!Drawn(sh, p, M!setCursorBlink(M!Canvas(sh, p), FALSE))
           c == [b EXCEPT !.proc[p].co = "press"]  w == M!PrintText(c)  a == Top(sh).after
<1>1. sh.stack # <<>>
  BY DEF M!End, M!Do, M!Runs
<1>2. p \in Pid /\ M!Last(sh.stack) = Top(sh) /\ Shape(sh) /\ sh.current = p
  BY <1>1, MeIs
<1>3. sh' = IF sh.proc[p].bInteracted THEN M!Back(M!Resumed(t, "none"), a) ELSE M!Back(M!Resumed(w, "char"), a)
  BY <1>2 DEF M!End, M!Do
<1> HIDE DEF p, a
<1>4. Works(t, sh)
  BY <1>2, CoWorks
<1>5. Works(b, sh)
  BY <1>2, BlinkOffIs, DrawsWorks
<1> HIDE DEF t, b
<1>6. Works(c, b)
  BY <1>2, <1>5, CoWorks DEF Works
<1> HIDE DEF c
<1>7. Works(w, c)
  <2>1. Shape(c) /\ c.current = p
    BY <1>2, <1>5, <1>6 DEF Works, SameRuns
  <2> QED
    BY <1>2, <2>1, PrintTextIs, DrawsWorks
<1> HIDE DEF w
<1>8. Works(w, sh)
  BY <1>5, <1>6, <1>7, WorksBoth
<1>9. ShellInv(M!Back(M!Resumed(t, "none"), a)) /\ ShellInv(M!Back(M!Resumed(w, "char"), a))
  BY <1>1, <1>4, <1>8, ReturnInv DEF a
<1> QED
  BY <1>3, <1>9

(* A menu that is drawn again while a program runs.                        *)
LEMMA MenuInv ==
  ASSUME NEW s, Control(s), ~s.slipped => Core(s) /\ Fronted(s)
  PROVE  ShellInv(M!redrawMenu(s))
<1> DEFINE r == M!redrawMenu(s)
<1>1. Shape(s)
  BY DEF Control
<1>2. Kept(r, s) /\ r.nCurrentProcess = s.nCurrentProcess /\ (Core(s) => Core(r) /\ MenuUp(r))
  BY <1>1, RedrawMenuKept, RedrawMenuCore
<1> HIDE DEF r
<1>3. Shape(r) /\ SameList(r, s) /\ SameRuns(r, s) /\ SameOwners(r.proc, s.proc)
  BY <1>2 DEF Kept, SameProcs, SameOwners
<1>4. Control(r)
  BY <1>2, <1>3, ControlSame
<1>5. ~r.slipped => View(r)
  BY <1>2, <1>3 DEF View, Fronted, SameList, SameRuns
<1>6. ShellInv(r)
  BY <1>4, <1>5 DEF ShellInv
<1> QED
  BY <1>6 DEF r

(* multishell.setFocus.                                                    *)
LEMMA FocusInv ==
  ASSUME ShellInv(sh), NEW n, M!setFocus(n)
  PROVE  ShellInv(sh')
<1> DEFINE t == M!selectProcess(sh, n)
<1>1. /\ sh.stack # <<>> /\ n \in 1 .. Len(sh.tProcesses) /\ sh' = M!redrawMenu(t)
      /\ (sh.nCurrentProcess = 0 \/ sh.nCurrentProcess = n \/ sh.nCurrentProcess \in 1 .. Len(sh.tProcesses))
  BY DEF M!setFocus, M!Do, M!Runs, M!InRange, M!Count, M!None
<1>2. Control(sh) /\ Shape(sh) /\ Len(sh.tProcesses) \in Nat
  BY DEF ShellInv, Control, Shape
<1>3. FrontOK(sh) /\ n \in 0 .. Len(sh.tProcesses) /\ n # 0
  BY <1>1, <1>2 DEF FrontOK
<1>4. Kept(t, sh) /\ t.nCurrentProcess = n /\ (Core(sh) => Core(t))
  BY <1>2, <1>3, SelectIs
<1> HIDE DEF t
<1>5. Shape(t) /\ SameList(t, sh) /\ SameRuns(t, sh) /\ SameOwners(t.proc, sh.proc) /\ Inside(t, t.nCurrentProcess)
  BY <1>1, <1>4 DEF Kept, SameProcs, SameOwners, Inside, SameList
<1>6. Control(t)
  BY <1>2, <1>5, ControlSame
<1>7. ~t.slipped => Core(t) /\ Fronted(t)
  BY <1>3, <1>4, <1>5 DEF ShellInv, View, Fronted, SameList
<1> QED
  BY <1>1, <1>6, <1>7, MenuInv

(* multishell.setTitle.                                                    *)
LEMMA TitleInv ==
  ASSUME ShellInv(sh), NEW n, NEW title, M!setTitle(n, title)
  PROVE  ShellInv(sh')
<1> DEFINE p == sh.tProcesses[n]  z == PutTitle(sh.proc[p], title)  t == PutProc(sh, PutAt(sh.proc, p, z))
<1>1. n \in 1 .. Len(sh.tProcesses) /\ sh' = M!redrawMenu(t)
  BY DEF M!setTitle, M!Do, M!Count, PutProc, PutAt, PutTitle
<1>2. Control(sh) /\ Shape(sh) /\ p \in Pid
  BY <1>1 DEF ShellInv, Control, Shape
<1> HIDE DEF p
<1>3. IsProc(sh.proc[p])
  BY <1>2 DEF Shape, Procs
<1>4. IsProc(z) /\ z.window = sh.proc[p].window /\ z.co = sh.proc[p].co /\ z.terminal = sh.proc[p].terminal
  BY <1>3, ProcPuts
<1> HIDE DEF z
<1>5. /\ Shape(t) /\ SameList(t, sh) /\ SameRuns(t, sh) /\ SameScreen(t, sh) /\ SameWindows(t, sh)
      /\ t.proc[p] = z /\ \A q \in Pid : q # p => t.proc[q] = sh.proc[q]
  BY <1>2, <1>4, ProcKept
<1> HIDE DEF t
<1>6. SameOwners(t.proc, sh.proc) /\ t.nCurrentProcess = sh.nCurrentProcess
  BY <1>4, <1>5 DEF SameOwners, SameScreen
<1>7. Control(t)
  BY <1>2, <1>5, <1>6, ControlSame
<1>8. Core(sh) => Core(t)
  BY <1>2, <1>5, CoreSame DEF Shape
<1>9. ~t.slipped => Core(t) /\ Fronted(t)
  BY <1>5, <1>6, <1>8 DEF ShellInv, View, Fronted, SameList, SameRuns
<1> QED
  BY <1>1, <1>7, <1>9, MenuInv

(* multishell.launch.                                                      *)
LEMMA LaunchActionInv ==
  ASSUME ShellInv(sh), M!launch
  PROVE  ShellInv(sh')
<1> DEFINE b == M!Count(sh) + 1 >= 2  p == M!Next1  N == M!NeverLaunched
<1>1. /\ sh.stack # <<>> /\ N # {}
      /\ sh' = M!launchProcess(M!setMenuVisible(sh, b), p, [go |-> "launch", previousTerm |-> sh.current])
  BY DEF M!launch, M!Do, M!Runs
<1>2. N \subseteq Pid /\ \A q \in N : sh.proc[q].co = "never"
  BY DEF M!NeverLaunched
<1>3. N \subseteq Nat
  BY <1>2, ShellAssumption
<1>4. \E q \in N : \A o \in N : q <= o
  <2> HIDE DEF N
  <2> QED
    BY <1>1, <1>3, LeastNumber
<1>5. p \in N
  BY <1>4 DEF M!Next1
<1> HIDE DEF p, N, b
<1> QED
  BY <1>1, <1>2, <1>5, LaunchInv

(* Every step does.                                                        *)
LEMMA ShellSteps ==
  ASSUME ShellInv(sh), M!ShellNext
  PROVE  ShellInv(sh')
<1>1. ASSUME NEW e \in {"char", "terminate"}, M!KeyEvent(e) PROVE ShellInv(sh')
  BY <1>1, KeyInv
<1>2. CASE M!OtherEvent("timer")
  BY <1>2, OtherInv
<1>3. CASE M!ResizeEvent
  BY <1>3, ResizeInv
<1>4. ASSUME NEW n, M!Click(n) PROVE ShellInv(sh')
  BY <1>4, ClickInv
<1>5. CASE M!Turn
  BY <1>5, TurnInv
<1>6. CASE M!Enter
  BY <1>6, EnterInv
<1>7. CASE M!ProgramPrints
  BY <1>7, PrintsInv
<1>8. ASSUME NEW f, M!Yield(f) PROVE ShellInv(sh')
  BY <1>8, YieldInv
<1>9. CASE M!End
  BY <1>9, EndInv
<1>10. CASE M!launch
  BY <1>10, LaunchActionInv
<1>11. ASSUME NEW n, M!setFocus(n) PROVE ShellInv(sh')
  BY <1>11, FocusInv
<1>12. ASSUME NEW n, NEW t, M!setTitle(n, t) PROVE ShellInv(sh')
  BY <1>12, TitleInv
<1> QED
  BY <1>1, <1>2, <1>3, <1>4, <1>5, <1>6, <1>7, <1>8, <1>9, <1>10, <1>11, <1>12 DEF M!ShellNext

(* What holds is what the property says: the process that runs is the one  *)
(* on whose window the terminal is set.                                    *)
LEMMA RunnerIs ==
  ASSUME ShellInv(sh)
  PROVE  M!RunnerKnown
<1>1. SUFFICES ASSUME sh.stack # <<>> PROVE sh.current = M!me /\ sh.tProcesses[sh.nRunningProcess] = M!me
  BY DEF M!RunnerKnown, M!Runs
<1>2. M!me = Top(sh).pid /\ sh.current = M!me /\ Control(sh)
  BY <1>1, MeIs
<1>3. TopRuns(sh)
  BY <1>1, <1>2 DEF Control, Calls
<1> QED
  BY <1>2, <1>3 DEF TopRuns

(* While nobody launches, one program at most is inside of another's call. *)
LEMMA AloneWithoutLaunch ==
  ASSUME ShellInv(sh), M!NoLaunch
  PROVE  Len(sh.stack) <= 1
<1>1. Control(sh)
  BY DEF ShellInv
<1>2. CASE sh.stack = <<>>
  BY <1>2
<1>3. CASE sh.stack # <<>>
  <2>1. Chain(sh) /\ sh.stack \in Seq(Frame)
    BY <1>1, <1>3 DEF Control, Calls
  <2>2. Len(sh.stack) \in Nat /\ DOMAIN sh.stack = 1 .. Len(sh.stack)
    BY <2>1
  <2>3. SUFFICES ASSUME Len(sh.stack) > 1 PROVE FALSE
    BY <2>2
  <2>4. 2 \in 2 .. Len(sh.stack) /\ 2 \in DOMAIN sh.stack
    BY <2>2, <2>3
  <2>5. sh.stack[2].after.go = "launch"
    BY <2>1, <2>4 DEF Chain, Link
  <2> QED
    BY <2>4, <2>5 DEF M!NoLaunch
<1> QED
  BY <1>2, <1>3

(* The front window is seen, in its place, under its menu.                 *)
LEMMA FrontIs ==
  ASSUME ShellInv(sh), ~sh.slipped
  PROVE  M!FrontShown
<1>1. View(sh) /\ Control(sh)
  BY DEF ShellInv
<1>2. Base(sh) /\ Placed(sh) /\ Only(sh)
  BY <1>1 DEF View, Core
<1>3. sh.tProcesses \in Seq(Pid)
  BY <1>1 DEF Control, Shape
<1> DEFINE c == sh.nCurrentProcess  k == Len(sh.tProcesses)  p == sh.tProcesses[c]  w == sh.proc[p].window
<1> SUFFICES ASSUME c \in 1 .. k
             PROVE  /\ \A q \in Pid : sh.proc[q].window.visible <=> q = p
                    /\ M!LinesShown(w, sh.par) /\ M!CursorShown(w, sh.par)
                    /\ (sh.bShowMenu /\ M!NoLaunch) => sh.par.cells[1] = M!MenuLine(sh)
                    /\ sh.bShowMenu <=> w.y = 2
  BY DEF M!FrontShown, M!InRange, M!Count, M!tProcess
<1>4. p \in Pid /\ c # 0
  <2>1. k \in Nat
    BY <1>3
  <2> HIDE DEF k
  <2>2. c # 0
    BY <2>1
  <2> QED
    BY <1>3, <2>2 DEF k
<1>5. \A q \in Pid : sh.proc[q].window.visible <=> q = p
  BY <1>2, <1>4 DEF Only
<1>6. Stands(On(w, sh.par), Height)
  BY <1>2, <1>4 DEF Base
<1>7. On(w, sh.par).win = w /\ On(w, sh.par).par = sh.par
  BY DEF On
<1>8. AllLinesIn(w, sh.par) /\ U!CursorShown(w, sh.par)
  <2>1. w.visible
    BY <1>4, <1>5
  <2> HIDE DEF w
  <2> QED
    BY <1>6, <1>7, <2>1, StandsIs
<1>9. M!LinesShown(w, sh.par) /\ M!CursorShown(w, sh.par)
  BY ONLY <1>8, LinesShownIs, SameShown
<1>10. (sh.bShowMenu /\ M!NoLaunch) => sh.par.cells[1] = M!MenuLine(sh)
  BY <1>1, AloneWithoutLaunch DEF View, MenuUp
<1>11. sh.bShowMenu <=> w.y = 2
  <2>1. w.y = RoomY(sh.bShowMenu)
    BY <1>2 DEF Placed, PlacedIn
  <2> HIDE DEF w
  <2> QED
    BY <2>1 DEF RoomY
<1> QED
  BY <1>5, <1>9, <1>10, <1>11

(* All of it.                                                              *)
LEMMA InOrder ==
  ASSUME ShellInv(sh)
  PROVE  M!ShellInOrder
<1>1. ASSUME ~sh.slipped, sh.loop.at = "wait", M!Count(sh) > 0 PROVE M!InRange(sh)
  <2>1. Fronted(sh) /\ FrontOK(sh)
    BY <1>1 DEF ShellInv, View, Core
  <2>2. sh.tProcesses # <<>>
    BY <1>1 DEF M!Count
  <2> QED
    BY <1>1, <2>1, <2>2 DEF Fronted, FrontOK, M!InRange, M!Count
<1> QED
  BY <1>1, RunnerIs, FrontIs DEF M!ShellInOrder

ShellHolds == sh # Off => ShellInv(sh)

(* Whatever is drawn by whichever script is in use: a window holds what    *)
(* was written on it, and of multishell's windows exactly the one that     *)
(* gets the keys is seen, whole and with its cursor, under a menu that     *)
(* names every process, and a program that runs draws on its own           *)
(* (window.lua, multishell.lua), for every number of processes, every size *)
(* of the screen and every order of events, launches and endings.          *)
THEOREM WindowsAreShown == DesktopSpec => []WindowsShown
<1>1. DesktopInit => ShellHolds
  BY ShellStarts DEF DesktopInit, ShellHolds
<1>2. ShellHolds /\ [DesktopNext]_<<vars, scripts>> => ShellHolds'
  <2> SUFFICES ASSUME ShellHolds, [DesktopNext]_<<vars, scripts>> PROVE ShellHolds'
    OBVIOUS
  <2>1. CASE sh # Off /\ M!ShellNext
    <3>1. ShellInv(sh)
      BY <2>1 DEF ShellHolds
    <3>2. ShellInv(sh')
      BY <2>1, <3>1, ShellSteps
    <3> QED
      BY <3>2 DEF ShellHolds
  <2>2. CASE sh' = sh
    BY <2>2 DEF ShellHolds
  <2>3. (sh # Off /\ M!ShellNext) \/ sh' = sh
    BY DEF DesktopNext, scripts
  <2> QED
    BY <2>1, <2>2, <2>3
<1>3. ShellHolds => (sh # Off => M!ShellInOrder)
  BY InOrder DEF ShellHolds
<1>4. DesktopSpec => [](sh # Off => M!ShellInOrder)
  BY <1>1, <1>2, <1>3, PTL DEF DesktopSpec
<1>5. (use # Off => U!WindowHolds) /\ (sh # Off => M!ShellInOrder) => WindowsShown
  BY DEF WindowsShown
<1> QED
  BY <1>4, <1>5, WindowIsHeld, PTL
=============================================================================

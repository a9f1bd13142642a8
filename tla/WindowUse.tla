---------------------------- MODULE WindowUse ----------------------------
(***************************************************************************)
(* A program with one window: every function of it in any order.  Beside   *)
(* the window stands what it should hold, cell by cell, and the screen as  *)
(* it was when the window was hidden.                                      *)
(***************************************************************************)
EXTENDS Window

CONSTANTS
  Screen,     \* <<width, height>> of the parent
  Places,     \* where a window may lie: <<x, y, width, height>>
  Texts,      \* what the program writes
  Colours,
  MaxCalls    \* bound: calls a program makes

VARIABLE use  \* [d: window and parent, want: cells, hidden: the parent when it was hidden, calls]

Grid(w) == (1 .. w.height) \X (1 .. w.width)
Cells(w) == [at \in Grid(w) |-> w.lines[at[1]][at[2]]]

Start(d) == [d |-> d, want |-> [at \in Grid(d.win) |-> <<Space, White, Black>>], hidden |-> d.par, calls |-> 0]

UseInit == \E pl \in Places, visible \in BOOLEAN :
             use = Start(create(NewTerm(Screen[1], Screen[2]), pl[1], pl[2], pl[3], pl[4], visible))

\* the program has called a function, which should leave want
Called(d, want) ==
  /\ use.calls < MaxCalls
  /\ use' = [d |-> d, want |-> want, calls |-> use.calls + 1,
             hidden |-> IF use.d.win.visible /\ ~d.win.visible THEN use.d.par ELSE use.hidden]

win == use.d.win
Nothing(fg) == <<Space, fg, win.back>>
WithText(line) == [at \in DOMAIN use.want |->
  IF at[1] = win.cy /\ at[2] - win.cx + 1 \in DOMAIN line THEN line[at[2] - win.cx + 1] ELSE use.want[at]]

Use ==
  \/ \E text \in Texts : Called(write(use.d, text), WithText(Coloured(text, win.text, win.back)))
  \/ \E text \in Texts, c \in Colours : Called(blit(use.d, Coloured(text, c, White)), WithText(Coloured(text, c, White)))
  \/ Called(clear(use.d), [at \in DOMAIN use.want |-> Nothing(win.text)])
  \/ Called(clearLine(use.d), [at \in DOMAIN use.want |-> IF at[1] = win.cy THEN Nothing(win.text) ELSE use.want[at]])
  \/ \E x \in -1 .. win.width + 1, y \in 0 .. win.height + 1 : Called(setCursorPos(use.d, x, y), use.want)
  \/ \E b \in BOOLEAN : Called(setCursorBlink(use.d, b), use.want)
  \/ \E c \in Colours : Called(setTextColor(use.d, c), use.want) \/ Called(setBackgroundColor(use.d, c), use.want)
  \/ \E n \in {-1, 0, 1} :
       Called(scroll(use.d, n), [at \in DOMAIN use.want |->
         IF <<at[1] + n, at[2]>> \in DOMAIN use.want THEN use.want[<<at[1] + n, at[2]>>] ELSE Nothing(win.text)])
  \/ \E b \in BOOLEAN : Called(setVisible(use.d, b), use.want)
  \/ Called(redraw(use.d), use.want) \/ Called(restoreCursor(use.d), use.want)
  \/ \E pl \in Places :
       LET new == reposition(use.d, pl[1], pl[2], pl[3], pl[4])
       IN Called(new, [at \in Grid(new.win) |-> IF at \in DOMAIN use.want THEN use.want[at] ELSE Nothing(win.text)])

\* Whatever a program calls, its window holds what was written on it, clipped
\* at its border; the parent shows it while it is visible, with its cursor,
\* and is left alone while it is not.
WindowHolds ==
  /\ \A n \in DOMAIN win.lines : Len(win.lines[n]) = win.width
  /\ Cells(win) = use.want
  /\ win.visible => LinesShown(win, use.d.par) /\ CursorShown(win, use.d.par)
  /\ ~win.visible => use.d.par = use.hidden
=============================================================================

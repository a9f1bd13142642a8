---------------------------- MODULE LineEditor ----------------------------
(***************************************************************************)
(* read of bios.lua, the editor of one line: keys change the line, and     *)
(* what is on the screen follows by wiping what was drawn, by drawing it   *)
(* again as spaces, and drawing the new line.                              *)
(*                                                                         *)
(* ed holds the variables of read under their names, the terminal it       *)
(* writes on, and from, the row the line is on.  _fnComplete is the        *)
(* caller's: every time it is asked it gives any of Completions, and <<>>  *)
(* stands for nil as well.  remembers says whether there is a _tHistory,  *)
(* and 0 stands for nil as a number.  The width of the terminal does not   *)
(* change: multishell changes heights only.                                *)
(***************************************************************************)
EXTENDS Window

CONSTANTS
  Lines,          \* terminals on which a line is read: <<width, height, sx, cy>>
  Letters,        \* what is typed
  Pasted,         \* what is pasted
  Completions,    \* what _fnComplete may give, sequences of texts
  Histories,      \* what _tHistory may be, sequences of texts
  Defaults,       \* _sDefault
  ReplaceChars,   \* _sReplaceChar
  Plain,          \* no _sReplaceChar
  Gray,           \* the background of suggestions
  MaxLine         \* bound: length of the line

VARIABLE ed

nil == 0
rep(c, n) == [i \in 1 .. n |-> c]

suggestion(e) == IF e.nCompletion = nil THEN <<>> ELSE e.tCompletions[e.nCompletion]
nScroll(e) == IF e.sx + e.nPos >= e.w THEN e.sx + e.nPos - e.w ELSE 0

\* redraw(_bClear): the line from nScroll on, or a replacement of each of its
\* characters, then the suggestion in its own colours, then the cursor
redrawLineOf(e, _bClear) ==
  LET rest == sub(e.sLine, nScroll(e) + 1, Len(e.sLine))
      Seen(text) == IF _bClear THEN rep(Space, Len(text))
                    ELSE IF e.replace # Plain THEN rep(e.replace, Len(text)) ELSE text
      line == term_write(term_setCursorPos(e.term, e.sx, e.term.y), Seen(rest))
      coloured == IF _bClear THEN line ELSE [line EXCEPT !.text = White, !.back = Gray]
      all == [term_write(coloured, Seen(suggestion(e))) EXCEPT !.text = e.term.text, !.back = e.term.back]
      drawn == IF e.nCompletion = nil THEN line ELSE all
  IN [e EXCEPT !.term = term_setCursorPos(drawn, e.sx + e.nPos - nScroll(e), e.term.y)]

Redraw(e) == redrawLineOf(e, FALSE)
Clear(e) == redrawLineOf(e, TRUE)

uncomplete(e) == [e EXCEPT !.tCompletions = <<>>, !.nCompletion = nil]

\* the states in which recomplete may leave e
recomplete(e) ==
  IF ~e.fnComplete \/ e.nPos # Len(e.sLine) THEN {uncomplete(e)}
  ELSE {[e EXCEPT !.tCompletions = t, !.nCompletion = IF t = <<>> THEN nil ELSE 1] : t \in Completions}

Edited(e, line, pos) == [e EXCEPT !.sLine = line, !.nPos = pos]

\* clear(), a change, recomplete(), redraw()
Change(line, pos) == \E e \in recomplete(Edited(Clear(ed), line, pos)) : ed' = Redraw(e)
-----------------------------------------------------------------------------
(* Events.                                                                 *)

before == sub(ed.sLine, 1, ed.nPos)
after == sub(ed.sLine, ed.nPos + 1, Len(ed.sLine))

insert(text) == Len(ed.sLine) + Len(text) <= MaxLine /\ Change(before \o text \o after, ed.nPos + Len(text))

char == \E c \in Letters : insert(<<c>>)
paste == \E text \in Pasted : insert(text)

left == ed.nPos > 0 /\ Change(ed.sLine, ed.nPos - 1)
home == ed.nPos > 0 /\ Change(ed.sLine, 0)
end == ed.nPos < Len(ed.sLine) /\ Change(ed.sLine, Len(ed.sLine))
backspace == ed.nPos > 0 /\ Change(sub(ed.sLine, 1, ed.nPos - 1) \o after, ed.nPos - 1)
delete == ed.nPos < Len(ed.sLine) /\ Change(before \o sub(ed.sLine, ed.nPos + 2, Len(ed.sLine)), ed.nPos)

acceptCompletion ==
  LET line == ed.sLine \o suggestion(ed)
  IN ed.nCompletion # nil /\ Len(line) <= MaxLine /\ Change(line, Len(line))

right == IF ed.nPos < Len(ed.sLine) THEN Change(ed.sLine, ed.nPos + 1) ELSE acceptCompletion
tab == acceptCompletion

\* up and down, through suggestions if there are any, else through the history
Cycled(n, count, key) ==
  IF key = "up" THEN (IF n - 1 < 1 THEN count ELSE n - 1)
  ELSE IF n + 1 > count THEN 1 ELSE n + 1

HistoryPos(n, count, key) ==
  IF key = "up" THEN (IF n = nil THEN count ELSE IF n > 1 THEN n - 1 ELSE n)
  ELSE IF n = count \/ n = nil THEN nil ELSE n + 1

upDown(key) ==
  LET wiped == Clear(ed)
      n == HistoryPos(ed.nHistoryPos, Len(ed.tHistory), key)
      line == IF n = nil THEN <<>> ELSE ed.tHistory[n]
  IN ed' = IF ed.nCompletion # nil
           THEN Redraw([wiped EXCEPT !.nCompletion = Cycled(@, Len(ed.tCompletions), key)])
           ELSE IF ~ed.remembers THEN ed
           ELSE Redraw(uncomplete(Edited([wiped EXCEPT !.nHistoryPos = n], line, Len(line))))

term_resize == ed' = Redraw(ed)

\* print() with no argument
NewLine(p) ==
  IF p.y + 1 <= Len(p.cells) THEN term_setCursorPos(p, 1, p.y + 1)
  ELSE term_scroll(term_setCursorPos(p, 1, Len(p.cells)), 1)

\* what read does after its loop
Leave(e) == [e EXCEPT !.term = NewLine([@ EXCEPT !.blink = FALSE, !.x = e.w + 1]),
                      !.from = IF @ = Len(e.term.cells) THEN @ - 1 ELSE @, !.reading = FALSE]

EnterKeepsSuggestion == ed' = Leave(uncomplete(ed))      \* it is forgotten but not wiped

enter == ed' = Leave(IF ed.nCompletion = nil THEN ed ELSE Redraw(uncomplete(Clear(ed))))
-----------------------------------------------------------------------------
EditInit ==
  \E at \in Lines, hist \in Histories, default \in Defaults, replace \in ReplaceChars,
     complete, remembers \in BOOLEAN :
    /\ ~remembers => hist = <<>>
    /\ \E e \in recomplete([sLine |-> default, nPos |-> Len(default), nHistoryPos |-> nil, replace |-> replace,
                         tHistory |-> hist, remembers |-> remembers, fnComplete |-> complete,
                         tCompletions |-> <<>>, nCompletion |-> nil,
                         w |-> at[1], sx |-> at[3], from |-> at[4], reading |-> TRUE,
                         term |-> [NewTerm(at[1], at[2]) EXCEPT !.x = at[3], !.y = at[4], !.blink = TRUE]]) :
      ed = Redraw(e)

EditNext ==
  /\ ed.reading
  /\ \/ char \/ paste \/ left \/ right \/ home \/ end \/ backspace \/ delete \/ tab
     \/ \E key \in {"up", "down"} : upDown(key)
     \/ term_resize \/ enter
-----------------------------------------------------------------------------
Looks(c) == IF ed.replace = Plain THEN c ELSE ed.replace

\* what column c of the row should show: a character of the line, one of the
\* suggestion, or nothing
Wanted(c) ==
  LET i == c - ed.sx + 1 + nScroll(ed)
      k == i - Len(ed.sLine)
  IN IF c < ed.sx THEN <<Space, White, Black>>
     ELSE IF i \in DOMAIN ed.sLine THEN <<Looks(ed.sLine[i]), White, Black>>
     ELSE IF k \in DOMAIN suggestion(ed) THEN <<Looks(suggestion(ed)[k]), White, Gray>>
     ELSE <<Space, White, Black>>

\* Whatever keys are pressed, the row shows the line, scrolled so that the
\* cursor is on it, and the suggestion behind it, and nothing of what was there
\* before; the cursor stands at nPos; when the line is read, it is left on the
\* screen without a suggestion, and the rest of the screen is untouched.
LineShown ==
  /\ ed.nPos \in 0 .. Len(ed.sLine)
  /\ \A y \in DOMAIN ed.term.cells, c \in 1 .. ed.w :
       ed.term.cells[y][c] = IF y = ed.from THEN Wanted(c) ELSE <<Space, White, Black>>
  /\ IF ed.reading
     THEN ed.term.y = ed.from /\ ed.term.x = ed.sx + ed.nPos - nScroll(ed) /\ ed.term.x \in 1 .. ed.w
     ELSE ed.term.x = 1 /\ ed.nCompletion = nil
=============================================================================

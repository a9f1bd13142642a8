---------------------------- MODULE Multishell ----------------------------
(***************************************************************************)
(* rom/programs/advanced/multishell.lua: processes, each with a window,    *)
(* one of them in front, and a menu of their titles.                       *)
(*                                                                         *)
(* sh is the state of multishell: tProcesses as a sequence of process ids, *)
(* its other variables under their names, the parent terminal par, what    *)
(* term.current() is, and stack, the calls of coroutine.resume that have   *)
(* not returned, innermost last, with what their callers will do next.     *)
(* Programs are the most general ones.  A menu row is drawn in one piece:  *)
(* its cells are what the menu was drawn for.  How many characters a title *)
(* has is left out, so a click says which process it is on.                *)
(***************************************************************************)
EXTENDS Window, FiniteSets

CONSTANTS
  Pid,          \* processes, in the order in which they are launched
  Width, Height,\* size of the parent terminal
  Char,         \* what programs print
  MaxTitle,     \* bound: titles are 1 .. MaxTitle
  Nobody        \* the parent terminal as a redirect target, and nil

VARIABLE sh

None == 0
ProgramFilters == {"none", "char", "timer"}

tProcess(s, n) == s.proc[s.tProcesses[n]]
Count(s) == Len(s.tProcesses)
-----------------------------------------------------------------------------
(* Windows of processes.  On(s, p, ...) is s after a function of p's       *)
(* window has been called.                                                 *)

Canvas(s, p) == [win |-> s.proc[p].window, par |-> s.par]
Drawn(s, p, d) == [s EXCEPT !.proc[p].window = d.win, !.par = d.par]

\* print of bios.lua, for a text of one character: the word, after a new line
\* if there is no room for it, and a new line
NewLine(d) ==
  IF d.win.cy + 1 <= d.win.height THEN setCursorPos(d, 1, d.win.cy + 1)
  ELSE scroll(setCursorPos(d, 1, d.win.height), 1)
print(d) == NewLine(write(IF d.win.cx > d.win.width THEN NewLine(d) ELSE d, <<Char>>))

\* term.* go to the redirect target
PrintText(s) == IF s.current = Nobody THEN s ELSE Drawn(s, s.current, print(Canvas(s, s.current)))
-----------------------------------------------------------------------------
selectProcess(s, n) ==
  LET old == IF s.nCurrentProcess = None THEN s
             ELSE LET p == s.tProcesses[s.nCurrentProcess] IN Drawn(s, p, setVisible(Canvas(s, p), FALSE))
      new == [old EXCEPT !.nCurrentProcess = n]
      q == s.tProcesses[n]
  IN IF s.nCurrentProcess = n THEN s
     ELSE IF n = None THEN new
     ELSE [Drawn(new, q, setVisible(Canvas(new, q), TRUE)) EXCEPT !.proc[q].bInteracted = TRUE]

\* The menu: a row of cells that tell which titles it shows and which of them
\* is the one in front
MenuLine(s) ==
  [c \in 1 .. Width |-> <<[n \in 1 .. Count(s) |-> tProcess(s, n).sTitle], s.nCurrentProcess, "menu">>]

redrawMenu(s) ==
  LET row == term_blit(term_setCursorPos(s.par, 1, 1), MenuLine(s))
      drawn == [s EXCEPT !.par = [row EXCEPT !.text = "menu", !.back = "menu"]]
      p == s.tProcesses[s.nCurrentProcess]
  IN IF ~s.bShowMenu THEN s
     ELSE IF s.nCurrentProcess \in 1 .. Count(s) THEN Drawn(drawn, p, restoreCursor(Canvas(drawn, p)))
     ELSE drawn

\* one window in the room that the menu leaves
windowY(s) == IF s.bShowMenu THEN 2 ELSE 1
windowHeight(s) == IF s.bShowMenu THEN Height - 1 ELSE Height
resizeWindow(s, p) ==
  LET d == Canvas(s, p)
      over == d.win.cy - windowHeight(s)
      fit == IF over > 0 THEN setCursorPos(scroll(d, over), d.win.cx, windowHeight(s)) ELSE d
  IN Drawn(s, p, reposition(fit, 1, windowY(s), Width, windowHeight(s)))
resizeWindows(s) ==
  LET resized[n \in 0 .. Count(s)] == IF n = 0 THEN s ELSE resizeWindow(resized[n - 1], s.tProcesses[n])
  IN [resized[Count(s)] EXCEPT !.bWindowsResized = TRUE]

setMenuVisible(s, b) ==
  IF s.bShowMenu = b THEN s ELSE redrawMenu(resizeWindows([s EXCEPT !.bShowMenu = b]))
-----------------------------------------------------------------------------
(* resumeProcess: what it does before coroutine.resume, and after it.      *)

\* what the caller of resumeProcess does when it returns
Then(go) == [go |-> go]

Hears(s, n, e) == tProcess(s, n).sFilter \in {"none", e} \/ e = "terminate"

Resume(s, n, e, after) ==
  [s EXCEPT !.nRunningProcess = n, !.current = tProcess(s, n).terminal,
            !.stack = Append(@, [pid |-> s.tProcesses[n], event |-> e, previous |-> s.nRunningProcess,
                                      after |-> after])]

LeaveRunning(s, filter) ==           \* nRunningProcess is not put back
  LET f == Last(s.stack)
  IN [s EXCEPT !.proc[f.pid].terminal = s.current, !.proc[f.pid].sFilter = filter, !.stack = Front(@)]

Resumed(s, filter) ==
  LET f == Last(s.stack)
  IN [s EXCEPT !.proc[f.pid].terminal = s.current, !.proc[f.pid].sFilter = filter,
               !.nRunningProcess = f.previous, !.stack = Front(@)]

\* the coroutine failed: its message is printed and its filter kept
Failed(s) == LET f == Last(s.stack)
             IN Resumed(PrintText([s EXCEPT !.proc[f.pid].terminal = s.current]), s.proc[f.pid].sFilter)
-----------------------------------------------------------------------------
(* Culling.  slipped: a process before the one in front has left           *)
(* tProcesses, and nCurrentProcess is not the number it was.               *)

cullProcess(s, n) ==
  LET gone == IF s.nCurrentProcess = n THEN selectProcess(s, None) ELSE s
      left == [gone EXCEPT !.tProcesses = RemoveAt(@, n), !.slipped = @ \/ (gone.nCurrentProcess > n)]
  IN IF tProcess(s, n).co # "dead" THEN s
     ELSE IF left.nCurrentProcess # None THEN left
     ELSE IF n > 1 THEN selectProcess(left, n - 1)
     ELSE IF Count(left) > 0 THEN selectProcess(left, 1)
     ELSE left
Culled(s, t) == Count(t) < Count(s)

\* the last dead process goes, and no other: `or' stops at the first
cullProcesses(s) ==
  LET dead == {n \in 1 .. Count(s) : tProcess(s, n).co = "dead"}
  IN IF dead = {} THEN s ELSE cullProcess(s, CHOOSE n \in dead : \A m \in dead : m <= n)

AfterCull(s, t) == IF Culled(s, t) THEN redrawMenu(setMenuVisible(t, Count(t) >= 2)) ELSE t
-----------------------------------------------------------------------------
(* The loop over events.  loop is where multishell is: "wait", in the      *)
(* round in which every process gets an event, or in the one that passes   *)
(* term_resize on.                                                         *)

\* An index out of range is an error; in multishell itself it ends it
InRange(s) == s.nCurrentProcess \in 1 .. Count(s)
Stopped(s) == [s EXCEPT !.loop = [at |-> "error"]]

StartResizeRound(s) ==
  IF s.bWindowsResized THEN [s EXCEPT !.loop = [at |-> "resize", n |-> 1, limit |-> Count(s), event |-> "term_resize"]]
  ELSE [s EXCEPT !.loop = [at |-> "wait"]]

\* an event for the process in front
Passthrough(s, e) ==
  IF ~InRange(s) THEN Stopped(s)
  ELSE IF ~Hears(s, s.nCurrentProcess, e) THEN StartResizeRound(AfterCull(s, cullProcess(s, s.nCurrentProcess)))
  ELSE Resume(s, s.nCurrentProcess, e, Then("front"))

Waiting == sh.stack = <<>> /\ sh.loop.at = "wait" /\ Count(sh) > 0

KeyEvent(e) == Waiting /\ sh' = Passthrough(sh, e)

ResizeEvent == Waiting /\ sh' = StartResizeRound(redrawMenu(resizeWindows(sh)))

Click(n) == /\ Waiting /\ sh.bShowMenu /\ n \in 1 .. Count(sh)
            /\ sh' = IF InRange(sh) THEN StartResizeRound(redrawMenu(selectProcess(sh, n)))
                     ELSE Stopped(sh)

OtherEvent(e) ==
  Waiting /\ sh' = [sh EXCEPT !.loop = [at |-> "all", n |-> 1, limit |-> Count(sh), event |-> e]]

\* one turn of a round
Turn ==
  LET l == sh.loop
      next == [sh EXCEPT !.loop.n = @ + 1]
      ended == AfterCull(sh, cullProcesses(sh))
      told == [sh EXCEPT !.bWindowsResized = FALSE]
  IN /\ sh.stack = <<>> /\ l.at \in {"all", "resize"}
     /\ sh' = IF l.n <= l.limit
              THEN IF Hears(sh, l.n, l.event) THEN Resume(next, l.n, l.event, Then("round")) ELSE next
              ELSE IF l.at = "all" THEN StartResizeRound(ended)
              ELSE [AfterCull(told, cullProcesses(told)) EXCEPT !.loop = [at |-> "wait"]]
-----------------------------------------------------------------------------
(* Programs.                                                               *)

me == Last(sh.stack).pid
Runs == sh.stack # <<>> /\ sh.proc[me].co = "running"

\* After coroutine.resume has returned in state s: the caller goes on, which
\* is a round, the loop, or multishell.launch in another process
Back(s, after) ==
  CASE after.go = "round" -> s
    [] after.go = "front" -> StartResizeRound(AfterCull(s, cullProcess(s, s.nCurrentProcess)))
    [] after.go = "begin" -> [redrawMenu(selectProcess(s, 1)) EXCEPT !.loop = [at |-> "wait"]]
    [] after.go = "launch" -> [redrawMenu(s) EXCEPT !.current = after.previousTerm]

\* Entering a coroutine: one that is dead cannot be resumed; one that waits
\* for a key after its program has ended ends, with an error if terminated
Enter ==
  /\ sh.stack # <<>> /\ sh.proc[me].co # "running"
  /\ LET after == Last(sh.stack).after
     IN sh' = CASE sh.proc[me].co = "dead" -> Back(Failed(sh), after)
                [] sh.proc[me].co = "press" ->
                     LET over == [sh EXCEPT !.proc[me].co = "dead"]
                     IN Back(IF Last(sh.stack).event = "terminate" THEN Failed(over) ELSE Resumed(over, "none"), after)
                [] OTHER -> [sh EXCEPT !.proc[me].co = "running"]

Do(s) == Runs /\ sh' = s

ProgramPrints == Do(PrintText(sh))

Yield(filter) ==
  Do(Back(Resumed([sh EXCEPT !.proc[me].co = "suspended"], filter), Last(sh.stack).after))

\* The program is over: if nobody has looked at it, its window waits for a key
End ==
  LET waits == PrintText([Drawn(sh, me, setCursorBlink(Canvas(sh, me), FALSE)) EXCEPT !.proc[me].co = "press"])
  IN Do(IF sh.proc[me].bInteracted
        THEN Back(Resumed([sh EXCEPT !.proc[me].co = "dead"], "none"), Last(sh.stack).after)
        ELSE Back(Resumed(waits, "char"), Last(sh.stack).after))

setFocus(n) ==
  /\ n \in 1 .. Count(sh)
  /\ sh.nCurrentProcess \in {None, n} \/ InRange(sh)
  /\ Do(redrawMenu(selectProcess(sh, n)))
setTitle(n, t) == n \in 1 .. Count(sh) /\ Do(redrawMenu([sh EXCEPT !.proc[sh.tProcesses[n]].sTitle = t]))

launchProcess(s, p, after) ==
  LET d == create(s.par, 1, windowY(s), Width, windowHeight(s), FALSE)
      new == [s EXCEPT !.proc[p] = [window |-> d.win, co |-> "suspended", sFilter |-> "none", terminal |-> p,
                                    bInteracted |-> FALSE, sTitle |-> 1],
                       !.par = d.par, !.tProcesses = Append(@, p)]
  IN Resume(new, Count(new), "none", after)

NeverLaunched == {p \in Pid : sh.proc[p].co = "never"}
Next1 == CHOOSE p \in NeverLaunched : \A q \in NeverLaunched : p <= q

launch ==
  /\ NeverLaunched # {}
  /\ Do(launchProcess(setMenuVisible(sh, Count(sh) + 1 >= 2), Next1, [go |-> "launch", previousTerm |-> sh.current]))
-----------------------------------------------------------------------------
NoProcess == [window |-> create(NewTerm(Width, Height), 1, 1, Width, Height, FALSE).win, co |-> "never", sFilter |-> "none",
              terminal |-> Nobody, bInteracted |-> FALSE, sTitle |-> 1]
Begin == [tProcesses |-> <<>>, proc |-> [p \in Pid |-> NoProcess], nCurrentProcess |-> None, nRunningProcess |-> None,
          bShowMenu |-> FALSE, bWindowsResized |-> FALSE, par |-> term_clear(NewTerm(Width, Height)), current |-> Nobody,
          stack |-> <<>>, loop |-> [at |-> "begin"], slipped |-> FALSE]
ShellInit == sh = launchProcess(Begin, 1, Then("begin"))

ShellNext ==
  \/ \E e \in {"char", "terminate"} : KeyEvent(e)
  \/ OtherEvent("timer") \/ ResizeEvent \/ \E n \in 1 .. Cardinality(Pid) : Click(n)
  \/ Turn \/ Enter \/ ProgramPrints \/ \E f \in ProgramFilters : Yield(f)
  \/ End \/ launch
  \/ \E n \in 1 .. Cardinality(Pid) : setFocus(n) \/ \E t \in 1 .. MaxTitle : setTitle(n, t)

Ended == sh.stack = <<>> /\ (sh.loop.at = "error" \/ Count(sh) = 0)
-----------------------------------------------------------------------------
\* Nobody launches: every menu is up to date
NoLaunch == \A i \in DOMAIN sh.stack : sh.stack[i].after.go # "launch"

\* A program that runs writes on its own window and is told its own number,
\* whatever was launched, resumed or ended meanwhile.
RunnerKnown == Runs => sh.current = me /\ sh.tProcesses[sh.nRunningProcess] = me

\* One window is in front, the one of the process that gets the keys, and the
\* screen shows it, with its cursor, under a menu of all the processes.
FrontShown ==
  InRange(sh) =>
    LET front == tProcess(sh, sh.nCurrentProcess).window
    IN /\ \A p \in Pid : sh.proc[p].window.visible <=> p = sh.tProcesses[sh.nCurrentProcess]
       /\ LinesShown(front, sh.par)
       /\ CursorShown(front, sh.par)
       /\ sh.bShowMenu /\ NoLaunch => sh.par.cells[1] = MenuLine(sh)
       /\ sh.bShowMenu <=> front.y = 2

ShellInOrder == RunnerKnown /\ (~sh.slipped => FrontShown /\ (sh.loop.at = "wait" /\ Count(sh) > 0 => InRange(sh)))
=============================================================================

------------------------------ MODULE Desktop ------------------------------
(***************************************************************************)
(* What is drawn on the terminal: the terminal itself, used by any         *)
(* program, or what the Lua scripts put on top of it, of which one is in   *)
(* use at a time: a window, multishell with the windows of its processes,  *)
(* or the editor of a line.  The scripts use the terminal by its cells and *)
(* its cursor, and Terminal shows that the screen follows those.           *)
(***************************************************************************)
EXTENDS Terminal

CONSTANTS
  Off,                                      \* not in use
  WindowScreen, Places, WindowTexts, MaxCalls,
  Pid, Width, Height, MaxTitle,
  Lines, Letters, Pasted, Completions, Histories, Defaults, ReplaceChars, MaxLine

\* Lines are read at places on the terminal, and texts are sequences of
\* characters.
ASSUME LinesAssumption ==
  /\ \A at \in Lines : at[1] \in Nat /\ at[2] \in Nat /\ at[3] \in 1 .. at[1] /\ at[4] \in 1 .. at[2]
  /\ Letters \subseteq STRING /\ Pasted \cup Defaults \subseteq Seq(STRING)
  /\ Completions \cup Histories \subseteq Seq(Seq(STRING))

\* Windows lie on rows of their parent, though their columns may stick out.
ASSUME WindowsAssumption ==
  /\ WindowScreen \in Nat \X Nat /\ WindowTexts \subseteq Seq(STRING)
  /\ \A pl \in Places : /\ pl[1] \in Int /\ pl[2] \in Nat \ {0} /\ pl[3] \in Nat /\ pl[4] \in Nat
                        /\ pl[2] + pl[4] - 1 <= WindowScreen[2]

\* Processes have numbers, of which 1 is the first one's.
ASSUME ShellAssumption ==
  Pid \subseteq Nat \ {0} /\ 1 \in Pid /\ Width \in Nat /\ Height \in Nat \ {0}

VARIABLES use, sh, ed

White == "white"
Black == "black"

U == INSTANCE WindowUse WITH Screen <- WindowScreen, Texts <- WindowTexts, Colours <- {White, Black}
M == INSTANCE Multishell WITH Char <- "x", Nobody <- 0
E == INSTANCE LineEditor WITH Plain <- "plain", Gray <- "gray"

scripts == <<use, sh, ed>>

DesktopInit ==
  /\ Init
  /\ \/ use = Off /\ sh = Off /\ ed = Off
     \/ U!UseInit /\ sh = Off /\ ed = Off
     \/ M!ShellInit /\ use = Off /\ ed = Off
     \/ E!EditInit /\ use = Off /\ sh = Off

\* The program has made its calls, multishell has no process left or has
\* stopped, or the line is read.
Over == \/ use # Off /\ use.calls = MaxCalls
        \/ sh # Off /\ M!Ended
        \/ ed # Off /\ ~ed.reading

DesktopNext ==
  \/ scripts = <<Off, Off, Off>> /\ Next /\ UNCHANGED scripts
  \/ use # Off /\ U!Use /\ UNCHANGED <<vars, sh, ed>>
  \/ sh # Off /\ M!ShellNext /\ UNCHANGED <<vars, use, ed>>
  \/ ed # Off /\ E!EditNext /\ UNCHANGED <<vars, use, sh>>
  \/ Over /\ UNCHANGED <<vars, scripts>>

DesktopSpec == DesktopInit /\ [][DesktopNext]_<<vars, scripts>>
-----------------------------------------------------------------------------
(* A window holds what was written on it and draws on its parent only      *)
(* while it is visible; of multishell's windows the one that gets the keys *)
(* is the one that is shown, with its cursor, under a menu that is up to   *)
(* date, and every program writes on its own (window.lua, multishell.lua). *)
WindowsShown == (use # Off => U!WindowHolds) /\ (sh # Off => M!ShellInOrder)

(* The row on which read edits shows the line, the suggestion and nothing  *)
(* of what was there before, after any keys (redraw of bios.lua).          *)
LineShown == ed # Off => E!LineShown
=============================================================================

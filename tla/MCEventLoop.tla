----------------------------- MODULE MCEventLoop -----------------------------
(***************************************************************************)
(* Small instances of EventLoop.  The payloads and the timer ids are kept  *)
(* apart so that an event that got the arguments of another one shows.     *)
(***************************************************************************)
EXTENDS EventLoop, TLC

OnePayload == {301}
OneTimer == {1001}
TwoTimers == {1001, 1002}

(* keys.lua: a = 30, up = 200, pause = 197. *)
A == <<30>>
ReleaseA == <<158>>
Up == <<224, 72>>
ReleaseUp == <<224, 200>>
PauseDown == <<225, 29, 69>>

MCKeyNumber == (A :> 30) @@ (ReleaseA :> 30)
               @@ (Up :> 200) @@ (ReleaseUp :> 200) @@ (PauseDown :> 197)

LetterKeys == {A}
ManyKeys == {A, ReleaseA, Up, ReleaseUp, PauseDown}

AnyFilter == {NoFilter, "timer", "p"}
=============================================================================

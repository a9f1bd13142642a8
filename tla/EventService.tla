---------------------------- MODULE EventService -----------------------------
(***************************************************************************)
(* What the event system promises to a Lua program: one queue of whole     *)
(* events, each a name with its own argument.  A program that waits gets   *)
(* the oldest event its filter accepts; the ones before it that the filter *)
(* refuses are dropped.  As long as the session lasts nothing else is      *)
(* lost, nothing is reordered and no two events are mixed up; and nothing  *)
(* is made up: an event is one that the program queued, or one of a key    *)
(* for which bytes were typed and read, or the one event of a timer that   *)
(* was started, did not end before and was not cancelled.                  *)
(***************************************************************************)
EXTENDS Sequences, Naturals

CONSTANTS ProgramName,  \* names programs give their events
          Payload,      \* arguments programs give their events
          TimerId,      \* ids of timers
          Filter,       \* what a program can wait for
          NoFilter,     \* the filter that accepts every event
          NoEvent       \* the value of last before the first delivery

VARIABLES phase,        \* the machine is off, or its program runs, waits or is over
          stop,         \* has the program asked for the end?
          pending,      \* the events queued, oldest first
          filter,       \* what the program waits for
          last,         \* the event the program was resumed with last
          timers,       \* timers started of which nothing has been queued yet
          unread        \* how much of what was typed has not been taken for a key

vars == <<phase, stop, pending, filter, last, timers, unread>>

Accepts(f, name) == f = NoFilter \/ f = name

Init ==
  /\ phase = "off" /\ ~stop
  /\ pending = <<>> /\ filter = NoFilter /\ last = NoEvent
  /\ timers = {} /\ unread = 0

(* A session begins, with nothing queued. *)
Boot ==
  /\ phase = "off" /\ ~stop
  /\ phase' = "runs"
  /\ UNCHANGED <<stop, pending, filter, last, timers, unread>>

-----------------------------------------------------------------------------
(* The program runs.                                                       *)

Queue(name, arg) ==
  /\ phase = "runs" /\ ~stop
  /\ pending' = Append(pending, [name |-> name, arg |-> arg])
  /\ UNCHANGED <<phase, stop, filter, last, timers, unread>>

StartTimer(id) ==
  /\ phase = "runs" /\ ~stop
  /\ timers' = timers \cup {id}
  /\ UNCHANGED <<phase, stop, pending, filter, last, unread>>

CancelTimer(id) ==
  /\ phase = "runs" /\ ~stop
  /\ timers' = timers \ {id}
  /\ UNCHANGED <<phase, stop, pending, filter, last, unread>>

Wait(f) ==
  /\ phase = "runs"
  /\ stop => f = NoFilter
  /\ phase' = "waits" /\ filter' = f
  /\ UNCHANGED <<stop, pending, last, timers, unread>>

(* The program asks for the end and goes on until its next event. *)
Stop ==
  /\ phase = "runs" /\ ~stop
  /\ stop' = TRUE
  /\ UNCHANGED <<phase, pending, filter, last, timers, unread>>

-----------------------------------------------------------------------------
(* The program waits.                                                      *)

(* The events of one key: key or key_up, and char for a printable one. *)
KeyEvents(events) ==
  /\ Len(events) <= 2
  /\ Len(events) >= 1 => events[1].name \in {"key", "key_up"}
  /\ Len(events) = 2 => events[2].name = "char"

(* One event for each of some running timers, in any order. *)
TimerEvents(events) ==
  /\ \A i \in 1 .. Len(events) : events[i].name = "timer" /\ events[i].arg \in timers
  /\ \A i, j \in 1 .. Len(events) : events[i].arg = events[j].arg => i = j

(* With nothing queued, some of what was typed is read and at most one key *)
(* made of it, and then the timers that have fired are reported.           *)
Hear ==
  /\ phase = "waits" /\ pending = <<>>
  /\ unread' <= unread
  /\ \E n \in 0 .. Len(pending') :
       LET key   == SubSeq(pending', 1, n)
           fired == SubSeq(pending', n + 1, Len(pending'))
       IN  /\ KeyEvents(key) /\ (key # <<>> => unread' < unread)
           /\ TimerEvents(fired)
           /\ timers' = timers \ {fired[i].arg : i \in 1 .. Len(fired)}
  /\ UNCHANGED <<phase, stop, filter, last>>

Drop ==
  /\ phase = "waits" /\ pending # <<>>
  /\ ~Accepts(filter, Head(pending).name)
  /\ pending' = Tail(pending)
  /\ UNCHANGED <<phase, stop, filter, last, timers, unread>>

Deliver ==
  /\ phase = "waits" /\ pending # <<>>
  /\ Accepts(filter, Head(pending).name)
  /\ last' = Head(pending)
  /\ pending' = Tail(pending)
  /\ phase' = IF stop THEN "over" ELSE "runs"
  /\ UNCHANGED <<stop, filter, timers, unread>>

-----------------------------------------------------------------------------
(* The end of a session.                                                   *)

(* The program returns. *)
Return ==
  /\ phase = "runs" /\ ~stop
  /\ phase' = "over"
  /\ UNCHANGED <<stop, pending, filter, last, timers, unread>>

(* The state of a session that is over, or whose program fails or turns    *)
(* the machine off, is closed: what is queued is gone.                     *)
End ==
  /\ phase = "over" \/ (phase = "runs" /\ ~stop)
  /\ phase' = "off" /\ pending' = <<>>
  /\ stop' \in {stop, TRUE}
  /\ UNCHANGED <<filter, last, timers, unread>>

(* A program that runs boots the machine again. *)
Reboot ==
  /\ phase = "runs" /\ ~stop
  /\ phase' = "off" /\ pending' = <<>>
  /\ filter' = NoFilter /\ last' = NoEvent
  /\ timers' = {}
  /\ UNCHANGED <<stop, unread>>

(* Somebody types. *)
Type ==
  /\ unread' > unread
  /\ UNCHANGED <<phase, stop, pending, filter, last, timers>>

Next ==
  \/ Boot
  \/ \E name \in ProgramName, arg \in Payload : Queue(name, arg)
  \/ \E id \in TimerId : StartTimer(id) \/ CancelTimer(id)
  \/ \E f \in Filter : Wait(f)
  \/ Hear \/ Drop \/ Deliver
  \/ Stop \/ Return \/ End \/ Reboot
  \/ Type

Spec == Init /\ [][Next]_vars
=============================================================================

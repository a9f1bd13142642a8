------------------------------ MODULE Parallel ------------------------------
(***************************************************************************)
(* rom/apis/parallel.lua: the scheduler under which bios.lua runs the      *)
(* shell and rednet, and programs run their own functions.                 *)
(*                                                                         *)
(* A routine that is resumed runs until it yields with a filter, returns   *)
(* or fails.  A routine may have handed itself (coroutine.running) to      *)
(* another one, which may resume it and see it end: MayShare.              *)
(***************************************************************************)
EXTENDS Integers, Sequences, FiniteSets

CONSTANTS
  count,        \* number of functions
  Events,       \* names of events, "terminate" among them
  MayShare,     \* may a routine resume another one?
  MayFail,      \* may a routine raise an error?
  MaxEvents     \* bound: events pulled

ASSUME ParallelAssumption ==
  /\ count \in Nat \ {0}
  /\ "terminate" \in Events /\ "nil" \notin Events
  /\ MayShare \in BOOLEAN /\ MayFail \in BOOLEAN
  /\ MaxEvents \in Nat

Routine == 1 .. count

(* waitForAll goes on until none is left, waitForAny until one has ended. *)
Limits == {0, count - 1}

VARIABLES
  _limit,       \* count - 1 in waitForAny, 0 in waitForAll
  n,            \* the routine the first loop looks at; count + 1 after it
  status,       \* coroutine.status of each routine
  _routines,    \* the routines still in the table
  tFilters,     \* what each waits for, "nil" for everything
  event,        \* eventData[1], "nil" in the first pass
  living,
  outcome,      \* "running", "returned", "error"
  winner,       \* what runUntilLimit returned
  pulled,       \* number of events pulled
  heard,        \* auxiliary: the events each routine was resumed with
  due           \* auxiliary: the events each routine was waiting for

aux == <<heard, due>>
vars == <<_limit, n, status, _routines, tFilters, event, living, outcome, winner, pulled, aux>>

(* create, and the call of runUntilLimit. *)
Init ==
  /\ _limit \in Limits
  /\ n = 1
  /\ status = [r \in Routine |-> "suspended"]
  /\ _routines = Routine
  /\ tFilters = [r \in Routine |-> "nil"]
  /\ event = "nil"
  /\ living = count
  /\ outcome = "running" /\ winner = 0
  /\ pulled = 0
  /\ heard = [r \in Routine |-> <<>>] /\ due = [r \in Routine |-> <<>>]

Wanted(r) == tFilters[r] = "nil" \/ tFilters[r] = event \/ event = "terminate"

Running == outcome = "running" /\ n <= count

(* A routine that is not in the table or waits for something else. *)
Skip ==
  /\ Running
  /\ n \notin _routines \/ ~Wanted(n)
  /\ n' = n + 1
  /\ UNCHANGED <<_limit, status, _routines, tFilters, event, living, outcome, winner, pulled, aux>>

Hear == heard' = [heard EXCEPT ![n] = IF event = "nil" THEN @ ELSE Append(@, event)]

(* The routine yields and names what it waits for. *)
ResumeYield(filter) ==
  /\ Running /\ n \in _routines /\ Wanted(n)
  /\ status[n] = "suspended"
  /\ tFilters' = [tFilters EXCEPT ![n] = filter]
  /\ n' = n + 1
  /\ Hear
  /\ \/ UNCHANGED status
     \/ /\ MayShare
        /\ \E other \in Routine \ {n} :
             /\ status[other] = "suspended"
             /\ status' = [status EXCEPT ![other] = "dead"]
  /\ UNCHANGED <<_limit, _routines, event, living, outcome, winner, pulled, due>>

(* Mutant: the limit itself is not enough. *)
BuryBelow(r) ==
  /\ _routines' = _routines \ {r}
  /\ living' = living - 1
  /\ IF living - 1 < _limit
     THEN outcome' = "returned" /\ winner' = r
     ELSE UNCHANGED <<outcome, winner>>

(* A routine that is dead leaves the table; with too few left the call     *)
(* returns its number.                                                     *)
Bury(r) ==
  /\ _routines' = _routines \ {r}
  /\ living' = living - 1
  /\ IF living - 1 <= _limit
     THEN outcome' = "returned" /\ winner' = r
     ELSE UNCHANGED <<outcome, winner>>

(* The routine returns. *)
ResumeReturn ==
  /\ Running /\ n \in _routines /\ Wanted(n)
  /\ status[n] = "suspended"
  /\ status' = [status EXCEPT ![n] = "dead"]
  /\ tFilters' = [tFilters EXCEPT ![n] = "nil"]
  /\ Hear
  /\ Bury(n)
  /\ n' = n + 1
  /\ UNCHANGED <<_limit, event, pulled, due>>

(* The routine fails, or was dead already: the error is passed on. *)
ResumeError ==
  /\ Running /\ n \in _routines /\ Wanted(n)
  /\ status[n] = "dead" \/ MayFail
  /\ status' = [status EXCEPT ![n] = "dead"]
  /\ outcome' = "error"
  /\ UNCHANGED <<_limit, n, _routines, tFilters, event, living, winner, pulled, aux>>

Dead == {r \in _routines : status[r] = "dead"}

(* Mutant: routines found dead in the second loop are not counted. *)
SweepUncounted ==
  /\ outcome = "running" /\ n = count + 1
  /\ \E r \in Dead : (\A d \in Dead : r <= d) /\ _routines' = _routines \ {r}
  /\ UNCHANGED <<_limit, n, status, tFilters, event, living, outcome, winner, pulled, aux>>

(* The second loop, one dead routine at a time, lowest first. *)
Sweep ==
  /\ outcome = "running" /\ n = count + 1
  /\ \E r \in Dead : (\A d \in Dead : r <= d) /\ Bury(r)
  /\ UNCHANGED <<_limit, n, status, tFilters, event, pulled, aux>>

(* The routines that the event e is for. *)
Audience(e) == {r \in _routines : tFilters[r] \in {"nil", e} \/ e = "terminate"}

(* Mutant: an event ends the filters of the routines it passes by. *)
PullForgetsFilters(e) ==
  /\ outcome = "running" /\ n = count + 1 /\ Dead = {}
  /\ pulled < MaxEvents
  /\ pulled' = pulled + 1 /\ event' = e /\ n' = 1
  /\ due' = [r \in Routine |-> IF r \in Audience(e) THEN Append(due[r], e) ELSE due[r]]
  /\ tFilters' = [r \in Routine |-> "nil"]
  /\ UNCHANGED <<_limit, status, _routines, living, outcome, winner, heard>>

(* os.pullEventRaw without a filter: the next event, whatever it is. *)
Pull(e) ==
  /\ outcome = "running" /\ n = count + 1 /\ Dead = {}
  /\ pulled < MaxEvents
  /\ pulled' = pulled + 1 /\ event' = e /\ n' = 1
  /\ due' = [r \in Routine |-> IF r \in Audience(e) THEN Append(due[r], e) ELSE due[r]]
  /\ UNCHANGED <<_limit, status, _routines, tFilters, living, outcome, winner, heard>>

Waiting == outcome = "running" /\ n = count + 1 /\ Dead = {} /\ pulled = MaxEvents

Scheduler ==
  \/ Skip \/ ResumeReturn \/ ResumeError \/ Sweep
  \/ \E filter \in Events \cup {"nil"} : ResumeYield(filter)

Next ==
  \/ Scheduler
  \/ \E e \in Events : Pull(e)
  \/ (Waiting \/ outcome # "running") /\ UNCHANGED vars

(* Routines yield or end in the end; events need not come. *)
Spec == Init /\ [][Next]_vars /\ WF_vars(Scheduler)

-----------------------------------------------------------------------------
TypeOK ==
  /\ _limit \in Limits
  /\ n \in 1 .. count + 1
  /\ status \in [Routine -> {"suspended", "dead"}]
  /\ _routines \subseteq Routine
  /\ tFilters \in [Routine -> Events \cup {"nil"}]
  /\ event \in Events \cup {"nil"}
  /\ living \in 0 .. count
  /\ outcome \in {"running", "returned", "error"}
  /\ winner \in 0 .. count
  /\ pulled \in 0 .. MaxEvents
  /\ heard \in [Routine -> Seq(Events)] /\ due \in [Routine -> Seq(Events)]

(* The call is running exactly as long as more routines are in the table   *)
(* than the limit, and the winner is one that ended.                       *)
EndsInTime ==
  /\ TypeOK
  /\ living = Cardinality(_routines)
  /\ outcome = "running" => living > _limit
  /\ outcome = "returned" => living = _limit /\ status[winner] = "dead"
                             /\ winner \notin _routines

(* Between two events every routine still alive has been resumed with each *)
(* event it waited for, in order, once, and with no other.                 *)
HeardAll ==
  /\ \A r \in Routine : Len(heard[r]) <= Len(due[r])
  /\ n = count + 1 => \A r \in _routines \ Dead : heard[r] = due[r]

(* A routine that another one ended is noticed, also if no event comes: it *)
(* leaves the table, and once no more than _limit of them are alive the    *)
(* call ends.                                                              *)
AllNoticed ==
  /\ \A r \in Routine : status[r] = "dead" ~> (r \notin _routines \/ outcome # "running")
  /\ Cardinality({r \in Routine : status[r] = "dead"}) >= count - _limit ~> outcome # "running"
=============================================================================

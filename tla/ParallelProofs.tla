--------------------------- MODULE ParallelProofs ---------------------------
(***************************************************************************)
(* waitForAny and waitForAll end in time, and every routine hears every    *)
(* event it waits for, for every number of functions and all events.       *)
(***************************************************************************)
EXTENDS Parallel, FiniteSetTheorems, TLAPS

(* The routine is in the table, waits for the event and was not reached    *)
(* yet by the first loop.                                                  *)
Owed(r) == r \in _routines /\ r >= n /\ event # "nil" /\ Wanted(r)

(* In the middle of a pass: a routine that is still to be resumed with the *)
(* event lacks just that one, all others lack none.                        *)
InTurn == \A r \in Routine : IF Owed(r) THEN due[r] = Append(heard[r], event) ELSE heard[r] = due[r]

ParallelInv == EndsInTime /\ InTurn

-----------------------------------------------------------------------------
(* The table shrinks by one when a routine leaves it. *)
LEMMA TableShrinks ==
  ASSUME TypeOK, NEW r \in _routines
  PROVE  Cardinality(_routines \ {r}) = Cardinality(_routines) - 1 /\ Cardinality(_routines) \in Nat
<1>1. IsFiniteSet(Routine)
  BY FS_Interval, ParallelAssumption DEF Routine
<1>2. IsFiniteSet(_routines)
  BY <1>1, FS_Subset DEF TypeOK
<1>3. QED
  BY <1>2, FS_RemoveElement, FS_CardinalityType

(* What an end of a routine does to the count (the block of parallel.lua   *)
(* after coroutine.status, in both loops).                                 *)
LEMMA BuryCounts ==
  ASSUME TypeOK, living = Cardinality(_routines), outcome = "running", living > _limit,
         NEW r \in _routines, Bury(r), UNCHANGED _limit
  PROVE  /\ _routines' \subseteq Routine /\ r \notin _routines'
         /\ living' = Cardinality(_routines') /\ living' \in 0 .. count
         /\ outcome' \in {"running", "returned"} /\ winner' \in 0 .. count
         /\ outcome' = "running" => living' > _limit'
         /\ outcome' = "returned" => living' = _limit' /\ winner' = r
<1>1. Cardinality(_routines \ {r}) = Cardinality(_routines) - 1
  BY TableShrinks
<1>2. _limit \in Nat /\ living \in 0 .. count /\ count \in Nat /\ r \in 1 .. count
  BY ParallelAssumption DEF TypeOK, Limits, Routine
<1>3. CASE living - 1 <= _limit
  BY <1>1, <1>2, <1>3 DEF Bury, TypeOK
<1>4. CASE ~(living - 1 <= _limit)
  BY <1>1, <1>2, <1>4 DEF Bury, TypeOK
<1>5. QED
  BY <1>3, <1>4

(* At the call every routine is in the table and has heard what it should. *)
LEMMA InitParallel == Init => ParallelInv
<1> SUFFICES ASSUME Init PROVE ParallelInv
  OBVIOUS
<1>1. IsFiniteSet(Routine) /\ Cardinality(Routine) = count
  BY FS_Interval, ParallelAssumption DEF Routine
<1>2. TypeOK
  BY ParallelAssumption DEF Init, TypeOK
<1>3. EndsInTime
  BY <1>1, <1>2, ParallelAssumption DEF Init, EndsInTime, Limits
<1>4. InTurn
  BY DEF Init, InTurn, Owed
<1>5. QED
  BY <1>3, <1>4 DEF ParallelInv

-----------------------------------------------------------------------------
(* heard after the routine was resumed with the event (coroutine.resume). *)
LEMMA HearType ==
  ASSUME TypeOK, Hear, n \in Routine
  PROVE  heard' \in [Routine -> Seq(Events)]
<1>1. CASE event = "nil"
  BY <1>1 DEF TypeOK, Hear
<1>2. CASE event # "nil"
  BY <1>2 DEF TypeOK, Hear
<1>3. QED
  BY <1>1, <1>2

(* The count and the end of the call, one step at a time. *)
LEMMA StepEnds == EndsInTime /\ [Next]_vars => EndsInTime'
<1> SUFFICES ASSUME EndsInTime, [Next]_vars PROVE EndsInTime'
  OBVIOUS
<1>1. TypeOK /\ living = Cardinality(_routines) /\ (outcome = "running" => living > _limit)
  BY DEF EndsInTime
<1>2. Running => n \in Routine /\ n + 1 \in 1 .. count + 1
  BY <1>1, ParallelAssumption DEF Running, TypeOK, Routine
<1>3. CASE Skip
  BY <1>1, <1>2, <1>3 DEF Skip, Running, EndsInTime, TypeOK, aux
<1>4. ASSUME NEW filter \in Events \cup {"nil"}, ResumeYield(filter) PROVE EndsInTime'
  <2>1. heard' \in [Routine -> Seq(Events)]
    BY <1>1, <1>2, <1>4, HearType DEF ResumeYield
  <2>2. status' \in [Routine -> {"suspended", "dead"}]
    BY <1>1, <1>4 DEF ResumeYield, TypeOK
  <2>3. QED
    BY <1>1, <1>2, <1>4, <2>1, <2>2 DEF ResumeYield, Running, EndsInTime, TypeOK
<1>5. CASE ResumeReturn
  <2>1. heard' \in [Routine -> Seq(Events)]
    BY <1>1, <1>2, <1>5, HearType DEF ResumeReturn
  <2>2. n \in _routines /\ Bury(n) /\ outcome = "running" /\ UNCHANGED _limit
    BY <1>5 DEF ResumeReturn, Running
  <2>3. /\ _routines' \subseteq Routine /\ n \notin _routines'
        /\ living' = Cardinality(_routines') /\ living' \in 0 .. count
        /\ outcome' \in {"running", "returned"} /\ winner' \in 0 .. count
        /\ outcome' = "running" => living' > _limit'
        /\ outcome' = "returned" => living' = _limit' /\ winner' = n
    BY <1>1, <2>2, BuryCounts
  <2>4. status' \in [Routine -> {"suspended", "dead"}] /\ status'[n] = "dead"
    BY <1>1, <1>2, <1>5 DEF ResumeReturn, TypeOK
  <2>5. TypeOK'
    BY <1>1, <1>2, <1>5, <2>1, <2>3, <2>4 DEF ResumeReturn, TypeOK
  <2>6. QED
    BY <2>3, <2>4, <2>5 DEF EndsInTime
<1>6. CASE ResumeError
  BY <1>1, <1>2, <1>6 DEF ResumeError, EndsInTime, TypeOK, aux
<1>7. CASE Sweep
  <2>1. PICK r \in Dead : Bury(r)
    BY <1>7 DEF Sweep
  <2>2. r \in _routines /\ status[r] = "dead" /\ outcome = "running"
        /\ UNCHANGED <<_limit, n, status, tFilters, event, pulled, heard, due>>
    BY <1>7, <2>1 DEF Sweep, Dead, aux
  <2>3. /\ _routines' \subseteq Routine /\ r \notin _routines'
        /\ living' = Cardinality(_routines') /\ living' \in 0 .. count
        /\ outcome' \in {"running", "returned"} /\ winner' \in 0 .. count
        /\ outcome' = "running" => living' > _limit'
        /\ outcome' = "returned" => living' = _limit' /\ winner' = r
    BY <1>1, <2>1, <2>2, BuryCounts
  <2>4. TypeOK'
    BY <1>1, <2>2, <2>3 DEF TypeOK
  <2>5. QED
    BY <2>2, <2>3, <2>4 DEF EndsInTime
<1>8. ASSUME NEW e \in Events, Pull(e) PROVE EndsInTime'
  <2>1. due' \in [Routine -> Seq(Events)]
    BY <1>1, <1>8 DEF Pull, TypeOK
  <2>2. QED
    BY <1>1, <1>8, <2>1, ParallelAssumption DEF Pull, EndsInTime, TypeOK
<1>9. CASE UNCHANGED vars
  BY <1>9 DEF vars, aux, EndsInTime, TypeOK
<1>10. QED
  BY <1>3, <1>4, <1>5, <1>6, <1>7, <1>8, <1>9 DEF Next, Scheduler

(* waitForAny and waitForAll end exactly when enough routines have ended,  *)
(* and return one that did (runUntilLimit), for every number of functions. *)
THEOREM ParallelEnds == Spec => []EndsInTime
<1>1. Init => EndsInTime
  BY InitParallel DEF ParallelInv
<1>2. QED
  BY <1>1, StepEnds, PTL DEF Spec

-----------------------------------------------------------------------------
(* Resuming the routine whose turn it is settles what it was owed. *)
LEMMA HearSettles ==
  ASSUME TypeOK, InTurn, n \in Routine, n \in _routines, Wanted(n), Hear
  PROVE  heard'[n] = due[n] /\ \A r \in Routine \ {n} : heard'[r] = heard[r]
<1>1. n >= n /\ heard \in [Routine -> Seq(Events)]
  BY ParallelAssumption DEF TypeOK, Routine
<1>2. CASE event = "nil"
  BY <1>1, <1>2 DEF InTurn, Owed, Hear
<1>3. CASE event # "nil"
  BY <1>1, <1>3 DEF InTurn, Owed, Hear
<1>4. QED
  BY <1>2, <1>3

(* After the first loop has passed routine n, no other is owed anything it *)
(* was not owed before.                                                    *)
LEMMA OthersOwed ==
  ASSUME TypeOK, InTurn, n \in Routine, n' = n + 1, event' = event, due' = due,
         heard'[n] = due[n], \A r \in Routine \ {n} : heard'[r] = heard[r],
         \A r \in Routine \ {n} : (r \in _routines' <=> r \in _routines) /\ tFilters'[r] = tFilters[r]
  PROVE  InTurn'
<1> SUFFICES ASSUME NEW r \in Routine
             PROVE  IF Owed(r)' THEN due'[r] = Append(heard'[r], event') ELSE heard'[r] = due'[r]
  BY DEF InTurn
<1>1. r \in Int /\ n \in Int
  BY DEF Routine
<1>2. CASE r = n
  <2>1. ~(r >= n')
    BY <1>1, <1>2
  <2>2. QED
    BY <1>2, <2>1 DEF Owed
<1>3. CASE r # n
  <2>1. r >= n' <=> r >= n
    BY <1>1, <1>3
  <2>2. Owed(r)' <=> Owed(r)
    BY <1>3, <2>1 DEF Owed, Wanted
  <2>3. QED
    BY <1>3, <2>2 DEF InTurn
<1>4. QED
  BY <1>2, <1>3

(* Who is owed what, one step at a time. *)
LEMMA StepInTurn == EndsInTime /\ InTurn /\ [Next]_vars => InTurn'
<1> SUFFICES ASSUME EndsInTime, InTurn, [Next]_vars PROVE InTurn'
  OBVIOUS
<1>1. TypeOK
  BY DEF EndsInTime
<1>2. Running => n \in Routine
  BY <1>1, ParallelAssumption DEF Running, TypeOK, Routine
<1>3. CASE Skip
  <2>1. n \in Routine /\ ~Owed(n)
    BY <1>2, <1>3 DEF Skip, Owed
  <2>2. heard'[n] = due[n]
    BY <1>3, <2>1 DEF Skip, InTurn, aux
  <2>3. QED
    BY <1>1, <1>3, <2>1, <2>2, OthersOwed DEF Skip, aux
<1>4. ASSUME NEW filter \in Events \cup {"nil"}, ResumeYield(filter) PROVE InTurn'
  <2>1. n \in Routine /\ n \in _routines /\ Wanted(n) /\ Hear
    BY <1>2, <1>4 DEF ResumeYield
  <2>2. heard'[n] = due[n] /\ \A r \in Routine \ {n} : heard'[r] = heard[r]
    BY <1>1, <2>1, HearSettles
  <2>3. \A r \in Routine \ {n} : (r \in _routines' <=> r \in _routines) /\ tFilters'[r] = tFilters[r]
    BY <1>1, <1>4 DEF ResumeYield, TypeOK
  <2>4. QED
    BY <1>1, <1>4, <2>1, <2>2, <2>3, OthersOwed DEF ResumeYield
<1>5. CASE ResumeReturn
  <2>1. n \in Routine /\ n \in _routines /\ Wanted(n) /\ Hear /\ Bury(n)
    BY <1>2, <1>5 DEF ResumeReturn
  <2>2. heard'[n] = due[n] /\ \A r \in Routine \ {n} : heard'[r] = heard[r]
    BY <1>1, <2>1, HearSettles
  <2>3. \A r \in Routine \ {n} : (r \in _routines' <=> r \in _routines) /\ tFilters'[r] = tFilters[r]
    BY <1>1, <1>5, <2>1 DEF ResumeReturn, Bury, TypeOK
  <2>4. QED
    BY <1>1, <1>5, <2>1, <2>2, <2>3, OthersOwed DEF ResumeReturn
<1>6. CASE ResumeError
  BY <1>6 DEF ResumeError, InTurn, Owed, Wanted, aux
<1>7. ASSUME n = count + 1, NEW r \in Routine PROVE ~Owed(r) /\ heard[r] = due[r]
  BY <1>7, ParallelAssumption DEF Owed, InTurn, Routine
<1>8. CASE Sweep
  <2>1. n' = count + 1 /\ n = count + 1 /\ heard' = heard /\ due' = due
    BY <1>8 DEF Sweep, aux
  <2>2. \A r \in Routine : ~(r >= n')
    BY <2>1, ParallelAssumption DEF Routine
  <2>3. QED
    BY <1>7, <2>1, <2>2 DEF InTurn, Owed
<1>9. ASSUME NEW e \in Events, Pull(e) PROVE InTurn'
  <2>1. /\ n = count + 1 /\ n' = 1 /\ event' = e /\ heard' = heard /\ e # "nil"
        /\ _routines' = _routines /\ tFilters' = tFilters
        /\ due' = [r \in Routine |-> IF r \in Audience(e) THEN Append(due[r], e) ELSE due[r]]
    BY <1>9, ParallelAssumption DEF Pull
  <2> SUFFICES ASSUME NEW r \in Routine
               PROVE  IF Owed(r)' THEN due'[r] = Append(heard'[r], event') ELSE heard'[r] = due'[r]
    BY DEF InTurn
  <2>2. Owed(r)' <=> r \in Audience(e)
    BY <2>1 DEF Owed, Wanted, Audience, Routine
  <2>3. heard[r] = due[r]
    BY <1>7, <2>1
  <2>4. QED
    BY <2>1, <2>2, <2>3
<1>10. CASE UNCHANGED vars
  BY <1>10 DEF vars, aux, InTurn, Owed, Wanted
<1>11. QED
  BY <1>3, <1>4, <1>5, <1>6, <1>8, <1>9, <1>10 DEF Next, Scheduler

(* Between two events every routine has been resumed with each event it    *)
(* waited for, in order, once, and with no other (the test of tFilters in  *)
(* runUntilLimit), for every number of functions and of events.            *)
THEOREM ParallelHears == Spec => []HeardAll
<1>1. ParallelInv /\ [Next]_vars => ParallelInv'
  BY StepEnds, StepInTurn DEF ParallelInv
<1>2. ParallelInv => HeardAll
  <2> SUFFICES ASSUME ParallelInv PROVE HeardAll
    OBVIOUS
  <2>1. TypeOK /\ InTurn
    BY DEF ParallelInv, EndsInTime
  <2>2. ASSUME NEW r \in Routine PROVE Len(heard[r]) <= Len(due[r])
    <3>1. heard[r] \in Seq(Events) /\ (event # "nil" => event \in Events)
      BY <2>1 DEF TypeOK
    <3>2. CASE Owed(r)
      <4>1. due[r] = Append(heard[r], event) /\ event \in Events
        BY <2>1, <3>1, <3>2 DEF InTurn, Owed
      <4>2. QED
        BY <3>1, <4>1
    <3>3. CASE ~Owed(r)
      BY <2>1, <3>1, <3>3 DEF InTurn
    <3>4. QED
      BY <3>2, <3>3
  <2>3. ASSUME n = count + 1, NEW r \in _routines \ Dead PROVE heard[r] = due[r]
    <3>1. r \in Routine
      BY <2>1 DEF TypeOK
    <3>2. ~Owed(r)
      BY <2>3, <3>1, ParallelAssumption DEF Owed, Routine
    <3>3. QED
      BY <2>1, <3>1, <3>2 DEF InTurn
  <2>4. QED
    BY <2>2, <2>3 DEF HeardAll
<1>3. QED
  BY <1>1, <1>2, InitParallel, PTL DEF Spec
=============================================================================

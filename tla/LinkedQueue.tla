----------------------------- MODULE LinkedQueue -----------------------------
(***************************************************************************)
(* queue.c at the level of its pointers: the singly linked list behind the *)
(* eventQueue and timerQueue of os.cpp.                                    *)
(*                                                                         *)
(* A struct pointer_type is a cell of the heap; malloc returns any cell    *)
(* that is not live and free makes it not live.  The fields of a cell that *)
(* is not live are still there but mean nothing, so a freed cell gets      *)
(* arbitrary contents: a read through a dangling pointer would show.       *)
(***************************************************************************)
EXTENDS Naturals, Sequences

CONSTANTS Cell,         \* addresses malloc can return
          Value,        \* values a queue carries (const char *), NULL perhaps
          NULL          \* the null pointer

\* Values may be null: os.queueEvent(nil) pushes a null name
ASSUME NullAssumption == NULL \notin Cell

VARIABLES _front, _back,  \* the fields of the queue_t
          data, next,     \* the fields of every struct pointer_type
          live,           \* the cells malloc has handed out
          out,            \* what queue_front gave the caller before its last pop
          cells           \* auxiliary: the live cells, oldest first

vars == <<_front, _back, data, next, live, out, cells>>

Pointer == Cell \cup {NULL}

TypeOK ==
  /\ _front \in Pointer
  /\ _back \in Pointer
  /\ data \in [Cell -> Value]
  /\ next \in [Cell -> Pointer]
  /\ live \in SUBSET Cell
  /\ out \in Value
  /\ cells \in Seq(Cell)

Init ==
  /\ _front = NULL
  /\ _back = NULL
  /\ data \in [Cell -> Value]
  /\ next \in [Cell -> Pointer]
  /\ live = {}
  /\ out \in Value
  /\ cells = <<>>

queue_empty == _back = NULL

(* The cell the size loop is at after n steps. *)
Walk[n \in Nat] ==
  IF n = 0 THEN _front
  ELSE IF Walk[n - 1] = NULL THEN NULL ELSE next[Walk[n - 1]]

queue_size == CHOOSE n \in 0 .. Len(cells) + 1 :
                /\ Walk[n] = NULL
                /\ \A m \in 0 .. n - 1 : Walk[m] # NULL

queue_front == IF _front = NULL THEN NULL ELSE data[_front]

queue_back == IF _back = NULL THEN NULL ELSE data[_back]

(* Mutant: the old last cell is not linked to the new one. *)
PushUnlinked(val) ==
  \E p \in Cell \ live :
    /\ live' = live \cup {p}
    /\ data' = [data EXCEPT ![p] = val]
    /\ next' = [next EXCEPT ![p] = NULL]
    /\ _back' = p
    /\ _front' = IF _front = NULL THEN p ELSE _front
    /\ cells' = Append(cells, p)
    /\ UNCHANGED out

(* The test of both ends is made before either is assigned, as in the code. *)
queue_push(val) ==
  \E p \in Cell \ live :
    /\ live' = live \cup {p}
    /\ data' = [data EXCEPT ![p] = val]
    /\ next' = IF _back # NULL /\ _front # NULL
               THEN [next EXCEPT ![p] = NULL, ![_back] = p]
               ELSE [next EXCEPT ![p] = NULL]
    /\ _back' = p
    /\ _front' = IF _front = NULL THEN p ELSE _front
    /\ cells' = Append(cells, p)
    /\ UNCHANGED out

(* Mutant: _back still points to the last cell after it is freed. *)
PopKeepsBack ==
  /\ _front # NULL
  /\ out' = queue_front
  /\ _front' = next[_front]
  /\ UNCHANGED _back
  /\ live' = live \ {_front}
  /\ \E v \in Value, x \in Pointer :
       /\ data' = [data EXCEPT ![_front] = v]
       /\ next' = [next EXCEPT ![_front] = x]
  /\ cells' = Tail(cells)

(* os.cpp reads queue_front and then pops, in getNextEvent for either queue. *)
queue_pop ==
  /\ _front # NULL
  /\ out' = queue_front
  /\ _front' = next[_front]
  /\ _back' = IF next[_front] = NULL THEN NULL ELSE _back
  /\ live' = live \ {_front}
  /\ \E v \in Value, x \in Pointer :
       /\ data' = [data EXCEPT ![_front] = v]
       /\ next' = [next EXCEPT ![_front] = x]
  /\ cells' = Tail(cells)

Next == (\E val \in Value : queue_push(val)) \/ queue_pop

Spec == Init /\ [][Next]_vars

-----------------------------------------------------------------------------
(* The list is well formed: the live cells are linked in the order of      *)
(* their pushes, each occurs once, the last one ends the list and the two  *)
(* fields of the queue_t point to its ends.                                *)
ListOK ==
  /\ live = {cells[i] : i \in 1 .. Len(cells)}
  /\ \A i, j \in 1 .. Len(cells) : cells[i] = cells[j] => i = j
  /\ \A i \in 1 .. Len(cells) - 1 : next[cells[i]] = cells[i + 1]
  /\ cells = <<>> => _front = NULL /\ _back = NULL
  /\ cells # <<>> => /\ _front = cells[1]
                     /\ _back = cells[Len(cells)]
                     /\ next[cells[Len(cells)]] = NULL

IInv == TypeOK /\ ListOK

(* No pointer the code can follow (queue.c:10, :16, :21, :28, :36) leads   *)
(* to freed memory: both ends and the next field of every live cell are    *)
(* null or live.                                                           *)
NoDangling ==
  /\ _front \in live \cup {NULL}
  /\ _back \in live \cup {NULL}
  /\ \A c \in live : next[c] \in live \cup {NULL}

(* The values of the queue, read along the live cells. *)
Contents == [i \in 1 .. Len(cells) |-> data[cells[i]]]

Fifo == INSTANCE FifoQueue WITH q <- Contents, out <- out

(* queue.c implements a first-in first-out queue: every push appends one   *)
(* value, the value queue_front reads through _front before a pop is the   *)
(* oldest one pushed, and that one leaves.                                 *)
FifoSpec == Fifo!Spec

(* The ways os.cpp looks at a queue agree: queue_empty looks at _back      *)
(* (queue.c:5), queue_front at _front (queue.c:15) and queue_size walks    *)
(* the list (queue.c:10).  getNextEvent tests one queue with queue_size    *)
(* and the other with queue_empty, and then reads queue_front, which is    *)
(* the oldest value; a null one is not taken for an empty queue.           *)
ObserversAgree ==
  /\ queue_size = Len(cells)
  /\ queue_empty <=> (queue_size = 0)
  /\ queue_front = IF queue_empty THEN NULL ELSE Head(Contents)
  /\ queue_back = IF queue_empty THEN NULL ELSE Contents[Len(Contents)]
=============================================================================

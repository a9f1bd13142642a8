------------------------------ MODULE FifoQueue ------------------------------
(***************************************************************************)
(* What queue.h promises: a first-in first-out queue of values.  A pop of  *)
(* an empty queue is ignored.  LinkedQueue, the pointer-level model of     *)
(* queue.c, implements this specification.                                 *)
(***************************************************************************)
EXTENDS Sequences, Naturals

CONSTANT Value          \* the const char * values a queue_t carries

VARIABLES q,            \* the values in the queue, oldest first
          out           \* the value last read and popped

vars == <<q, out>>

Init == q = <<>> /\ out \in Value

(* queue_push: the value joins at the back. *)
Push(val) == q' = Append(q, val) /\ UNCHANGED out

(* queue_front and queue_pop: the oldest value is read and leaves. *)
Pop == q # <<>> /\ out' = Head(q) /\ q' = Tail(q)

Next == (\E val \in Value : Push(val)) \/ Pop

Spec == Init /\ [][Next]_vars
=============================================================================

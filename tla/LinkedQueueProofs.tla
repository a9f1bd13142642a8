-------------------------- MODULE LinkedQueueProofs --------------------------
(***************************************************************************)
(* queue.c is a FIFO queue for every heap and every set of values.  The    *)
(* inductive invariant is ListOK with the types: the auxiliary sequence of *)
(* cells is what turns "the list reached from _front" into a statement     *)
(* without recursion.                                                      *)
(***************************************************************************)
EXTENDS LinkedQueue, WellFoundedInduction, TLAPS

(* The initial queue, both fields null, is a well-formed empty list. *)
LEMMA InitIInv == Init => IInv
  BY NullAssumption DEF Init, IInv, TypeOK, ListOK, Pointer

(* A push keeps the list well formed: the new cell is the only one added,  *)
(* it comes last, and the old last cell is linked to it.                   *)
LEMMA PushIInv ==
  ASSUME IInv, NEW val \in Value, queue_push(val)
  PROVE  IInv'
<1> USE DEF IInv
<1>1. PICK p \in Cell \ live :
        /\ live' = live \cup {p}
        /\ data' = [data EXCEPT ![p] = val]
        /\ next' = IF _back # NULL /\ _front # NULL
                   THEN [next EXCEPT ![p] = NULL, ![_back] = p]
                   ELSE [next EXCEPT ![p] = NULL]
        /\ _back' = p
        /\ _front' = IF _front = NULL THEN p ELSE _front
        /\ cells' = Append(cells, p)
        /\ out' = out
  BY DEF queue_push
<1>2. TypeOK'
  BY <1>1 DEF TypeOK, Pointer
<1>3. /\ Len(cells') = Len(cells) + 1
      /\ cells'[Len(cells) + 1] = p
      /\ \A i \in 1 .. Len(cells) : cells'[i] = cells[i] /\ cells[i] \in live
      /\ Len(cells) \in Nat
  BY <1>1 DEF TypeOK, ListOK
<1>4. p # NULL /\ p \notin live
  BY <1>1, NullAssumption
<1>5. CASE cells = <<>>
  <2>1. next' = [next EXCEPT ![p] = NULL] /\ _front' = p
    BY <1>1, <1>5 DEF ListOK
  <2> QED
    BY <1>1, <1>2, <1>3, <1>4, <1>5, <2>1 DEF ListOK, TypeOK
<1>6. CASE cells # <<>>
  <2>1. /\ _front # NULL /\ _back # NULL
        /\ _back = cells[Len(cells)] /\ _front = cells[1]
        /\ Len(cells) \in Nat \ {0}
    BY <1>6, NullAssumption DEF ListOK, TypeOK
  <2>2. next' = [next EXCEPT ![p] = NULL, ![_back] = p] /\ _front' = _front
    BY <1>1, <2>1
  <2>3. next'[p] = NULL /\ next'[_back] = p
    BY <2>1, <2>2, <1>3, <1>4 DEF TypeOK
  <2>4. \A i \in 1 .. Len(cells) - 1 : next'[cells[i]] = cells[i + 1]
    BY <2>1, <2>2, <1>3, <1>4 DEF TypeOK, ListOK
  <2>5. \A i \in 1 .. Len(cells') - 1 : next'[cells'[i]] = cells'[i + 1]
    BY <2>1, <2>3, <2>4, <1>3
  <2>6. live' = {cells'[i] : i \in 1 .. Len(cells')}
    <3>1. \A c \in live : \E i \in 1 .. Len(cells) : c = cells[i]
      BY DEF ListOK
    <3>2. \A c \in live' : \E i \in 1 .. Len(cells') : c = cells'[i]
      BY <1>1, <1>3, <3>1
    <3>3. \A i \in 1 .. Len(cells') : cells'[i] \in live'
      BY <1>1, <1>3
    <3> QED
      BY <3>2, <3>3
  <2>7. \A i, j \in 1 .. Len(cells') : cells'[i] = cells'[j] => i = j
    BY <1>3, <1>4 DEF ListOK
  <2>8. cells' # <<>> /\ _front' = cells'[1] /\ _back' = cells'[Len(cells')]
    BY <1>1, <1>3, <2>1, <2>2 DEF TypeOK
  <2>9. next'[cells'[Len(cells')]] = NULL
    BY <1>3, <2>3
  <2> QED
    BY <1>2, <2>5, <2>6, <2>7, <2>8, <2>9 DEF ListOK
<1> QED
  BY <1>5, <1>6

(* A pop keeps the list well formed: the first cell goes, the second one   *)
(* becomes the first, and a list of one cell leaves both fields null.      *)
LEMMA PopIInv ==
  ASSUME IInv, queue_pop
  PROVE  IInv'
<1> USE DEF IInv
<1>1. cells # <<>> /\ Len(cells) \in Nat \ {0} /\ _front = cells[1]
  BY DEF queue_pop, ListOK, TypeOK
<1>2. PICK v \in Value, x \in Pointer :
        /\ data' = [data EXCEPT ![_front] = v]
        /\ next' = [next EXCEPT ![_front] = x]
  BY DEF queue_pop
<1>3. /\ Len(cells') = Len(cells) - 1
      /\ \A i \in 1 .. Len(cells) - 1 : cells'[i] = cells[i + 1]
      /\ cells' \in Seq(Cell)
  BY <1>1 DEF queue_pop, TypeOK
<1>4. \A i \in 2 .. Len(cells) : cells[i] # _front /\ next'[cells[i]] = next[cells[i]]
  BY <1>1, <1>2 DEF ListOK, TypeOK
<1>5. TypeOK'
  BY <1>1, <1>2, <1>3 DEF queue_pop, queue_front, TypeOK, Pointer
<1>6. live' = {cells'[i] : i \in 1 .. Len(cells')}
  <2>1. \A c \in live' : \E i \in 2 .. Len(cells) : c = cells[i]
    BY <1>1 DEF queue_pop, ListOK
  <2>2. \A i \in 2 .. Len(cells) : i - 1 \in 1 .. Len(cells') /\ cells'[i - 1] = cells[i]
    BY <1>1, <1>3
  <2>3. \A c \in live' : \E i \in 1 .. Len(cells') : c = cells'[i]
    BY <2>1, <2>2
  <2>4. \A i \in 1 .. Len(cells') : cells'[i] \in live'
    BY <1>1, <1>3, <1>4 DEF queue_pop, ListOK
  <2> QED
    BY <2>3, <2>4
<1>7. \A i, j \in 1 .. Len(cells') : cells'[i] = cells'[j] => i = j
  BY <1>1, <1>3 DEF ListOK
<1>8. \A i \in 1 .. Len(cells') - 1 : next'[cells'[i]] = cells'[i + 1]
  BY <1>1, <1>3, <1>4 DEF ListOK
<1>9. CASE Len(cells) = 1
  BY <1>1, <1>3, <1>5, <1>6, <1>7, <1>8, <1>9 DEF queue_pop, ListOK
<1>10. CASE Len(cells) # 1
  <2>1. next[_front] = cells[2] /\ cells[2] # NULL
    <3>1. 1 \in 1 .. Len(cells) - 1 /\ 2 \in 1 .. Len(cells)
      BY <1>1, <1>10
    <3>2. next[cells[1]] = cells[1 + 1] /\ cells[2] \in Cell
      BY <3>1 DEF ListOK, TypeOK
    <3> QED
      BY <1>1, <3>2, NullAssumption
  <2>2. _front' = cells'[1] /\ _back' = _back /\ _back = cells'[Len(cells')]
    BY <1>1, <1>3, <1>10, <2>1 DEF queue_pop, ListOK
  <2>3. next'[cells'[Len(cells')]] = NULL
    BY <1>1, <1>3, <1>4, <1>10 DEF ListOK
  <2> QED
    BY <1>1, <1>3, <1>5, <1>6, <1>7, <1>8, <1>10, <2>2, <2>3 DEF ListOK, TypeOK
<1> QED
  BY <1>9, <1>10

(* Push, pop and the observers keep the list well formed. *)
LEMMA NextIInv == IInv /\ [Next]_vars => IInv'
<1> SUFFICES ASSUME IInv, [Next]_vars PROVE IInv'
  OBVIOUS
<1>1. CASE Next
  BY <1>1, PushIInv, PopIInv DEF Next
<1>2. CASE UNCHANGED vars
  BY <1>2 DEF vars, IInv, TypeOK, ListOK, Pointer
<1> QED
  BY <1>1, <1>2

(* The list behind a queue_t is well formed after any pushes and pops. *)
THEOREM QueueInvariant == Spec => [](TypeOK /\ ListOK)
  BY InitIInv, NextIInv, PTL DEF Spec, IInv

(* No operation of queue.c ever follows a pointer to freed memory. *)
THEOREM QueueNoDangling == Spec => []NoDangling
<1>1. IInv => NoDangling
  <2> SUFFICES ASSUME IInv PROVE NoDangling
    OBVIOUS
  <2>1. Len(cells) \in Nat /\ (cells = <<>> <=> Len(cells) = 0)
    BY DEF IInv, TypeOK
  <2>2. CASE cells = <<>>
    BY <2>1, <2>2 DEF IInv, ListOK, NoDangling
  <2>3. CASE cells # <<>>
    <3>1. \A i \in 1 .. Len(cells) : cells[i] \in live
      BY DEF IInv, ListOK
    <3>2. \A i \in 1 .. Len(cells) : next[cells[i]] \in live \cup {NULL}
      <4> SUFFICES ASSUME NEW i \in 1 .. Len(cells)
                   PROVE  next[cells[i]] \in live \cup {NULL}
        OBVIOUS
      <4>1. CASE i = Len(cells)
        BY <2>3, <4>1 DEF IInv, ListOK
      <4>2. CASE i # Len(cells)
        <5>1. i \in 1 .. Len(cells) - 1 /\ i + 1 \in 1 .. Len(cells)
          BY <2>1, <4>2
        <5> QED
          BY <5>1, <3>1 DEF IInv, ListOK
      <4> QED
        BY <4>1, <4>2
    <3> QED
      BY <2>1, <2>3, <3>1, <3>2 DEF IInv, ListOK, NoDangling
  <2> QED
    BY <2>2, <2>3
<1> QED
  BY <1>1, QueueInvariant, PTL DEF IInv

(* queue.c implements the abstract first-in first-out queue. *)
THEOREM QueueIsFifo == Spec => FifoSpec
<1>1. Init => Fifo!Init
  BY DEF Init, Fifo!Init, Contents
<1>2. IInv /\ [Next]_vars => [Fifo!Next]_(Fifo!vars)
  <2> SUFFICES ASSUME IInv, [Next]_vars PROVE [Fifo!Next]_(Fifo!vars)
    OBVIOUS
  <2>1. CASE \E val \in Value : queue_push(val)
    <3>1. PICK val \in Value : queue_push(val)
      BY <2>1
    <3>2. PICK p \in Cell \ live :
            /\ data' = [data EXCEPT ![p] = val]
            /\ cells' = Append(cells, p)
            /\ out' = out
      BY <3>1 DEF queue_push
    <3>3. /\ Len(cells') = Len(cells) + 1 /\ Len(cells) \in Nat
          /\ cells'[Len(cells) + 1] = p
          /\ \A i \in 1 .. Len(cells) : cells'[i] = cells[i] /\ cells[i] # p
      BY <3>2 DEF IInv, TypeOK, ListOK
    <3>4. Contents \in Seq(Value) /\ Len(Contents) = Len(cells)
      BY DEF IInv, TypeOK, Contents
    <3>5. Contents' = Append(Contents, val)
      BY <3>2, <3>3, <3>4 DEF Contents, IInv, TypeOK
    <3> QED
      BY <3>2, <3>5 DEF Fifo!Next, Fifo!Push
  <2>2. CASE queue_pop
    <3>1. cells # <<>> /\ Len(cells) \in Nat \ {0} /\ _front = cells[1]
      BY <2>2 DEF queue_pop, IInv, ListOK, TypeOK
    <3>2. PICK v \in Value : data' = [data EXCEPT ![_front] = v]
      BY <2>2 DEF queue_pop
    <3>3. /\ Len(cells') = Len(cells) - 1
          /\ \A i \in 1 .. Len(cells) - 1 : cells'[i] = cells[i + 1]
      BY <2>2, <3>1 DEF queue_pop, IInv, TypeOK
    <3>4. \A i \in 1 .. Len(cells) - 1 :
            data'[cells[i + 1]] = data[cells[i + 1]]
      BY <3>1, <3>2 DEF IInv, TypeOK, ListOK
    <3>5. Contents \in Seq(Value) /\ Len(Contents) = Len(cells)
      BY DEF IInv, TypeOK, Contents
    <3>6. Contents # <<>>
      BY <3>1, <3>5
    <3>7. Contents' = Tail(Contents)
      BY <3>1, <3>3, <3>4, <3>5 DEF Contents
    <3>8. out' = Head(Contents)
      BY <2>2, <3>1, <3>5, <3>6 DEF queue_pop, queue_front, Contents
    <3> QED
      BY <3>6, <3>7, <3>8 DEF Fifo!Next, Fifo!Pop
  <2>3. CASE UNCHANGED vars
    BY <2>3 DEF vars, Contents, Fifo!vars
  <2> QED
    BY <2>1, <2>2, <2>3 DEF Next
<1> QED
  BY <1>1, <1>2, QueueInvariant, PTL DEF IInv, Spec, FifoSpec, Fifo!Spec

-----------------------------------------------------------------------------
(* Every set of numbers has a least one: induction, in the form of a least *)
(* counterexample.                                                         *)
LEMMA LeastNumber ==
  ASSUME NEW T, T \subseteq Nat, T # {}
  PROVE  \E m \in T : \A k \in T : m <= k
<1>1. PICK m \in T : \A k \in T : ~(<<k, m>> \in OpToRel(<, Nat))
  BY NatLessThanWellFounded, WFMin
<1>2. \A k \in T : ~(k < m)
  BY <1>1 DEF OpToRel
<1>3. QED
  BY <1>2

(* The loop of queue_size visits the cells in order and then stops. *)
LEMMA WalkVisits ==
  ASSUME IInv
  PROVE  \A n \in Nat : Walk[n] = IF n < Len(cells) THEN cells[n + 1] ELSE NULL
<1> DEFINE At == [n \in Nat |-> IF n < Len(cells) THEN cells[n + 1] ELSE NULL]
           Loop(f) == [n \in Nat |-> IF n = 0 THEN _front
                                     ELSE IF f[n - 1] = NULL THEN NULL ELSE next[f[n - 1]]]
<1>1. Len(cells) \in Nat /\ (cells = <<>> <=> Len(cells) = 0) /\ \A i \in 1 .. Len(cells) : cells[i] # NULL
  BY NullAssumption DEF IInv, TypeOK
<1>2. ASSUME NEW n \in Nat PROVE At[n] = Loop(At)[n]
  <2>1. CASE n = 0
    BY <1>1, <2>1 DEF IInv, ListOK
  <2>2. CASE n # 0 /\ n - 1 < Len(cells)
    <3>1. n - 1 \in Nat /\ At[n - 1] = cells[n] /\ n \in 1 .. Len(cells)
      BY <1>1, <2>2
    <3>2. CASE n < Len(cells)
      BY <1>1, <2>2, <3>1, <3>2 DEF IInv, ListOK
    <3>3. CASE n = Len(cells)
      BY <1>1, <2>2, <3>1, <3>3 DEF IInv, ListOK
    <3>4. QED
      BY <1>1, <3>1, <3>2, <3>3
  <2>3. CASE n # 0 /\ ~(n - 1 < Len(cells))
    BY <1>1, <2>3
  <2>4. QED
    BY <2>1, <2>2, <2>3
<1>3. At = Loop(At)
  BY <1>2
<1>4. Walk = Loop(Walk)
  <2> HIDE DEF At
  <2>1. \E f : f = Loop(f)
    BY <1>3
  <2>2. QED
    BY <2>1 DEF Walk
<1>5. ASSUME NEW n \in Nat PROVE Walk[n] = IF n = 0 THEN _front
                                         ELSE IF Walk[n - 1] = NULL THEN NULL ELSE next[Walk[n - 1]]
  BY <1>4
<1>6. ASSUME NEW n \in Nat PROVE At[n] = IF n = 0 THEN _front
                                       ELSE IF At[n - 1] = NULL THEN NULL ELSE next[At[n - 1]]
  BY <1>2
<1> HIDE DEF At, Loop
<1>7. \A n \in Nat : Walk[n] = At[n]
  <2> DEFINE Wrong == {n \in Nat : Walk[n] # At[n]}
  <2> SUFFICES ASSUME Wrong # {} PROVE FALSE
    OBVIOUS
  <2>1. PICK n \in Wrong : \A k \in Wrong : n <= k
    BY LeastNumber
  <2>2. n \in Nat /\ Walk[n] # At[n]
    OBVIOUS
  <2>3. n # 0
    BY <1>5, <1>6, <2>2
  <2>4. n - 1 \in Nat /\ ~(n <= n - 1)
    BY <2>2, <2>3
  <2>5. Walk[n - 1] = At[n - 1]
    BY <2>1, <2>4
  <2>6. QED
    BY <1>5, <1>6, <2>2, <2>3, <2>5
<1>8. QED
  BY <1>7 DEF At

(* queue_size, queue_empty, queue_front and queue_back agree on what is in *)
(* the queue (queue.c:5-21), null values included, as getNextEvent relies  *)
(* on.                                                                     *)
THEOREM QueueObserversAgree == Spec => []ObserversAgree
<1>1. IInv => ObserversAgree
  <2> SUFFICES ASSUME IInv PROVE ObserversAgree
    OBVIOUS
  <2>1. Len(cells) \in Nat /\ (cells = <<>> <=> Len(cells) = 0) /\ \A i \in 1 .. Len(cells) : cells[i] # NULL
    BY NullAssumption DEF IInv, TypeOK
  <2>2. queue_size = Len(cells)
    <3> DEFINE Size(n) == /\ Walk[n] = NULL
                          /\ \A m \in 0 .. n - 1 : Walk[m] # NULL
    <3>1. \A n \in Nat : Walk[n] = NULL <=> n >= Len(cells)
      BY <2>1, WalkVisits
    <3>2. \A n \in 0 .. Len(cells) + 1 : Size(n) <=> n = Len(cells)
      <4> SUFFICES ASSUME NEW n \in 0 .. Len(cells) + 1 PROVE Size(n) <=> n = Len(cells)
        OBVIOUS
      <4>1. CASE n = Len(cells)
        BY <2>1, <3>1, <4>1
      <4>2. CASE n < Len(cells)
        BY <2>1, <3>1, <4>2
      <4>3. CASE n > Len(cells)
        <5>1. Len(cells) \in 0 .. n - 1 /\ Walk[Len(cells)] = NULL
          BY <2>1, <3>1, <4>3
        <5>2. QED
          BY <2>1, <4>3, <5>1
      <4>4. QED
        BY <2>1, <4>1, <4>2, <4>3
    <3>3. queue_size = CHOOSE n \in 0 .. Len(cells) + 1 : Size(n)
      BY DEF queue_size
    <3>4. Len(cells) \in 0 .. Len(cells) + 1
      BY <2>1
    <3> HIDE DEF Size
    <3>5. QED
      BY <3>2, <3>3, <3>4
  <2>3. queue_empty <=> Len(cells) = 0
    BY <2>1 DEF queue_empty, IInv, ListOK
  <2>4. Len(Contents) = Len(cells) /\ \A i \in 1 .. Len(cells) : Contents[i] = data[cells[i]]
    BY <2>1 DEF Contents
  <2>5. queue_front = IF queue_empty THEN NULL ELSE Head(Contents)
    <3>1. CASE cells = <<>>
      BY <2>1, <2>3, <3>1 DEF queue_front, IInv, ListOK
    <3>2. CASE cells # <<>>
      <4>1. Head(Contents) = data[_front]
        BY <2>1, <2>4, <3>2 DEF IInv, ListOK, Contents
      <4>2. _front # NULL
        BY <2>1, <3>2 DEF IInv, ListOK
      <4>3. QED
        BY <2>1, <2>3, <3>2, <4>1, <4>2 DEF queue_front
    <3>3. QED
      BY <3>1, <3>2
  <2>6. queue_back = IF queue_empty THEN NULL ELSE Contents[Len(Contents)]
    <3>1. CASE cells = <<>>
      BY <2>1, <2>3, <3>1 DEF queue_back, IInv, ListOK
    <3>2. CASE cells # <<>>
      <4>1. Contents[Len(Contents)] = data[_back] /\ _back # NULL
        BY <2>1, <2>4, <3>2 DEF IInv, ListOK
      <4>2. QED
        BY <2>1, <2>3, <3>2, <4>1 DEF queue_back
    <3>3. QED
      BY <3>1, <3>2
  <2>7. QED
    BY <2>2, <2>3, <2>5, <2>6 DEF ObserversAgree
<1>2. QED
  BY <1>1, QueueInvariant, PTL DEF IInv
=============================================================================

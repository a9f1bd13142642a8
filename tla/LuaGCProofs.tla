---------------------------- MODULE LuaGCProofs ----------------------------
(***************************************************************************)
(* The collector of Lua frees nothing a program can get at, whatever the   *)
(* program does between two of its steps: for every set of objects, every  *)
(* number of stack slots and every choice of weak tables and finalizers.   *)
(***************************************************************************)
EXTENDS LuaGC, FiniteSetTheorems, WellFoundedInduction, TLAPS

Colours == Whites \cup {"gray", "black"}
Phases == {"pause", "propagate", "sweepstring", "sweep", "finalize", "closed"}
GState ==
  [gcstate : Phases, currentwhite : Whites, mark : [Obj -> Colours],
   gray : SUBSET Obj, grayagain : SUBSET Obj, weak : SUBSET Obj,
   tmudata : SUBSET Obj, finalized : SUBSET Obj, sweepstrgc : SUBSET Obj, sweepgc : SUBSET Obj]

Keys == Obj \cup Slots \cup {None}

(* What may be a field of an object. *)
FieldOK(o, e) ==
  /\ Kind[o] # "string"
  /\ Kind[o] = "closure" <=> Kind[e[2]] = "upval"
  /\ Kind[o] = "udata" => Kind[e[2]] = "table"
  /\ e[1] \in Obj => Kind[o] = "table" /\ "k" \in Mode[o]

(* The object graph is one: fields fit their objects, what is not          *)
(* allocated has none, and open upvalues are open at threads.              *)
Graph ==
  /\ cast \in Casts /\ heap \subseteq cast
  /\ fields \in [Obj -> SUBSET (Keys \X Obj)]
  /\ \A o \in Obj : \A e \in fields[o] : FieldOK(o, e)
  /\ \A o \in Obj : o \notin heap => fields[o] = {}
  /\ open \in [Obj -> (Obj \X Slots) \cup {None}]
  /\ \A uv \in Obj : open[uv] # None =>
       /\ uv \in heap /\ Kind[uv] = "upval"
       /\ open[uv][1] \in heap /\ Kind[open[uv][1]] = "thread"

Lists(gs) == gs.gray \cup gs.grayagain \cup gs.weak
Listable(o) == Kind[o] \in {"table", "closure", "thread"}

(* The colour an object may have. *)
ColourOK(gs, o) ==
  /\ gs.mark[o] = "black" => Mode[o] = {} /\ Kind[o] \notin {"thread", "string"} /\ open[o] = None
  /\ gs.mark[o] = "gray" => Kind[o] # "udata" /\ (Kind[o] = "upval" => open[o] # None)
Coloured(gs) == \A o \in heap : ColourOK(gs, o)

ListsApart(gs) ==
  /\ gs.gray \cap gs.grayagain = {} /\ gs.gray \cap gs.weak = {}
  /\ \A o \in gs.grayagain : Mode[o] = {}
  /\ \A o \in gs.weak : Mode[o] # {}

(* While marking: the gray objects with a gclist field are on a list. *)
Listed(gs) ==
  /\ ListsApart(gs)
  /\ \A o \in Lists(gs) : o \in heap /\ gs.mark[o] = "gray" /\ Listable(o)
  /\ \A o \in heap : gs.mark[o] = "gray" /\ Listable(o) => o \in Lists(gs)

(* An object is done when it points to no white one; marking is settled,   *)
(* but for the objects E, when what is marked and not on gray is done.     *)
Done(gs, o) == \A k \in StrongKids(o) : ~iswhite(gs, k)
Settled(gs, E) == \A o \in heap : ~iswhite(gs, o) /\ o \notin gs.gray /\ o \notin E => Done(gs, o)
Fresh(gs) == \A o \in heap : ~isdead(gs, o)
Steady(gs, E) == gs \in GState /\ Coloured(gs) /\ Fresh(gs) /\ Listed(gs) /\ Settled(gs, E)

(* What the atomic step looks at again. *)
OpenUpvals == {uv \in Obj : open[uv] # None}
Again(gs) == gs.tmudata \cup gs.grayagain \cup gs.weak \cup OpenUpvals

(* What the sweep will not free, and what follows from it. *)
Live == {o \in heap : ~isdead(g, o)}
Safe == \A o \in Live : AllKids(o) \subseteq Live

Unswept(gs, o) == o \in gs.sweepstrgc \cup gs.sweepgc \/ (open[o] # None /\ open[o][1] \in gs.sweepgc)

Sweeping ==
  /\ g.gcstate \in {"sweep", "finalize", "pause"} => g.sweepstrgc = {}
  /\ g.gcstate \in {"finalize", "pause"} => g.sweepgc = {}
  /\ g.gcstate \notin {"propagate", "closed"} =>
       /\ g.gray = {}
       /\ \A o \in heap : g.mark[o] = g.currentwhite \/ o \in g.tmudata \/ Unswept(g, o)
  /\ g.gcstate \in {"pause", "propagate", "finalize"} => Fresh(g)

Marking ==
  g.gcstate = "propagate" =>
    /\ Listed(g) /\ ~iswhite(g, Main)
    /\ full # "close" => Settled(g, Again(g))

Finalizing ==
  /\ g.tmudata \subseteq Live \cap HasGC \cap g.finalized
  /\ \A u \in heap : IsA(u, "udata") /\ isdead(g, u) => u \in g.finalized

GCInv ==
  /\ Graph /\ g \in GState /\ full \in {"no", "sweep", "mark", "close"}
  /\ Coloured(g) /\ ListsApart(g)
  /\ g.gcstate # "closed" => Main \in Live /\ Safe
  /\ g.gcstate = "closed" => full = "no"
  /\ Sweeping /\ Marking /\ Finalizing
-----------------------------------------------------------------------------
(* The object graph.                                                       *)

(* What an upvalue holds is what a thread or a closed upvalue may hold. *)
LEMMA FieldsFit ==
  ASSUME Graph, NEW o \in Obj
  PROVE  /\ FieldsOf(o) \in SUBSET (Keys \X Obj)
         /\ \A e \in FieldsOf(o) : FieldOK(o, e)
<1>1. CASE Kind[o] = "upval" /\ open[o] # None
  <2>1. open[o][1] \in Obj /\ Kind[open[o][1]] = "thread" /\ open[o][2] \in Slots
    BY <1>1 DEF Graph
  <2>2. fields[open[o][1]] \in SUBSET (Keys \X Obj) /\ \A e \in fields[open[o][1]] : FieldOK(open[o][1], e)
    BY <2>1 DEF Graph
  <2>3. \A e \in fields[open[o][1]] : e[1] = open[o][2] => FieldOK(o, e)
    BY <1>1, <2>1, <2>2, NoneAssumption DEF FieldOK
  <2>4. QED
    BY <1>1, <2>2, <2>3 DEF FieldsOf, UpFields, IsA
<1>2. CASE ~(Kind[o] = "upval" /\ open[o] # None)
  <2>1. FieldsOf(o) = fields[o]
    BY <1>2 DEF FieldsOf, UpFields, IsA
  <2>2. QED
    BY <2>1 DEF Graph
<1>3. QED
  BY <1>1, <1>2

(* Only the keys of a table with weak keys are objects: for all others the *)
(* objects the collector follows are the values.                           *)
LEMMA Kids ==
  ASSUME Graph, NEW o \in Obj
  PROVE  /\ KeysOf(o) \subseteq Obj /\ ValuesOf(o) \subseteq Obj /\ AllKids(o) \subseteq Obj
         /\ ValuesOf(o) \subseteq AllKids(o) /\ StrongKids(o) \subseteq ValuesOf(o)
         /\ Mode[o] = {} => StrongKids(o) = AllKids(o) /\ AllKids(o) = ValuesOf(o)
         /\ Kind[o] = "string" => ValuesOf(o) = {} /\ AllKids(o) = {}
         /\ Kind[o] = "udata" => \A k \in ValuesOf(o) : Kind[k] = "table"
         /\ Kind[o] # "closure" => \A k \in ValuesOf(o) : Kind[k] # "upval"
<1>1. FieldsOf(o) \in SUBSET (Keys \X Obj) /\ \A e \in FieldsOf(o) : FieldOK(o, e)
  BY FieldsFit
<1>2. \A e \in FieldsOf(o) : e[2] \in Obj
  BY <1>1
<1>3. "k" \notin Mode[o] => KeysOf(o) = {}
  BY <1>1 DEF KeysOf, FieldOK
<1>4. ValuesOf(o) \subseteq Obj /\ KeysOf(o) \subseteq Obj
  BY <1>2 DEF ValuesOf, KeysOf
<1>5. Kind[o] = "string" => FieldsOf(o) = {}
  BY <1>1 DEF FieldOK
<1>6. \A k \in ValuesOf(o) : \E e \in FieldsOf(o) : k = e[2]
  BY DEF ValuesOf
<1>7. QED
  BY <1>1, <1>3, <1>4, <1>5, <1>6 DEF AllKids, StrongKids, FieldOK, ValuesOf, KeysOf

(* Tables alone are weak, upvalues alone are open, and the main thread is  *)
(* neither.                                                                *)
LEMMA Strict ==
  ASSUME Graph, NEW o \in Obj
  PROVE  /\ Kind[o] \in Kinds /\ Mode[o] \in SUBSET {"k", "v"}
         /\ Kind[o] # "table" => Mode[o] = {}
         /\ Kind[o] # "upval" => open[o] = None
         /\ o \in HasGC => Kind[o] = "udata"
  BY KindAssumption, ModeAssumption DEF Graph

-----------------------------------------------------------------------------
(* Marking.                                                                *)

(* What the collector marks on account of o: what o points to strongly and  *)
(* the strings it points to at all, when weak tables are cleared.          *)
Keeps(o) == StrongKids(o) \cup Strings(AllKids(o))

(* Nothing outside of G leads into it, and all of G is white. *)
OutOf(G) == \A o \in heap : o \notin G => Keeps(o) \cap G = {}
AllWhite(gs, G) == \A o \in heap : o \in G => iswhite(gs, o)

(* T is a set of white objects that reallymarkobject colours on account of *)
(* S: it holds what is white in S and what userdata and upvalues of its    *)
(* own hold.                                                               *)
Swath(gs, S, T) ==
  /\ T \in SUBSET Obj
  /\ \A o \in T : iswhite(gs, o)
  /\ \A o \in S : iswhite(gs, o) => o \in T
  /\ \A o \in T : Kind[o] \in {"udata", "upval"} => \A k \in ValuesOf(o) : iswhite(gs, k) => k \in T
  /\ \A o \in T : Kind[o] = "upval" => o \in S
  /\ \A C \in SUBSET Obj :
       S \subseteq C /\ (\A o \in C : Kind[o] \in {"udata", "upval"} => ValuesOf(o) \subseteq C) => T \subseteq C

(* reallymarkobject (lgc.c:68) colours such a set; two levels of it are    *)
(* enough.                                                                 *)
LEMMA Marked ==
  ASSUME Graph, NEW gs \in GState, NEW S \in SUBSET Obj
  PROVE  \E T : Swath(gs, S, T) /\ reallymarkobject(gs, S) = SetMarks(gs, T)
<1> DEFINE W == {o \in S : iswhite(gs, o)}
           T1 == Through(gs, W)
           T2 == Through(gs, T1)
           Between(x) == Kind[x] \in {"udata", "upval"}
<1>1. ASSUME NEW A \in SUBSET Obj
      PROVE  /\ A \subseteq Through(gs, A) /\ Through(gs, A) \in SUBSET Obj
             /\ \A k \in Through(gs, A) : k \notin A => iswhite(gs, k) /\ \E x \in A : Between(x) /\ k \in ValuesOf(x)
             /\ \A x \in A : Between(x) => \A k \in ValuesOf(x) : iswhite(gs, k) => k \in Through(gs, A)
  <2>1. \A x \in A : ValuesOf(x) \subseteq Obj
    BY Kids
  <2>2. QED
    BY <2>1 DEF Through
<1>2. W \in SUBSET Obj /\ \A o \in W : iswhite(gs, o)
  OBVIOUS
<1> HIDE DEF W
<1>3. W \subseteq T1 /\ T1 \in SUBSET Obj
  BY <1>1, <1>2
<1>4. \A k \in T1 : k \notin W => iswhite(gs, k) /\ \E x \in W : Between(x) /\ k \in ValuesOf(x)
  BY <1>1, <1>2
<1>5. \A x \in W : Between(x) => \A k \in ValuesOf(x) : iswhite(gs, k) => k \in T1
  BY <1>1, <1>2
<1>6. T1 \subseteq T2 /\ T2 \in SUBSET Obj
  BY <1>1, <1>3
<1>7. \A k \in T2 : k \notin T1 => iswhite(gs, k) /\ \E x \in T1 : Between(x) /\ k \in ValuesOf(x)
  BY <1>1, <1>3
<1>8. \A x \in T1 : Between(x) => \A k \in ValuesOf(x) : iswhite(gs, k) => k \in T2
  BY <1>1, <1>3
<1>9. reallymarkobject(gs, S) = SetMarks(gs, T2)
  BY DEF reallymarkobject, W
<1> HIDE DEF T1, T2
<1>10. \A o \in T2 : iswhite(gs, o)
  BY <1>2, <1>3, <1>4, <1>6, <1>7
<1>11. \A o \in S : iswhite(gs, o) => o \in T2
  BY <1>3, <1>6 DEF W
<1>12. ASSUME NEW o \in T1, o \notin W PROVE Kind[o] \in {"udata", "table", "closure", "thread", "string"}
  <2>1. PICK x \in W : Between(x) /\ o \in ValuesOf(x)
    BY <1>4, <1>12
  <2>2. x \in Obj /\ o \in Obj
    BY <1>2, <1>3
  <2>3. Kind[x] # "closure"
    BY <2>1
  <2>4. Kind[o] # "upval"
    BY <2>1, <2>2, <2>3, Kids
  <2>5. QED
    BY <2>2, <2>4, Strict DEF Kinds
<1>13. ASSUME NEW o \in T2, o \notin T1 PROVE Kind[o] = "table"
  <2>1. PICK x \in T1 : Between(x) /\ o \in ValuesOf(x)
    BY <1>7, <1>13
  <2>2. x \in Obj /\ o \in Obj /\ iswhite(gs, o)
    BY <1>3, <1>6, <1>10
  <2>3. x \notin W
    BY <1>5, <1>13, <2>1, <2>2
  <2>4. Kind[x] = "udata"
    BY <1>12, <2>1, <2>3
  <2>5. QED
    BY <2>1, <2>2, <2>4, Kids
<1>14. \A o \in T2 : Between(o) => \A k \in ValuesOf(o) : iswhite(gs, k) => k \in T2
  BY <1>8, <1>13
<1>15. \A o \in T2 : Kind[o] = "upval" => o \in S
  BY <1>12, <1>13 DEF W
<1>16. ASSUME NEW C \in SUBSET Obj, S \subseteq C, \A o \in C : Between(o) => ValuesOf(o) \subseteq C
       PROVE  T2 \subseteq C
  <2>1. W \subseteq C
    BY <1>16 DEF W
  <2>2. T1 \subseteq C
    BY <1>4, <1>16, <2>1
  <2>3. QED
    BY <1>7, <1>16, <2>2
<1>17. Swath(gs, S, T2)
  BY <1>6, <1>10, <1>11, <1>14, <1>15, <1>16 DEF Swath
<1>18. QED
  BY <1>9, <1>17

(* What SetMarks writes. *)
LEMMA MarksWritten ==
  ASSUME Graph, NEW gs \in GState, NEW T \in SUBSET Obj
  PROVE  /\ SetMarks(gs, T) \in GState
         /\ \A o \in Obj : SetMarks(gs, T).mark[o] = IF o \in T THEN NewMark(o) ELSE gs.mark[o]
         /\ SetMarks(gs, T).gray = gs.gray \cup {o \in T : Listable(o)}
         /\ SetMarks(gs, T).weak = gs.weak /\ SetMarks(gs, T).grayagain = gs.grayagain
         /\ SetMarks(gs, T).tmudata = gs.tmudata /\ SetMarks(gs, T).finalized = gs.finalized
         /\ SetMarks(gs, T).gcstate = gs.gcstate /\ SetMarks(gs, T).currentwhite = gs.currentwhite
         /\ SetMarks(gs, T).sweepstrgc = gs.sweepstrgc /\ SetMarks(gs, T).sweepgc = gs.sweepgc
<1>1. \A o \in Obj : NewMark(o) \in Colours
  BY DEF NewMark, Colours
<1>2. [o \in Obj |-> IF o \in T THEN NewMark(o) ELSE gs.mark[o]] \in [Obj -> Colours]
  BY <1>1 DEF GState
<1>3. gs.gray \cup {o \in T : Kind[o] \in {"table", "closure", "thread"}} \in SUBSET Obj
  BY DEF GState
<1>4. QED
  BY <1>2, <1>3 DEF SetMarks, GState, Listable

(* Marking turns nothing white and leaves the rest of the state alone. *)
Grows(a, b) ==
  /\ \A o \in Obj : ~iswhite(a, o) => ~iswhite(b, o)
  /\ \A o \in b.gray : o \in a.gray \/ iswhite(a, o)
  /\ a.weak \subseteq b.weak /\ a.grayagain \subseteq b.grayagain
  /\ b.tmudata = a.tmudata /\ b.finalized = a.finalized
  /\ b.gcstate = a.gcstate /\ b.currentwhite = a.currentwhite
  /\ b.sweepstrgc = a.sweepstrgc /\ b.sweepgc = a.sweepgc

HeapClosed == heap \subseteq Obj /\ \A o \in heap : ValuesOf(o) \subseteq heap

(* Colouring such a set keeps colours and lists in order, and leaves no    *)
(* work behind: what it colours is on gray or done.                        *)
LEMMA SwathKeeps ==
  ASSUME Graph, HeapClosed, NEW gs \in GState, NEW S \in SUBSET heap, NEW T, Swath(gs, S, T),
         NEW r, r = SetMarks(gs, T)
  PROVE  /\ r \in GState /\ Grows(gs, r) /\ r.weak = gs.weak /\ r.grayagain = gs.grayagain
         /\ T \subseteq heap /\ \A o \in S : ~iswhite(r, o)
         /\ Fresh(gs) => Fresh(r)
         /\ Coloured(gs) => Coloured(r)
         /\ Listed(gs) => Listed(r)
         /\ \A E : (\A o \in heap : ~iswhite(gs, o) /\ o \notin gs.gray /\ o \notin E => Done(r, o))
                     => Settled(r, E)
<1>1. T \in SUBSET Obj /\ heap \in SUBSET Obj
  BY DEF Swath, HeapClosed
<1>2. /\ r \in GState
      /\ \A o \in Obj : r.mark[o] = IF o \in T THEN NewMark(o) ELSE gs.mark[o]
      /\ r.gray = gs.gray \cup {o \in T : Listable(o)}
      /\ r.weak = gs.weak /\ r.grayagain = gs.grayagain
      /\ r.tmudata = gs.tmudata /\ r.finalized = gs.finalized
      /\ r.gcstate = gs.gcstate /\ r.currentwhite = gs.currentwhite
      /\ r.sweepstrgc = gs.sweepstrgc /\ r.sweepgc = gs.sweepgc
  BY <1>1, MarksWritten
<1>3. \A o \in Obj : NewMark(o) \in {"gray", "black"} /\ ~(NewMark(o) \in Whites)
  BY DEF NewMark, Whites
<1>4. T \subseteq heap
  BY <1>1 DEF Swath, HeapClosed
<1>5. \A o \in Obj : iswhite(r, o) <=> iswhite(gs, o) /\ o \notin T
  BY <1>2, <1>3 DEF iswhite
<1>6. Grows(gs, r)
  BY <1>2, <1>5 DEF Grows, Swath
<1>7. \A o \in S : ~iswhite(r, o)
  BY <1>1, <1>5 DEF Swath
<1>8. Fresh(gs) => Fresh(r)
  BY <1>1, <1>2, <1>3 DEF Fresh, isdead, otherwhite, Whites
<1>9. ASSUME Coloured(gs) PROVE Coloured(r)
  <2> SUFFICES ASSUME NEW o \in heap PROVE ColourOK(r, o)
    BY DEF Coloured
  <2>1. o \in Obj /\ ColourOK(gs, o)
    BY <1>1, <1>9 DEF Coloured
  <2>2. CASE o \in T
    <3>1. r.mark[o] = NewMark(o)
      BY <1>2, <2>1, <2>2
    <3>2. QED
      BY <2>1, <3>1, Strict DEF ColourOK, NewMark, IsA
  <2>3. CASE o \notin T
    BY <1>2, <2>1, <2>3 DEF ColourOK
  <2>4. QED
    BY <2>2, <2>3
<1>10. ASSUME Listed(gs) PROVE Listed(r)
  <2>1. \A o \in T : o \notin Lists(gs)
    BY <1>10 DEF Listed, Swath, iswhite, Whites
  <2>2. ListsApart(r)
    BY <1>2, <1>10, <2>1 DEF Listed, ListsApart, Lists
  <2>3. ASSUME NEW o \in Lists(r) PROVE o \in heap /\ r.mark[o] = "gray" /\ Listable(o)
    <3>1. CASE o \in T
      <4>1. Listable(o) /\ o \in heap /\ o \in Obj
        BY <1>1, <1>2, <1>4, <2>1, <2>3, <3>1 DEF Lists
      <4>2. QED
        BY <1>2, <3>1, <4>1 DEF NewMark, IsA, Listable
    <3>2. CASE o \notin T
      BY <1>1, <1>2, <1>10, <2>3, <3>2 DEF Lists, Listed
    <3>3. QED
      BY <3>1, <3>2
  <2>4. ASSUME NEW o \in heap, r.mark[o] = "gray", Listable(o) PROVE o \in Lists(r)
    <3>1. CASE o \in T
      BY <1>2, <2>4, <3>1 DEF Lists
    <3>2. CASE o \notin T
      BY <1>1, <1>2, <1>10, <2>4, <3>2 DEF Lists, Listed
    <3>3. QED
      BY <3>1, <3>2
  <2>5. QED
    BY <2>2, <2>3, <2>4 DEF Listed
<1>11. ASSUME NEW E, \A o \in heap : ~iswhite(gs, o) /\ o \notin gs.gray /\ o \notin E => Done(r, o)
       PROVE  Settled(r, E)
  <2> SUFFICES ASSUME NEW o \in heap, ~iswhite(r, o), o \notin r.gray, o \notin E PROVE Done(r, o)
    BY DEF Settled
  <2>1. CASE o \in T
    <3>1. o \in Obj /\ ~Listable(o)
      BY <1>1, <1>2, <2>1
    <3>2. Kind[o] \in {"udata", "upval", "string"}
      BY <3>1, Strict DEF Listable, Kinds
    <3>3. StrongKids(o) \subseteq ValuesOf(o) /\ ValuesOf(o) \subseteq Obj /\ (Kind[o] = "string" => ValuesOf(o) = {})
      BY <3>1, Kids
    <3>4. CASE Kind[o] = "string"
      BY <3>3, <3>4 DEF Done
    <3>5. CASE Kind[o] \in {"udata", "upval"}
      BY <1>5, <2>1, <3>3, <3>5 DEF Done, Swath
    <3>6. QED
      BY <3>2, <3>4, <3>5
  <2>2. CASE o \notin T
    BY <1>1, <1>2, <1>5, <1>11, <2>2
  <2>3. QED
    BY <2>1, <2>2
<1>12. QED
  BY <1>2, <1>4, <1>6, <1>7, <1>8, <1>9, <1>10, <1>11

(* reallymarkobject in the middle of marking. *)
LEMMA MarkKeeps ==
  ASSUME Graph, HeapClosed, NEW gs, NEW E, Steady(gs, E), NEW S \in SUBSET heap
  PROVE  /\ Steady(reallymarkobject(gs, S), E) /\ Grows(gs, reallymarkobject(gs, S))
         /\ \A o \in S : ~iswhite(reallymarkobject(gs, S), o)
<1> DEFINE r == reallymarkobject(gs, S)
<1>1. gs \in GState /\ S \in SUBSET Obj
  BY DEF Steady, HeapClosed
<1>2. PICK T : Swath(gs, S, T) /\ r = SetMarks(gs, T)
  BY <1>1, Marked
<1> HIDE DEF r
<1>3. /\ r \in GState /\ Grows(gs, r)
      /\ T \subseteq heap /\ \A o \in S : ~iswhite(r, o)
      /\ Fresh(gs) => Fresh(r)
      /\ Coloured(gs) => Coloured(r)
      /\ Listed(gs) => Listed(r)
      /\ (\A o \in heap : ~iswhite(gs, o) /\ o \notin gs.gray /\ o \notin E => Done(r, o)) => Settled(r, E)
  BY <1>1, <1>2, SwathKeeps
<1>4. ASSUME NEW o \in heap, Done(gs, o) PROVE Done(r, o)
  <2>1. StrongKids(o) \subseteq Obj
    BY Kids DEF HeapClosed
  <2>2. QED
    BY <1>3, <1>4, <2>1 DEF Done, Grows
<1>5. Settled(r, E)
  BY <1>3, <1>4 DEF Settled, Steady
<1>6. QED
  BY <1>3, <1>5 DEF Steady, r

(* Marking from outside of G leaves G white. *)
LEMMA MarkSpares ==
  ASSUME Graph, HeapClosed, NEW gs \in GState, NEW S \in SUBSET heap,
         NEW G, OutOf(G), AllWhite(gs, G), S \cap G = {}
  PROVE  AllWhite(reallymarkobject(gs, S), G)
<1>1. S \in SUBSET Obj /\ heap \in SUBSET Obj
  BY DEF HeapClosed
<1>2. PICK T : Swath(gs, S, T) /\ reallymarkobject(gs, S) = SetMarks(gs, T)
  BY <1>1, Marked
<1> DEFINE C == heap \ G
<1>3. ASSUME NEW o \in C, Kind[o] \in {"udata", "upval"} PROVE ValuesOf(o) \subseteq C
  <2>1. o \in Obj /\ Mode[o] = {}
    BY <1>1, <1>3, Strict
  <2>2. ValuesOf(o) = StrongKids(o) /\ ValuesOf(o) \subseteq heap
    BY <1>3, <2>1, Kids DEF HeapClosed
  <2>3. QED
    BY <1>3, <2>2 DEF OutOf, Keeps
<1>4. C \in SUBSET Obj /\ S \subseteq C
  BY <1>1
<1>5. T \subseteq C /\ T \in SUBSET Obj
  BY <1>2, <1>3, <1>4 DEF Swath
<1>6. \A o \in heap : o \in G => SetMarks(gs, T).mark[o] = gs.mark[o]
  BY <1>1, <1>5, MarksWritten
<1>7. QED
  BY <1>2, <1>6 DEF AllWhite, iswhite

(* The objects that are marked and worked off. *)
Worked(gs) == {o \in heap : ~iswhite(gs, o) /\ o \notin gs.gray}

(* What traversing an object writes. *)
LEMMA TraversedIs ==
  ASSUME NEW gs \in GState, NEW o \in Obj
  PROVE  /\ Traversed(gs, o) \in GState
         /\ Traversed(gs, o).gray = gs.gray \ {o}
         /\ Traversed(gs, o).weak = IF Mode[o] # {} THEN gs.weak \cup {o} ELSE gs.weak
         /\ Traversed(gs, o).grayagain = IF Kind[o] = "thread" THEN gs.grayagain \cup {o} ELSE gs.grayagain
         /\ Traversed(gs, o).mark =
              [gs.mark EXCEPT ![o] = IF Mode[o] # {} \/ Kind[o] = "thread" THEN "gray" ELSE "black"]
         /\ Traversed(gs, o).tmudata = gs.tmudata /\ Traversed(gs, o).finalized = gs.finalized
         /\ Traversed(gs, o).gcstate = gs.gcstate /\ Traversed(gs, o).currentwhite = gs.currentwhite
         /\ Traversed(gs, o).sweepstrgc = gs.sweepstrgc /\ Traversed(gs, o).sweepgc = gs.sweepgc
<1> DEFINE t == Traversed(gs, o)
           W == IF Mode[o] # {} THEN gs.weak \cup {o} ELSE gs.weak
           A == IF Kind[o] = "thread" THEN gs.grayagain \cup {o} ELSE gs.grayagain
           c == IF Mode[o] # {} \/ Kind[o] = "thread" THEN "gray" ELSE "black"
           G == gs.gray \ {o}
           M == [gs.mark EXCEPT ![o] = c]
<1>1. t = [gs EXCEPT !.gray = G, !.weak = W, !.grayagain = A, !.mark = M]
  BY DEF Traversed, IsA
<1>2. gs.mark \in [Obj -> Colours] /\ c \in Colours
  BY DEF GState, Colours
<1>3. W \in SUBSET Obj /\ A \in SUBSET Obj /\ G \in SUBSET Obj
  BY DEF GState
<1> HIDE DEF c
<1>4. M \in [Obj -> Colours]
  BY <1>2
<1> HIDE DEF W, A, G, M, t
<1>5. /\ t \in GState /\ t.gray = G /\ t.weak = W /\ t.grayagain = A /\ t.mark = M
      /\ t.tmudata = gs.tmudata /\ t.finalized = gs.finalized
      /\ t.gcstate = gs.gcstate /\ t.currentwhite = gs.currentwhite
      /\ t.sweepstrgc = gs.sweepstrgc /\ t.sweepgc = gs.sweepgc
  BY <1>1, <1>3, <1>4 DEF GState
<1>6. QED
  BY <1>5 DEF t, W, A, G, M, c

(* propagatemark (lgc.c:273) works off one more object. *)
LEMMA PropagateKeeps ==
  ASSUME Graph, HeapClosed, NEW gs, NEW E, Steady(gs, E), NEW o \in gs.gray
  PROVE  /\ Steady(propagatemark(gs, o), E) /\ Grows(gs, propagatemark(gs, o))
         /\ o \notin Worked(gs) /\ Worked(gs) \cup {o} \subseteq Worked(propagatemark(gs, o))
<1> DEFINE t == Traversed(gs, o)
           r == reallymarkobject(t, StrongKids(o))
<1>1. gs \in GState /\ o \in heap /\ o \in Obj /\ heap \subseteq Obj
  BY DEF Steady, Listed, Lists, HeapClosed
<1>2. gs.mark[o] = "gray" /\ Listable(o) /\ o \notin gs.weak /\ o \notin gs.grayagain
  BY DEF Steady, Listed, Lists, ListsApart
<1>3. /\ Kind[o] \in {"table", "closure", "thread"} /\ open[o] = None
      /\ (Kind[o] # "table" => Mode[o] = {})
  BY <1>1, <1>2, Strict DEF Listable
<1>4. /\ t \in GState
      /\ t.gray = gs.gray \ {o}
      /\ t.weak = IF Mode[o] # {} THEN gs.weak \cup {o} ELSE gs.weak
      /\ t.grayagain = IF Kind[o] = "thread" THEN gs.grayagain \cup {o} ELSE gs.grayagain
      /\ t.mark = [gs.mark EXCEPT ![o] = IF Mode[o] # {} \/ Kind[o] = "thread" THEN "gray" ELSE "black"]
      /\ t.tmudata = gs.tmudata /\ t.finalized = gs.finalized
      /\ t.gcstate = gs.gcstate /\ t.currentwhite = gs.currentwhite
      /\ t.sweepstrgc = gs.sweepstrgc /\ t.sweepgc = gs.sweepgc
  BY <1>1, TraversedIs
<1>5. gs.mark \in [Obj -> Colours] /\ gs.currentwhite \in Whites
  BY <1>1 DEF GState
<1> HIDE DEF t
<1>6. \A x \in Obj : t.mark[x] = IF x # o THEN gs.mark[x]
                                 ELSE IF Mode[o] # {} \/ Kind[o] = "thread" THEN "gray" ELSE "black"
  BY <1>1, <1>4, <1>5
<1>7. \A x \in Obj : iswhite(t, x) <=> iswhite(gs, x)
  BY <1>2, <1>6 DEF iswhite, Whites
<1>8. Fresh(t)
  <2>1. Fresh(gs)
    BY DEF Steady
  <2>2. QED
    BY <1>1, <1>4, <1>6, <2>1 DEF Fresh, isdead, otherwhite, Whites
<1>9. Coloured(t)
  <2>1. Coloured(gs)
    BY DEF Steady
  <2>2. QED
    BY <1>1, <1>3, <1>6, <2>1 DEF Coloured, ColourOK
<1>10. Listed(t)
  <2>1. Listed(gs)
    BY DEF Steady
  <2>2. ListsApart(t)
    BY <1>2, <1>3, <1>4, <2>1 DEF Listed, ListsApart
  <2>3. ASSUME NEW x \in Lists(t) PROVE x \in heap /\ t.mark[x] = "gray" /\ Listable(x)
    <3>1. x \in Lists(gs)
      BY <1>4, <2>3 DEF Lists
    <3>2. x = o => Mode[o] # {} \/ Kind[o] = "thread"
      BY <1>2, <1>4, <2>3 DEF Lists
    <3>3. QED
      BY <1>1, <1>6, <2>1, <3>1, <3>2 DEF Listed
  <2>4. ASSUME NEW x \in heap, t.mark[x] = "gray", Listable(x) PROVE x \in Lists(t)
    BY <1>1, <1>4, <1>6, <2>1, <2>4 DEF Listed, Lists
  <2>5. QED
    BY <2>2, <2>3, <2>4 DEF Listed
<1>11. Settled(t, E \cup {o})
  BY <1>1, <1>4, <1>7, Kids DEF Steady, Settled, Done
<1>12. Steady(t, E \cup {o}) /\ Grows(gs, t)
  BY <1>4, <1>7, <1>8, <1>9, <1>10, <1>11 DEF Steady, Grows
<1>13. StrongKids(o) \in SUBSET heap
  BY <1>1, Kids DEF HeapClosed
<1>14. Steady(r, E \cup {o}) /\ Grows(t, r) /\ \A k \in StrongKids(o) : ~iswhite(r, k)
  BY <1>12, <1>13, MarkKeeps
<1>15. propagatemark(gs, o) = r
  BY DEF propagatemark, t
<1> HIDE DEF r
<1>16. Steady(r, E)
  BY <1>14 DEF Steady, Settled, Done
<1>17. Grows(gs, r)
  <2>1. r.gray \subseteq Obj /\ t.gray \subseteq Obj
    BY <1>4, <1>14 DEF Steady, GState
  <2>2. QED
    BY <1>7, <1>12, <1>14, <2>1 DEF Grows
<1>18. Worked(gs) \cup {o} \subseteq Worked(r)
  <2>1. ~iswhite(gs, o)
    BY <1>2 DEF iswhite, Whites
  <2>2. o \notin r.gray
    BY <1>1, <1>4, <1>7, <1>14, <2>1 DEF Grows
  <2>3. QED
    BY <1>1, <1>17, <2>1, <2>2 DEF Worked, Grows
<1>19. QED
  BY <1>15, <1>16, <1>17, <1>18 DEF Worked

(* So does propagating. *)
LEMMA PropagateSpares ==
  ASSUME Graph, HeapClosed, NEW gs, NEW E, Steady(gs, E), NEW o \in gs.gray,
         NEW G, OutOf(G), AllWhite(gs, G)
  PROVE  AllWhite(propagatemark(gs, o), G)
<1> DEFINE t == Traversed(gs, o)
<1>1. gs \in GState /\ o \in heap /\ o \in Obj /\ gs.mark[o] = "gray" /\ heap \subseteq Obj
  BY DEF Steady, Listed, Lists, HeapClosed
<1>2. o \notin G
  BY <1>1 DEF AllWhite, iswhite, Whites
<1>3. t \in GState /\ \A x \in Obj : x # o => t.mark[x] = gs.mark[x]
  <2>1. t \in GState /\ t.mark = [gs.mark EXCEPT ![o] = IF Mode[o] # {} \/ Kind[o] = "thread" THEN "gray" ELSE "black"]
    BY <1>1, TraversedIs
  <2>2. gs.mark \in [Obj -> Colours]
    BY <1>1 DEF GState
  <2> HIDE DEF t
  <2>3. QED
    BY <1>1, <2>1, <2>2
<1> HIDE DEF t
<1>4. AllWhite(t, G)
  BY <1>1, <1>2, <1>3 DEF AllWhite, iswhite
<1>5. StrongKids(o) \in SUBSET heap /\ StrongKids(o) \cap G = {}
  BY <1>1, <1>2, Kids DEF HeapClosed, OutOf, Keeps
<1>6. AllWhite(reallymarkobject(t, StrongKids(o)), G)
  BY <1>3, <1>4, <1>5, MarkSpares
<1>7. QED
  BY <1>6 DEF propagatemark, t

-----------------------------------------------------------------------------
(* Repeated steps.                                                         *)

(* Every set of numbers has a least one: induction, in the form of a least *)
(* counterexample.                                                         *)
LEMMA LeastNumber ==
  ASSUME NEW N, N \subseteq Nat, N # {}
  PROVE  \E m \in N : \A k \in N : m <= k
<1>1. PICK m \in N : \A k \in N : ~(<<k, m>> \in OpToRel(<, Nat))
  BY NatLessThanWellFounded, WFMin
<1>2. \A k \in N : ~(k < m)
  BY <1>1 DEF OpToRel
<1>3. QED
  BY <1>2

(* The sequence of the values of a function applied again and again. *)
Repeatable(X, F, a, m) == F \in [X -> X] /\ a \in X /\ m \in Nat
Repeats(X, F, a, m, p) ==
  p \in [0 .. m -> X] /\ p[0] = a /\ \A n \in 1 .. m : p[n] = F[p[n - 1]]

(* A function can be applied any number of times. *)
LEMMA Iterates ==
  ASSUME NEW X, NEW F, NEW a, NEW m, Repeatable(X, F, a, m)
  PROVE  \E p : Repeats(X, F, a, m, p)
<1> DEFINE Runs(k, p) == p[0] = a /\ \A n \in 1 .. k : p[n] = F[p[n - 1]]
           Short == {k \in Nat : ~\E p \in [0 .. k -> X] : Runs(k, p)}
<1> USE DEF Repeatable, Repeats
<1> SUFFICES ASSUME Short # {} PROVE FALSE
  OBVIOUS
<1>1. PICK k \in Short : \A j \in Short : k <= j
  BY LeastNumber
<1>2. k \in Nat /\ ~\E p \in [0 .. k -> X] : Runs(k, p)
  OBVIOUS
<1>3. k # 0
  <2> SUFFICES ASSUME k = 0 PROVE FALSE
    OBVIOUS
  <2>1. [n \in 0 .. k |-> a] \in [0 .. k -> X] /\ Runs(k, [n \in 0 .. k |-> a])
    OBVIOUS
  <2>2. QED
    BY <1>2, <2>1
<1>4. k - 1 \in Nat /\ ~(k <= k - 1)
  BY <1>2, <1>3
<1>5. PICK q \in [0 .. k - 1 -> X] : Runs(k - 1, q)
  BY <1>1, <1>4
<1> DEFINE p == [n \in 0 .. k |-> IF n = k THEN F[q[k - 1]] ELSE q[n]]
<1>6. q[k - 1] \in X
  BY <1>4, <1>5
<1>7. p \in [0 .. k -> X]
  BY <1>4, <1>5, <1>6
<1>8. p[0] = a
  BY <1>2, <1>3, <1>5
<1>9. ASSUME NEW n \in 1 .. k PROVE p[n] = F[p[n - 1]]
  <2>1. CASE n = k
    BY <1>2, <1>3, <1>4, <2>1
  <2>2. CASE n # k
    BY <1>2, <1>5, <2>2
  <2>3. QED
    BY <2>1, <2>2
<1>10. QED
  BY <1>2, <1>7, <1>8, <1>9

(* One round of propagateall stays within the states of the collector. *)
LEMMA PropagateType ==
  ASSUME Graph, NEW gs \in GState
  PROVE  PropagateOne(gs) \in GState
<1>1. CASE gs.gray = {}
  BY <1>1 DEF PropagateOne
<1>2. CASE gs.gray # {}
  <2> DEFINE o == CHOOSE x \in gs.gray : TRUE
  <2>1. o \in gs.gray /\ o \in Obj
    BY <1>2 DEF GState
  <2>2. PropagateOne(gs) = propagatemark(gs, o)
    BY <1>2 DEF PropagateOne
  <2> HIDE DEF o
  <2>3. Traversed(gs, o) \in GState
    BY <2>1, TraversedIs
  <2>4. StrongKids(o) \in SUBSET Obj
    BY <2>1, Kids
  <2>5. PICK T : /\ Swath(Traversed(gs, o), StrongKids(o), T)
                 /\ reallymarkobject(Traversed(gs, o), StrongKids(o)) = SetMarks(Traversed(gs, o), T)
    BY <2>3, <2>4, Marked
  <2>6. T \in SUBSET Obj
    BY <2>5 DEF Swath
  <2>7. SetMarks(Traversed(gs, o), T) \in GState
    BY <2>3, <2>6, MarksWritten
  <2>8. QED
    BY <2>2, <2>5, <2>7 DEF propagatemark
<1>3. QED
  BY <1>1, <1>2

(* The rounds of propagateall. *)
Rounds(gs, p) ==
  /\ propagateall(gs) = p[Cardinality(cast) + 1] /\ p[0] = gs
  /\ \A n \in 1 .. Cardinality(cast) + 1 : p[n] = PropagateOne(p[n - 1])

(* The recursive function of propagateall has values. *)
LEMMA PropagateRounds ==
  ASSUME Graph, NEW gs \in GState
  PROVE  /\ IsFiniteSet(cast) /\ Cardinality(cast) \in Nat
         /\ \E p : Rounds(gs, p)
<1> DEFINE m == Cardinality(cast) + 1
           F == [x \in GState |-> PropagateOne(x)]
           Loop(f) == [n \in 0 .. m |-> IF n = 0 THEN gs ELSE PropagateOne(f[n - 1])]
           p == CHOOSE f : f = Loop(f)
<1>1. IsFiniteSet(cast) /\ Cardinality(cast) \in Nat
  BY CastAssumption, FS_CardinalityType DEF Graph
<1>2. m \in Nat
  BY <1>1
<1>3. F \in [GState -> GState] /\ gs \in GState /\ \A x \in GState : F[x] = PropagateOne(x)
  BY PropagateType
<1>4. propagateall(gs) = p[m]
  BY DEF propagateall
<1> HIDE DEF m, F
<1>5. \E f : f = Loop(f)
  <2>1. Repeatable(GState, F, gs, m)
    BY <1>2, <1>3 DEF Repeatable
  <2>2. PICK f : Repeats(GState, F, gs, m, f)
    BY <2>1, Iterates
  <2>3. f \in [0 .. m -> GState] /\ f[0] = gs /\ \A n \in 1 .. m : f[n] = F[f[n - 1]]
    BY <2>2 DEF Repeats
  <2>4. ASSUME NEW n \in 0 .. m PROVE f[n] = IF n = 0 THEN gs ELSE PropagateOne(f[n - 1])
    <3>1. CASE n = 0
      BY <2>3, <3>1
    <3>2. CASE n # 0
      <4>1. n \in 1 .. m /\ n - 1 \in 0 .. m
        BY <1>2, <3>2
      <4>2. f[n - 1] \in GState
        BY <2>3, <4>1
      <4>3. QED
        BY <1>3, <2>3, <3>2, <4>1, <4>2
    <3>3. QED
      BY <3>1, <3>2
  <2>5. f = Loop(f)
    BY <2>3, <2>4
  <2>6. QED
    BY <2>5
<1>6. p = Loop(p)
  BY <1>5
<1> HIDE DEF p
<1>7. p[0] = gs /\ \A n \in 1 .. m : p[n] = PropagateOne(p[n - 1])
  <2>1. 0 \in 0 .. m /\ \A n \in 1 .. m : n \in 0 .. m /\ n # 0
    BY <1>2
  <2>2. \A n \in 0 .. m : p[n] = IF n = 0 THEN gs ELSE PropagateOne(p[n - 1])
    BY <1>6
  <2>3. QED
    BY <2>1, <2>2
<1>8. Rounds(gs, p)
  BY <1>4, <1>7 DEF Rounds, m
<1>9. QED
  BY <1>1, <1>8

(* propagateall (lgc.c:317) ends with nothing on gray: each round works    *)
(* off one more of the objects allocated.                                  *)
LEMMA PropagateAll ==
  ASSUME Graph, HeapClosed, NEW gs, NEW E, Steady(gs, E)
  PROVE  /\ Steady(propagateall(gs), E) /\ Grows(gs, propagateall(gs))
         /\ propagateall(gs).gray = {}
<1> DEFINE m == Cardinality(cast) + 1
<1>1. gs \in GState
  BY DEF Steady
<1>2. IsFiniteSet(cast) /\ Cardinality(cast) \in Nat /\ m \in Nat /\ \E p : Rounds(gs, p)
  BY <1>1, PropagateRounds
<1>3. PICK p : Rounds(gs, p)
  BY <1>2
<1> HIDE DEF m
<1>4. propagateall(gs) = p[m] /\ p[0] = gs /\ \A n \in 1 .. m : p[n] = PropagateOne(p[n - 1])
  BY <1>3 DEF Rounds, m
<1> DEFINE Good(n) == /\ Steady(p[n], E) /\ Grows(gs, p[n])
                      /\ p[n].gray = {} \/ Cardinality(Worked(p[n])) >= n
<1>5. \A x : IsFiniteSet(Worked(x)) /\ Cardinality(Worked(x)) \in Nat /\ Cardinality(Worked(x)) <= Cardinality(cast)
  <2> SUFFICES ASSUME NEW x PROVE IsFiniteSet(Worked(x)) /\ Cardinality(Worked(x)) \in Nat /\ Cardinality(Worked(x)) <= Cardinality(cast)
    OBVIOUS
  <2>1. Worked(x) \subseteq cast
    BY DEF Worked, Graph
  <2>2. QED
    BY <1>2, <2>1, FS_Subset, FS_CardinalityType
<1>6. Good(0)
  BY <1>4, <1>5 DEF Grows, Steady
<1>7. ASSUME NEW n \in 1 .. m, Good(n - 1) PROVE Good(n)
  <2>1. p[n] = PropagateOne(p[n - 1])
    BY <1>4
  <2> DEFINE a == p[n - 1]
             b == p[n]
             i == n - 1
  <2>2. Steady(a, E) /\ Grows(gs, a) /\ (a.gray = {} \/ Cardinality(Worked(a)) >= i) /\ b = PropagateOne(a)
    BY <1>7, <2>1
  <2>3. n \in Nat /\ i \in Nat /\ n = i + 1
    BY <1>2
  <2> HIDE DEF a, b, i
  <2>4. CASE a.gray = {}
    <3>1. b = a
      BY <2>2, <2>4 DEF PropagateOne
    <3>2. QED
      BY <2>2, <2>4, <3>1 DEF b
  <2>5. CASE a.gray # {}
    <3> DEFINE o == CHOOSE x \in a.gray : TRUE
    <3>1. o \in a.gray /\ b = propagatemark(a, o)
      BY <2>2, <2>5 DEF PropagateOne
    <3> HIDE DEF o
    <3>2. Steady(b, E) /\ Grows(a, b) /\ o \notin Worked(a) /\ Worked(a) \cup {o} \subseteq Worked(b)
      BY <2>2, <3>1, PropagateKeeps
    <3>3. Cardinality(Worked(a) \cup {o}) = Cardinality(Worked(a)) + 1 /\ IsFiniteSet(Worked(a) \cup {o})
      BY <1>5, <3>2, FS_AddElement
    <3>4. Cardinality(Worked(a) \cup {o}) <= Cardinality(Worked(b))
      BY <1>5, <3>2, FS_Subset
    <3>5. Cardinality(Worked(b)) >= n
      <4> DEFINE ca == Cardinality(Worked(a))
                 cb == Cardinality(Worked(b))
      <4>1. ca \in Nat /\ cb \in Nat /\ ca >= i /\ ca + 1 <= cb
        BY <1>5, <2>2, <2>5, <3>3, <3>4
      <4> HIDE DEF ca, cb
      <4>2. cb >= n
        BY <2>3, <4>1
      <4>3. QED
        BY <4>2 DEF cb
    <3>6. Grows(gs, b)
      <4>1. a.gray \subseteq Obj /\ b.gray \subseteq Obj
        BY <2>2, <3>2 DEF Steady, GState
      <4>2. QED
        BY <2>2, <3>2, <4>1 DEF Grows
    <3>7. QED
      BY <3>2, <3>5, <3>6 DEF b
  <2>6. QED
    BY <2>4, <2>5
<1>8. ASSUME NEW n \in 0 .. m PROVE Good(n)
  <2> DEFINE Bad == {k \in 0 .. m : ~Good(k)}
  <2> SUFFICES ASSUME Bad # {} PROVE FALSE
    OBVIOUS
  <2>1. Bad \subseteq Nat
    OBVIOUS
  <2>2. PICK k \in Bad : \A j \in Bad : k <= j
    BY <2>1, LeastNumber
  <2>3. k \in 0 .. m /\ ~Good(k)
    OBVIOUS
  <2> HIDE DEF Good
  <2>4. k # 0
    BY <1>6, <2>3
  <2>5. k \in 1 .. m /\ k - 1 \in 0 .. m /\ ~(k <= k - 1)
    BY <1>2, <2>3, <2>4
  <2>6. Good(k - 1)
    BY <2>2, <2>5
  <2>7. QED
    BY <1>7, <2>3, <2>5, <2>6
<1>9. Good(m)
  BY <1>2, <1>8
<1>10. ~(Cardinality(Worked(p[m])) >= m)
  BY <1>2, <1>5 DEF m
<1>11. QED
  BY <1>4, <1>9, <1>10

(* propagateall leaves G white. *)
LEMMA PropagateAllSpares ==
  ASSUME Graph, HeapClosed, NEW gs, NEW E, Steady(gs, E), NEW G, OutOf(G), AllWhite(gs, G)
  PROVE  AllWhite(propagateall(gs), G)
<1> DEFINE m == Cardinality(cast) + 1
<1>1. gs \in GState
  BY DEF Steady
<1>2. m \in Nat /\ \E p : Rounds(gs, p)
  BY <1>1, PropagateRounds
<1>3. PICK p : Rounds(gs, p)
  BY <1>2
<1> HIDE DEF m
<1>4. propagateall(gs) = p[m] /\ p[0] = gs /\ \A n \in 1 .. m : p[n] = PropagateOne(p[n - 1])
  BY <1>3 DEF Rounds, m
<1> DEFINE Good(n) == Steady(p[n], E) /\ AllWhite(p[n], G)
           Bad == {k \in 0 .. m : ~Good(k)}
<1>5. ASSUME NEW a, Steady(a, E), AllWhite(a, G)
      PROVE  Steady(PropagateOne(a), E) /\ AllWhite(PropagateOne(a), G)
  <2>1. CASE a.gray = {}
    BY <1>5, <2>1 DEF PropagateOne
  <2>2. CASE a.gray # {}
    <3> DEFINE o == CHOOSE x \in a.gray : TRUE
    <3>1. o \in a.gray /\ PropagateOne(a) = propagatemark(a, o)
      BY <2>2 DEF PropagateOne
    <3> HIDE DEF o
    <3>2. QED
      BY <1>5, <3>1, PropagateKeeps, PropagateSpares
  <2>3. QED
    BY <2>1, <2>2
<1>6. ASSUME Bad # {} PROVE FALSE
  <2>1. Bad \subseteq Nat
    OBVIOUS
  <2>2. PICK k \in Bad : \A j \in Bad : k <= j
    BY <1>6, <2>1, LeastNumber
  <2>3. k \in 0 .. m /\ ~Good(k)
    OBVIOUS
  <2>4. k # 0
    BY <1>4, <2>3
  <2>5. k \in 1 .. m /\ k - 1 \in 0 .. m /\ ~(k <= k - 1)
    BY <1>2, <2>3, <2>4
  <2>6. Good(k - 1)
    BY <2>2, <2>5
  <2>7. p[k] = PropagateOne(p[k - 1])
    BY <1>4, <2>5
  <2>8. Good(k)
    BY <1>5, <2>6, <2>7
  <2>9. QED
    BY <2>3, <2>8
<1>7. Good(m)
  BY <1>2, <1>6
<1>8. QED
  BY <1>4, <1>7

(* The objects reached from S, one step after the other. *)
Chain(S, strong, c) ==
  /\ Closure(S, strong) = c[Cardinality(cast)]
  /\ \A n \in 1 .. Cardinality(cast) : c[n] = IF n = 1 THEN S ELSE WithKids(c[n - 1], strong)

(* WithKids stays among the objects. *)
LEMMA KidsOf ==
  ASSUME Graph, NEW A \in SUBSET Obj, NEW strong \in BOOLEAN
  PROVE  /\ WithKids(A, strong) \in SUBSET Obj /\ A \subseteq WithKids(A, strong)
         /\ \A x \in WithKids(A, strong) : x \in A \/ \E o \in A \cap heap : x \in AllKids(o)
<1>1. \A o \in A \cap heap : AllKids(o) \subseteq Obj /\ StrongKids(o) \subseteq AllKids(o)
  <2> TAKE o \in A \cap heap
  <2>1. o \in Obj
    OBVIOUS
  <2>2. QED
    BY <2>1, Kids
<1>2. \A o : Strings(AllKids(o)) \subseteq AllKids(o)
  BY DEF Strings
<1>3. \A x \in WithKids(A, strong) : x \in A \/ \E o \in A \cap heap : x \in AllKids(o)
  BY <1>1, <1>2 DEF WithKids
<1>4. A \subseteq WithKids(A, strong)
  BY DEF WithKids
<1>5. QED
  BY <1>1, <1>3, <1>4

(* The recursive function of Closure has values. *)
LEMMA ClosureChain ==
  ASSUME Graph, NEW S \in SUBSET Obj, S # {}, NEW strong \in BOOLEAN
  PROVE  /\ IsFiniteSet(cast) /\ Cardinality(cast) \in Nat /\ Cardinality(cast) # 0
         /\ \E c : Chain(S, strong, c)
<1> DEFINE m == Cardinality(cast)
           X == SUBSET Obj
           F == [A \in X |-> WithKids(A, strong)]
           Loop(f) == [n \in 1 .. m |-> IF n = 1 THEN S ELSE WithKids(f[n - 1], strong)]
           c == CHOOSE f : f = Loop(f)
<1>1. IsFiniteSet(cast) /\ Cardinality(cast) \in Nat /\ Main \in cast
  BY CastAssumption, FS_CardinalityType DEF Graph
<1>2. m \in Nat /\ m # 0
  BY <1>1, FS_EmptySet
<1>3. F \in [X -> X] /\ \A A \in X : F[A] = WithKids(A, strong)
  BY KidsOf
<1>4. Closure(S, strong) = c[m]
  BY DEF Closure
<1>5. S \in X
  OBVIOUS
<1> HIDE DEF m, F, X
<1>6. \E f : f = Loop(f)
  <2> DEFINE i == m - 1
  <2>1. i \in Nat /\ m = i + 1
    BY <1>2
  <2> HIDE DEF i
  <2>2. Repeatable(X, F, S, i)
    BY <1>3, <1>5, <2>1 DEF Repeatable
  <2>3. PICK q : Repeats(X, F, S, i, q)
    BY <2>2, Iterates
  <2> DEFINE f == [n \in 1 .. m |-> q[n - 1]]
  <2>4. q \in [0 .. i -> X] /\ q[0] = S /\ \A n \in 1 .. i : q[n] = F[q[n - 1]]
    BY <2>3 DEF Repeats
  <2>5. ASSUME NEW n \in 1 .. m PROVE f[n] = IF n = 1 THEN S ELSE WithKids(f[n - 1], strong)
    <3>1. CASE n = 1
      BY <2>4, <3>1
    <3>2. CASE n # 1
      <4> DEFINE k == n - 1
      <4>1. k \in 1 .. i /\ k \in 1 .. m /\ k - 1 \in 0 .. i
        BY <1>2, <2>1, <3>2
      <4>2. f[n] = q[k] /\ f[k] = q[k - 1]
        BY <4>1
      <4> HIDE DEF k
      <4>3. q[k] = F[q[k - 1]] /\ q[k - 1] \in X
        BY <2>4, <4>1
      <4> HIDE DEF f
      <4>4. f[n] = WithKids(f[k], strong)
        BY <1>3, <4>2, <4>3
      <4>5. QED
        BY <3>2, <4>4 DEF k
    <3>3. QED
      BY <3>1, <3>2
  <2>6. f = Loop(f)
    BY <2>5
  <2>7. QED
    BY <2>6
<1>7. c = Loop(c)
  BY <1>6
<1> HIDE DEF c
<1>8. \A n \in 1 .. m : c[n] = IF n = 1 THEN S ELSE WithKids(c[n - 1], strong)
  BY <1>7
<1> HIDE DEF Loop
<1>9. Chain(S, strong, c)
  BY <1>4, <1>8 DEF Chain, m
<1>10. QED
  BY <1>1, <1>2, <1>9 DEF m

(* What is reached from S stays within every set that holds S and what its *)
(* objects point to.                                                       *)
LEMMA ClosureWithin ==
  ASSUME Graph, NEW S \in SUBSET Obj, NEW strong \in BOOLEAN,
         NEW C \in SUBSET Obj, S \subseteq C, \A o \in C \cap heap : AllKids(o) \subseteq C
  PROVE  Closure(S, strong) \subseteq C
<1> DEFINE m == Cardinality(cast)
<1>1. CASE S = {}
  BY <1>1 DEF Closure
<1>2. CASE S # {}
  <2>1. m \in Nat /\ m # 0 /\ \E c : Chain(S, strong, c)
    BY <1>2, ClosureChain
  <2>2. PICK c : Chain(S, strong, c)
    BY <2>1
  <2> HIDE DEF m
  <2>3. Closure(S, strong) = c[m] /\ \A n \in 1 .. m : c[n] = IF n = 1 THEN S ELSE WithKids(c[n - 1], strong)
    BY <2>2 DEF Chain, m
  <2> DEFINE Good(k) == c[k] \in SUBSET Obj /\ c[k] \subseteq C
             Bad == {k \in 1 .. m : ~Good(k)}
  <2>4. ASSUME Bad # {} PROVE FALSE
    <3>1. Bad \subseteq Nat
      OBVIOUS
    <3>2. PICK k \in Bad : \A j \in Bad : k <= j
      BY <2>4, <3>1, LeastNumber
    <3>3. k \in 1 .. m /\ ~Good(k)
      OBVIOUS
    <3>4. k # 1
      BY <2>3, <3>3
    <3>5. k - 1 \in 1 .. m /\ ~(k <= k - 1)
      BY <2>1, <3>3, <3>4
    <3>6. Good(k - 1)
      BY <3>2, <3>5
    <3>7. c[k] = WithKids(c[k - 1], strong)
      BY <2>3, <3>3, <3>4
    <3>8. Good(k)
      BY <3>6, <3>7, KidsOf
    <3>9. QED
      BY <3>3, <3>8
  <2>5. m \in 1 .. m
    BY <2>1
  <2>6. QED
    BY <2>3, <2>4, <2>5
<1>3. QED
  BY <1>1, <1>2

-----------------------------------------------------------------------------
(* The atomic step.                                                        *)

(* remarkupvals (lgc.c:516): open upvalues need no second look any more. *)
LEMMA RemarkUpvals ==
  ASSUME Graph, HeapClosed, NEW gs, Steady(gs, Again(gs))
  PROVE  /\ Steady(remarkupvals(gs), gs.tmudata \cup gs.grayagain \cup gs.weak)
         /\ Grows(gs, remarkupvals(gs))
<1> DEFINE S == UNION {ValuesOf(uv) : uv \in {o \in heap : IsA(o, "upval") /\ open[o] # None /\ gs.mark[o] = "gray"}}
           E == gs.tmudata \cup gs.grayagain \cup gs.weak
           r == reallymarkobject(gs, S)
<1>1. gs \in GState /\ S \in SUBSET heap /\ S \in SUBSET Obj /\ heap \subseteq Obj
  BY DEF Steady, HeapClosed
<1>2. remarkupvals(gs) = r
  BY DEF remarkupvals
<1>3. \A o \in heap : IsA(o, "upval") /\ open[o] # None /\ gs.mark[o] = "gray" => ValuesOf(o) \subseteq S
  OBVIOUS
<1> HIDE DEF S
<1>4. PICK T : Swath(gs, S, T) /\ r = SetMarks(gs, T)
  BY <1>1, Marked
<1> HIDE DEF r
<1>5. /\ r \in GState /\ Grows(gs, r)
      /\ \A o \in S : ~iswhite(r, o)
      /\ Fresh(gs) => Fresh(r)
      /\ Coloured(gs) => Coloured(r)
      /\ Listed(gs) => Listed(r)
      /\ (\A o \in heap : ~iswhite(gs, o) /\ o \notin gs.gray /\ o \notin E => Done(r, o)) => Settled(r, E)
  BY <1>1, <1>4, SwathKeeps
<1>6. ASSUME NEW o \in heap, ~iswhite(gs, o), o \notin gs.gray, o \notin E PROVE Done(r, o)
  <2>1. o \in Obj /\ StrongKids(o) \subseteq ValuesOf(o) /\ ValuesOf(o) \subseteq Obj
    BY <1>1, Kids
  <2>2. CASE open[o] = None
    <3>1. o \notin Again(gs)
      BY <1>6, <2>2 DEF Again, OpenUpvals
    <3>2. Done(gs, o)
      BY <1>6, <3>1 DEF Steady, Settled
    <3>3. QED
      BY <1>5, <2>1, <3>2 DEF Done, Grows
  <2>3. CASE open[o] # None
    <3>1. IsA(o, "upval") /\ gs.mark[o] \in Colours
      BY <1>1, <2>1, <2>3 DEF Graph, IsA, GState
    <3>2. gs.mark[o] = "gray"
      BY <1>6, <2>3, <3>1 DEF Steady, Coloured, ColourOK, iswhite, Colours
    <3>3. QED
      BY <1>3, <1>5, <2>1, <2>3, <3>1, <3>2 DEF Done
  <2>4. QED
    BY <2>2, <2>3
<1>7. Settled(r, E)
  BY <1>5, <1>6
<1>8. QED
  BY <1>2, <1>5, <1>7 DEF Steady

(* The weak tables go back to gray. *)
LEMMA RegrayWeak ==
  ASSUME NEW a, NEW E, NEW L, Steady(a, E \cup L), L \subseteq a.weak, a.gray = {}
  PROVE  Steady([a EXCEPT !.gray = a.weak, !.weak = {}], E)
<1> DEFINE b == [a EXCEPT !.gray = a.weak, !.weak = {}]
<1>1. a \in GState /\ Coloured(a) /\ Fresh(a) /\ Listed(a) /\ Settled(a, E \cup L)
  BY DEF Steady
<1>2. /\ b \in GState /\ b.mark = a.mark /\ b.currentwhite = a.currentwhite
      /\ b.gray = a.weak /\ b.weak = {} /\ b.grayagain = a.grayagain
  BY <1>1 DEF GState
<1> HIDE DEF b
<1>3. Coloured(b) /\ Fresh(b)
  BY <1>1, <1>2 DEF Coloured, ColourOK, Fresh, isdead
<1>4. ListsApart(b)
  BY <1>1, <1>2 DEF Listed, ListsApart
<1>5. Lists(b) = Lists(a)
  BY <1>2 DEF Lists
<1>6. Listed(b)
  BY <1>1, <1>2, <1>4, <1>5 DEF Listed
<1>7. Settled(b, E)
  BY <1>1, <1>2 DEF Settled, Done, iswhite
<1>8. QED
  BY <1>2, <1>3, <1>6, <1>7 DEF Steady, b

(* What was to be visited again goes back to gray. *)
LEMMA RegrayAgain ==
  ASSUME NEW a, NEW E, NEW L, Steady(a, E \cup L), L \subseteq a.grayagain, a.gray = {}
  PROVE  Steady([a EXCEPT !.gray = a.grayagain, !.grayagain = {}], E)
<1> DEFINE b == [a EXCEPT !.gray = a.grayagain, !.grayagain = {}]
<1>1. a \in GState /\ Coloured(a) /\ Fresh(a) /\ Listed(a) /\ Settled(a, E \cup L)
  BY DEF Steady
<1>2. /\ b \in GState /\ b.mark = a.mark /\ b.currentwhite = a.currentwhite
      /\ b.gray = a.grayagain /\ b.weak = a.weak /\ b.grayagain = {}
  BY <1>1 DEF GState
<1> HIDE DEF b
<1>3. Coloured(b) /\ Fresh(b)
  BY <1>1, <1>2 DEF Coloured, ColourOK, Fresh, isdead
<1>4. ListsApart(b)
  <2>1. a.grayagain \cap a.weak = {}
    BY <1>1 DEF Listed, ListsApart
  <2>2. QED
    BY <1>1, <1>2, <2>1 DEF Listed, ListsApart
<1>5. Lists(b) = Lists(a)
  BY <1>1, <1>2 DEF Lists
<1>6. Listed(b)
  BY <1>1, <1>2, <1>4, <1>5 DEF Listed
<1>7. Settled(b, E)
  BY <1>1, <1>2 DEF Settled, Done, iswhite
<1>8. QED
  BY <1>2, <1>3, <1>6, <1>7 DEF Steady, b

(* marktmu (lgc.c:134): userdata to be finalized are kept, and then done. *)
LEMMA MarkTmu ==
  ASSUME Graph, HeapClosed, NEW a, NEW E, Steady(a, E), E \subseteq a.tmudata,
         a.tmudata \subseteq heap, \A u \in a.tmudata : Kind[u] = "udata"
  PROVE  /\ Steady(marktmu(a), {}) /\ Grows(a, marktmu(a))
         /\ \A u \in a.tmudata : ~iswhite(marktmu(a), u)
<1> DEFINE U == a.tmudata
           w == makewhite(a, U)
           r == reallymarkobject(w, U)
<1>1. /\ a \in GState /\ Coloured(a) /\ Fresh(a) /\ Listed(a) /\ Settled(a, E)
      /\ heap \subseteq Obj /\ U \in SUBSET heap /\ U \in SUBSET Obj
  BY DEF Steady, HeapClosed
<1>2. a.currentwhite \in Whites /\ a.mark \in [Obj -> Colours]
  BY <1>1 DEF GState
<1>3. /\ w \in GState /\ w.mark = [o \in Obj |-> IF o \in U THEN a.currentwhite ELSE a.mark[o]]
      /\ w.gray = a.gray /\ w.grayagain = a.grayagain /\ w.weak = a.weak
      /\ w.tmudata = a.tmudata /\ w.finalized = a.finalized
      /\ w.gcstate = a.gcstate /\ w.currentwhite = a.currentwhite
      /\ w.sweepstrgc = a.sweepstrgc /\ w.sweepgc = a.sweepgc
  BY <1>1 DEF makewhite, GState, Colours
<1>4. marktmu(a) = r
  BY DEF marktmu
<1> HIDE DEF w
<1>5. \A o \in Obj : w.mark[o] = IF o \in U THEN a.currentwhite ELSE a.mark[o]
  BY <1>3
<1>6. Coloured(w)
  BY <1>1, <1>2, <1>5 DEF Coloured, ColourOK, Whites
<1>7. Fresh(w)
  BY <1>1, <1>2, <1>3, <1>5 DEF Fresh, isdead, otherwhite, Whites
<1>8. Listed(w)
  <2>1. \A o \in U : ~Listable(o)
    BY DEF Listable
  <2>2. Lists(w) = Lists(a)
    BY <1>3 DEF Lists
  <2>3. ListsApart(w)
    BY <1>1, <1>3 DEF Listed, ListsApart
  <2>4. Lists(a) \subseteq Obj
    BY <1>1 DEF Listed
  <2>5. QED
    BY <1>1, <1>2, <1>5, <2>1, <2>2, <2>3, <2>4 DEF Listed, Whites
<1>9. PICK T : Swath(w, U, T) /\ r = SetMarks(w, T)
  BY <1>1, <1>3, Marked
<1> HIDE DEF r, U
<1>10. /\ r \in GState /\ Grows(w, r)
       /\ T \subseteq heap /\ \A o \in U : ~iswhite(r, o)
       /\ Fresh(w) => Fresh(r)
       /\ Coloured(w) => Coloured(r)
       /\ Listed(w) => Listed(r)
       /\ (\A o \in heap : ~iswhite(w, o) /\ o \notin w.gray /\ o \notin {} => Done(r, o)) => Settled(r, {})
  BY <1>1, <1>3, <1>9, SwathKeeps
<1>11. \A o \in Obj : iswhite(w, o) <=> o \in U \/ iswhite(a, o)
  BY <1>2, <1>5 DEF iswhite
<1>12. \A o \in Obj : ~iswhite(a, o) => ~iswhite(r, o)
  BY <1>10, <1>11 DEF Grows
<1>13. Grows(a, r)
  <2>1. \A o \in r.gray : o \in a.gray \/ iswhite(a, o)
    <3> TAKE o \in r.gray
    <3>1. o \in Obj /\ Listed(r)
      BY <1>8, <1>10 DEF GState
    <3>2. Listable(o)
      BY <3>1 DEF Listed, Lists
    <3>3. o \notin U
      BY <3>2 DEF Listable, U
    <3>4. QED
      BY <1>3, <1>10, <1>11, <3>1, <3>3 DEF Grows
  <2>2. QED
    BY <1>3, <1>10, <1>12, <2>1 DEF Grows
<1>14. ASSUME NEW o \in heap, ~iswhite(w, o), o \notin w.gray PROVE Done(r, o)
  <2>1. o \in Obj /\ StrongKids(o) \subseteq Obj
    BY <1>1, Kids
  <2>2. ~iswhite(a, o) /\ o \notin U /\ o \notin a.gray
    BY <1>3, <1>11, <1>14, <2>1
  <2>3. Done(a, o)
    BY <1>1, <2>2 DEF Settled, U
  <2>4. QED
    BY <1>12, <2>1, <2>3 DEF Done
<1>15. QED
  BY <1>4, <1>6, <1>7, <1>8, <1>10, <1>13, <1>14 DEF Steady, U

(* remarkupvals leaves G white. *)
LEMMA UpvalsSpare ==
  ASSUME Graph, HeapClosed, NEW gs \in GState, NEW G, OutOf(G), AllWhite(gs, G)
  PROVE  AllWhite(remarkupvals(gs), G)
<1> DEFINE U == {o \in heap : IsA(o, "upval") /\ open[o] # None /\ gs.mark[o] = "gray"}
           V == UNION {ValuesOf(uv) : uv \in U}
<1>1. ASSUME NEW o \in U PROVE ValuesOf(o) \subseteq heap /\ ValuesOf(o) \cap G = {}
  <2>1. o \in heap /\ o \in Obj /\ Kind[o] = "upval" /\ o \notin G
    BY DEF HeapClosed, IsA, AllWhite, iswhite, Whites
  <2>2. Mode[o] = {} /\ ValuesOf(o) = StrongKids(o)
    BY <2>1, Strict, Kids
  <2>3. QED
    BY <2>1, <2>2 DEF HeapClosed, OutOf, Keeps
<1>2. V \in SUBSET heap /\ V \cap G = {}
  BY <1>1
<1>3. remarkupvals(gs) = reallymarkobject(gs, V)
  BY DEF remarkupvals
<1> HIDE DEF V, U
<1>4. QED
  BY <1>2, <1>3, MarkSpares

(* And so does marking what is due. *)
LEMMA TmuSpares ==
  ASSUME Graph, HeapClosed, NEW a \in GState, NEW G, OutOf(G), AllWhite(a, G),
         a.tmudata \subseteq heap, a.tmudata \cap G = {}
  PROVE  AllWhite(marktmu(a), G)
<1> DEFINE w == makewhite(a, a.tmudata)
<1>1. [o \in Obj |-> IF o \in a.tmudata THEN a.currentwhite ELSE a.mark[o]] \in [Obj -> Colours]
  BY DEF GState, Colours
<1>2. w \in GState /\ \A o \in Obj : o \notin a.tmudata => w.mark[o] = a.mark[o]
  BY <1>1 DEF makewhite, GState
<1> HIDE DEF w
<1>3. AllWhite(w, G)
  BY <1>2 DEF AllWhite, iswhite, HeapClosed
<1>4. AllWhite(reallymarkobject(w, a.tmudata), G)
  BY <1>2, <1>3, MarkSpares
<1>5. QED
  BY <1>4 DEF marktmu, w

(* A set G that nothing but itself leads to stays white. *)
Lonely(gs, G) ==
  /\ OutOf(G) /\ AllWhite(gs, G) /\ Main \notin G /\ gs.tmudata \cap G = {}
  /\ \A u \in heap \cap HasGC : u \notin gs.finalized => u \notin G

(* A set around the main thread that no strong reference leads out of, but *)
(* from userdata already due, and that holds none of U.                    *)
Apart(D, U) ==
  \E C \in SUBSET heap : /\ Main \in C /\ \A u \in U : u \notin C
                         /\ \A o \in C \ D : StrongKids(o) \subseteq C

(* What MarkAll leaves behind: all that is marked is done, userdata that   *)
(* were found dead are due if they have a finalizer.                       *)
AllMarked(gs, m) ==
  /\ Apart(gs.tmudata, m.finalized \ gs.finalized)
  /\ \A G : Lonely(gs, G) => AllWhite(m, G)
  /\ Steady(m, {}) /\ m.gray = {} /\ m.currentwhite = gs.currentwhite
  /\ \A o \in Obj : ~iswhite(gs, o) => ~iswhite(m, o)
  /\ \A u \in m.tmudata : ~iswhite(m, u)
  /\ gs.finalized \subseteq m.finalized
  /\ m.tmudata = gs.tmudata \cup ((m.finalized \ gs.finalized) \cap HasGC)
  /\ \A u \in m.finalized \ gs.finalized : u \in heap /\ Kind[u] = "udata"
  /\ \A u \in heap : Kind[u] = "udata" /\ iswhite(m, u) => u \in m.finalized

(* The marking of the atomic step (lgc.c:526) ends all marking. *)
LEMMA MarkAllEnds ==
  ASSUME Graph, HeapClosed, NEW gs, Steady(gs, Again(gs)), Main \in heap,
         gs.tmudata \subseteq heap, gs.tmudata \subseteq HasGC
  PROVE  AllMarked(gs, MarkAll(gs))
<1> DEFINE a1 == remarkupvals(gs)
           a2 == propagateall(a1)
           b3 == [a2 EXCEPT !.gray = a2.weak, !.weak = {}]
           c3 == reallymarkobject(b3, {Main})
           a3 == propagateall(c3)
           b4 == [a3 EXCEPT !.gray = a3.grayagain, !.grayagain = {}]
           a4 == propagateall(b4)
           a5 == luaC_separateudata(a4, FALSE)
           a6 == marktmu(a5)
           m == propagateall(a6)
           D == gs.tmudata
<1>1. MarkAll(gs) = m
  BY DEF MarkAll, RemarkAgain, RemarkWeak
<1>2. Steady(a1, D \cup gs.grayagain \cup gs.weak) /\ Grows(gs, a1)
  BY RemarkUpvals
<1> HIDE DEF a1
<1>3. Steady(a2, D \cup gs.grayagain \cup gs.weak) /\ Grows(a1, a2) /\ a2.gray = {}
  BY <1>2, PropagateAll
<1> HIDE DEF a2
<1>4. a2 \in GState /\ gs.weak \subseteq a2.weak /\ gs.grayagain \subseteq a2.grayagain
  BY <1>2, <1>3 DEF Grows, Steady
<1>5. Steady(b3, D \cup gs.grayagain)
  BY <1>3, <1>4, RegrayWeak
<1>6. /\ b3.mark = a2.mark /\ b3.grayagain = a2.grayagain /\ b3.tmudata = a2.tmudata
      /\ b3.finalized = a2.finalized /\ b3.currentwhite = a2.currentwhite
  BY <1>4 DEF GState
<1> HIDE DEF b3
<1>7. Steady(c3, D \cup gs.grayagain) /\ Grows(b3, c3) /\ ~iswhite(c3, Main)
  <2>1. {Main} \in SUBSET heap
    OBVIOUS
  <2>2. QED
    BY <1>5, <2>1, MarkKeeps
<1> HIDE DEF c3
<1>8. Steady(a3, D \cup gs.grayagain) /\ Grows(c3, a3) /\ a3.gray = {}
  BY <1>7, PropagateAll
<1> HIDE DEF a3
<1>9. a3 \in GState /\ gs.grayagain \subseteq a3.grayagain
  BY <1>4, <1>6, <1>7, <1>8 DEF Grows, Steady
<1>10. Steady(b4, D)
  BY <1>8, <1>9, RegrayAgain
<1>11. /\ b4.mark = a3.mark /\ b4.tmudata = a3.tmudata
       /\ b4.finalized = a3.finalized /\ b4.currentwhite = a3.currentwhite
  BY <1>9 DEF GState
<1> HIDE DEF b4
<1>12. Steady(a4, D) /\ Grows(b4, a4) /\ a4.gray = {}
  BY <1>10, PropagateAll
<1> HIDE DEF a4
<1>13. /\ a4.tmudata = D /\ a4.finalized = gs.finalized /\ a4.currentwhite = gs.currentwhite
       /\ \A o \in Obj : ~iswhite(gs, o) => ~iswhite(a4, o)
  BY <1>2, <1>3, <1>6, <1>7, <1>8, <1>11, <1>12 DEF Grows, iswhite
<1> DEFINE cand == {u \in heap : IsA(u, "udata") /\ u \notin a4.finalized /\ iswhite(a4, u)}
<1>14. /\ a5.finalized = gs.finalized \cup cand /\ a5.tmudata = D \cup (cand \cap HasGC)
       /\ a5.mark = a4.mark /\ a5.currentwhite = a4.currentwhite
       /\ a5.gray = a4.gray /\ a5.grayagain = a4.grayagain /\ a5.weak = a4.weak
       /\ a5 \in GState
  <2>1. a4 \in GState /\ heap \subseteq Obj
    BY <1>12 DEF Steady, HeapClosed
  <2>2. a5 = [a4 EXCEPT !.finalized = @ \cup cand, !.tmudata = @ \cup (cand \cap HasGC)]
    BY DEF luaC_separateudata
  <2>3. cand \subseteq Obj
    BY <2>1
  <2> HIDE DEF cand, a5
  <2>4. QED
    BY <1>13, <2>1, <2>2, <2>3 DEF GState
<1>15. \A u \in cand : u \in heap /\ Kind[u] = "udata" /\ u \notin gs.finalized
  BY <1>13 DEF IsA
<1>16. \A u \in heap : Kind[u] = "udata" /\ iswhite(a4, u) => u \in gs.finalized \cup cand
  BY <1>13 DEF IsA
<1> HIDE DEF cand, a5
<1>17. Steady(a5, D)
  <2>1. Coloured(a5) /\ Fresh(a5)
    BY <1>12, <1>14 DEF Steady, Coloured, ColourOK, Fresh, isdead
  <2>2. Listed(a5)
    BY <1>12, <1>14 DEF Steady, Listed, ListsApart, Lists
  <2>3. Settled(a5, D)
    BY <1>12, <1>14 DEF Steady, Settled, Done, iswhite
  <2>4. QED
    BY <1>14, <2>1, <2>2, <2>3 DEF Steady
<1>18. /\ D \subseteq a5.tmudata /\ a5.tmudata \subseteq heap
       /\ \A u \in a5.tmudata : Kind[u] = "udata"
  BY <1>14, <1>15, ModeAssumption
<1>19. Steady(a6, {}) /\ Grows(a5, a6) /\ \A u \in a5.tmudata : ~iswhite(a6, u)
  BY <1>17, <1>18, MarkTmu
<1> HIDE DEF a6
<1>20. Steady(m, {}) /\ Grows(a6, m) /\ m.gray = {}
  BY <1>19, PropagateAll
<1> HIDE DEF m, D
<1>21. /\ m.tmudata = a5.tmudata /\ m.finalized = a5.finalized /\ m.currentwhite = gs.currentwhite
       /\ \A o \in Obj : ~iswhite(a4, o) => ~iswhite(m, o)
  BY <1>13, <1>14, <1>19, <1>20 DEF Grows, iswhite
<1>22. heap \subseteq Obj
  BY DEF HeapClosed
<1>23. \A u \in m.tmudata : ~iswhite(m, u)
  BY <1>18, <1>19, <1>20, <1>21, <1>22 DEF Grows
<1>24. m.tmudata = D \cup ((m.finalized \ gs.finalized) \cap HasGC)
  BY <1>14, <1>15, <1>21
<1>25. \A u \in heap : Kind[u] = "udata" /\ iswhite(m, u) => u \in m.finalized
  BY <1>14, <1>16, <1>21, <1>22
<1>26. \A u \in m.finalized \ gs.finalized : u \in heap /\ Kind[u] = "udata"
  BY <1>14, <1>15, <1>21
<1>27. gs.finalized \subseteq m.finalized /\ \A o \in Obj : ~iswhite(gs, o) => ~iswhite(m, o)
  BY <1>13, <1>14, <1>21
<1>28. Apart(D, m.finalized \ gs.finalized)
  <2> DEFINE C == {o \in heap : ~iswhite(a4, o)}
  <2>1. C \in SUBSET heap
    OBVIOUS
  <2>2. Main \in C
    BY <1>7, <1>8, <1>11, <1>12, <1>22 DEF Grows, iswhite
  <2>3. \A u \in m.finalized \ gs.finalized : u \notin C
    BY <1>14, <1>21 DEF cand
  <2>4. ASSUME NEW o \in C, o \notin D PROVE StrongKids(o) \subseteq C
    <3>1. Done(a4, o)
      BY <1>12, <2>4 DEF Steady, Settled
    <3>2. StrongKids(o) \subseteq heap
      BY <1>22, Kids DEF HeapClosed
    <3>3. QED
      BY <3>1, <3>2 DEF Done
  <2>5. QED
    BY <2>1, <2>2, <2>3, <2>4 DEF Apart
<1>29. ASSUME NEW G, Lonely(gs, G) PROVE AllWhite(m, G)
  <2>1. OutOf(G) /\ AllWhite(gs, G) /\ {Main} \cap G = {} /\ {Main} \in SUBSET heap
    BY <1>29 DEF Lonely
  <2>2. AllWhite(a1, G)
    BY <2>1, UpvalsSpare DEF Steady, a1
  <2>3. AllWhite(a2, G)
    BY <1>2, <2>1, <2>2, PropagateAllSpares DEF a2
  <2>4. AllWhite(b3, G)
    BY <1>6, <2>3 DEF AllWhite, iswhite
  <2>5. AllWhite(c3, G)
    BY <1>5, <2>1, <2>4, MarkSpares DEF c3, Steady
  <2>6. AllWhite(a3, G)
    BY <1>7, <2>1, <2>5, PropagateAllSpares DEF a3
  <2>7. AllWhite(b4, G)
    BY <1>11, <2>6 DEF AllWhite, iswhite
  <2>8. AllWhite(a4, G)
    BY <1>10, <2>1, <2>7, PropagateAllSpares DEF a4
  <2>9. AllWhite(a5, G)
    BY <1>14, <2>8 DEF AllWhite, iswhite
  <2>10. a5.tmudata \subseteq heap /\ a5.tmudata \cap G = {}
    BY <1>14, <1>15, <1>18, <1>29 DEF Lonely, D
  <2>11. AllWhite(a6, G)
    BY <1>14, <2>1, <2>9, <2>10, TmuSpares DEF a6
  <2>12. QED
    BY <1>19, <2>1, <2>11, PropagateAllSpares DEF m
<1>30. QED
  BY <1>1, <1>20, <1>21, <1>23, <1>24, <1>25, <1>26, <1>27, <1>28, <1>29 DEF AllMarked, D

-----------------------------------------------------------------------------
(* The steps of the collector.                                             *)

(* When no object is dead, all objects allocated are safe. *)
LEMMA FreshHeap ==
  ASSUME GCInv, g.gcstate # "closed"
  PROVE  /\ heap \subseteq Obj /\ Main \in heap /\ Main \in Obj
         /\ Fresh(g) => HeapClosed /\ Live = heap
<1>1. heap \subseteq Obj
  BY CastAssumption DEF GCInv, Graph
<1>2. Main \in Live /\ Safe /\ Graph
  BY DEF GCInv
<1>3. \A o \in heap : ValuesOf(o) \subseteq AllKids(o)
  BY DEF AllKids
<1>4. Fresh(g) => Live = heap
  BY DEF Live, Fresh
<1>5. QED
  BY <1>1, <1>2, <1>3, <1>4 DEF HeapClosed, Safe, Live

(* The lists the sweep walks hold all that is not to be finalized. *)
LEMMA SweepListed ==
  ASSUME Graph, NEW gs \in GState, gs.tmudata \subseteq HasGC
  PROVE  /\ SweepLists(gs) \in GState
         /\ SweepLists(gs).gcstate = "sweepstring" /\ SweepLists(gs).currentwhite = gs.currentwhite
         /\ SweepLists(gs).mark = gs.mark /\ SweepLists(gs).gray = gs.gray
         /\ SweepLists(gs).grayagain = gs.grayagain /\ SweepLists(gs).weak = gs.weak
         /\ SweepLists(gs).tmudata = gs.tmudata /\ SweepLists(gs).finalized = gs.finalized
         /\ \A o \in heap : o \in gs.tmudata \/ Unswept(SweepLists(gs), o)
<1> DEFINE s == SweepLists(gs)
           A == {o \in heap : IsA(o, "string")}
           B == {o \in heap \ gs.tmudata : ~IsA(o, "string") /\ open[o] = None}
<1>1. heap \subseteq Obj
  BY CastAssumption DEF Graph
<1>2. A \in SUBSET Obj /\ B \in SUBSET Obj
  BY <1>1
<1>3. s = [gs EXCEPT !.gcstate = "sweepstring", !.sweepstrgc = A, !.sweepgc = B]
  BY DEF SweepLists
<1>4. ASSUME NEW o \in heap, o \notin gs.tmudata
      PROVE  o \in A \cup B \/ (open[o] # None /\ open[o][1] \in B)
  <2>1. CASE open[o] = None
    BY <1>4, <2>1
  <2>2. CASE open[o] # None
    <3>1. open[o][1] \in heap /\ Kind[open[o][1]] = "thread"
      BY <1>1, <2>2 DEF Graph
    <3>2. open[o][1] \notin HasGC /\ open[open[o][1]] = None
      BY <1>1, <3>1, Strict
    <3>3. QED
      BY <2>2, <3>1, <3>2 DEF IsA
  <2>3. QED
    BY <2>1, <2>2
<1> HIDE DEF A, B, s
<1>5. /\ s \in GState /\ s.gcstate = "sweepstring" /\ s.currentwhite = gs.currentwhite
      /\ s.mark = gs.mark /\ s.gray = gs.gray /\ s.grayagain = gs.grayagain /\ s.weak = gs.weak
      /\ s.tmudata = gs.tmudata /\ s.finalized = gs.finalized
      /\ s.sweepstrgc = A /\ s.sweepgc = B
  BY <1>2, <1>3 DEF GState, Phases
<1>6. \A o \in heap : o \in gs.tmudata \/ Unswept(s, o)
  BY <1>4, <1>5 DEF Unswept
<1>7. QED
  BY <1>5, <1>6 DEF s

(* The atomic step: what is still white is dead, and nothing that is alive *)
(* points to it, as weak tables have been cleared.                         *)
LEMMA AtomicKeeps ==
  ASSUME GCInv, g.gcstate = "propagate", full # "close", atomic, full' = full, cast' = cast
  PROVE  GCInv'
<1> DEFINE m == MarkAll(g)
           Z == StringsInWeak(m)
           q == SetMarks(m, Z)
           s == [q EXCEPT !.currentwhite = otherwhite(@)]
<1>1. Graph /\ g \in GState /\ Safe /\ Fresh(g) /\ HeapClosed /\ Live = heap
  BY FreshHeap DEF GCInv, Sweeping
<1>2. heap \subseteq Obj /\ Main \in heap /\ Main \in Obj
  BY FreshHeap
<1>3. Steady(g, Again(g)) /\ ~iswhite(g, Main)
  BY <1>1 DEF GCInv, Marking, Steady
<1>4. g.tmudata \subseteq heap /\ g.tmudata \subseteq HasGC
  BY <1>1 DEF GCInv, Finalizing
<1>5. AllMarked(g, m)
  BY <1>1, <1>2, <1>3, <1>4, MarkAllEnds
<1>6. /\ fields' = cleartable(m) /\ g' = SweepLists(s)
      /\ heap' = heap /\ open' = open
  BY DEF atomic
<1> HIDE DEF m
<1>7. m \in GState /\ Coloured(m) /\ Fresh(m) /\ Listed(m) /\ Settled(m, {}) /\ m.gray = {}
  BY <1>5 DEF AllMarked, Steady
<1>8. \A t \in m.weak : t \in heap /\ t \in Obj /\ AllKids(t) \subseteq heap
  BY <1>1, <1>2, <1>7 DEF Listed, Lists, Safe
<1>9. Z \in SUBSET heap /\ Z \in SUBSET Obj /\ (\A o \in Z : Kind[o] = "string")
      /\ (\A t \in m.weak : \A k \in AllKids(t) : Kind[k] = "string" => k \in Z)
  BY <1>2, <1>8 DEF StringsInWeak, Strings, IsA
<1> HIDE DEF Z
<1>10. /\ q \in GState
       /\ \A o \in Obj : q.mark[o] = IF o \in Z THEN NewMark(o) ELSE m.mark[o]
       /\ q.gray = m.gray \cup {o \in Z : Listable(o)}
       /\ q.weak = m.weak /\ q.grayagain = m.grayagain
       /\ q.tmudata = m.tmudata /\ q.finalized = m.finalized
       /\ q.currentwhite = m.currentwhite
  BY <1>1, <1>7, <1>9, MarksWritten
<1> HIDE DEF q
<1>11. /\ s \in GState /\ s.mark = q.mark /\ s.gray = q.gray /\ s.weak = q.weak
       /\ s.grayagain = q.grayagain /\ s.tmudata = q.tmudata /\ s.finalized = q.finalized
       /\ s.currentwhite = otherwhite(q.currentwhite)
  BY <1>10 DEF GState, otherwhite, Whites
<1> HIDE DEF s
<1>12. s.tmudata \subseteq HasGC /\ s.tmudata \subseteq heap
  BY <1>4, <1>5, <1>10, <1>11 DEF AllMarked
<1>13. /\ g' \in GState /\ g'.gcstate = "sweepstring" /\ g'.currentwhite = otherwhite(m.currentwhite)
       /\ g'.mark = q.mark /\ g'.gray = {} /\ g'.weak = m.weak /\ g'.grayagain = m.grayagain
       /\ g'.tmudata = m.tmudata /\ g'.finalized = m.finalized
       /\ \A o \in heap : o \in g'.tmudata \/ Unswept(g', o)
  <2>1. {o \in Z : Listable(o)} = {}
    BY <1>9 DEF Listable
  <2>2. QED
    BY <1>1, <1>6, <1>7, <1>10, <1>11, <1>12, <2>1, SweepListed
<1>14. \A o \in Obj : g'.mark[o] = IF o \in Z THEN "gray" ELSE m.mark[o]
  BY <1>9, <1>10, <1>13 DEF NewMark, IsA
<1>15. \A o \in heap : o \in Live' <=> o \in Z \/ ~iswhite(m, o)
  <2> TAKE o \in heap
  <2>1. m.mark[o] \in Colours /\ m.currentwhite \in Whites /\ o \in Obj
    BY <1>2, <1>7 DEF GState
  <2>2. m.mark[o] # otherwhite(m.currentwhite)
    BY <1>7 DEF Fresh, isdead
  <2>3. o \in Live' <=> g'.mark[o] # otherwhite(g'.currentwhite)
    BY <1>6 DEF Live, isdead
  <2>4. otherwhite(g'.currentwhite) = m.currentwhite
    BY <1>13, <2>1 DEF otherwhite, Whites
  <2>5. QED
    BY <1>14, <2>1, <2>2, <2>3, <2>4 DEF iswhite, otherwhite, Whites, Colours
<1>16. /\ fields' \in [Obj -> SUBSET (Keys \X Obj)]
       /\ \A o \in Obj : fields'[o] \subseteq fields[o]
       /\ \A o \in Obj : o \notin m.weak => fields'[o] = fields[o]
       /\ \A o \in m.weak : \A e \in fields'[o] : /\ e[1] \in Obj => ~iscleared(m, e[1], TRUE)
                                                  /\ ~iscleared(m, e[2], FALSE)
  <2>1. \A o \in Obj : fields[o] \subseteq Keys \X Obj
    BY <1>1 DEF Graph
  <2>2. m.weak \subseteq Obj
    BY <1>8
  <2>3. QED
    BY <1>6, <2>1, <2>2 DEF cleartable
<1>17. Graph'
  BY <1>1, <1>6, <1>16 DEF Graph, FieldOK
<1>18. Main \in Live'
  BY <1>2, <1>3, <1>5, <1>15 DEF AllMarked
<1>19. Safe'
  <2> SUFFICES ASSUME NEW o \in Live' PROVE (AllKids(o) \subseteq Live)'
    BY DEF Safe
  <2>1. o \in heap /\ o \in Obj /\ AllKids(o) \subseteq heap
    BY <1>1, <1>2, <1>6 DEF Live, Safe
  <2>2. CASE Kind[o] = "table" /\ o \in m.weak
    <3>1. FieldsOf(o)' = fields'[o] /\ FieldsOf(o) = fields[o]
      BY <2>2 DEF FieldsOf, IsA
    <3>2. ASSUME NEW k \in AllKids(o)' PROVE k \in Live'
      <4>1. k \in AllKids(o) /\ k \in heap
        BY <1>16, <2>1, <3>1, <3>2 DEF AllKids, KeysOf, ValuesOf
      <4>2. \E b \in BOOLEAN : ~iscleared(m, k, b)
        BY <1>16, <2>2, <3>1, <3>2 DEF AllKids, KeysOf, ValuesOf
      <4>3. Kind[k] = "string" \/ ~iswhite(m, k)
        BY <4>2 DEF iscleared, IsA
      <4>4. QED
        BY <1>9, <1>15, <2>2, <4>1, <4>3
    <3>3. QED
      BY <3>2
  <2>3. CASE ~(Kind[o] = "table" /\ o \in m.weak)
    <3>1. \A x \in m.weak : Kind[x] = "table"
      <4>1. \A x \in m.weak : Mode[x] # {}
        BY <1>7 DEF Listed, ListsApart
      <4>2. QED
        BY <1>1, <1>8, <4>1, Strict
    <3>2. FieldsOf(o)' = FieldsOf(o)
      <4>1. CASE Kind[o] = "upval" /\ open[o] # None
        <5>1. open[o][1] \in Obj /\ Kind[open[o][1]] = "thread"
          BY <1>1, <1>2, <2>1, <4>1 DEF Graph
        <5>2. fields'[open[o][1]] = fields[open[o][1]]
          BY <1>16, <3>1, <5>1
        <5>3. QED
          BY <1>6, <4>1, <5>2 DEF FieldsOf, UpFields, IsA
      <4>2. CASE ~(Kind[o] = "upval" /\ open[o] # None)
        BY <1>6, <1>16, <2>1, <2>3, <3>1, <4>2 DEF FieldsOf, UpFields, IsA
      <4>3. QED
        BY <4>1, <4>2
    <3>3. AllKids(o)' = AllKids(o)
      BY <3>2 DEF AllKids, KeysOf, ValuesOf
    <3>4. CASE Kind[o] = "string"
      BY <1>1, <2>1, <3>3, <3>4, Kids
    <3>5. CASE Kind[o] # "string"
      <4>1. ~iswhite(m, o)
        BY <1>9, <1>15, <2>1, <3>5
      <4>2. Done(m, o)
        BY <1>7, <2>1, <4>1 DEF Settled
      <4>3. Mode[o] = {}
        <5>1. SUFFICES ASSUME Mode[o] # {} PROVE FALSE
          OBVIOUS
        <5>2. Kind[o] = "table"
          BY <1>1, <2>1, <5>1, Strict
        <5>3. m.mark[o] = "gray"
          <6>1. m.mark[o] \in Colours
            BY <1>7, <2>1 DEF GState
          <6>2. QED
            BY <1>7, <2>1, <4>1, <5>1, <6>1 DEF Coloured, ColourOK, iswhite, Colours
        <5>4. o \in m.weak
          BY <1>7, <2>1, <5>1, <5>2, <5>3 DEF Listed, ListsApart, Lists, Listable
        <5>5. QED
          BY <2>3, <5>2, <5>4
      <4>4. StrongKids(o) = AllKids(o)
        BY <1>1, <2>1, <4>3, Kids
      <4>5. QED
        BY <1>15, <2>1, <3>3, <4>2, <4>4 DEF Done
    <3>6. QED
      BY <3>4, <3>5
  <2>4. QED
    BY <2>2, <2>3
<1>20. Coloured(g)'
  BY <1>2, <1>6, <1>7, <1>9, <1>14 DEF Coloured, ColourOK
<1>21. ListsApart(g)'
  BY <1>7, <1>13 DEF Listed, ListsApart
<1>22. Sweeping'
  BY <1>6, <1>13 DEF Sweeping, Unswept
<1>23. Finalizing'
  <2>1. \A u \in m.tmudata : u \in heap /\ ~iswhite(m, u) /\ u \in HasGC /\ u \in m.finalized
    <3>1. g.tmudata \subseteq g.finalized
      BY DEF GCInv, Finalizing
    <3>2. QED
      BY <1>5, <1>10, <1>11, <1>12, <3>1 DEF AllMarked
  <2>2. \A u \in heap : IsA(u, "udata") /\ isdead(g, u)' => u \in m.finalized
    <3> SUFFICES ASSUME NEW u \in heap, Kind[u] = "udata", isdead(g, u)' PROVE u \in m.finalized
      BY DEF IsA
    <3>1. u \notin Live'
      BY DEF Live
    <3>2. iswhite(m, u)
      BY <1>15, <3>1
    <3>3. QED
      BY <1>5, <3>2 DEF AllMarked
  <2>3. g'.tmudata \subseteq Live'
    BY <1>13, <1>15, <2>1
  <2>4. QED
    BY <1>6, <1>13, <2>1, <2>2, <2>3 DEF Finalizing
<1>24. QED
  BY <1>13, <1>17, <1>18, <1>19, <1>20, <1>21, <1>22, <1>23 DEF GCInv, Marking

(* markroot (lgc.c:501) starts a mark phase, also while userdata wait for  *)
(* their finalizers.                                                       *)
LEMMA MarkRootKeeps ==
  ASSUME GCInv, g.gcstate \in {"pause", "finalize"}, MarkRoot, cast' = cast,
         full' \in {"no", "mark"}
  PROVE  GCInv'
<1> DEFINE a == [g EXCEPT !.gray = {}, !.grayagain = {}, !.weak = {}, !.gcstate = "propagate"]
           r == reallymarkobject(a, {Main})
<1>1. Graph /\ g \in GState /\ Safe /\ Fresh(g) /\ HeapClosed /\ Live = heap /\ Coloured(g)
  BY FreshHeap DEF GCInv, Sweeping
<1>2. heap \subseteq Obj /\ Main \in heap /\ Main \in Obj
  BY FreshHeap
<1>3. g' = r /\ heap' = heap /\ fields' = fields /\ open' = open
  BY DEF MarkRoot, markroot
<1>4. /\ a \in GState /\ a.gray = {} /\ a.grayagain = {} /\ a.weak = {} /\ a.gcstate = "propagate"
      /\ a.mark = g.mark /\ a.currentwhite = g.currentwhite /\ a.tmudata = g.tmudata
      /\ a.finalized = g.finalized /\ a.sweepstrgc = g.sweepstrgc /\ a.sweepgc = g.sweepgc
  BY <1>1 DEF GState, Phases
<1> HIDE DEF a
<1>5. \A o \in heap : iswhite(a, o) \/ o \in g.tmudata
  <2>1. g.sweepstrgc = {} /\ g.sweepgc = {}
    BY DEF GCInv, Sweeping
  <2>2. \A o \in heap : g.mark[o] = g.currentwhite \/ o \in g.tmudata
    BY <2>1 DEF GCInv, Sweeping, Unswept
  <2>3. QED
    BY <1>1, <1>4, <2>2 DEF iswhite, GState
<1>6. g.tmudata \subseteq heap /\ \A u \in g.tmudata : Kind[u] = "udata"
  BY <1>1, ModeAssumption DEF GCInv, Finalizing
<1>7. Steady(a, g.tmudata)
  <2>1. Coloured(a) /\ Fresh(a)
    BY <1>1, <1>4 DEF Coloured, ColourOK, Fresh, isdead
  <2>2. Listed(a)
    BY <1>4, <1>5, <1>6 DEF Listed, ListsApart, Lists, Listable, iswhite, Whites
  <2>3. Settled(a, g.tmudata)
    BY <1>5 DEF Settled
  <2>4. QED
    BY <1>4, <2>1, <2>2, <2>3 DEF Steady
<1>8. Steady(r, g.tmudata) /\ Grows(a, r) /\ ~iswhite(r, Main)
  <2>1. {Main} \in SUBSET heap
    BY <1>2
  <2>2. QED
    BY <1>1, <1>7, <2>1, MarkKeeps
<1> HIDE DEF r
<1>9. /\ r \in GState /\ Coloured(r) /\ Fresh(r) /\ Listed(r) /\ Settled(r, g.tmudata)
      /\ r.gcstate = "propagate" /\ r.tmudata = g.tmudata /\ r.finalized = g.finalized
  BY <1>4, <1>8 DEF Steady, Grows
<1>10. Live' = heap
  BY <1>3, <1>9 DEF Live, Fresh
<1>11. Graph' /\ Safe'
  <2>1. \A o : AllKids(o)' = AllKids(o)
    BY <1>3 DEF AllKids, KeysOf, ValuesOf, FieldsOf, UpFields
  <2>2. QED
    BY <1>1, <1>3, <1>10, <2>1 DEF Graph, Safe
<1>12. Coloured(g)' /\ Fresh(g)' /\ Listed(g)'
  <2>1. Coloured(g)' /\ Fresh(g)'
    BY <1>3, <1>9 DEF Coloured, ColourOK, Fresh, isdead
  <2>2. Listed(g)'
    BY <1>3, <1>9 DEF Listed, ListsApart, Lists
  <2>3. QED
    BY <2>1, <2>2
<1>13. Settled(g, Again(g))'
  <2>1. \A o : StrongKids(o)' = StrongKids(o)
    BY <1>3 DEF StrongKids, KeysOf, ValuesOf, FieldsOf, UpFields
  <2>2. QED
    BY <1>3, <1>9, <2>1 DEF Settled, Done, Again, iswhite
<1>14. Sweeping' /\ Marking' /\ Finalizing'
  <2>1. Sweeping'
    BY <1>3, <1>9, <1>12 DEF Sweeping
  <2>2. Marking'
    BY <1>3, <1>8, <1>12, <1>13 DEF Marking, iswhite
  <2>3. Finalizing'
    BY <1>1, <1>3, <1>9, <1>10 DEF GCInv, Finalizing, Fresh
  <2>4. QED
    BY <2>1, <2>2, <2>3
<1>15. QED
  BY <1>2, <1>3, <1>9, <1>10, <1>11, <1>12, <1>14 DEF GCInv, Listed

(* A step of propagatemark. *)
LEMMA PropagateStep ==
  ASSUME GCInv, g.gcstate = "propagate", full # "close", NEW o \in g.gray, g' = propagatemark(g, o),
         UNCHANGED <<heap, fields, open, full, cast>>
  PROVE  GCInv'
<1>1. Graph /\ g \in GState /\ Safe /\ Fresh(g) /\ HeapClosed /\ Live = heap
  BY FreshHeap DEF GCInv, Sweeping
<1>2. heap \subseteq Obj /\ Main \in heap /\ Main \in Obj
  BY FreshHeap
<1>3. Steady(g, Again(g)) /\ ~iswhite(g, Main)
  BY <1>1 DEF GCInv, Marking, Steady
<1> DEFINE r == propagatemark(g, o)
<1>4. Steady(r, Again(g)) /\ Grows(g, r)
  BY <1>1, <1>3, PropagateKeeps
<1>5. g' = r
  OBVIOUS
<1> HIDE DEF r
<1>6. /\ r \in GState /\ Coloured(r) /\ Fresh(r) /\ Listed(r) /\ Settled(r, Again(g))
      /\ r.gcstate = "propagate" /\ r.tmudata = g.tmudata /\ r.finalized = g.finalized
      /\ g.weak \subseteq r.weak /\ g.grayagain \subseteq r.grayagain /\ ~iswhite(r, Main)
  BY <1>2, <1>3, <1>4 DEF Steady, Grows
<1>7. Live' = heap
  BY <1>5, <1>6 DEF Live, Fresh
<1>8. Graph' /\ Safe'
  <2>1. \A x : AllKids(x)' = AllKids(x)
    BY DEF AllKids, KeysOf, ValuesOf, FieldsOf, UpFields
  <2>2. QED
    BY <1>1, <1>7, <2>1 DEF Graph, Safe
<1>9. Coloured(g)' /\ Fresh(g)'
  BY <1>5, <1>6 DEF Coloured, ColourOK, Fresh, isdead
<1>10. Listed(g)'
  BY <1>5, <1>6 DEF Listed, ListsApart, Lists
<1>11. Settled(g, Again(g))'
  <2>1. \A x : StrongKids(x)' = StrongKids(x)
    BY DEF StrongKids, KeysOf, ValuesOf, FieldsOf, UpFields
  <2>2. \A x : x \in Again(g) => x \in Again(g)'
    BY <1>5, <1>6 DEF Again, OpenUpvals
  <2>3. QED
    BY <1>5, <1>6, <2>1, <2>2 DEF Settled, Done, iswhite
<1>12. Sweeping'
  BY <1>5, <1>6, <1>9 DEF Sweeping
<1>13. Marking'
  BY <1>5, <1>6, <1>10, <1>11 DEF Marking, iswhite
<1>14. Finalizing'
  BY <1>1, <1>5, <1>6, <1>7, <1>9 DEF GCInv, Finalizing, Fresh
<1>15. QED
  BY <1>2, <1>5, <1>6, <1>7, <1>8, <1>9, <1>10, <1>12, <1>13, <1>14 DEF GCInv, Listed

(* An upvalue that is closed keeps its value. *)
LEMMA ClosedValue ==
  ASSUME Graph, NEW x \in Obj, Kind[x] = "upval", open[x] # None, open'[x] = None,
         fields'[x] = {<<None, e[2]>> : e \in UpFields(x)}
  PROVE  ValuesOf(x)' = ValuesOf(x) /\ KeysOf(x)' = KeysOf(x) /\ KeysOf(x) = {}
<1>1. FieldsOf(x)' = {<<None, e[2]>> : e \in FieldsOf(x)}
  BY DEF FieldsOf, UpFields, IsA
<1>2. \A e \in FieldsOf(x)' : \E f \in FieldsOf(x) : e[2] = f[2]
  BY <1>1
<1>3. \A f \in FieldsOf(x) : \E e \in FieldsOf(x)' : e[2] = f[2]
  <2> TAKE f \in FieldsOf(x)
  <2>1. <<None, f[2]>> \in FieldsOf(x)' /\ <<None, f[2]>>[2] = f[2]
    BY <1>1
  <2>2. QED
    BY <2>1
<1>4. ValuesOf(x)' = ValuesOf(x)
  BY <1>2, <1>3 DEF ValuesOf
<1>5. KeysOf(x)' = {}
  BY <1>1, NoneAssumption DEF KeysOf
<1>6. \A e \in FieldsOf(x) : FieldOK(x, e)
  BY FieldsFit
<1>7. KeysOf(x) = {}
  BY <1>6 DEF KeysOf, FieldOK
<1>8. QED
  BY <1>4, <1>5, <1>7

(* sweeplist (lgc.c:407) on one object: what it frees was dead, and an     *)
(* upvalue that outlives its thread keeps its value.                       *)
LEMMA SweepKeeps ==
  ASSUME GCInv, g.gcstate \in {"sweepstring", "sweep"}, NEW o \in Obj, sweeplist(o, g),
         full' = full, cast' = cast
  PROVE  GCInv'
<1> DEFINE ups == UpvalsOf({o})
           swept == {o} \cup ups
           dead == {x \in swept : isdead(g, x)}
           closed == IF o \in dead THEN ups \ dead ELSE {}
           s == [g EXCEPT !.sweepgc = @ \ {o}, !.sweepstrgc = @ \ {o}]
<1>1. Graph /\ g \in GState /\ Safe /\ Main \in Live /\ heap \subseteq Obj
  BY FreshHeap DEF GCInv
<1>2. /\ heap' = heap \ dead
      /\ fields' = [x \in Obj |-> IF x \in dead THEN {}
                                  ELSE IF x \in closed THEN {<<None, e[2]>> : e \in UpFields(x)}
                                  ELSE fields[x]]
      /\ open' = [x \in Obj |-> IF x \in dead \cup closed THEN None ELSE open[x]]
      /\ g' = makewhite(s, swept)
  BY DEF sweeplist
<1>3. ups \subseteq heap /\ \A uv \in Obj : uv \in ups <=> open[uv] # None /\ open[uv][1] = o
  BY <1>1 DEF UpvalsOf, Graph
<1> HIDE DEF ups
<1>4. \A uv \in ups : uv \in Obj /\ Kind[uv] = "upval" /\ Kind[o] = "thread" /\ uv # o
  <2> TAKE uv \in ups
  <2>1. uv \in Obj /\ open[uv] # None /\ open[uv][1] = o
    BY <1>1, <1>3
  <2>2. Kind[uv] = "upval" /\ Kind[o] = "thread"
    BY <1>1, <2>1 DEF Graph
  <2>3. QED
    BY <2>1, <2>2
<1>5. /\ dead \subseteq swept /\ (\A x \in swept : x \in dead <=> isdead(g, x))
      /\ closed \subseteq ups /\ closed \cap dead = {} /\ (closed # {} => o \in dead)
      /\ (o \in dead => \A x \in ups : x \in dead \/ x \in closed)
  OBVIOUS
<1>6. /\ g' \in GState /\ g'.gcstate = g.gcstate /\ g'.currentwhite = g.currentwhite
      /\ g'.gray = g.gray /\ g'.grayagain = g.grayagain /\ g'.weak = g.weak
      /\ g'.tmudata = g.tmudata /\ g'.finalized = g.finalized
      /\ g'.sweepgc = g.sweepgc \ {o} /\ g'.sweepstrgc = g.sweepstrgc \ {o}
      /\ g'.mark = [x \in Obj |-> IF x \in swept THEN g.currentwhite ELSE g.mark[x]]
  <2>1. /\ s \in GState /\ s.gcstate = g.gcstate /\ s.currentwhite = g.currentwhite
        /\ s.gray = g.gray /\ s.grayagain = g.grayagain /\ s.weak = g.weak
        /\ s.tmudata = g.tmudata /\ s.finalized = g.finalized /\ s.mark = g.mark
        /\ s.sweepgc = g.sweepgc \ {o} /\ s.sweepstrgc = g.sweepstrgc \ {o}
    BY <1>1 DEF GState
  <2> HIDE DEF s, swept
  <2>2. QED
    BY <1>2, <2>1 DEF makewhite, GState, Colours
<1>7. swept \subseteq Obj
  BY <1>4
<1> HIDE DEF swept, dead, closed, s
<1>8. g.currentwhite \in Whites /\ g.mark \in [Obj -> Colours]
  BY <1>1 DEF GState
<1>9. \A x \in Obj : g'.mark[x] = IF x \in swept THEN g.currentwhite ELSE g.mark[x]
  BY <1>6
<1>10. Live' = Live
  <2>1. \A x \in heap : x \in Live' <=> x \notin dead /\ ~isdead(g, x)'
    BY <1>2 DEF Live
  <2>2. \A x \in heap : isdead(g, x)' <=> x \notin swept /\ isdead(g, x)
    BY <1>1, <1>6, <1>8, <1>9 DEF isdead, otherwhite, Whites
  <2>3. \A x \in heap : x \in Live <=> ~isdead(g, x)
    BY DEF Live
  <2>4. Live' \subseteq heap /\ Live \subseteq heap
    BY <1>2 DEF Live
  <2>5. \A x \in heap : x \in Live' <=> x \in Live
    BY <1>5, <2>1, <2>2, <2>3
  <2>6. QED
    BY <2>4, <2>5
<1>11. \A x \in Live : x \notin dead /\ x \in heap'
  BY <1>2, <1>5 DEF Live
<1>12. \A x \in Obj : Kind[x] = "thread" => fields'[x] = IF x \in dead THEN {} ELSE fields[x]
  BY <1>2, <1>4, <1>5
<1>13. ASSUME NEW x \in heap, x \notin dead
       PROVE  ValuesOf(x)' = ValuesOf(x) /\ KeysOf(x)' = KeysOf(x)
  <2>1. x \in Obj
    BY <1>1
  <2>2. CASE x \in closed
    <3>1. Kind[x] = "upval" /\ open[x] # None /\ open'[x] = None /\ fields'[x] = {<<None, e[2]>> : e \in UpFields(x)}
      BY <1>2, <1>3, <1>4, <1>5, <1>13, <2>1, <2>2
    <3>2. QED
      BY <1>1, <2>1, <3>1, ClosedValue
  <2>3. CASE x \notin closed
    <3>1. open'[x] = open[x] /\ fields'[x] = fields[x]
      BY <1>2, <1>13, <2>1, <2>3
    <3>2. CASE Kind[x] = "upval" /\ open[x] # None
      <4>1. open[x][1] \in Obj /\ Kind[open[x][1]] = "thread"
        BY <1>1, <2>1, <3>2 DEF Graph
      <4>2. open[x][1] \notin dead
        <5>1. SUFFICES ASSUME open[x][1] \in dead PROVE FALSE
          OBVIOUS
        <5>2. open[x][1] = o
          BY <1>4, <1>5, <4>1, <5>1 DEF swept
        <5>3. x \in ups
          BY <1>3, <2>1, <3>2, <5>2
        <5>4. QED
          BY <1>5, <1>13, <2>3, <5>1, <5>2, <5>3
      <4>3. fields'[open[x][1]] = fields[open[x][1]]
        BY <1>12, <4>1, <4>2
      <4>4. FieldsOf(x)' = FieldsOf(x)
        BY <3>1, <3>2, <4>3 DEF FieldsOf, UpFields, IsA
      <4>5. QED
        BY <4>4 DEF ValuesOf, KeysOf
    <3>3. CASE ~(Kind[x] = "upval" /\ open[x] # None)
      <4>1. FieldsOf(x)' = FieldsOf(x)
        BY <3>1, <3>3 DEF FieldsOf, UpFields, IsA
      <4>2. QED
        BY <4>1 DEF ValuesOf, KeysOf
    <3>4. QED
      BY <3>2, <3>3
  <2>4. QED
    BY <2>2, <2>3
<1>14. Safe'
  BY <1>1, <1>10, <1>11, <1>13 DEF Safe, AllKids, Live
<1>15. Graph'
  <2>1. \A x \in closed : x \in Obj /\ {<<None, e[2]>> : e \in UpFields(x)} \subseteq Keys \X Obj
                          /\ \A e \in {<<None, f[2]>> : f \in UpFields(x)} : FieldOK(x, e)
    <3> TAKE x \in closed
    <3>1. x \in Obj /\ Kind[x] = "upval"
      BY <1>4, <1>5
    <3>2. FieldsOf(x) = UpFields(x)
      BY <3>1 DEF FieldsOf, IsA
    <3>3. UpFields(x) \in SUBSET (Keys \X Obj) /\ \A e \in UpFields(x) : FieldOK(x, e)
      BY <1>1, <3>1, <3>2, FieldsFit
    <3>4. QED
      BY <3>1, <3>3, NoneAssumption DEF FieldOK, Keys
  <2>2. fields' \in [Obj -> SUBSET (Keys \X Obj)]
    BY <1>1, <1>2, <2>1 DEF Graph
  <2>3. \A x \in Obj : \A e \in fields'[x] : FieldOK(x, e)
    BY <1>1, <1>2, <2>1 DEF Graph
  <2>4. \A x \in Obj : x \notin heap' => fields'[x] = {}
    <3> SUFFICES ASSUME NEW x \in Obj, x \notin heap' PROVE fields'[x] = {}
      OBVIOUS
    <3>1. CASE x \in dead
      BY <1>2, <3>1
    <3>2. CASE x \notin dead
      <4>1. x \notin heap /\ x \notin closed
        BY <1>2, <1>3, <1>5, <3>2
      <4>2. QED
        BY <1>1, <1>2, <3>2, <4>1 DEF Graph
    <3>3. QED
      BY <3>1, <3>2
  <2>5. open' \in [Obj -> (Obj \X Slots) \cup {None}]
    BY <1>1, <1>2 DEF Graph
  <2>6. ASSUME NEW uv \in Obj, open'[uv] # None
        PROVE  uv \in heap' /\ Kind[uv] = "upval" /\ open'[uv][1] \in heap' /\ Kind[open'[uv][1]] = "thread"
    <3>1. uv \notin dead /\ uv \notin closed /\ open'[uv] = open[uv] /\ open[uv] # None
      BY <1>2, <2>6
    <3>2. uv \in heap /\ Kind[uv] = "upval" /\ open[uv][1] \in heap /\ Kind[open[uv][1]] = "thread"
      BY <1>1, <3>1 DEF Graph
    <3>3. open[uv][1] \notin dead
      <4>1. SUFFICES ASSUME open[uv][1] \in dead PROVE FALSE
        OBVIOUS
      <4>2. open[uv][1] = o
        BY <1>4, <1>5, <3>2, <4>1 DEF swept
      <4>3. uv \in ups
        BY <1>3, <3>1, <4>2
      <4>4. QED
        BY <1>5, <3>1, <4>1, <4>2, <4>3
    <3>4. QED
      BY <1>2, <3>1, <3>2, <3>3
  <2>7. heap' \subseteq cast' /\ cast' \in Casts
    BY <1>1, <1>2 DEF Graph
  <2>8. QED
    BY <2>2, <2>3, <2>4, <2>5, <2>6, <2>7 DEF Graph
<1>16. Coloured(g)'
  <2> SUFFICES ASSUME NEW x \in heap' PROVE ColourOK(g, x)'
    BY DEF Coloured
  <2>1. x \in heap /\ x \in Obj /\ ColourOK(g, x)
    BY <1>1, <1>2 DEF GCInv, Coloured
  <2>2. CASE x \in swept
    BY <1>8, <1>9, <2>1, <2>2 DEF ColourOK, Whites
  <2>3. CASE x \notin swept
    <3>1. open'[x] = open[x]
      BY <1>2, <1>5, <2>1, <2>3 DEF swept
    <3>2. QED
      BY <1>9, <2>1, <2>3, <3>1 DEF ColourOK
  <2>4. QED
    BY <2>2, <2>3
<1>17. ListsApart(g)'
  BY <1>6 DEF GCInv, ListsApart
<1>18. Sweeping'
  <2>1. g'.gcstate \in {"sweepstring", "sweep"} /\ g'.gray = {}
    BY <1>6 DEF GCInv, Sweeping
  <2>2. g'.gcstate = "sweep" => g'.sweepstrgc = {}
    BY <1>6 DEF GCInv, Sweeping
  <2>3. ASSUME NEW x \in heap'
        PROVE  g'.mark[x] = g'.currentwhite \/ x \in g'.tmudata \/ Unswept(g, x)'
    <3>1. x \in heap /\ x \in Obj /\ x \notin dead
      BY <1>1, <1>2
    <3>2. g.mark[x] = g.currentwhite \/ x \in g.tmudata \/ Unswept(g, x)
      BY <3>1 DEF GCInv, Sweeping
    <3>3. CASE x \in swept
      BY <1>6, <1>9, <3>1, <3>3
    <3>4. CASE x \notin swept
      <4>1. x # o /\ open'[x] = open[x] /\ (open[x] # None => open[x][1] # o)
        BY <1>2, <1>3, <1>5, <3>1, <3>4 DEF swept
      <4>2. Unswept(g, x) => Unswept(g, x)'
        BY <1>6, <4>1 DEF Unswept
      <4>3. QED
        BY <1>6, <1>9, <3>1, <3>2, <3>4, <4>2
    <3>5. QED
      BY <3>3, <3>4
  <2>4. QED
    BY <2>1, <2>2, <2>3 DEF Sweeping
<1>19. Finalizing'
  <2>1. \A x \in heap' : isdead(g, x)' => x \in heap /\ isdead(g, x)
    <3> SUFFICES ASSUME NEW x \in heap', isdead(g, x)' PROVE x \in heap /\ isdead(g, x)
      OBVIOUS
    <3>1. x \in heap /\ x \notin Live'
      BY <1>2 DEF Live
    <3>2. QED
      BY <1>10, <3>1 DEF Live
  <2>2. QED
    BY <1>6, <1>10, <2>1 DEF GCInv, Finalizing
<1>20. Marking'
  BY <1>6 DEF Marking
<1>21. full' = full /\ (g'.gcstate # "closed")
  BY <1>6
<1>22. QED
  BY <1>1, <1>6, <1>10, <1>14, <1>15, <1>16, <1>17, <1>18, <1>19, <1>20, <1>21 DEF GCInv

(* The fields F may be stored in p: they fit it, and what is new in them   *)
(* the program has got hold of.                                            *)
Storable(p, F) ==
  /\ p \in heap /\ open[p] = None
  /\ F \in SUBSET (Keys \X Obj) /\ \A e \in F : FieldOK(p, e)
  /\ \A e \in F : e \in fields[p] \/ (e[2] \in Live /\ (e[1] \in Obj => e[1] \in Live))

(* A store keeps the graph in order; besides p, it shows in the upvalues   *)
(* that are open at p.                                                     *)
LEMMA Store ==
  ASSUME GCInv, g.gcstate # "closed", NEW p, NEW F, Storable(p, F),
         fields' = [fields EXCEPT ![p] = F], UNCHANGED <<heap, open, cast>>
  PROVE  /\ Graph'
         /\ \A o \in Live : \A k \in AllKids(o)' : k \in Live
         /\ \A o \in heap : o # p /\ open[o] = None => StrongKids(o)' = StrongKids(o)
         /\ \A k \in StrongKids(p)' : \E e \in F : k = e[2]
<1>1. Graph /\ Safe /\ heap \subseteq Obj /\ p \in Obj /\ p \in heap /\ open[p] = None
  BY FreshHeap DEF GCInv, Storable
<1>2. \A o \in Obj : fields'[o] = IF o = p THEN F ELSE fields[o]
  BY <1>1 DEF Graph
<1>3. Graph'
  <2>1. fields' \in [Obj -> SUBSET (Keys \X Obj)]
    BY <1>1 DEF Graph, Storable
  <2>2. \A o \in Obj : \A e \in fields'[o] : FieldOK(o, e)
    BY <1>1, <1>2 DEF Graph, Storable
  <2>3. \A o \in Obj : o \notin heap => fields'[o] = {}
    BY <1>1, <1>2 DEF Graph
  <2>4. QED
    BY <1>1, <2>1, <2>2, <2>3 DEF Graph
<1>4. FieldsOf(p)' = F /\ FieldsOf(p) = fields[p]
  BY <1>1, <1>2 DEF FieldsOf, UpFields, IsA
<1>5. ASSUME NEW o \in heap, o # p, open[o] = None PROVE FieldsOf(o)' = FieldsOf(o)
  BY <1>1, <1>2, <1>5 DEF FieldsOf, UpFields, IsA
<1>6. ASSUME NEW o \in heap, open[o] # None, NEW e \in FieldsOf(o)'
      PROVE  e \in FieldsOf(o) \/ (e \in F /\ e \notin fields[p])
  <2>1. Kind[o] = "upval" /\ open[o][1] \in Obj
    BY <1>1, <1>6 DEF Graph
  <2>2. QED
    BY <1>2, <1>6, <2>1 DEF FieldsOf, UpFields, IsA
<1>7. ASSUME NEW o \in Live, NEW k \in AllKids(o)' PROVE k \in Live
  <2>1. o \in heap /\ AllKids(o) \subseteq Live
    BY <1>1 DEF Live, Safe
  <2>2. PICK e \in FieldsOf(o)' : k = e[2] \/ (k = e[1] /\ k \in Obj)
    BY <1>7 DEF AllKids, KeysOf, ValuesOf
  <2>3. e \in FieldsOf(o) \/ (e \in F /\ e \notin fields[p])
    BY <1>4, <1>5, <1>6, <2>1
  <2>4. CASE e \in FieldsOf(o)
    BY <2>1, <2>2, <2>4 DEF AllKids, KeysOf, ValuesOf
  <2>5. CASE e \in F /\ e \notin fields[p]
    BY <2>2, <2>5 DEF Storable
  <2>6. QED
    BY <2>3, <2>4, <2>5
<1>8. \A o \in heap : o # p /\ open[o] = None => StrongKids(o)' = StrongKids(o)
  BY <1>5 DEF StrongKids, KeysOf, ValuesOf
<1>9. ASSUME NEW k \in StrongKids(p)' PROVE \E e \in F : k = e[2]
  <2>1. "k" \notin Mode[p] => KeysOf(p)' = {}
    BY <1>4 DEF KeysOf, FieldOK, Storable
  <2>2. QED
    BY <1>4, <1>9, <2>1 DEF StrongKids, ValuesOf
<1>10. QED
  BY <1>3, <1>7, <1>8, <1>9

(* GCTM (lgc.c:446), from a step, a full collection or lua_close. *)
LEMMA GCTMKeeps ==
  ASSUME GCInv, g.gcstate # "closed", g.gcstate = "finalize" \/ full = "close", GCTM,
         full' = full, cast' = cast
  PROVE  GCInv'
<1>1. Graph /\ g \in GState /\ Safe /\ Main \in Live /\ heap \subseteq Obj /\ Main \in Obj /\ Main \in heap
  BY FreshHeap DEF GCInv
<1>2. PICK u \in g.tmudata, keep \in Slots \cup {None} :
        /\ g' = makewhite([g EXCEPT !.tmudata = @ \ {u}], {u})
        /\ fields' = IF keep = None THEN fields
                     ELSE [fields EXCEPT ![Main] = {e \in @ : e[1] # keep} \cup {<<keep, u>>}]
        /\ heap' = heap /\ open' = open
  BY DEF GCTM
<1>3. u \in Live /\ u \in HasGC /\ u \in heap /\ u \in Obj /\ Kind[u] = "udata" /\ u \in g.finalized
  BY <1>1, ModeAssumption DEF GCInv, Finalizing, Live
<1>4. /\ g' \in GState /\ g'.gcstate = g.gcstate /\ g'.currentwhite = g.currentwhite
      /\ g'.gray = g.gray /\ g'.grayagain = g.grayagain /\ g'.weak = g.weak
      /\ g'.tmudata = g.tmudata \ {u} /\ g'.finalized = g.finalized
      /\ g'.sweepgc = g.sweepgc /\ g'.sweepstrgc = g.sweepstrgc
      /\ g'.mark = [x \in Obj |-> IF x \in {u} THEN g.currentwhite ELSE g.mark[x]]
  <2> DEFINE s == [g EXCEPT !.tmudata = @ \ {u}]
  <2>1. /\ s \in GState /\ s.gcstate = g.gcstate /\ s.currentwhite = g.currentwhite
        /\ s.gray = g.gray /\ s.grayagain = g.grayagain /\ s.weak = g.weak
        /\ s.tmudata = g.tmudata \ {u} /\ s.finalized = g.finalized /\ s.mark = g.mark
        /\ s.sweepgc = g.sweepgc /\ s.sweepstrgc = g.sweepstrgc
    BY <1>1 DEF GState
  <2>2. g' = makewhite(s, {u})
    BY <1>2
  <2> HIDE DEF s
  <2>3. QED
    BY <2>1, <2>2 DEF makewhite, GState, Colours
<1>5. g.currentwhite \in Whites /\ g.mark \in [Obj -> Colours]
  BY <1>1 DEF GState
<1>6. \A x \in Obj : g'.mark[x] = IF x = u THEN g.currentwhite ELSE g.mark[x]
  BY <1>4
<1>7. Live' = Live
  <2>1. \A x \in heap : isdead(g, x)' <=> isdead(g, x)
    <3>1. ~isdead(g, u)
      BY <1>3 DEF Live
    <3>2. QED
      BY <1>1, <1>4, <1>5, <1>6, <3>1 DEF isdead, otherwhite, Whites
  <2>2. QED
    BY <1>2, <2>1 DEF Live
<1>8. Graph' /\ Safe'
  <2>1. CASE keep = None
    <3>1. \A o : AllKids(o)' = AllKids(o)
      BY <1>2, <2>1 DEF AllKids, KeysOf, ValuesOf, FieldsOf, UpFields
    <3>2. QED
      BY <1>1, <1>2, <1>7, <2>1, <3>1 DEF Graph, Safe
  <2>2. CASE keep # None
    <3> DEFINE F == {e \in fields[Main] : e[1] # keep} \cup {<<keep, u>>}
    <3>1. fields' = [fields EXCEPT ![Main] = F]
      BY <1>2, <2>2
    <3>2. open[Main] = None
      BY <1>1, KindAssumption, Strict
    <3>3. F \in SUBSET (Keys \X Obj) /\ \A e \in F : FieldOK(Main, e)
      BY <1>1, <1>3, <2>2, KindAssumption, NoneAssumption DEF Graph, Keys, FieldOK
    <3>4. Storable(Main, F)
      BY <1>1, <1>3, <2>2, <3>2, <3>3, NoneAssumption DEF Storable
    <3> HIDE DEF F
    <3>5. Graph' /\ \A o \in Live : \A k \in AllKids(o)' : k \in Live
      BY <1>2, <3>1, <3>4, Store
    <3>6. QED
      BY <1>7, <3>5 DEF Safe
  <2>3. QED
    BY <2>1, <2>2
<1>9. Coloured(g)'
  BY <1>1, <1>2, <1>5, <1>6 DEF GCInv, Coloured, ColourOK, Whites
<1>10. ListsApart(g)'
  BY <1>4 DEF GCInv, ListsApart
<1>11. Sweeping'
  <2>1. \A x \in heap : g.mark[x] = g.currentwhite \/ x \in g.tmudata \/ Unswept(g, x)
          => g'.mark[x] = g'.currentwhite \/ x \in g'.tmudata \/ Unswept(g, x)'
    BY <1>1, <1>2, <1>4, <1>6 DEF Unswept
  <2>2. Fresh(g) => Fresh(g)'
    <3>1. Fresh(g) => Live = heap
      BY DEF Fresh, Live
    <3>2. Live' = heap' => Fresh(g)'
      BY DEF Fresh, Live
    <3>3. QED
      BY <1>2, <1>7, <3>1, <3>2
  <2>3. QED
    BY <1>2, <1>4, <2>1, <2>2 DEF GCInv, Sweeping
<1>12. Marking'
  <2> SUFFICES ASSUME g.gcstate = "propagate" PROVE Listed(g)' /\ ~iswhite(g, Main)' /\ full' = "close"
    BY <1>4 DEF Marking
  <2>1. Listed(g) /\ ~iswhite(g, Main)
    BY DEF GCInv, Marking
  <2>2. u # Main /\ ~Listable(u) /\ u \notin Lists(g)
    BY <1>3, <2>1, KindAssumption DEF Listable, Listed
  <2>3. Lists(g)' = Lists(g) /\ Lists(g) \subseteq Obj
    BY <1>1, <1>4, <2>1 DEF Lists, Listed
  <2>4. Listed(g)'
    BY <1>1, <1>2, <1>6, <1>10, <2>1, <2>2, <2>3 DEF Listed
  <2>5. QED
    BY <1>1, <1>6, <2>1, <2>2, <2>4 DEF iswhite
<1>13. Finalizing'
  <2>1. \A x \in heap : isdead(g, x)' => isdead(g, x)
    <3> SUFFICES ASSUME NEW x \in heap, isdead(g, x)' PROVE isdead(g, x)
      OBVIOUS
    <3>1. x \notin Live'
      BY DEF Live
    <3>2. QED
      BY <1>7, <3>1 DEF Live
  <2>2. QED
    BY <1>2, <1>4, <1>7, <2>1 DEF GCInv, Finalizing
<1>14. QED
  BY <1>1, <1>4, <1>7, <1>8, <1>9, <1>10, <1>11, <1>12, <1>13 DEF GCInv

(* The collector goes on to its next phase; after the sweep nothing dead   *)
(* is left.                                                                *)
LEMMA PhaseKeeps ==
  ASSUME GCInv, NEW ph,
         \/ g.gcstate = "sweepstring" /\ g.sweepstrgc = {} /\ ph = "sweep"
         \/ g.gcstate = "sweep" /\ g.sweepgc = {} /\ ph = "finalize"
         \/ g.gcstate = "finalize" /\ ph = "pause",
         g' = [g EXCEPT !.gcstate = ph], UNCHANGED <<heap, fields, open, full, cast>>
  PROVE  GCInv'
<1>1. Graph /\ g \in GState /\ Safe /\ Main \in Live /\ heap \subseteq Obj
  BY FreshHeap DEF GCInv
<1>2. /\ g' \in GState /\ g'.gcstate = ph /\ g'.currentwhite = g.currentwhite
      /\ g'.gray = g.gray /\ g'.grayagain = g.grayagain /\ g'.weak = g.weak
      /\ g'.tmudata = g.tmudata /\ g'.finalized = g.finalized /\ g'.mark = g.mark
      /\ g'.sweepgc = g.sweepgc /\ g'.sweepstrgc = g.sweepstrgc
  BY <1>1 DEF GState, Phases
<1>3. Live' = Live /\ Graph'
  BY <1>1, <1>2 DEF Live, isdead, Graph
<1>4. Safe'
  <2>1. \A o : AllKids(o)' = AllKids(o)
    BY DEF AllKids, KeysOf, ValuesOf, FieldsOf, UpFields
  <2>2. QED
    BY <1>1, <1>3, <2>1 DEF Safe
<1>5. Coloured(g)' /\ ListsApart(g)'
  BY <1>2 DEF GCInv, Coloured, ColourOK, ListsApart
<1>6. Finalizing'
  BY <1>2, <1>3 DEF GCInv, Finalizing, isdead
<1>7. ph # "propagate" /\ ph # "closed" /\ g.gray = {}
      /\ \A o \in heap : g.mark[o] = g.currentwhite \/ o \in g.tmudata \/ Unswept(g, o)
  BY DEF GCInv, Sweeping
<1>8. \A o \in heap : Unswept(g, o)' <=> Unswept(g, o)
  BY <1>2 DEF Unswept
<1>9. ph \in {"finalize", "pause"} => Fresh(g)'
  <2> SUFFICES ASSUME ph \in {"finalize", "pause"} PROVE Fresh(g)
    BY <1>2 DEF Fresh, isdead
  <2>1. g.sweepstrgc = {} /\ g.sweepgc = {}
    BY DEF GCInv, Sweeping
  <2>2. \A o \in heap : g.mark[o] = g.currentwhite \/ o \in g.tmudata
    BY <1>7, <2>1 DEF Unswept
  <2>3. \A o \in g.tmudata : ~isdead(g, o)
    BY DEF GCInv, Finalizing, Live
  <2>4. g.currentwhite # otherwhite(g.currentwhite)
    BY <1>1 DEF GState, otherwhite, Whites
  <2>5. QED
    BY <2>2, <2>3, <2>4 DEF Fresh, isdead
<1>10. Sweeping'
  <2>1. /\ ph \in {"sweep", "finalize", "pause"} /\ g.sweepstrgc = {}
        /\ ph \in {"finalize", "pause"} => g.sweepgc = {}
    BY DEF GCInv, Sweeping
  <2>2. QED
    BY <1>2, <1>7, <1>8, <1>9, <2>1 DEF Sweeping
<1>11. Marking'
  BY <1>2, <1>7 DEF Marking
<1>12. QED
  BY <1>1, <1>2, <1>3, <1>4, <1>5, <1>6, <1>7, <1>10, <1>11 DEF GCInv

(* singlestep (lgc.c:556). *)
LEMMA SingleStepKeeps ==
  ASSUME GCInv, full \in {"no", "sweep", "mark"}, singlestep, full' = full, cast' = cast
  PROVE  GCInv'
<1>1. g \in GState
  BY DEF GCInv
<1>2. CASE g.gcstate = "pause" /\ full = "no" /\ MarkRoot
  BY <1>2, MarkRootKeeps
<1>3. CASE /\ g.gcstate = "propagate"
           /\ \E o \in g.gray : g' = propagatemark(g, o)
           /\ UNCHANGED <<heap, fields, open, called, garbage>>
  BY <1>3, PropagateStep
<1>4. CASE /\ g.gcstate = "propagate" /\ g.gray = {}
           /\ atomic /\ UNCHANGED <<called, garbage>>
  BY <1>4, AtomicKeeps
<1>5. CASE /\ g.gcstate = "sweepstring"
           /\ IF g.sweepstrgc # {} THEN \E s \in g.sweepstrgc : sweeplist(s, g)
              ELSE g' = [g EXCEPT !.gcstate = "sweep"] /\ UNCHANGED <<heap, fields, open>>
           /\ UNCHANGED <<called, garbage>>
  <2>1. CASE g.sweepstrgc # {}
    <3>1. PICK s \in g.sweepstrgc : sweeplist(s, g)
      BY <1>5, <2>1
    <3>2. s \in Obj
      BY <1>1 DEF GState
    <3>3. QED
      BY <1>5, <3>1, <3>2, SweepKeeps
  <2>2. CASE g.sweepstrgc = {}
    BY <1>5, <2>2, PhaseKeeps
  <2>3. QED
    BY <2>1, <2>2
<1>6. CASE /\ g.gcstate = "sweep"
           /\ IF g.sweepgc # {} THEN \E o \in g.sweepgc : sweeplist(o, g)
              ELSE g' = [g EXCEPT !.gcstate = "finalize"] /\ UNCHANGED <<heap, fields, open>>
           /\ UNCHANGED <<called, garbage>>
  <2>1. CASE g.sweepgc # {}
    <3>1. PICK s \in g.sweepgc : sweeplist(s, g)
      BY <1>6, <2>1
    <3>2. s \in Obj
      BY <1>1 DEF GState
    <3>3. QED
      BY <1>6, <3>1, <3>2, SweepKeeps
  <2>2. CASE g.sweepgc = {}
    BY <1>6, <2>2, PhaseKeeps
  <2>3. QED
    BY <2>1, <2>2
<1>7. CASE g.gcstate = "finalize" /\ g.tmudata # {} /\ full # "sweep" /\ GCTM /\ UNCHANGED garbage
  BY <1>7, GCTMKeeps
<1>8. CASE /\ g.gcstate = "finalize" /\ g.tmudata = {} /\ full # "sweep"
           /\ g' = [g EXCEPT !.gcstate = "pause"]
           /\ UNCHANGED <<heap, fields, open, called, garbage>>
  BY <1>8, PhaseKeeps
<1>9. QED
  BY <1>2, <1>3, <1>4, <1>5, <1>6, <1>7, <1>8 DEF singlestep

(* luaC_fullgc (lgc.c:629): a mark phase may be abandoned at any time, as  *)
(* the sweep that follows turns everything white.                          *)
LEMMA FullKeeps ==
  ASSUME GCInv, luaC_fullgc
  PROVE  GCInv'
<1>1. CASE /\ full = "no" /\ g.gcstate # "closed"
           /\ full' = "sweep"
           /\ g' = IF g.gcstate \in {"pause", "propagate"} THEN Abandon(g) ELSE g
           /\ UNCHANGED <<heap, fields, open, called, garbage, cast>>
  <2>1. Graph /\ g \in GState /\ Safe /\ Main \in Live /\ heap \subseteq Obj
    BY <1>1, FreshHeap DEF GCInv
  <2>2. \A o : AllKids(o)' = AllKids(o)
    BY <1>1 DEF AllKids, KeysOf, ValuesOf, FieldsOf, UpFields
  <2>3. Graph'
    BY <1>1, <2>1 DEF Graph
  <2>4. CASE g.gcstate \in {"pause", "propagate"}
    <3> DEFINE s == SweepLists(g)
    <3>1. g.tmudata \subseteq HasGC
      BY DEF GCInv, Finalizing
    <3>2. /\ s \in GState /\ s.gcstate = "sweepstring" /\ s.currentwhite = g.currentwhite
          /\ s.mark = g.mark /\ s.tmudata = g.tmudata /\ s.finalized = g.finalized
          /\ \A o \in heap : o \in g.tmudata \/ Unswept(s, o)
      BY <2>1, <3>1, SweepListed
    <3>3. g' = [s EXCEPT !.gray = {}, !.grayagain = {}, !.weak = {}]
      BY <1>1, <2>4 DEF Abandon
    <3> HIDE DEF s
    <3>4. /\ g' \in GState /\ g'.gcstate = "sweepstring" /\ g'.currentwhite = g.currentwhite
          /\ g'.mark = g.mark /\ g'.tmudata = g.tmudata /\ g'.finalized = g.finalized
          /\ g'.gray = {} /\ g'.grayagain = {} /\ g'.weak = {}
          /\ g'.sweepgc = s.sweepgc /\ g'.sweepstrgc = s.sweepstrgc
      BY <3>2, <3>3 DEF GState
    <3>5. Live' = Live
      BY <1>1, <3>4 DEF Live, isdead
    <3>6. Coloured(g)' /\ ListsApart(g)'
      BY <1>1, <3>4 DEF GCInv, Coloured, ColourOK, ListsApart
    <3>7. Sweeping'
      <4>1. \A o \in heap : Unswept(g, o)' <=> Unswept(s, o)
        BY <1>1, <3>4 DEF Unswept
      <4>2. QED
        BY <1>1, <3>2, <3>4, <4>1 DEF Sweeping
    <3>8. Marking' /\ Finalizing'
      BY <1>1, <3>4, <3>5 DEF GCInv, Marking, Finalizing, isdead
    <3>9. Safe'
      BY <2>1, <2>2, <3>5 DEF Safe
    <3>10. QED
      BY <1>1, <2>1, <2>3, <3>4, <3>5, <3>6, <3>7, <3>8, <3>9 DEF GCInv
  <2>5. CASE g.gcstate \notin {"pause", "propagate"}
    <3>1. g' = g
      BY <1>1, <2>5
    <3>2. Live' = Live
      BY <1>1, <3>1 DEF Live
    <3>3. Safe'
      BY <2>1, <2>2, <3>2 DEF Safe
    <3>4. Coloured(g)' /\ ListsApart(g)'
      BY <1>1, <3>1 DEF GCInv, Coloured, ColourOK, ListsApart
    <3>5. Sweeping'
      BY <1>1, <3>1 DEF GCInv, Sweeping, Unswept, Fresh
    <3>6. Marking' /\ Finalizing'
      BY <1>1, <2>5, <3>1, <3>2 DEF GCInv, Marking, Finalizing
    <3>7. QED
      BY <1>1, <2>1, <2>3, <3>1, <3>2, <3>3, <3>4, <3>5, <3>6 DEF GCInv
  <2>6. QED
    BY <2>4, <2>5
<1>2. CASE full = "sweep" /\ g.gcstate # "finalize" /\ singlestep /\ UNCHANGED <<full, cast>>
  BY <1>2, SingleStepKeeps
<1>3. CASE full = "sweep" /\ g.gcstate = "finalize" /\ MarkRoot /\ full' = "mark" /\ UNCHANGED cast
  BY <1>3, MarkRootKeeps
<1>4. CASE full = "mark" /\ g.gcstate # "pause" /\ singlestep /\ UNCHANGED <<full, cast>>
  BY <1>4, SingleStepKeeps
<1>5. CASE /\ full = "mark" /\ g.gcstate = "pause" /\ full' = "no"
           /\ UNCHANGED <<heap, fields, open, g, called, garbage, cast>>
  <2>1. Graph' /\ Live' = Live
    BY <1>5 DEF GCInv, Graph, Live
  <2>2. Safe'
    <3>1. \A o : AllKids(o)' = AllKids(o)
      BY <1>5 DEF AllKids, KeysOf, ValuesOf, FieldsOf, UpFields
    <3>2. QED
      BY <1>5, <2>1, <3>1 DEF GCInv, Safe
  <2>3. Coloured(g)' /\ ListsApart(g)' /\ Sweeping'
    BY <1>5 DEF GCInv, Coloured, ColourOK, ListsApart, Sweeping, Unswept, Fresh
  <2>4. Marking' /\ Finalizing'
    BY <1>5, <2>1 DEF GCInv, Marking, Finalizing
  <2>5. QED
    BY <1>5, <2>1, <2>2, <2>3, <2>4 DEF GCInv
<1>6. QED
  BY <1>1, <1>2, <1>3, <1>4, <1>5 DEF luaC_fullgc

(* lua_close (lstate.c:203): all userdata not finalized yet are alive. *)
LEMMA CloseKeeps ==
  ASSUME GCInv, lua_close
  PROVE  GCInv'
<1>1. CASE /\ Running
           /\ full' = "close"
           /\ g' = luaC_separateudata(g, TRUE)
           /\ UNCHANGED <<heap, fields, open, called, garbage, cast>>
  <2> DEFINE cand == {u \in heap : IsA(u, "udata") /\ u \notin g.finalized}
  <2>1. Graph /\ g \in GState /\ Safe /\ Main \in Live /\ heap \subseteq Obj /\ g.gcstate # "closed"
    BY <1>1, FreshHeap DEF GCInv, Running
  <2>2. g' = [g EXCEPT !.finalized = @ \cup cand, !.tmudata = @ \cup (cand \cap HasGC)]
    BY <1>1 DEF luaC_separateudata
  <2>3. cand \subseteq Live /\ cand \subseteq Obj
    BY <2>1 DEF GCInv, Finalizing, Live
  <2> HIDE DEF cand
  <2>4. /\ g' \in GState /\ g'.gcstate = g.gcstate /\ g'.currentwhite = g.currentwhite
        /\ g'.gray = g.gray /\ g'.grayagain = g.grayagain /\ g'.weak = g.weak
        /\ g'.tmudata = g.tmudata \cup (cand \cap HasGC) /\ g'.finalized = g.finalized \cup cand
        /\ g'.mark = g.mark /\ g'.sweepgc = g.sweepgc /\ g'.sweepstrgc = g.sweepstrgc
    BY <2>1, <2>2, <2>3 DEF GState
  <2>5. Graph' /\ Live' = Live
    <3>1. Graph'
      BY <1>1, <2>1 DEF Graph
    <3>2. Live' = Live
      BY <1>1, <2>4 DEF Live, isdead
    <3>3. QED
      BY <3>1, <3>2
  <2>6. Safe'
    <3>1. \A o : AllKids(o)' = AllKids(o)
      BY <1>1 DEF AllKids, KeysOf, ValuesOf, FieldsOf, UpFields
    <3>2. QED
      BY <2>1, <2>5, <3>1 DEF Safe
  <2>7. Coloured(g)' /\ ListsApart(g)'
    BY <1>1, <2>4 DEF GCInv, Coloured, ColourOK, ListsApart
  <2>8. Sweeping'
    BY <1>1, <2>4 DEF GCInv, Sweeping, Unswept, Fresh, isdead
  <2>9. Marking'
    BY <1>1, <2>4, <2>7 DEF GCInv, Marking, Listed, Lists, iswhite
  <2>10. Finalizing'
    BY <1>1, <2>3, <2>4, <2>5 DEF GCInv, Finalizing, isdead
  <2>11. QED
    BY <1>1, <2>1, <2>4, <2>5, <2>6, <2>7, <2>8, <2>9, <2>10 DEF GCInv
<1>2. CASE full = "close" /\ g.tmudata # {} /\ GCTM /\ UNCHANGED <<garbage, full, cast>>
  <2>1. g.gcstate # "closed"
    BY <1>2 DEF GCInv
  <2>2. QED
    BY <1>2, <2>1, GCTMKeeps
<1>3. CASE /\ full = "close" /\ g.tmudata = {}
           /\ g' = [g EXCEPT !.gcstate = "closed"] /\ full' = "no"
           /\ Free(heap) /\ open' = [o \in Obj |-> None]
           /\ UNCHANGED <<called, garbage, cast>>
  <2>1. Graph /\ g \in GState
    BY DEF GCInv
  <2>2. /\ g' \in GState /\ g'.gcstate = "closed" /\ g'.tmudata = {}
        /\ g'.gray = g.gray /\ g'.grayagain = g.grayagain /\ g'.weak = g.weak
    BY <1>3, <2>1 DEF GState, Phases
  <2>3. heap' = {} /\ \A o \in Obj : fields'[o] = {}
    BY <1>3, <2>1 DEF Free, Graph
  <2>4. fields' = [o \in Obj |-> {}]
    BY <1>3, <2>3 DEF Free
  <2>5. Graph'
    BY <1>3, <2>1, <2>3, <2>4 DEF Graph
  <2>6. Coloured(g)' /\ ListsApart(g)'
    BY <2>2, <2>3 DEF GCInv, Coloured, ListsApart
  <2>7. Sweeping' /\ Marking' /\ Finalizing'
    BY <2>2, <2>3 DEF Sweeping, Marking, Finalizing, Fresh
  <2>8. QED
    BY <1>3, <2>2, <2>5, <2>6, <2>7 DEF GCInv
<1>4. QED
  BY <1>1, <1>2, <1>3 DEF lua_close

-----------------------------------------------------------------------------
(* The mutator and the barriers.                                           *)

(* What a program can get at is alive. *)
LEMMA AccessibleLive ==
  ASSUME GCInv, g.gcstate # "closed"
  PROVE  Accessible \subseteq Live
<1>1. Graph /\ Safe /\ Main \in Live /\ heap \subseteq Obj /\ Main \in Obj
  BY FreshHeap DEF GCInv
<1>2. Live \in SUBSET Obj /\ {Main} \in SUBSET Obj /\ {Main} \subseteq Live
  BY <1>1 DEF Live
<1>3. \A o \in Live \cap heap : AllKids(o) \subseteq Live
  BY <1>1 DEF Safe
<1>4. QED
  BY <1>1, <1>2, <1>3, ClosureWithin DEF Accessible

(* The state r makes good for storing the fields F in p: it differs from   *)
(* g by what a barrier does.                                               *)
SameLists(a, b) ==
  /\ b.gcstate = a.gcstate /\ b.currentwhite = a.currentwhite
  /\ b.tmudata = a.tmudata /\ b.finalized = a.finalized
  /\ b.sweepgc = a.sweepgc /\ b.sweepstrgc = a.sweepstrgc
Barred(p, F, r) ==
  /\ r \in GState /\ SameLists(g, r) /\ Coloured(r) /\ ListsApart(r)
  /\ \A o \in heap : isdead(r, o) <=> isdead(g, o)
  /\ g.gcstate # "propagate" =>
       r.gray = g.gray /\ \A o \in heap : g.mark[o] = g.currentwhite => r.mark[o] = g.currentwhite
  /\ g.gcstate = "propagate" =>
       /\ Listed(r) /\ ~iswhite(r, Main) /\ Settled(r, Again(r) \cup {p})
       /\ p \in Again(r) \cup r.gray \/ iswhite(r, p) \/ \A e \in F : ~iswhite(r, e[2])

(* A store with its barrier. *)
LEMMA StoreKeeps ==
  ASSUME GCInv, Running, NEW p, NEW F, Storable(p, F), Barred(p, F, g'),
         fields' = [fields EXCEPT ![p] = F], UNCHANGED <<heap, open, full, cast>>
  PROVE  GCInv'
<1>1. g.gcstate # "closed" /\ full = "no"
  BY DEF Running
<1>2. /\ Graph'
      /\ \A o \in Live : \A k \in AllKids(o)' : k \in Live
      /\ \A o \in heap : o # p /\ open[o] = None => StrongKids(o)' = StrongKids(o)
      /\ \A k \in StrongKids(p)' : \E e \in F : k = e[2]
  BY <1>1, Store
<1>3. /\ g' \in GState /\ SameLists(g, g') /\ Coloured(g') /\ ListsApart(g')
      /\ \A o \in heap : isdead(g', o) <=> isdead(g, o)
  BY DEF Barred
<1>4. Live' = Live
  BY <1>3 DEF Live, isdead
<1>5. Safe' /\ Main \in Live'
  BY <1>1, <1>2, <1>4 DEF Safe, GCInv
<1>6. Coloured(g)' /\ ListsApart(g)'
  BY <1>3 DEF Coloured, ColourOK, ListsApart
<1>7. Fresh(g) => Fresh(g)'
  BY <1>3 DEF Fresh, isdead
<1>8. Sweeping'
  <2>1. g.gcstate # "propagate" =>
          g'.gray = g.gray /\ \A o \in heap : g.mark[o] = g.currentwhite => g'.mark[o] = g.currentwhite
    BY DEF Barred
  <2>2. \A o \in heap : Unswept(g, o) => Unswept(g, o)'
    BY <1>3 DEF Unswept, SameLists
  <2>3. QED
    BY <1>3, <1>7, <2>1, <2>2 DEF GCInv, Sweeping, SameLists
<1>9. Marking'
  <2> SUFFICES ASSUME g.gcstate = "propagate"
               PROVE  Listed(g)' /\ ~iswhite(g, Main)' /\ Settled(g, Again(g))'
    BY <1>3 DEF Marking, SameLists
  <2>1. /\ Listed(g') /\ ~iswhite(g', Main) /\ Settled(g', Again(g') \cup {p})
        /\ p \in Again(g') \cup g'.gray \/ iswhite(g', p) \/ \A e \in F : ~iswhite(g', e[2])
    BY DEF Barred
  <2>2. Listed(g)' /\ ~iswhite(g, Main)'
    BY <2>1 DEF Listed, ListsApart, Lists, iswhite
  <2>3. \A o : o \in Again(g') <=> o \in Again(g)'
    BY DEF Again, OpenUpvals
  <2>4. ASSUME NEW o \in heap, ~iswhite(g', o), o \notin g'.gray, o \notin Again(g')
        PROVE  \A k \in StrongKids(o)' : ~iswhite(g', k)
    <3>1. CASE o = p
      BY <1>2, <2>1, <2>4, <3>1
    <3>2. CASE o # p
      <4>1. open[o] = None
        BY <1>1, <2>4, FreshHeap DEF Again, OpenUpvals
      <4>2. \A k \in StrongKids(o) : ~iswhite(g', k)
        BY <2>1, <2>4, <3>2 DEF Settled, Done
      <4>3. QED
        BY <1>2, <3>2, <4>1, <4>2
    <3>3. QED
      BY <3>1, <3>2
  <2>5. Settled(g, Again(g))'
    BY <2>3, <2>4 DEF Settled, Done, iswhite
  <2>6. QED
    BY <2>2, <2>5
<1>10. Finalizing'
  BY <1>3, <1>4 DEF GCInv, Finalizing, SameLists, isdead
<1>11. QED
  BY <1>1, <1>2, <1>3, <1>5, <1>6, <1>8, <1>9, <1>10 DEF GCInv, SameLists

(* No barrier is needed where the object is looked at again, or is not     *)
(* marked, or points to nothing white.                                     *)
LEMMA NoBarrier ==
  ASSUME GCInv, Running, NEW p, NEW F,
         g.gcstate = "propagate" =>
           p \in Again(g) \cup g.gray \/ iswhite(g, p) \/ \A e \in F : ~iswhite(g, e[2])
  PROVE  Barred(p, F, g)
<1>1. g.gcstate = "propagate" => Listed(g) /\ ~iswhite(g, Main) /\ Settled(g, Again(g))
  BY DEF GCInv, Marking, Running
<1>2. Settled(g, Again(g)) => Settled(g, Again(g) \cup {p})
  BY DEF Settled
<1>3. QED
  BY <1>1, <1>2 DEF GCInv, Barred, SameLists

(* Threads are never black: they are on a list while they are marked. *)
LEMMA ThreadAgain ==
  ASSUME GCInv, g.gcstate = "propagate", NEW p \in heap, Kind[p] = "thread"
  PROVE  p \in Again(g) \cup g.gray \/ iswhite(g, p)
<1>1. p \in Obj /\ g \in GState
  BY FreshHeap DEF GCInv
<1>2. ColourOK(g, p) /\ Listed(g)
  BY DEF GCInv, Coloured, Marking
<1>3. g.mark[p] \in Colours
  BY <1>1 DEF GState
<1>4. QED
  BY <1>2, <1>3 DEF ColourOK, Listed, Lists, Listable, Again, iswhite, Colours

(* A stack slot of thread th may take any value but an upvalue. *)
LEMMA SlotStorable ==
  ASSUME GCInv, Running, NEW th \in heap, Kind[th] = "thread", NEW i \in Slots,
         NEW v \in Live, Kind[v] # "upval"
  PROVE  Storable(th, SetSlot(th, i, v)) /\ Barred(th, SetSlot(th, i, v), g)
<1> DEFINE F == SetSlot(th, i, v)
<1>1. g.gcstate # "closed" /\ Graph
  BY DEF Running, GCInv
<1>2. heap \subseteq Obj /\ th \in Obj /\ v \in Obj
  BY <1>1, FreshHeap DEF Live
<1>3. open[th] = None
  BY <1>1, <1>2, Strict
<1>4. F \in SUBSET (Keys \X Obj) /\ \A e \in F : FieldOK(th, e)
  BY <1>1, <1>2, NoneAssumption DEF SetSlot, Graph, FieldOK, Keys
<1>5. \A e \in F : e \in fields[th] \/ (e[2] \in Live /\ e[1] \notin Obj)
  BY NoneAssumption DEF SetSlot
<1> HIDE DEF F
<1>6. Storable(th, F)
  BY <1>3, <1>4, <1>5 DEF Storable
<1>7. Barred(th, F, g)
  BY ThreadAgain, NoBarrier
<1>8. QED
  BY <1>6, <1>7 DEF F

(* Push. *)
LEMMA PushKeeps ==
  ASSUME GCInv, Running, NEW th \in Live, Kind[th] = "thread", NEW i \in Slots,
         NEW v \in Live, Kind[v] # "upval", Push(th, i, v)
  PROVE  GCInv'
<1>1. th \in heap
  BY DEF Live
<1>2. Storable(th, SetSlot(th, i, v)) /\ Barred(th, SetSlot(th, i, v), g)
  BY <1>1, SlotStorable
<1>3. g' = g /\ fields' = [fields EXCEPT ![th] = SetSlot(th, i, v)] /\ UNCHANGED <<heap, open, full, cast>>
  BY DEF Push
<1> DEFINE F == SetSlot(th, i, v)
<1> HIDE DEF F
<1>4. Storable(th, F) /\ Barred(th, F, g') /\ fields' = [fields EXCEPT ![th] = F]
  BY <1>2, <1>3 DEF F
<1>5. QED
  BY <1>3, <1>4, StoreKeeps

(* To drop fields needs no barrier either. *)
LEMMA DropKeeps ==
  ASSUME GCInv, Running, NEW p \in Live, open[p] = None, NEW F, F \subseteq fields[p],
         fields' = [fields EXCEPT ![p] = F], UNCHANGED <<heap, open, g, full, cast>>
  PROVE  GCInv'
<1>1. Graph /\ g.gcstate # "closed" /\ p \in heap /\ p \in Obj
  BY FreshHeap DEF GCInv, Running, Live
<1>2. Storable(p, F)
  BY <1>1 DEF Storable, Graph
<1>3. g.gcstate = "propagate" =>
        p \in Again(g) \cup g.gray \/ iswhite(g, p) \/ \A e \in F : ~iswhite(g, e[2])
  <2> SUFFICES ASSUME g.gcstate = "propagate", p \notin Again(g), p \notin g.gray, ~iswhite(g, p),
                      NEW e \in F
               PROVE  ~iswhite(g, e[2])
    OBVIOUS
  <2>1. Done(g, p) /\ Listed(g) /\ ColourOK(g, p) /\ g \in GState
    BY <1>1 DEF GCInv, Marking, Running, Settled, Coloured
  <2>2. Mode[p] = {}
    <3>1. g.mark[p] \in Colours
      BY <1>1, <2>1 DEF GState
    <3>2. Mode[p] # {} => Kind[p] = "table"
      BY <1>1, Strict
    <3>3. QED
      BY <1>1, <2>1, <3>1, <3>2 DEF ColourOK, Listed, Lists, Listable, Again, iswhite, Colours
  <2>3. e[2] \in StrongKids(p)
    <3>1. e \in FieldsOf(p)
      BY <1>1 DEF FieldsOf, UpFields, IsA
    <3>2. QED
      BY <2>2, <3>1 DEF StrongKids, ValuesOf
  <2>4. QED
    BY <2>1, <2>3 DEF Done
<1>4. Barred(p, F, g')
  <2>1. Barred(p, F, g)
    BY <1>3, NoBarrier
  <2>2. QED
    BY <2>1
<1>5. QED
  BY <1>2, <1>4, StoreKeeps

(* Pop and Clear. *)
LEMMA PopKeeps ==
  ASSUME GCInv, Running, NEW th \in Live, Kind[th] = "thread", NEW i, Pop(th, i)
  PROVE  GCInv'
<1> DEFINE F == {e \in fields[th] : e[1] # i}
<1>1. Graph /\ th \in Obj
  BY FreshHeap DEF GCInv, Running, Live
<1>2. open[th] = None
  BY <1>1, Strict
<1>3. F \subseteq fields[th] /\ fields' = [fields EXCEPT ![th] = F] /\ UNCHANGED <<heap, open, g, full, cast>>
  BY DEF Pop
<1> HIDE DEF F
<1>4. QED
  BY <1>2, <1>3, DropKeeps

(* A field is set to nil. *)
LEMMA ClearKeeps ==
  ASSUME GCInv, Running, NEW t \in Live, Kind[t] = "table", Clear(t)
  PROVE  GCInv'
<1>1. Graph /\ t \in Obj
  BY FreshHeap DEF GCInv, Running, Live
<1>2. open[t] = None
  BY <1>1, Strict
<1> DEFINE F == {}
<1>3. F \subseteq fields[t] /\ fields' = [fields EXCEPT ![t] = F] /\ UNCHANGED <<heap, open, g, full, cast>>
  BY DEF Clear
<1> HIDE DEF F
<1>4. QED
  BY <1>2, <1>3, DropKeeps

(* luaC_barrierback (lgc.c:679): a black table that is written to is looked *)
(* at again; a weak one is never black.                                     *)
LEMMA SetTableKeeps ==
  ASSUME GCInv, Running, NEW t \in Live, Kind[t] = "table", NEW v \in Live, Kind[v] # "upval",
         NEW k, k \in Live \/ k = None, luaV_settable(t, k, v)
  PROVE  GCInv'
<1> DEFINE F == {<<k, v>>}
<1>1. /\ Graph /\ g \in GState /\ g.gcstate # "closed" /\ heap \subseteq Obj
      /\ t \in heap /\ t \in Obj /\ v \in heap /\ v \in Obj /\ k \in Obj \cup {None}
  BY FreshHeap DEF GCInv, Running, Live
<1>2. /\ k # None => "k" \in Mode[t]
      /\ fields' = [fields EXCEPT ![t] = F] /\ UNCHANGED <<heap, open, full, cast>>
      /\ g' = luaC_barriert(IF k = None THEN g ELSE luaC_barriert(g, t, k), t, v)
  BY DEF luaV_settable
<1>3. open[t] = None /\ ColourOK(g, t) /\ g.mark[t] \in Colours
  BY <1>1, Strict DEF GCInv, Coloured, GState
<1>4. Storable(t, F)
  BY <1>1, <1>2, <1>3, NoneAssumption DEF Storable, Keys, FieldOK
<1>5. g.mark[t] = "black" => k = None /\ Mode[t] = {}
  BY <1>2, <1>3 DEF ColourOK
<1>6. CASE ~(iswhite(g, v) /\ g.mark[t] = "black")
  <2>1. g' = g
    BY <1>2, <1>5, <1>6 DEF luaC_barriert
  <2>2. g.gcstate = "propagate" =>
          t \in Again(g) \cup g.gray \/ iswhite(g, t) \/ \A e \in F : ~iswhite(g, e[2])
    <3> SUFFICES ASSUME g.gcstate = "propagate", t \notin Again(g), t \notin g.gray, ~iswhite(g, t)
                 PROVE  ~iswhite(g, v)
      OBVIOUS
    <3>1. Listed(g)
      BY DEF GCInv, Marking
    <3>2. g.mark[t] = "black"
      BY <1>1, <1>3, <3>1 DEF Listed, Lists, Listable, Again, iswhite, Colours
    <3>3. QED
      BY <1>6, <3>2
  <2> HIDE DEF F
  <2>3. Barred(t, F, g')
    <3>1. Barred(t, F, g)
      BY <2>2, NoBarrier
    <3>2. QED
      BY <2>1, <3>1
  <2>4. QED
    BY <1>2, <1>4, <2>3, StoreKeeps
<1>7. CASE iswhite(g, v) /\ g.mark[t] = "black"
  <2> DEFINE r == luaC_barrierback(g, t)
  <2>1. g' = r /\ Mode[t] = {}
    BY <1>2, <1>5, <1>7 DEF luaC_barriert
  <2>2. /\ r \in GState /\ SameLists(g, r) /\ r.gray = g.gray /\ r.weak = g.weak
        /\ r.grayagain = g.grayagain \cup {t} /\ r.mark = [g.mark EXCEPT ![t] = "gray"]
    BY <1>1 DEF luaC_barrierback, GState, Colours, SameLists
  <2> HIDE DEF r
  <2>3. \A o \in Obj : r.mark[o] = IF o = t THEN "gray" ELSE g.mark[o]
    BY <1>1, <2>2 DEF GState
  <2>4. Coloured(r)
    BY <1>1, <2>3 DEF GCInv, Coloured, ColourOK
  <2>5. t \notin g.gray
    <3>1. g.gcstate = "propagate" => t \notin g.gray
      BY <1>7 DEF GCInv, Marking, Listed, Lists
    <3>2. g.gcstate # "propagate" => g.gray = {}
      BY <1>1 DEF GCInv, Sweeping
    <3>3. QED
      BY <3>1, <3>2
  <2>6. ListsApart(r)
    BY <2>1, <2>2, <2>5 DEF GCInv, ListsApart
  <2>7. \A o \in heap : isdead(r, o) <=> isdead(g, o)
    BY <1>1, <1>7, <2>2, <2>3 DEF isdead, SameLists, otherwhite, Whites, GState
  <2>8. g.gcstate # "propagate" =>
          r.gray = g.gray /\ \A o \in heap : g.mark[o] = g.currentwhite => r.mark[o] = g.currentwhite
    <3>1. g.currentwhite # "black"
      BY <1>1 DEF GState, Whites
    <3>2. QED
      BY <1>1, <1>7, <2>2, <2>3, <3>1
  <2>9. \A o \in Obj : iswhite(r, o) <=> iswhite(g, o)
    BY <1>7, <2>3 DEF iswhite, Whites
  <2>10. ASSUME g.gcstate = "propagate"
         PROVE  /\ Listed(r) /\ ~iswhite(r, Main) /\ Settled(r, Again(r) \cup {t})
                /\ t \in Again(r)
    <3>1. Listed(g) /\ ~iswhite(g, Main) /\ Settled(g, Again(g)) /\ Main \in Obj
      BY <2>10, FreshHeap DEF GCInv, Marking, Running
    <3>2. Lists(r) = Lists(g) \cup {t}
      BY <2>2 DEF Lists
    <3>3. \A o \in Lists(r) : o \in heap /\ r.mark[o] = "gray" /\ Listable(o)
      BY <1>1, <2>3, <3>1, <3>2 DEF Listed, Listable
    <3>4. \A o \in heap : r.mark[o] = "gray" /\ Listable(o) => o \in Lists(r)
      BY <1>1, <2>3, <3>1, <3>2 DEF Listed
    <3>5. Settled(r, Again(r) \cup {t})
      <4> SUFFICES ASSUME NEW o \in heap, ~iswhite(r, o), o \notin r.gray, o \notin Again(r), o # t
                   PROVE  Done(r, o)
        BY DEF Settled
      <4>1. o \notin Again(g) /\ ~iswhite(g, o) /\ o \notin g.gray
        BY <1>1, <2>2, <2>9 DEF Again, SameLists
      <4>2. Done(g, o)
        BY <3>1, <4>1 DEF Settled
      <4>3. StrongKids(o) \subseteq Obj
        BY <1>1, Kids
      <4>4. QED
        BY <2>9, <4>2, <4>3 DEF Done
    <3>6. t \in Again(r)
      BY <2>2 DEF Again
    <3>7. QED
      BY <2>6, <2>9, <3>1, <3>3, <3>4, <3>5, <3>6 DEF Listed
  <2> HIDE DEF F
  <2>11. Barred(t, F, r)
    BY <2>2, <2>4, <2>6, <2>7, <2>8, <2>10 DEF Barred
  <2>12. Barred(t, F, g')
    BY <2>1, <2>11
  <2>13. QED
    BY <1>2, <1>4, <2>12, StoreKeeps
<1>8. QED
  BY <1>6, <1>7

(* luaC_barrierf (lgc.c:667) for a userdata or a closed upvalue: while     *)
(* marking the value is marked, while sweeping the object turns white.     *)
LEMMA ObjBarrier ==
  ASSUME GCInv, Running, NEW p \in heap, Kind[p] \in {"udata", "upval"}, open[p] = None,
         NEW v \in Live
  PROVE  Barred(p, {<<None, v>>}, luaC_objbarrier(g, p, v))
<1> DEFINE F == {<<None, v>>}
           r == luaC_objbarrier(g, p, v)
<1>1. /\ Graph /\ g \in GState /\ g.gcstate # "closed" /\ heap \subseteq Obj
      /\ p \in Obj /\ v \in heap /\ v \in Obj /\ ListsApart(g) /\ Coloured(g) /\ full = "no"
  BY FreshHeap DEF GCInv, Running, Live
<1>2. ColourOK(g, p) /\ g.mark[p] \in Colours
  BY <1>1 DEF Coloured, GState
<1>3. \A e \in F : e[2] = v
  OBVIOUS
<1>4. CASE ~(iswhite(g, v) /\ g.mark[p] = "black")
  <2>1. r = g
    BY <1>4 DEF luaC_objbarrier
  <2>2. iswhite(g, p) \/ \A e \in F : ~iswhite(g, e[2])
    BY <1>2, <1>3, <1>4 DEF ColourOK, iswhite, Colours
  <2> HIDE DEF F
  <2>3. Barred(p, F, g)
    BY <2>2, NoBarrier
  <2>4. QED
    BY <2>1, <2>3 DEF F
<1>5. CASE iswhite(g, v) /\ g.mark[p] = "black" /\ g.gcstate = "propagate"
  <2>1. r = reallymarkobject(g, {v})
    BY <1>5 DEF luaC_objbarrier, luaC_barrierf
  <2>2. Fresh(g) /\ HeapClosed /\ Main \in Obj
    BY <1>5, FreshHeap DEF GCInv, Sweeping
  <2>3. Steady(g, Again(g)) /\ ~iswhite(g, Main)
    BY <1>1, <1>5, <2>2 DEF GCInv, Marking, Steady
  <2>4. Steady(r, Again(g)) /\ Grows(g, r) /\ ~iswhite(r, v)
    <3>1. {v} \in SUBSET heap
      BY <1>1
    <3>2. QED
      BY <1>1, <2>1, <2>2, <2>3, <3>1, MarkKeeps
  <2> HIDE DEF r, F
  <2>5. r \in GState /\ SameLists(g, r) /\ Coloured(r) /\ ListsApart(r) /\ Listed(r) /\ Fresh(r)
    BY <2>4 DEF Steady, Grows, SameLists, Listed
  <2>6. Settled(r, Again(r) \cup {p})
    BY <2>4 DEF Steady, Settled, Again, Grows
  <2>7. \A o \in heap : isdead(r, o) <=> isdead(g, o)
    BY <2>2, <2>5 DEF Fresh
  <2>8. ~iswhite(r, Main) /\ \A e \in F : ~iswhite(r, e[2])
    BY <1>3, <2>2, <2>3, <2>4 DEF Grows
  <2>9. Barred(p, F, r)
    BY <1>5, <2>5, <2>6, <2>7, <2>8 DEF Barred
  <2>10. QED
    BY <2>9 DEF F, r
<1>6. CASE iswhite(g, v) /\ g.mark[p] = "black" /\ g.gcstate # "propagate"
  <2>1. r = makewhite(g, {p})
    BY <1>6 DEF luaC_objbarrier, luaC_barrierf
  <2>2. /\ r \in GState /\ SameLists(g, r) /\ r.gray = g.gray /\ r.grayagain = g.grayagain /\ r.weak = g.weak
        /\ r.mark = [o \in Obj |-> IF o \in {p} THEN g.currentwhite ELSE g.mark[o]]
    BY <1>1, <2>1 DEF makewhite, GState, Colours, SameLists
  <2> HIDE DEF r, F
  <2>3. \A o \in Obj : r.mark[o] = IF o = p THEN g.currentwhite ELSE g.mark[o]
    BY <2>2
  <2>4. g.currentwhite \in Whites
    BY <1>1 DEF GState
  <2>5. Coloured(r)
    BY <1>1, <2>3, <2>4 DEF Coloured, ColourOK, Whites
  <2>6. ListsApart(r)
    BY <1>1, <2>2 DEF ListsApart
  <2>7. \A o \in heap : isdead(r, o) <=> isdead(g, o)
    BY <1>1, <1>6, <2>2, <2>3, <2>4 DEF isdead, SameLists, otherwhite, Whites
  <2>8. \A o \in heap : g.mark[o] = g.currentwhite => r.mark[o] = g.currentwhite
    BY <1>1, <2>3
  <2>9. Barred(p, F, r)
    BY <1>6, <2>2, <2>5, <2>6, <2>7, <2>8 DEF Barred
  <2>10. QED
    BY <2>9 DEF F, r
<1>7. QED
  BY <1>4, <1>5, <1>6

(* lua_setfenv. *)
LEMMA SetFenvKeeps ==
  ASSUME GCInv, Running, NEW u \in Live, Kind[u] = "udata", NEW t \in Live, Kind[t] = "table",
         lua_setfenv(u, t)
  PROVE  GCInv'
<1> DEFINE F == {<<None, t>>}
<1>1. Graph /\ u \in Obj /\ u \in heap /\ t \in Obj
  BY FreshHeap DEF GCInv, Running, Live
<1>2. open[u] = None
  BY <1>1, Strict
<1>3. Storable(u, F)
  BY <1>1, <1>2, NoneAssumption DEF Storable, Keys, FieldOK
<1>4. g' = luaC_objbarrier(g, u, t) /\ fields' = [fields EXCEPT ![u] = F] /\ UNCHANGED <<heap, open, full, cast>>
  BY DEF lua_setfenv
<1>5. Barred(u, F, g')
  BY <1>1, <1>2, <1>4, ObjBarrier
<1> HIDE DEF F
<1>6. QED
  BY <1>3, <1>4, <1>5, StoreKeeps

(* OP_SETUPVAL: a write to the stack while the upvalue is open, where no   *)
(* barrier is needed, and to the upvalue itself once it is closed.         *)
LEMMA SetUpvalKeeps ==
  ASSUME GCInv, Running, NEW c \in Live, Kind[c] = "closure", NEW v \in Live, Kind[v] # "upval",
         OP_SETUPVAL(c, v)
  PROVE  GCInv'
<1>1. Graph /\ g \in GState /\ Safe /\ heap \subseteq Obj /\ c \in heap /\ c \in Obj /\ v \in Obj
  BY FreshHeap DEF GCInv, Running, Live
<1>2. PICK uv \in ValuesOf(c) :
        /\ fields' = IF open[uv] = None THEN [fields EXCEPT ![uv] = {<<None, v>>}]
                     ELSE [fields EXCEPT ![open[uv][1]] = SetSlot(open[uv][1], open[uv][2], v)]
        /\ g' = luaC_objbarrier(g, uv, v)
  BY DEF OP_SETUPVAL
<1>3. UNCHANGED <<heap, open, full, cast>>
  BY DEF OP_SETUPVAL
<1>4. uv \in Live /\ uv \in heap /\ uv \in Obj
  BY <1>1, Kids DEF Safe, Live
<1>5. Kind[uv] = "upval"
  <2>1. Mode[c] = {} /\ \A e \in FieldsOf(c) : FieldOK(c, e)
    BY <1>1, Strict, FieldsFit
  <2>2. QED
    BY <2>1 DEF ValuesOf, FieldOK
<1>6. CASE open[uv] = None
  <2> DEFINE F == {<<None, v>>}
  <2>1. Storable(uv, F)
    BY <1>1, <1>4, <1>5, <1>6, NoneAssumption DEF Storable, Keys, FieldOK
  <2>2. fields' = [fields EXCEPT ![uv] = F]
    BY <1>2, <1>6
  <2>3. Barred(uv, F, g')
    BY <1>2, <1>4, <1>5, <1>6, ObjBarrier
  <2> HIDE DEF F
  <2>4. QED
    BY <1>3, <2>1, <2>2, <2>3, StoreKeeps
<1>7. CASE open[uv] # None
  <2> DEFINE th == open[uv][1]
             i == open[uv][2]
             F == SetSlot(th, i, v)
  <2>1. th \in heap /\ Kind[th] = "thread" /\ i \in Slots
    BY <1>1, <1>4, <1>7 DEF Graph
  <2>2. g' = g
    <3>1. g.mark[uv] # "black"
      BY <1>4, <1>7 DEF GCInv, Coloured, ColourOK
    <3>2. QED
      BY <1>2, <3>1 DEF luaC_objbarrier
  <2>3. fields' = [fields EXCEPT ![th] = F]
    BY <1>2, <1>7
  <2> HIDE DEF th, i
  <2>4. Storable(th, F) /\ Barred(th, F, g)
    BY <2>1, SlotStorable
  <2>5. Barred(th, F, g')
    BY <2>2, <2>4
  <2> HIDE DEF F
  <2>6. QED
    BY <1>3, <2>3, <2>4, <2>5, StoreKeeps
<1>8. QED
  BY <1>6, <1>7

(* A new object, or a string found in the string table: it is alive        *)
(* afterwards, in the white of this cycle unless it was alive before.      *)
LEMMA NewObject ==
  ASSUME GCInv, Running, NEW x \in cast, NEW i \in Slots, Kind[x] \notin {"upval", "closure"},
         x \notin heap \/ Kind[x] = "string",
         heap' = heap \cup {x}, fields' = [fields EXCEPT ![Main] = SetSlot(Main, i, x)],
         UNCHANGED <<open, full, cast>>,
         g' \in GState, g'.gcstate = g.gcstate, g'.currentwhite = g.currentwhite,
         g'.gray = g.gray, g'.grayagain = g.grayagain, g'.weak = g.weak, g'.tmudata = g.tmudata,
         g'.sweepgc = g.sweepgc, g'.sweepstrgc = g.sweepstrgc,
         \A o \in Obj : o # x => (o \in g'.finalized <=> o \in g.finalized),
         \A o \in Obj : g'.mark[o] = IF o = x /\ x \notin Live THEN g.currentwhite ELSE g.mark[o]
  PROVE  GCInv'
<1>1. /\ Graph /\ g \in GState /\ Safe /\ Main \in Live /\ heap \subseteq Obj /\ g.gcstate # "closed"
      /\ Main \in heap /\ Main \in Obj /\ full = "no"
  BY FreshHeap DEF GCInv, Running
<1>2. x \in Obj /\ x # Main
  BY <1>1, CastAssumption, KindAssumption DEF Graph
<1>3. g.currentwhite \in Whites /\ g.mark \in [Obj -> Colours]
  BY <1>1 DEF GState
<1> DEFINE F == SetSlot(Main, i, x)
<1>4. \A e \in F : e \in fields[Main] \/ (e[2] = x /\ e[1] = i)
  BY DEF SetSlot
<1>5. F \in SUBSET (Keys \X Obj) /\ \A e \in F : FieldOK(Main, e)
  BY <1>1, <1>2, KindAssumption, NoneAssumption DEF SetSlot, Graph, FieldOK, Keys
<1> HIDE DEF F
<1>6. \A o \in Obj : fields'[o] = IF o = Main THEN F ELSE fields[o]
  BY <1>1 DEF Graph, F
<1>7. Graph'
  <2>1. fields' \in [Obj -> SUBSET (Keys \X Obj)]
    BY <1>1, <1>5 DEF Graph, F
  <2>2. \A o \in Obj : \A e \in fields'[o] : FieldOK(o, e)
    BY <1>1, <1>5, <1>6 DEF Graph
  <2>3. \A o \in Obj : o \notin heap' => fields'[o] = {}
    BY <1>1, <1>6 DEF Graph
  <2>4. QED
    BY <1>1, <2>1, <2>2, <2>3 DEF Graph
<1>8. Live' = Live \cup {x}
  <2>1. \A o \in heap' : o \in Live' <=> ~isdead(g, o)'
    BY DEF Live
  <2>2. \A o \in heap : o # x => (isdead(g, o)' <=> isdead(g, o))
    BY <1>1 DEF isdead
  <2>3. ~isdead(g, x)'
    <3>1. CASE x \in Live
      BY <1>2, <3>1 DEF Live, isdead
    <3>2. CASE x \notin Live
      BY <1>2, <1>3, <3>2 DEF isdead, otherwhite, Whites
    <3>3. QED
      BY <3>1, <3>2
  <2>4. \A o : o \in Live' <=> o \in heap' /\ ~isdead(g, o)'
    BY DEF Live
  <2>5. \A o : o \in Live <=> o \in heap /\ ~isdead(g, o)
    BY DEF Live
  <2>6. QED
    BY <2>2, <2>3, <2>4, <2>5
<1>9. open[x] = None /\ open[Main] = None
  BY <1>1, <1>2, KindAssumption, Strict
<1>10. FieldsOf(x)' = {} /\ FieldsOf(Main)' = F /\ FieldsOf(Main) = fields[Main]
  <2>1. fields'[x] = {}
    <3>1. CASE x \notin heap
      BY <1>1, <1>2, <1>6, <3>1 DEF Graph
    <3>2. CASE Kind[x] = "string"
      BY <1>1, <1>2, <1>6, <3>2 DEF Graph, FieldOK
    <3>3. QED
      BY <3>1, <3>2
  <2>2. QED
    BY <1>1, <1>2, <1>6, <1>9, <2>1 DEF FieldsOf, UpFields, IsA
<1>11. ASSUME NEW o \in heap, o # x, o # Main, open[o] = None PROVE FieldsOf(o)' = FieldsOf(o)
  BY <1>1, <1>6, <1>11 DEF FieldsOf, UpFields, IsA
<1>12. ASSUME NEW o \in heap, open[o] # None, NEW e \in FieldsOf(o)'
       PROVE  e \in FieldsOf(o) \/ (e[2] = x /\ e[1] = i)
  <2>1. Kind[o] = "upval" /\ open[o][1] \in Obj
    BY <1>1, <1>12 DEF Graph
  <2>2. QED
    BY <1>4, <1>6, <1>12, <2>1 DEF FieldsOf, UpFields, IsA
<1>13. Safe'
  <2> SUFFICES ASSUME NEW o \in Live', NEW k \in AllKids(o)' PROVE k \in Live'
    BY DEF Safe
  <2>1. o # x
    BY <1>10 DEF AllKids, KeysOf, ValuesOf
  <2>2. o \in Live /\ o \in heap /\ AllKids(o) \subseteq Live
    BY <1>1, <1>8, <2>1 DEF Safe, Live
  <2>3. PICK e \in FieldsOf(o)' : k = e[2] \/ (k = e[1] /\ k \in Obj)
    BY DEF AllKids, KeysOf, ValuesOf
  <2>4. e \in FieldsOf(o) \/ (e[2] = x /\ e[1] = i)
    BY <1>4, <1>10, <1>11, <1>12, <2>1, <2>2
  <2>5. CASE e \in FieldsOf(o)
    BY <1>8, <2>2, <2>3, <2>5 DEF AllKids, KeysOf, ValuesOf
  <2>6. CASE e[2] = x /\ e[1] = i
    BY <1>8, <2>3, <2>6, NoneAssumption
  <2>7. QED
    BY <2>4, <2>5, <2>6
<1>14. Coloured(g)'
  <2> SUFFICES ASSUME NEW o \in heap' PROVE ColourOK(g, o)'
    BY DEF Coloured
  <2>1. o \in Obj
    BY <1>1, <1>2
  <2>2. CASE o = x /\ x \notin Live
    BY <1>3, <2>1, <2>2 DEF ColourOK, Whites
  <2>3. CASE ~(o = x /\ x \notin Live)
    <3>1. o \in heap /\ g'.mark[o] = g.mark[o]
      BY <2>1, <2>3 DEF Live
    <3>2. QED
      BY <3>1 DEF GCInv, Coloured, ColourOK
  <2>4. QED
    BY <2>2, <2>3
<1>15. ListsApart(g)'
  BY DEF GCInv, ListsApart
<1>16. Sweeping'
  <2>1. ASSUME g.gcstate \notin {"propagate", "closed"}, NEW o \in heap'
        PROVE  g'.mark[o] = g'.currentwhite \/ o \in g'.tmudata \/ Unswept(g, o)'
    <3>1. CASE o = x /\ x \notin Live
      BY <1>2, <3>1
    <3>2. CASE ~(o = x /\ x \notin Live)
      <4>1. o \in heap /\ o \in Obj /\ g'.mark[o] = g.mark[o]
        BY <1>1, <3>2 DEF Live
      <4>2. g.mark[o] = g.currentwhite \/ o \in g.tmudata \/ Unswept(g, o)
        BY <2>1, <4>1 DEF GCInv, Sweeping
      <4>3. QED
        BY <4>1, <4>2 DEF Unswept
    <3>3. QED
      BY <3>1, <3>2
  <2>2. Fresh(g) => Fresh(g)'
    <3>1. Fresh(g) => Live = heap
      BY DEF Fresh, Live
    <3>2. Live' = heap' => Fresh(g)'
      BY DEF Fresh, Live
    <3>3. QED
      BY <1>8, <3>1, <3>2
  <2>3. QED
    BY <2>1, <2>2 DEF GCInv, Sweeping
<1>17. Finalizing'
  <2>1. \A o \in g.tmudata : o # x /\ o \in Obj
    BY <1>1, ModeAssumption DEF GCInv, Finalizing, Live
  <2>2. \A o \in heap' : isdead(g, o)' => o # x /\ o \in heap /\ isdead(g, o)
    <3> SUFFICES ASSUME NEW o \in heap', isdead(g, o)' PROVE o # x /\ o \in heap /\ isdead(g, o)
      OBVIOUS
    <3>1. o \notin Live'
      BY DEF Live
    <3>2. QED
      BY <1>8, <3>1 DEF Live
  <2>3. g'.tmudata \subseteq Live' \cap HasGC \cap g'.finalized
    BY <1>8, <2>1 DEF GCInv, Finalizing
  <2>4. QED
    BY <1>1, <2>2, <2>3 DEF GCInv, Finalizing
<1>18. Marking'
  <2> SUFFICES ASSUME g.gcstate = "propagate"
               PROVE  Listed(g)' /\ ~iswhite(g, Main)' /\ Settled(g, Again(g))'
    BY DEF Marking
  <2>1. Listed(g) /\ ~iswhite(g, Main) /\ Settled(g, Again(g)) /\ Live = heap
    BY <1>1, FreshHeap DEF GCInv, Marking, Sweeping
  <2>2. \A o \in heap : g'.mark[o] = g.mark[o] /\ (o = x => x \in Live)
    BY <1>1, <2>1
  <2>3. x \notin heap => g'.mark[x] # "gray"
    BY <1>2, <1>3, <2>1 DEF Whites
  <2>4. Listed(g)'
    <3>1. Lists(g)' = Lists(g)
      BY DEF Lists
    <3>2. QED
      BY <1>15, <2>1, <2>2, <2>3, <3>1 DEF Listed
  <2>5. ~iswhite(g, Main)'
    BY <1>1, <2>1, <2>2 DEF iswhite
  <2>6. ASSUME NEW o \in heap', ~iswhite(g, o)', o \notin g'.gray, o \notin Again(g)'
        PROVE  \A k \in StrongKids(o)' : ~iswhite(g, k)'
    <3>1. o \in heap
      <4>1. x \notin heap => iswhite(g, x)'
        BY <1>2, <1>3, <2>1 DEF iswhite
      <4>2. QED
        BY <2>6, <4>1
    <3>2. ~iswhite(g, o) /\ o \notin g.gray /\ o \notin Again(g)
      BY <2>2, <2>6, <3>1 DEF iswhite, Again, OpenUpvals
    <3>3. open[o] = None /\ o \in Obj
      BY <1>1, <3>1, <3>2 DEF Again, OpenUpvals
    <3>4. o # Main
      <4>1. Main \in Again(g) \cup g.gray \/ iswhite(g, Main)
        BY <1>1, KindAssumption, ThreadAgain
      <4>2. QED
        BY <2>1, <3>2, <4>1
    <3>5. CASE o = x
      BY <1>10, <3>5 DEF StrongKids, KeysOf, ValuesOf
    <3>6. CASE o # x
      <4>1. StrongKids(o)' = StrongKids(o)
        BY <1>11, <3>1, <3>3, <3>4, <3>6 DEF StrongKids, KeysOf, ValuesOf
      <4>2. StrongKids(o) \subseteq heap
        BY <1>1, <2>1, <3>1, <3>3, Kids DEF Safe
      <4>3. Done(g, o)
        BY <2>1, <3>1, <3>2 DEF Settled
      <4>4. QED
        BY <2>2, <4>1, <4>2, <4>3 DEF Done, iswhite
    <3>7. QED
      BY <3>5, <3>6
  <2>7. Settled(g, Again(g))'
    BY <2>6 DEF Settled, Done
  <2>8. QED
    BY <2>4, <2>5, <2>7
<1>19. QED
  BY <1>1, <1>7, <1>8, <1>13, <1>14, <1>15, <1>16, <1>17, <1>18 DEF GCInv

(* luaC_link. *)
LEMMA LinkKeeps ==
  ASSUME GCInv, Running, NEW x \in cast, NEW i \in Slots, luaC_link(x, i)
  PROVE  GCInv'
<1>1. /\ x \notin heap /\ Kind[x] \in {"table", "udata", "thread"} /\ heap' = heap \cup {x}
      /\ g' = makewhite([g EXCEPT !.finalized = @ \ {x}], {x})
      /\ fields' = [fields EXCEPT ![Main] = SetSlot(Main, i, x)] /\ UNCHANGED <<open, full, cast>>
  BY DEF luaC_link
<1>2. g \in GState /\ x \notin Live
  BY <1>1 DEF GCInv, Live
<1> DEFINE s == [g EXCEPT !.finalized = @ \ {x}]
<1>3. /\ s \in GState /\ s.gcstate = g.gcstate /\ s.currentwhite = g.currentwhite
      /\ s.gray = g.gray /\ s.grayagain = g.grayagain /\ s.weak = g.weak
      /\ s.tmudata = g.tmudata /\ s.finalized = g.finalized \ {x} /\ s.mark = g.mark
      /\ s.sweepgc = g.sweepgc /\ s.sweepstrgc = g.sweepstrgc
  BY <1>2 DEF GState
<1>4. g' = makewhite(s, {x})
  BY <1>1
<1> HIDE DEF s
<1>5. /\ g' \in GState /\ g'.gcstate = g.gcstate /\ g'.currentwhite = g.currentwhite
      /\ g'.gray = g.gray /\ g'.grayagain = g.grayagain /\ g'.weak = g.weak
      /\ g'.tmudata = g.tmudata /\ g'.finalized = g.finalized \ {x}
      /\ g'.sweepgc = g.sweepgc /\ g'.sweepstrgc = g.sweepstrgc
      /\ g'.mark = [o \in Obj |-> IF o \in {x} THEN g.currentwhite ELSE g.mark[o]]
  BY <1>3, <1>4 DEF makewhite, GState, Colours
<1>6. \A o \in Obj : g'.mark[o] = IF o = x /\ x \notin Live THEN g.currentwhite ELSE g.mark[o]
  BY <1>2, <1>5
<1>7. \A o \in Obj : o # x => (o \in g'.finalized <=> o \in g.finalized)
  BY <1>5
<1>8. Kind[x] \notin {"upval", "closure"}
  BY <1>1
<1>9. QED
  BY <1>1, <1>5, <1>6, <1>7, <1>8, NewObject

(* luaS_newlstr (lstring.c:75): a dead string is resurrected. *)
LEMMA InternKeeps ==
  ASSUME GCInv, Running, NEW x \in cast, Kind[x] = "string", NEW i \in Slots, luaS_newlstr(x, i)
  PROVE  GCInv'
<1>1. /\ heap' = heap \cup {x} /\ g' = Intern(g, x)
      /\ fields' = [fields EXCEPT ![Main] = SetSlot(Main, i, x)] /\ UNCHANGED <<open, full, cast>>
  BY DEF luaS_newlstr
<1>2. g \in GState /\ (x \in Live <=> x \in heap /\ ~isdead(g, x))
  BY DEF GCInv, Live
<1>3. /\ g' \in GState /\ g'.gcstate = g.gcstate /\ g'.currentwhite = g.currentwhite
      /\ g'.gray = g.gray /\ g'.grayagain = g.grayagain /\ g'.weak = g.weak
      /\ g'.tmudata = g.tmudata /\ g'.finalized = g.finalized
      /\ g'.sweepgc = g.sweepgc /\ g'.sweepstrgc = g.sweepstrgc
      /\ \A o \in Obj : g'.mark[o] = IF o = x /\ x \notin Live THEN g.currentwhite ELSE g.mark[o]
  <2>1. CASE x \in Live
    BY <1>1, <1>2, <2>1 DEF Intern
  <2>2. CASE x \notin Live
    <3>1. g' = makewhite(g, {x})
      BY <1>1, <1>2, <2>2 DEF Intern
    <3>2. QED
      BY <1>2, <2>2, <3>1 DEF makewhite, GState, Colours
  <2>3. QED
    BY <2>1, <2>2
<1>4. QED
  BY <1>1, <1>3, NewObject

(* luaF_close (lfunc.c:97): the upvalues of the slots become objects of    *)
(* their own; a gray one is finished at once by luaC_linkupval.            *)
LEMMA CloseUpvalsKeeps ==
  ASSUME GCInv, Running, NEW th \in Live, Kind[th] = "thread", luaF_close(th)
  PROVE  GCInv'
<1> DEFINE uvs == UpvalsOf({th})
           dead == {uv \in uvs : isdead(g, uv)}
           S == uvs \ dead
           Q == {uv \in S : g.mark[uv] = "gray"}
           vals == UNION {ValuesOf(uv) : uv \in Q}
           b == [g EXCEPT !.mark = [o \in Obj |-> IF o \in Q THEN "black" ELSE @[o]]]
<1>1. /\ Graph /\ g \in GState /\ Safe /\ Main \in Live /\ heap \subseteq Obj /\ g.gcstate # "closed"
      /\ Main \in heap /\ Main \in Obj /\ full = "no" /\ th \in heap /\ th \in Obj /\ Coloured(g)
  BY FreshHeap DEF GCInv, Running, Live
<1>2. /\ heap' = heap \ dead
      /\ open' = [x \in Obj |-> IF x \in uvs THEN None ELSE open[x]]
      /\ fields' = [x \in Obj |-> IF x \in dead THEN {}
                                  ELSE IF x \in uvs THEN {<<None, e[2]>> : e \in UpFields(x)}
                                  ELSE fields[x]]
      /\ g' = luaC_linkupval(g, S) /\ full' = full /\ cast' = cast
  BY DEF luaF_close
<1>3. uvs \subseteq heap /\ \A uv \in Obj : uv \in uvs <=> open[uv] # None /\ open[uv][1] = th
  BY <1>1 DEF UpvalsOf, Graph
<1>4. g' = IF g.gcstate = "propagate" THEN reallymarkobject(b, vals) ELSE makewhite(g, Q)
  BY <1>2 DEF luaC_linkupval
<1> HIDE DEF uvs
<1>5. \A uv \in uvs : uv \in Obj /\ uv \in heap /\ Kind[uv] = "upval" /\ open[uv] # None
  <2> TAKE uv \in uvs
  <2>1. uv \in Obj /\ open[uv] # None
    BY <1>1, <1>3
  <2>2. Kind[uv] = "upval"
    BY <1>1, <2>1 DEF Graph
  <2>3. QED
    BY <1>3, <2>1, <2>2
<1>6. dead \subseteq uvs /\ (\A x \in heap : x \in dead <=> x \in uvs /\ isdead(g, x))
  OBVIOUS
<1>7. Q \subseteq uvs /\ \A x \in Q : x \notin dead /\ g.mark[x] = "gray"
  OBVIOUS
<1>8. \A x \in uvs : x \notin dead /\ g.mark[x] = "gray" => x \in Q
  OBVIOUS
<1>9. \A x \in Q : ValuesOf(x) \subseteq vals
  OBVIOUS
<1>10. \A v \in vals : \E x \in Q : v \in ValuesOf(x)
  OBVIOUS
<1> HIDE DEF dead, S, Q, vals
<1>11. g.currentwhite \in Whites /\ g.mark \in [Obj -> Colours]
  BY <1>1 DEF GState
(* the graph *)
<1>12. ASSUME NEW x \in heap, x \notin dead
       PROVE  ValuesOf(x)' = ValuesOf(x) /\ KeysOf(x)' = KeysOf(x)
  <2>1. x \in Obj
    BY <1>1
  <2>2. CASE x \in uvs
    <3>1. Kind[x] = "upval" /\ open[x] # None /\ open'[x] = None /\ fields'[x] = {<<None, e[2]>> : e \in UpFields(x)}
      BY <1>2, <1>5, <1>12, <2>1, <2>2
    <3>2. QED
      BY <1>1, <2>1, <3>1, ClosedValue
  <2>3. CASE x \notin uvs
    <3>1. open'[x] = open[x] /\ fields'[x] = fields[x]
      BY <1>2, <1>12, <2>1, <2>3
    <3>2. FieldsOf(x)' = FieldsOf(x)
      <4>1. CASE Kind[x] = "upval" /\ open[x] # None
        <5>1. open[x][1] \in Obj /\ Kind[open[x][1]] = "thread"
          BY <1>1, <2>1, <4>1 DEF Graph
        <5>2. fields'[open[x][1]] = fields[open[x][1]]
          BY <1>2, <1>5, <1>6, <5>1
        <5>3. QED
          BY <3>1, <4>1, <5>2 DEF FieldsOf, UpFields, IsA
      <4>2. CASE ~(Kind[x] = "upval" /\ open[x] # None)
        BY <3>1, <4>2 DEF FieldsOf, UpFields, IsA
      <4>3. QED
        BY <4>1, <4>2
    <3>3. QED
      BY <3>2 DEF ValuesOf, KeysOf
  <2>4. QED
    BY <2>2, <2>3
<1>13. Graph'
  <2>1. \A x \in uvs : /\ {<<None, e[2]>> : e \in UpFields(x)} \subseteq Keys \X Obj
                       /\ \A e \in {<<None, f[2]>> : f \in UpFields(x)} : FieldOK(x, e)
    <3> TAKE x \in uvs
    <3>1. x \in Obj /\ Kind[x] = "upval"
      BY <1>5
    <3>2. FieldsOf(x) = UpFields(x)
      BY <3>1 DEF FieldsOf, IsA
    <3>3. UpFields(x) \in SUBSET (Keys \X Obj) /\ \A e \in UpFields(x) : FieldOK(x, e)
      BY <1>1, <3>1, <3>2, FieldsFit
    <3>4. QED
      BY <3>1, <3>3, NoneAssumption DEF FieldOK, Keys
  <2>2. fields' \in [Obj -> SUBSET (Keys \X Obj)]
    BY <1>1, <1>2, <2>1 DEF Graph
  <2>3. \A x \in Obj : \A e \in fields'[x] : FieldOK(x, e)
    BY <1>1, <1>2, <2>1 DEF Graph
  <2>4. \A x \in Obj : x \notin heap' => fields'[x] = {}
    BY <1>1, <1>2, <1>5 DEF Graph
  <2>5. open' \in [Obj -> (Obj \X Slots) \cup {None}]
    BY <1>1, <1>2 DEF Graph
  <2>6. ASSUME NEW uv \in Obj, open'[uv] # None
        PROVE  uv \in heap' /\ Kind[uv] = "upval" /\ open'[uv][1] \in heap' /\ Kind[open'[uv][1]] = "thread"
    <3>1. uv \notin uvs /\ open'[uv] = open[uv] /\ open[uv] # None
      BY <1>2, <2>6
    <3>2. uv \in heap /\ Kind[uv] = "upval" /\ open[uv][1] \in heap /\ Kind[open[uv][1]] = "thread"
      BY <1>1, <3>1 DEF Graph
    <3>3. QED
      BY <1>2, <1>5, <1>6, <3>1, <3>2
  <2>7. heap' \subseteq cast' /\ cast' \in Casts
    BY <1>1, <1>2 DEF Graph
  <2>8. QED
    BY <2>2, <2>3, <2>4, <2>5, <2>6, <2>7 DEF Graph
<1>14. \A x \in Live : x \in heap /\ x \notin dead /\ x \in heap'
  BY <1>2, <1>6 DEF Live
<1>15. Live' = Live => Safe'
  BY <1>1, <1>12, <1>14 DEF Safe, AllKids
<1>16. CASE g.gcstate # "propagate"
  <2>1. g' = makewhite(g, Q)
    BY <1>4, <1>16
  <2>2. /\ g' \in GState /\ SameLists(g, g') /\ g'.gray = g.gray /\ g'.grayagain = g.grayagain /\ g'.weak = g.weak
        /\ g'.mark = [o \in Obj |-> IF o \in Q THEN g.currentwhite ELSE g.mark[o]]
    BY <1>1, <2>1 DEF makewhite, GState, Colours, SameLists
  <2>3. \A o \in Obj : g'.mark[o] = IF o \in Q THEN g.currentwhite ELSE g.mark[o]
    BY <2>2
  <2>4. \A o \in heap : isdead(g, o)' <=> isdead(g, o)
    BY <1>1, <1>7, <1>11, <2>2, <2>3 DEF isdead, SameLists, otherwhite, Whites
  <2>5. Live' = Live
    BY <1>2, <1>14, <2>4 DEF Live
  <2>6. Coloured(g)'
    <3> SUFFICES ASSUME NEW o \in heap' PROVE ColourOK(g, o)'
      BY DEF Coloured
    <3>1. o \in heap /\ o \in Obj /\ o \notin dead /\ ColourOK(g, o)
      BY <1>1, <1>2 DEF Coloured
    <3>2. CASE o \in uvs
      <4>1. g'.mark[o] \in Whites
        <5>1. o \notin Q => g.mark[o] # "gray"
          BY <1>8, <3>1, <3>2
        <5>2. g.mark[o] # "black"
          BY <1>5, <3>1, <3>2 DEF ColourOK
        <5>3. g.mark[o] \in Colours
          BY <1>11, <3>1
        <5>4. QED
          BY <1>11, <2>3, <3>1, <5>1, <5>2, <5>3 DEF Colours
      <4>2. QED
        BY <4>1 DEF ColourOK, Whites
    <3>3. CASE o \notin uvs
      BY <1>2, <1>7, <2>3, <3>1, <3>3 DEF ColourOK
    <3>4. QED
      BY <3>2, <3>3
  <2>7. ListsApart(g)'
    BY <2>2 DEF GCInv, ListsApart
  <2>8. Sweeping'
    <3>1. ASSUME NEW o \in heap'
          PROVE  g'.mark[o] = g'.currentwhite \/ o \in g'.tmudata \/ Unswept(g, o)'
      <4>1. o \in heap /\ o \in Obj /\ o \notin dead
        BY <1>1, <1>2
      <4>2. g.mark[o] = g.currentwhite \/ o \in g.tmudata \/ Unswept(g, o)
        BY <1>1, <1>16, <4>1 DEF GCInv, Sweeping
      <4>3. CASE o \in Q
        BY <2>2, <2>3, <4>1, <4>3 DEF SameLists
      <4>4. CASE o \in uvs /\ o \notin Q
        <5>1. g.mark[o] \in Whites
          <6>1. g.mark[o] # "gray" /\ g.mark[o] # "black" /\ g.mark[o] \in Colours
            BY <1>1, <1>5, <1>8, <1>11, <4>1, <4>4 DEF Coloured, ColourOK
          <6>2. QED
            BY <6>1 DEF Colours
        <5>2. ~isdead(g, o)
          BY <1>6, <4>1, <4>4
        <5>3. g.mark[o] = g.currentwhite
          BY <1>11, <5>1, <5>2 DEF isdead, otherwhite, Whites
        <5>4. QED
          BY <2>2, <2>3, <4>1, <4>4, <5>3 DEF SameLists
      <4>5. CASE o \notin uvs
        <5>1. open'[o] = open[o] /\ o \notin Q
          BY <1>2, <1>7, <4>1, <4>5
        <5>2. Unswept(g, o) => Unswept(g, o)'
          BY <2>2, <5>1 DEF Unswept, SameLists
        <5>3. QED
          BY <2>2, <2>3, <4>1, <4>2, <5>1, <5>2 DEF SameLists
      <4>6. QED
        BY <4>3, <4>4, <4>5
    <3>2. Fresh(g) => Fresh(g)'
      BY <1>2, <2>4 DEF Fresh
    <3>3. QED
      BY <1>16, <2>2, <3>1, <3>2 DEF GCInv, Sweeping, SameLists
  <2>9. Marking'
    BY <1>16, <2>2 DEF Marking, SameLists
  <2>10. Finalizing'
    BY <1>2, <2>2, <2>4, <2>5 DEF GCInv, Finalizing, SameLists
  <2>11. QED
    BY <1>1, <1>2, <1>13, <1>15, <2>2, <2>5, <2>6, <2>7, <2>8, <2>9, <2>10 DEF GCInv, SameLists
<1>17. CASE g.gcstate = "propagate"
  <2>1. Fresh(g) /\ HeapClosed /\ Live = heap
    BY <1>17, FreshHeap DEF GCInv, Sweeping
  <2>2. Listed(g) /\ ~iswhite(g, Main) /\ Settled(g, Again(g))
    BY <1>1, <1>17 DEF GCInv, Marking
  <2>3. dead = {} /\ heap' = heap
    BY <1>2, <1>5, <1>6, <2>1 DEF Fresh
  <2>4. /\ b \in GState /\ SameLists(g, b) /\ b.gray = g.gray /\ b.grayagain = g.grayagain /\ b.weak = g.weak
        /\ b.mark = [o \in Obj |-> IF o \in Q THEN "black" ELSE g.mark[o]]
    BY <1>1 DEF GState, Colours, SameLists
  <2> HIDE DEF b
  <2>5. \A o \in Obj : b.mark[o] = IF o \in Q THEN "black" ELSE g.mark[o]
    BY <2>4
  <2>6. \A o \in Obj : iswhite(b, o) <=> iswhite(g, o)
    BY <1>7, <2>5 DEF iswhite, Whites
  <2>7. Fresh(b)
    BY <1>1, <2>1, <1>11, <2>4, <2>5 DEF Fresh, isdead, SameLists, otherwhite, Whites
  <2>8. Listed(b)
    <3>1. Lists(b) = Lists(g) /\ ListsApart(b)
      BY <2>2, <2>4 DEF Lists, ListsApart, Listed
    <3>2. \A o \in Q : ~Listable(o)
      BY <1>5, <1>7 DEF Listable
    <3>3. QED
      BY <1>1, <2>2, <2>5, <3>1, <3>2 DEF Listed
  <2>9. vals \in SUBSET heap /\ vals \in SUBSET Obj /\ \A v \in vals : Kind[v] # "upval"
    <3>1. ASSUME NEW v \in vals PROVE v \in heap /\ v \in Obj /\ Kind[v] # "upval"
      <4>1. PICK x \in Q : v \in ValuesOf(x)
        BY <1>10, <3>1
      <4>2. x \in Obj /\ x \in heap /\ Kind[x] = "upval"
        BY <1>5, <1>7
      <4>3. QED
        BY <1>1, <2>1, <4>1, <4>2, Kids DEF HeapClosed
    <3>2. QED
      BY <3>1
  <2> DEFINE r == reallymarkobject(b, vals)
             E == g.tmudata \cup g.grayagain \cup g.weak \cup (OpenUpvals \ uvs)
  <2>10. PICK T : Swath(b, vals, T) /\ r = SetMarks(b, T)
    BY <1>1, <2>4, <2>9, Marked
  <2>11. g' = r
    BY <1>4, <1>17
  <2> HIDE DEF r, E
  <2>12. T \in SUBSET Obj /\ (\A o \in T : Kind[o] # "upval")
    BY <2>9, <2>10 DEF Swath
  <2>13. /\ \A o \in Obj : r.mark[o] = IF o \in T THEN NewMark(o) ELSE b.mark[o]
         /\ r.tmudata = b.tmudata
    BY <1>1, <2>4, <2>10, <2>12, MarksWritten
  <2>14. /\ r \in GState /\ Grows(b, r) /\ r.weak = b.weak /\ r.grayagain = b.grayagain
         /\ \A o \in vals : ~iswhite(r, o)
         /\ Fresh(r) /\ Listed(r)
         /\ (\A o \in heap : ~iswhite(b, o) /\ o \notin b.gray /\ o \notin E => Done(r, o)) => Settled(r, E)
    BY <1>1, <2>1, <2>4, <2>7, <2>8, <2>9, <2>10, SwathKeeps
  <2>15. ASSUME NEW o \in heap, ~iswhite(b, o), o \notin b.gray, o \notin E PROVE Done(r, o)
    <3>1. o \in Obj /\ StrongKids(o) \subseteq ValuesOf(o) /\ ValuesOf(o) \subseteq Obj /\ ~iswhite(g, o)
      BY <1>1, <2>6, <2>15, Kids
    <3>2. CASE o \in uvs
      <4>1. g.mark[o] \in Colours /\ g.mark[o] # "black"
        BY <1>1, <1>5, <1>11, <3>1, <3>2 DEF Coloured, ColourOK
      <4>2. o \in Q
        BY <1>8, <2>3, <3>1, <3>2, <4>1 DEF iswhite, Colours
      <4>3. QED
        BY <1>9, <2>14, <3>1, <4>2 DEF Done
    <3>3. CASE o \notin uvs
      <4>1. o \notin Again(g) /\ o \notin g.gray
        BY <2>4, <2>15, <3>3 DEF Again, E
      <4>2. Done(g, o)
        BY <2>2, <3>1, <4>1 DEF Settled
      <4>3. QED
        BY <2>6, <2>14, <3>1, <4>2 DEF Done, Grows
    <3>4. QED
      BY <3>2, <3>3
  <2>16. Settled(r, E)
    BY <2>14, <2>15
  <2>17. SameLists(g, g') /\ g' \in GState
    BY <2>4, <2>11, <2>14 DEF SameLists, Grows
  <2>18. Live' = Live
    BY <2>1, <2>3, <2>11, <2>14 DEF Live, Fresh
  <2>19. Coloured(g)'
    <3> SUFFICES ASSUME NEW o \in heap PROVE ColourOK(g, o)'
      BY <2>3 DEF Coloured
    <3>1. o \in Obj /\ ColourOK(g, o) /\ g.mark[o] \in Colours
      BY <1>1, <1>11 DEF Coloured
    <3>2. CASE o \in uvs
      <4>1. Kind[o] = "upval" /\ open'[o] = None /\ open[o] # None /\ o \notin T /\ Mode[o] = {}
        BY <1>1, <1>2, <1>5, <2>12, <3>1, <3>2, Strict
      <4>2. g'.mark[o] = IF o \in Q THEN "black" ELSE g.mark[o]
        BY <2>5, <2>11, <2>13, <3>1, <4>1
      <4>3. o \notin Q => g.mark[o] \notin {"gray", "black"}
        BY <1>8, <2>3, <3>1, <3>2, <4>1 DEF ColourOK
      <4>4. QED
        BY <4>1, <4>2, <4>3 DEF ColourOK
    <3>3. CASE o \notin uvs
      <4>1. open'[o] = open[o] /\ o \notin Q
        BY <1>2, <1>7, <3>1, <3>3
      <4>2. CASE o \in T
        <5>1. g'.mark[o] = NewMark(o)
          BY <2>11, <2>13, <3>1, <4>2
        <5>2. QED
          BY <1>1, <3>1, <4>1, <5>1, Strict DEF ColourOK, NewMark, IsA
      <4>3. CASE o \notin T
        BY <2>5, <2>11, <2>13, <3>1, <4>1, <4>3 DEF ColourOK
      <4>4. QED
        BY <4>2, <4>3
    <3>4. QED
      BY <3>2, <3>3
  <2>20. Listed(g)'
    BY <2>3, <2>11, <2>14 DEF Listed, ListsApart, Lists
  <2>21. Settled(g, Again(g))'
    <3>1. \A o \in heap : StrongKids(o)' = StrongKids(o)
      BY <1>12, <2>3 DEF StrongKids
    <3>2. \A o \in heap : o \in E => o \in Again(g)'
      <4>1. \A o \in heap : o \in OpenUpvals \ uvs => o \in OpenUpvals'
        BY <1>1, <1>2 DEF OpenUpvals
      <4>2. r.tmudata = g.tmudata /\ r.weak = g.weak /\ r.grayagain = g.grayagain
        BY <2>4, <2>13, <2>14 DEF SameLists
      <4>3. QED
        BY <2>11, <4>1, <4>2 DEF Again, E
    <3>3. QED
      BY <2>3, <2>11, <2>16, <3>1, <3>2 DEF Settled, Done, iswhite
  <2>22. ~iswhite(g, Main)'
    BY <1>1, <2>2, <2>6, <2>11, <2>14 DEF Grows, iswhite
  <2>23. Fresh(g)'
    BY <2>3, <2>11, <2>14 DEF Fresh, isdead
  <2>24. Sweeping'
    BY <1>17, <2>17, <2>23 DEF Sweeping, SameLists
  <2>25. Marking'
    BY <2>20, <2>21, <2>22 DEF Marking
  <2>26. Finalizing'
    BY <2>1, <2>3, <2>17, <2>18, <2>23 DEF GCInv, Finalizing, SameLists, Fresh
  <2>27. QED
    BY <1>1, <1>2, <1>13, <1>15, <2>17, <2>18, <2>19, <2>20, <2>24, <2>25, <2>26 DEF GCInv, SameLists, Listed
<1>18. QED
  BY <1>16, <1>17

(* OP_CLOSURE with luaF_findupval (lfunc.c:53): an upvalue found in the    *)
(* list of open ones may be dead, and is resurrected.                      *)
LEMMA ClosureKeeps ==
  ASSUME GCInv, Running, NEW c \in cast, Kind[c] = "closure", NEW uv \in cast, Kind[uv] = "upval",
         NEW th \in Live, Kind[th] = "thread", NEW i \in Slots, NEW dst \in Slots,
         OP_CLOSURE(c, th, i, uv, dst)
  PROVE  GCInv'
<1>1. /\ Graph /\ g \in GState /\ Safe /\ Main \in Live /\ heap \subseteq Obj /\ g.gcstate # "closed"
      /\ Main \in heap /\ Main \in Obj /\ full = "no" /\ th \in heap /\ th \in Obj /\ Coloured(g)
  BY FreshHeap DEF GCInv, Running, Live
<1>2. c \in Obj /\ uv \in Obj /\ c # uv /\ c # Main /\ uv # Main /\ c # th /\ uv # th
  BY <1>1, CastAssumption, KindAssumption DEF Graph
<1>3. /\ c \notin heap /\ heap' = heap \cup {c, uv}
      /\ open' = [open EXCEPT ![uv] = <<th, i>>]
      /\ fields' = [fields EXCEPT ![c] = {<<None, uv>>}, ![Main] = SetSlot(Main, dst, c)]
      /\ full' = full /\ cast' = cast
      /\ luaF_findupval(makewhite(g, {c}), th, i, uv)
  BY DEF OP_CLOSURE
<1>4. g.currentwhite \in Whites /\ g.mark \in [Obj -> Colours]
  BY <1>1 DEF GState
<1>5. uv \notin heap \/ open[uv] = <<th, i>>
  BY <1>3 DEF luaF_findupval
<1>6. /\ g' \in GState /\ SameLists(g, g') /\ g'.gray = g.gray /\ g'.grayagain = g.grayagain /\ g'.weak = g.weak
      /\ \A o \in Obj : g'.mark[o] = IF o = c \/ (o = uv /\ uv \notin Live) THEN g.currentwhite ELSE g.mark[o]
  <2> DEFINE a == makewhite(g, {c})
  <2>1. /\ a \in GState /\ SameLists(g, a) /\ a.gray = g.gray /\ a.grayagain = g.grayagain /\ a.weak = g.weak
        /\ a.mark = [o \in Obj |-> IF o \in {c} THEN g.currentwhite ELSE g.mark[o]]
    BY <1>1 DEF makewhite, GState, Colours, SameLists
  <2>2. luaF_findupval(a, th, i, uv)
    BY <1>3
  <2> HIDE DEF a
  <2>3. isdead(a, uv) <=> isdead(g, uv)
    BY <1>2, <2>1 DEF isdead, SameLists
  <2>4. uv \in Live <=> uv \in heap /\ ~isdead(g, uv)
    BY DEF Live
  <2>5. g' = IF uv \notin Live THEN makewhite(a, {uv}) ELSE a
    BY <2>2, <2>3, <2>4 DEF luaF_findupval, Resurrect
  <2>6. CASE uv \in Live
    <3>1. g' = a
      BY <2>5, <2>6
    <3>2. QED
      BY <2>1, <2>6, <3>1
  <2>7. CASE uv \notin Live
    <3>1. g' = makewhite(a, {uv})
      BY <2>5, <2>7
    <3>2. /\ g' \in GState /\ SameLists(a, g') /\ g'.gray = a.gray /\ g'.grayagain = a.grayagain /\ g'.weak = a.weak
          /\ g'.mark = [o \in Obj |-> IF o \in {uv} THEN a.currentwhite ELSE a.mark[o]]
      BY <2>1, <3>1 DEF makewhite, GState, Colours, SameLists
    <3>3. QED
      BY <2>1, <2>7, <3>2 DEF SameLists
  <2>8. QED
    BY <2>6, <2>7
<1> DEFINE F == SetSlot(Main, dst, c)
<1>7. \A e \in F : e \in fields[Main] \/ e = <<dst, c>>
  BY DEF SetSlot
<1>8. F \in SUBSET (Keys \X Obj) /\ \A e \in F : FieldOK(Main, e)
  BY <1>1, <1>2, KindAssumption, NoneAssumption DEF SetSlot, Graph, FieldOK, Keys
<1> HIDE DEF F
<1>9. \A o \in Obj : fields'[o] = IF o = Main THEN F ELSE IF o = c THEN {<<None, uv>>} ELSE fields[o]
  BY <1>1, <1>2, <1>3 DEF Graph, F
<1>10. \A o \in Obj : open'[o] = IF o = uv THEN <<th, i>> ELSE open[o]
  BY <1>1, <1>2, <1>3 DEF Graph
<1>11. Graph'
  <2>1. {<<None, uv>>} \in SUBSET (Keys \X Obj) /\ FieldOK(c, <<None, uv>>)
    BY <1>2, NoneAssumption DEF Keys, FieldOK
  <2>2. fields' \in [Obj -> SUBSET (Keys \X Obj)]
    BY <1>1, <1>3, <1>8, <2>1 DEF Graph, F
  <2>3. \A o \in Obj : \A e \in fields'[o] : FieldOK(o, e)
    BY <1>1, <1>8, <1>9, <2>1 DEF Graph
  <2>4. \A o \in Obj : o \notin heap' => fields'[o] = {}
    BY <1>1, <1>3, <1>9 DEF Graph
  <2>5. open' \in [Obj -> (Obj \X Slots) \cup {None}]
    BY <1>1, <1>3 DEF Graph
  <2>6. \A o \in Obj : open'[o] # None => /\ o \in heap' /\ Kind[o] = "upval"
                                          /\ open'[o][1] \in heap' /\ Kind[open'[o][1]] = "thread"
    BY <1>1, <1>3, <1>10 DEF Graph
  <2>7. heap' \subseteq cast' /\ cast' \in Casts
    BY <1>1, <1>3 DEF Graph
  <2>8. QED
    BY <2>2, <2>3, <2>4, <2>5, <2>6, <2>7 DEF Graph
<1>12. Live' = Live \cup {c, uv}
  <2>1. \A o \in heap : o # uv => (isdead(g, o)' <=> isdead(g, o))
    BY <1>1, <1>3, <1>6 DEF isdead, SameLists
  <2>2. ~isdead(g, c)'
    BY <1>2, <1>4, <1>6 DEF isdead, SameLists, otherwhite, Whites
  <2>3. ~isdead(g, uv)'
    <3>1. CASE uv \in Live
      BY <1>2, <1>6, <3>1 DEF Live, isdead, SameLists
    <3>2. CASE uv \notin Live
      BY <1>2, <1>4, <1>6, <3>2 DEF isdead, SameLists, otherwhite, Whites
    <3>3. QED
      BY <3>1, <3>2
  <2>4. \A o : o \in Live' <=> o \in heap' /\ ~isdead(g, o)'
    BY DEF Live
  <2>5. \A o : o \in Live <=> o \in heap /\ ~isdead(g, o)
    BY DEF Live
  <2>6. QED
    BY <1>3, <2>1, <2>2, <2>3, <2>4, <2>5
<1>13. open[c] = None /\ open[Main] = None /\ open[th] = None
  BY <1>1, <1>2, KindAssumption, Strict
<1>14. /\ FieldsOf(c)' = {<<None, uv>>} /\ FieldsOf(Main)' = F /\ FieldsOf(Main) = fields[Main]
       /\ FieldsOf(th) = fields[th]
  BY <1>1, <1>2, <1>9, <1>10, <1>13 DEF FieldsOf, UpFields, IsA
<1>15. ASSUME NEW o \in heap, o # uv, o # Main, open[o] = None PROVE FieldsOf(o)' = FieldsOf(o)
  <2>1. o \in Obj /\ o # c
    BY <1>1, <1>3
  <2>2. open'[o] = open[o] /\ fields'[o] = fields[o]
    BY <1>9, <1>10, <1>15, <2>1
  <2>3. QED
    BY <1>15, <2>2 DEF FieldsOf, UpFields, IsA
<1>16. ASSUME NEW o \in heap, o # uv, open[o] # None, NEW e \in FieldsOf(o)'
       PROVE  e \in FieldsOf(o) \/ e = <<dst, c>>
  <2>1. Kind[o] = "upval" /\ open[o][1] \in heap /\ open[o][1] \in Obj /\ o \in Obj
    BY <1>1, <1>16 DEF Graph
  <2>2. open'[o] = open[o] /\ open[o][1] # c
    BY <1>3, <1>10, <1>16, <2>1
  <2>3. e \in fields'[open[o][1]] /\ e[1] = open[o][2]
    BY <1>16, <2>1, <2>2 DEF FieldsOf, UpFields, IsA
  <2>4. e \in fields[open[o][1]] \/ e = <<dst, c>>
    BY <1>7, <1>9, <2>1, <2>2, <2>3
  <2>5. QED
    BY <1>16, <2>1, <2>3, <2>4 DEF FieldsOf, UpFields, IsA
<1>17. ASSUME NEW e \in FieldsOf(uv)' PROVE e \in FieldsOf(th) \/ e = <<dst, c>>
  <2>1. open'[uv] = <<th, i>> /\ open'[uv] # None
    BY <1>1, <1>2, <1>10, NoneAssumption
  <2>2. e \in fields'[th]
    BY <1>17, <2>1 DEF FieldsOf, UpFields, IsA
  <2>3. QED
    BY <1>1, <1>2, <1>7, <1>9, <1>14, <2>2
<1>18. Safe'
  <2> SUFFICES ASSUME NEW o \in Live', NEW k \in AllKids(o)' PROVE k \in Live'
    BY DEF Safe
  <2>1. PICK e \in FieldsOf(o)' : k = e[2] \/ (k = e[1] /\ k \in Obj)
    BY DEF AllKids, KeysOf, ValuesOf
  <2>2. CASE e = <<dst, c>>
    BY <1>12, <2>1, <2>2, NoneAssumption
  <2>3. CASE o = c
    BY <1>12, <1>14, <2>1, <2>3, NoneAssumption
  <2>4. CASE o = uv /\ e # <<dst, c>>
    <3>1. e \in FieldsOf(th)
      BY <1>17, <2>4
    <3>2. AllKids(th) \subseteq Live
      BY <1>1 DEF Safe
    <3>3. QED
      BY <1>12, <2>1, <3>1, <3>2 DEF AllKids, KeysOf, ValuesOf
  <2>5. CASE o # c /\ o # uv /\ e # <<dst, c>>
    <3>1. o \in Live /\ o \in heap
      BY <1>12, <2>5 DEF Live
    <3>2. e \in FieldsOf(o)
      BY <1>7, <1>14, <1>15, <1>16, <2>5, <3>1
    <3>3. AllKids(o) \subseteq Live
      BY <1>1, <3>1 DEF Safe
    <3>4. QED
      BY <1>12, <2>1, <3>2, <3>3 DEF AllKids, KeysOf, ValuesOf
  <2>6. QED
    BY <2>2, <2>3, <2>4, <2>5
<1>19. Coloured(g)'
  <2> SUFFICES ASSUME NEW o \in heap' PROVE ColourOK(g, o)'
    BY DEF Coloured
  <2>1. o \in Obj
    BY <1>1, <1>2, <1>3
  <2>2. CASE o = c \/ (o = uv /\ uv \notin Live)
    BY <1>4, <1>6, <2>1, <2>2 DEF ColourOK, Whites
  <2>3. CASE ~(o = c \/ (o = uv /\ uv \notin Live))
    <3>1. o \in heap /\ g'.mark[o] = g.mark[o]
      BY <1>3, <1>6, <2>1, <2>3 DEF Live
    <3>2. open'[o] = open[o]
      BY <1>5, <1>10, <2>1, <3>1
    <3>3. QED
      BY <1>1, <3>1, <3>2 DEF Coloured, ColourOK
  <2>4. QED
    BY <2>2, <2>3
<1>20. ListsApart(g)'
  BY <1>6 DEF GCInv, ListsApart
<1>21. Sweeping'
  <2>1. ASSUME g.gcstate \notin {"propagate", "closed"}, NEW o \in heap'
        PROVE  g'.mark[o] = g'.currentwhite \/ o \in g'.tmudata \/ Unswept(g, o)'
    <3>1. CASE o = c \/ (o = uv /\ uv \notin Live)
      BY <1>2, <1>6, <3>1 DEF SameLists
    <3>2. CASE ~(o = c \/ (o = uv /\ uv \notin Live))
      <4>1. o \in heap /\ o \in Obj /\ g'.mark[o] = g.mark[o]
        BY <1>1, <1>3, <1>6, <3>2 DEF Live
      <4>2. g.mark[o] = g.currentwhite \/ o \in g.tmudata \/ Unswept(g, o)
        BY <2>1, <4>1 DEF GCInv, Sweeping
      <4>3. open'[o] = open[o]
        BY <1>5, <1>10, <4>1
      <4>4. QED
        BY <1>6, <4>1, <4>2, <4>3 DEF Unswept, SameLists
    <3>3. QED
      BY <3>1, <3>2
  <2>2. Fresh(g) => Fresh(g)'
    <3>1. Fresh(g) => Live = heap
      BY DEF Fresh, Live
    <3>2. Live' = heap' => Fresh(g)'
      BY DEF Fresh, Live
    <3>3. QED
      BY <1>3, <1>12, <3>1, <3>2
  <2>3. QED
    BY <1>6, <2>1, <2>2 DEF GCInv, Sweeping, SameLists
<1>22. Finalizing'
  <2>1. \A o \in heap' : isdead(g, o)' => o \in heap /\ isdead(g, o)
    <3> SUFFICES ASSUME NEW o \in heap', isdead(g, o)' PROVE o \in heap /\ isdead(g, o)
      OBVIOUS
    <3>1. o \notin Live'
      BY DEF Live
    <3>2. QED
      BY <1>3, <1>12, <3>1 DEF Live
  <2>2. QED
    BY <1>6, <1>12, <2>1 DEF GCInv, Finalizing, SameLists
<1>23. Marking'
  <2> SUFFICES ASSUME g.gcstate = "propagate"
               PROVE  Listed(g)' /\ ~iswhite(g, Main)' /\ Settled(g, Again(g))'
    BY <1>6 DEF Marking, SameLists
  <2>1. Listed(g) /\ ~iswhite(g, Main) /\ Settled(g, Again(g)) /\ Live = heap
    BY <1>1, FreshHeap DEF GCInv, Marking, Sweeping
  <2>2. \A o \in heap : g'.mark[o] = g.mark[o]
    BY <1>1, <1>3, <1>6, <2>1
  <2>3. \A o \in heap' : o \notin heap => iswhite(g, o)'
    BY <1>2, <1>3, <1>4, <1>6, <2>1 DEF iswhite
  <2>4. Listed(g)'
    <3>1. Lists(g)' = Lists(g)
      BY <1>6 DEF Lists
    <3>2. \A o \in heap' : o \notin heap => g'.mark[o] # "gray"
      BY <2>3 DEF iswhite, Whites
    <3>3. QED
      BY <1>3, <1>20, <2>1, <2>2, <3>1, <3>2 DEF Listed
  <2>5. ~iswhite(g, Main)'
    BY <1>1, <2>1, <2>2 DEF iswhite
  <2>6. ASSUME NEW o \in heap', ~iswhite(g, o)', o \notin g'.gray, o \notin Again(g)'
        PROVE  \A k \in StrongKids(o)' : ~iswhite(g, k)'
    <3>1. o \in heap /\ o \in Obj
      BY <1>1, <2>3, <2>6
    <3>2. o # uv /\ open'[o] = None
      <4>1. open'[o] = None
        BY <2>6, <3>1 DEF Again, OpenUpvals
      <4>2. open'[uv] # None
        BY <1>1, <1>2, <1>10, NoneAssumption
      <4>3. QED
        BY <4>1, <4>2
    <3>3. open[o] = None
      BY <1>10, <3>1, <3>2
    <3>4. ~iswhite(g, o) /\ o \notin g.gray /\ o \notin Again(g)
      BY <1>6, <2>2, <2>6, <3>1, <3>3 DEF iswhite, Again, OpenUpvals, SameLists
    <3>5. o # Main
      <4>1. Main \in Again(g) \cup g.gray \/ iswhite(g, Main)
        BY <1>1, KindAssumption, ThreadAgain
      <4>2. QED
        BY <2>1, <3>4, <4>1
    <3>6. StrongKids(o)' = StrongKids(o)
      BY <1>15, <3>1, <3>2, <3>3, <3>5 DEF StrongKids, KeysOf, ValuesOf
    <3>7. StrongKids(o) \subseteq heap
      BY <1>1, <2>1, <3>1, Kids DEF Safe
    <3>8. Done(g, o)
      BY <2>1, <3>1, <3>4 DEF Settled
    <3>9. QED
      BY <2>2, <3>6, <3>7, <3>8 DEF Done, iswhite
  <2>7. Settled(g, Again(g))'
    BY <2>6 DEF Settled, Done
  <2>8. QED
    BY <2>4, <2>5, <2>7
<1>24. QED
  BY <1>1, <1>3, <1>6, <1>11, <1>12, <1>18, <1>19, <1>20, <1>21, <1>22, <1>23 DEF GCInv, SameLists

-----------------------------------------------------------------------------
(* The theorem.                                                            *)

(* Whatever the program does keeps the invariant. *)
LEMMA MutatorKeeps ==
  ASSUME GCInv, Mutator
  PROVE  GCInv'
<1>1. Running
  BY DEF Mutator
<1> DEFINE S == Accessible
<1>2. Operate(S)
  BY DEF Mutator
<1>3. S \subseteq Live
  BY <1>1, AccessibleLive DEF Running
<1> HIDE DEF S
<1>4. \A k : \A o \in Held(S, k) : o \in Live /\ Kind[o] = k
  BY <1>3 DEF Held, IsA
<1>5. \A o \in S \ Held(S, "upval") : o \in Live /\ Kind[o] # "upval"
  BY <1>3 DEF Held, IsA
<1>6. \A k : \A o \in Held(cast, k) : o \in cast /\ Kind[o] = k
  BY DEF Held, IsA
<1>7. CASE \E o \in cast, i \in Slots : luaC_link(o, i)
  BY <1>1, <1>7, LinkKeeps
<1>8. CASE \E s \in Held(cast, "string"), i \in Slots : luaS_newlstr(s, i)
  BY <1>1, <1>6, <1>8, InternKeeps
<1>9. CASE \E th \in Held(S, "thread") : luaF_close(th) \/ \E i \in Slots : Pop(th, i)
  BY <1>1, <1>4, <1>9, CloseUpvalsKeeps, PopKeeps
<1>10. CASE \E th \in Held(S, "thread"), i \in Slots, v \in S \ Held(S, "upval") : Push(th, i, v)
  BY <1>1, <1>4, <1>5, <1>10, PushKeeps
<1>11. CASE \E c \in Held(cast, "closure"), uv \in Held(cast, "upval"), th \in Held(S, "thread"),
               i, dst \in Slots : OP_CLOSURE(c, th, i, uv, dst)
  BY <1>1, <1>4, <1>6, <1>11, ClosureKeeps
<1>12. CASE \E t \in Held(S, "table") : Clear(t)
  BY <1>1, <1>4, <1>12, ClearKeeps
<1>13. CASE \E t \in Held(S, "table"), v \in S \ Held(S, "upval"), k \in (S \ Held(S, "upval")) \cup {None} :
               luaV_settable(t, k, v)
  BY <1>1, <1>4, <1>5, <1>13, SetTableKeeps
<1>14. CASE \E u \in Held(S, "udata"), t \in Held(S, "table") : lua_setfenv(u, t)
  BY <1>1, <1>4, <1>14, SetFenvKeeps
<1>15. CASE \E c \in Held(S, "closure"), v \in S \ Held(S, "upval") : OP_SETUPVAL(c, v)
  BY <1>1, <1>4, <1>5, <1>15, SetUpvalKeeps
<1>16. QED
  BY <1>2, <1>7, <1>8, <1>9, <1>10, <1>11, <1>12, <1>13, <1>14, <1>15 DEF Operate

(* The invariant holds at the start and is kept by every step. *)
LEMMA CollectorInvariant == Spec => []GCInv
<1>1. Init => GCInv
  <2> SUFFICES ASSUME Init PROVE GCInv
    OBVIOUS
  <2>1. /\ heap = {Main} /\ cast \in Casts /\ fields = [o \in Obj |-> {}] /\ open = [o \in Obj |-> None]
        /\ full = "no"
    BY DEF Init
  <2>2. /\ g \in GState /\ g.gcstate = "pause" /\ g.currentwhite = "w0" /\ g.mark = [o \in Obj |-> "w0"]
        /\ g.gray = {} /\ g.grayagain = {} /\ g.weak = {} /\ g.tmudata = {}
        /\ g.sweepstrgc = {} /\ g.sweepgc = {}
    BY DEF Init, GState, Phases, Colours, Whites
  <2>3. Graph
    BY <2>1, CastAssumption DEF Graph
  <2>4. Main \in Obj /\ Main \in heap /\ heap \subseteq Obj /\ \A o \in heap : g.mark[o] = "w0"
    BY <2>1, <2>2, KindAssumption
  <2>5. Fresh(g) /\ Live = heap
    BY <2>2, <2>4 DEF Fresh, Live, isdead, otherwhite
  <2>6. Safe
    <3>1. FieldsOf(Main) = {}
      BY <2>1, <2>4, KindAssumption DEF FieldsOf, IsA
    <3>2. QED
      BY <2>1, <2>5, <3>1 DEF Safe, AllKids, KeysOf, ValuesOf
  <2>7. Coloured(g) /\ ListsApart(g)
    BY <2>2, <2>4 DEF Coloured, ColourOK, ListsApart
  <2>8. Sweeping /\ Marking /\ Finalizing
    BY <2>2, <2>4, <2>5 DEF Sweeping, Marking, Finalizing, Fresh
  <2>9. QED
    BY <2>1, <2>2, <2>3, <2>4, <2>5, <2>6, <2>7, <2>8 DEF GCInv
<1>2. GCInv /\ [Next]_vars => GCInv'
  <2> SUFFICES ASSUME GCInv, [Next]_vars PROVE GCInv'
    OBVIOUS
  <2>1. CASE Mutator
    BY <2>1, MutatorKeeps
  <2>2. CASE luaC_step
    BY <2>2, SingleStepKeeps DEF luaC_step
  <2>3. CASE luaC_fullgc
    BY <2>3, FullKeeps
  <2>4. CASE lua_close
    BY <2>4, CloseKeeps
  <2>5. CASE UNCHANGED vars
    <3>1. Graph' /\ Live' = Live
      BY <2>5 DEF vars, GCInv, Graph, Live
    <3>2. \A o : AllKids(o)' = AllKids(o) /\ StrongKids(o)' = StrongKids(o)
      BY <2>5 DEF vars, AllKids, StrongKids, KeysOf, ValuesOf, FieldsOf, UpFields
    <3>3. g.gcstate # "closed" => Safe'
      BY <3>1, <3>2 DEF GCInv, Safe
    <3>4. Coloured(g)' /\ ListsApart(g)' /\ Sweeping'
      BY <2>5 DEF vars, GCInv, Coloured, ColourOK, ListsApart, Sweeping, Unswept, Fresh
    <3>5. Marking'
      BY <2>5, <3>2 DEF vars, GCInv, Marking, Listed, ListsApart, Lists, Settled, Done, Again, OpenUpvals
    <3>6. Finalizing'
      BY <2>5, <3>1 DEF vars, GCInv, Finalizing
    <3>7. QED
      BY <2>5, <3>1, <3>3, <3>4, <3>5, <3>6 DEF vars, GCInv
  <2>6. QED
    BY <2>1, <2>2, <2>3, <2>4, <2>5 DEF Next
<1>3. QED
  BY <1>1, <1>2, PTL DEF Spec

(* Nothing a program or a finalizer still to come can get at is ever freed *)
(* (lgc.c, with the barriers of lapi.c, lvm.c and lfunc.c), for every      *)
(* graph of objects and every interleaving of the program's operations     *)
(* with the steps of the collector.                                        *)
THEOREM CollectorIsSafe == Spec => []CollectorSafe
<1>1. GCInv => CollectorSafe
  <2> SUFFICES ASSUME GCInv PROVE CollectorSafe
    OBVIOUS
  <2>1. Graph /\ g \in GState /\ heap \subseteq Obj /\ Coloured(g) /\ ListsApart(g)
    BY CastAssumption DEF GCInv, Graph
  <2>2. TypeOK
    <3>1. \A o \in Obj : g.mark[o] \in Whites \cup {"gray", "black"}
      BY <2>1 DEF GState, Colours
    <3>2. \A uv \in Obj : open[uv] # None => uv \in heap /\ open[uv] \in Threads \X Slots
      <4> SUFFICES ASSUME NEW uv \in Obj, open[uv] # None PROVE uv \in heap /\ open[uv] \in Threads \X Slots
        OBVIOUS
      <4>1. open[uv] \in Obj \X Slots /\ uv \in heap /\ open[uv][1] \in heap /\ Kind[open[uv][1]] = "thread"
        BY <2>1 DEF Graph
      <4>2. QED
        BY <4>1 DEF Threads, IsA
    <3>3. QED
      BY <2>1, <3>1, <3>2 DEF TypeOK, GCInv, Graph, GState, Phases
  <2>3. NoDangling
    <3> SUFFICES ASSUME g.gcstate # "closed" PROVE Closure({Main} \cup g.tmudata, FALSE) \subseteq heap
      BY DEF NoDangling
    <3>1. Live \subseteq heap /\ Live \in SUBSET Obj /\ {Main} \cup g.tmudata \subseteq Live
      BY <2>1 DEF GCInv, Finalizing, Live
    <3>2. \A o \in Live \cap heap : AllKids(o) \subseteq Live
      BY DEF GCInv, Safe
    <3>3. {Main} \cup g.tmudata \in SUBSET Obj
      BY <3>1
    <3>4. Closure({Main} \cup g.tmudata, FALSE) \subseteq Live
      BY <2>1, <3>1, <3>2, <3>3, ClosureWithin
    <3>5. QED
      BY <3>1, <3>4
  <2>4. NoBlackToWhite
    <3> SUFFICES ASSUME g.gcstate = "propagate", full # "close",
                        NEW o \in heap, o \notin g.tmudata, g.mark[o] = "black"
                 PROVE  Done(g, o)
      BY DEF NoBlackToWhite, Done
    <3>1. Listed(g) /\ Settled(g, Again(g)) /\ ColourOK(g, o) /\ ~iswhite(g, o)
      BY <2>1 DEF GCInv, Marking, Coloured, iswhite, Whites
    <3>2. o \notin g.gray /\ o \notin Again(g)
      BY <3>1 DEF Listed, Lists, ColourOK, Again, OpenUpvals
    <3>3. QED
      BY <3>1, <3>2 DEF Settled
  <2>5. OneList
    BY <2>1 DEF GCInv, OneList, ListsApart, Marking, Listed, Lists
  <2>6. QED
    BY <2>2, <2>3, <2>4, <2>5 DEF CollectorSafe
<1>2. QED
  BY <1>1, CollectorInvariant, PTL

-----------------------------------------------------------------------------
(* Finalizers.                                                             *)

(* Which userdata are due, finalized or neither follows from how often     *)
(* their finalizers were called.                                           *)
FinInv ==
  /\ called \in [Obj -> {0, 1}]
  /\ \A u \in heap \cap HasGC :
       /\ u \in g.tmudata => called[u] = 0
       /\ called[u] = 1 => u \in g.finalized
       /\ u \in g.finalized => u \in g.tmudata \/ called[u] = 1
       /\ full = "close" => u \in g.finalized

SameDue(a, b) == b.tmudata = a.tmudata /\ b.finalized = a.finalized
NoneDue == g'.tmudata \subseteq g.tmudata

(* Marking and whitening make nothing due. *)
LEMMA MarksSame ==
  ASSUME Graph, NEW gs \in GState, NEW S \in SUBSET Obj
  PROVE  /\ makewhite(gs, S) \in GState /\ SameDue(gs, makewhite(gs, S))
         /\ reallymarkobject(gs, S) \in GState /\ SameDue(gs, reallymarkobject(gs, S))
<1>1. makewhite(gs, S) \in GState /\ SameDue(gs, makewhite(gs, S))
  <2>1. [o \in Obj |-> IF o \in S THEN gs.currentwhite ELSE gs.mark[o]] \in [Obj -> Colours]
    BY DEF GState, Colours
  <2>2. QED
    BY <2>1 DEF makewhite, GState, SameDue
<1>2. PICK T : Swath(gs, S, T) /\ reallymarkobject(gs, S) = SetMarks(gs, T)
  BY Marked
<1>3. T \in SUBSET Obj
  BY <1>2 DEF Swath
<1>4. SetMarks(gs, T) \in GState /\ SameDue(gs, SetMarks(gs, T))
  BY <1>3, MarksWritten DEF SameDue
<1>5. QED
  BY <1>1, <1>2, <1>4

(* Nor do the steps of the mark phase and the barriers. *)
LEMMA StepsSame ==
  ASSUME GCInv, heap \subseteq Obj
  PROVE  /\ \A o \in g.gray : SameDue(g, propagatemark(g, o))
         /\ Main \in Obj => SameDue(g, markroot(g))
         /\ \A o \in Obj, v \in Obj : SameDue(g, luaC_objbarrier(g, o, v))
         /\ \A t \in Obj, v \in Obj : luaC_barriert(g, t, v) \in GState /\ SameDue(g, luaC_barriert(g, t, v))
         /\ \A S \in SUBSET heap : SameDue(g, luaC_linkupval(g, S))
<1>1. Graph /\ g \in GState
  BY DEF GCInv
<1>2. ASSUME NEW o \in g.gray PROVE SameDue(g, propagatemark(g, o))
  <2>1. o \in Obj
    BY <1>1 DEF GState
  <2>2. Traversed(g, o) \in GState /\ SameDue(g, Traversed(g, o))
    BY <1>1, <2>1, TraversedIs DEF SameDue
  <2>3. StrongKids(o) \in SUBSET Obj
    BY <1>1, <2>1, Kids
  <2>4. SameDue(Traversed(g, o), reallymarkobject(Traversed(g, o), StrongKids(o)))
    BY <1>1, <2>2, <2>3, MarksSame
  <2>5. QED
    BY <2>2, <2>4 DEF propagatemark, SameDue
<1>3. ASSUME Main \in Obj PROVE SameDue(g, markroot(g))
  <2> DEFINE r == [g EXCEPT !.gray = {}, !.grayagain = {}, !.weak = {}, !.gcstate = "propagate"]
  <2>1. r \in GState /\ SameDue(g, r)
    BY <1>1 DEF GState, Phases, SameDue
  <2>2. markroot(g) = reallymarkobject(r, {Main})
    BY DEF markroot
  <2> HIDE DEF r
  <2>3. SameDue(r, reallymarkobject(r, {Main}))
    BY <1>1, <1>3, <2>1, MarksSame
  <2>4. QED
    BY <2>1, <2>2, <2>3 DEF SameDue
<1>4. ASSUME NEW o \in Obj, NEW v \in Obj PROVE SameDue(g, luaC_objbarrier(g, o, v))
  <2>1. SameDue(g, reallymarkobject(g, {v})) /\ SameDue(g, makewhite(g, {o}))
    BY <1>1, MarksSame
  <2>2. QED
    BY <2>1 DEF luaC_objbarrier, luaC_barrierf, SameDue
<1>5. ASSUME NEW t \in Obj, NEW v \in Obj
      PROVE  luaC_barriert(g, t, v) \in GState /\ SameDue(g, luaC_barriert(g, t, v))
  <2>1. luaC_barrierback(g, t) \in GState /\ SameDue(g, luaC_barrierback(g, t))
    BY <1>1 DEF luaC_barrierback, GState, Colours, SameDue
  <2>2. QED
    BY <1>1, <2>1 DEF luaC_barriert, SameDue
<1>6. ASSUME NEW S \in SUBSET heap PROVE SameDue(g, luaC_linkupval(g, S))
  <2> DEFINE gray == {uv \in S : g.mark[uv] = "gray"}
             vals == UNION {ValuesOf(uv) : uv \in gray}
             b == [g EXCEPT !.mark = [o \in Obj |-> IF o \in gray THEN "black" ELSE @[o]]]
  <2>1. gray \in SUBSET Obj
    OBVIOUS
  <2>2. vals \in SUBSET Obj
    BY <1>1, <2>1, Kids
  <2>3. b \in GState /\ SameDue(g, b)
    <3>1. [o \in Obj |-> IF o \in gray THEN "black" ELSE g.mark[o]] \in [Obj -> Colours]
      BY <1>1 DEF GState, Colours
    <3>2. QED
      BY <1>1, <3>1 DEF GState, SameDue
  <2>4. luaC_linkupval(g, S) = IF g.gcstate = "propagate" THEN reallymarkobject(b, vals) ELSE makewhite(g, gray)
    BY DEF luaC_linkupval
  <2> HIDE DEF gray, vals, b
  <2>5. SameDue(b, reallymarkobject(b, vals)) /\ SameDue(g, makewhite(g, gray))
    BY <1>1, <2>1, <2>2, <2>3, MarksSame
  <2>6. QED
    BY <2>3, <2>4, <2>5 DEF SameDue
<1>7. QED
  BY <1>2, <1>3, <1>4, <1>5, <1>6

(* A step that makes nothing due, calls no finalizer and brings no         *)
(* userdata into the heap keeps the invariant.                             *)
LEMMA Quiet ==
  ASSUME FinInv, called' = called, SameDue(g, g'), full' = "close" => full = "close",
         \A u \in heap' \cap HasGC : u \in heap
  PROVE  FinInv' /\ NoneDue
  BY DEF FinInv, SameDue, NoneDue

(* One finalizer is called (lgc.c:446). *)
LEMMA CalledOnce ==
  ASSUME GCInv, FinInv, GCTM, full' = "close" => full = "close"
  PROVE  FinInv' /\ NoneDue
<1>1. PICK u \in g.tmudata : /\ called' = [called EXCEPT ![u] = @ + 1] /\ heap' = heap
                             /\ g' = makewhite([g EXCEPT !.tmudata = @ \ {u}], {u})
  BY DEF GCTM
<1>2. Graph /\ g \in GState /\ u \in heap \cap HasGC /\ u \in g.finalized /\ u \in Obj
  BY <1>1, ModeAssumption DEF GCInv, Finalizing, Live
<1>3. called[u] = 0 /\ called \in [Obj -> {0, 1}]
  BY <1>1, <1>2 DEF FinInv
<1>4. [g EXCEPT !.tmudata = @ \ {u}] \in GState
  BY <1>2 DEF GState
<1>5. g'.tmudata = g.tmudata \ {u} /\ g'.finalized = g.finalized
  BY <1>1, <1>2, <1>4, MarksSame DEF SameDue, GState
<1>6. called' \in [Obj -> {0, 1}] /\ called'[u] = 1 /\ \A o \in Obj : o # u => called'[o] = called[o]
  BY <1>1, <1>2, <1>3
<1>7. \A o \in HasGC : o \in Obj
  BY ModeAssumption
<1>8. QED
  BY <1>1, <1>2, <1>5, <1>6, <1>7 DEF FinInv, NoneDue

(* The atomic step makes due what has not been finalized, and so has not   *)
(* been called.                                                            *)
LEMMA AtomicDue ==
  ASSUME GCInv, g.gcstate = "propagate", full # "close", atomic
  PROVE  /\ heap' = heap /\ AllMarked(g, MarkAll(g)) /\ fields' = cleartable(MarkAll(g))
         /\ g'.tmudata = MarkAll(g).tmudata /\ g'.finalized = MarkAll(g).finalized
         /\ \A o \in heap : ~isdead(g', o) /\ Kind[o] # "string" => ~iswhite(MarkAll(g), o)
         /\ \A o \in heap : o \notin StringsInWeak(MarkAll(g)) /\ iswhite(MarkAll(g), o) => isdead(g', o)
<1> DEFINE m == MarkAll(g)
           Z == StringsInWeak(m)
           q == SetMarks(m, Z)
           s == [q EXCEPT !.currentwhite = otherwhite(@)]
<1>1. Graph /\ g \in GState /\ Safe /\ HeapClosed /\ Live = heap /\ heap \subseteq Obj /\ Main \in heap
  BY FreshHeap DEF GCInv, Sweeping
<1>2. Steady(g, Again(g)) /\ g.tmudata \subseteq heap /\ g.tmudata \subseteq HasGC
  BY <1>1 DEF GCInv, Marking, Steady, Sweeping, Finalizing
<1>3. AllMarked(g, m)
  BY <1>1, <1>2, MarkAllEnds
<1>4. heap' = heap /\ fields' = cleartable(m) /\ g' = SweepLists(s)
  BY DEF atomic
<1> HIDE DEF m
<1>5. m \in GState /\ \A t \in m.weak : t \in heap
  BY <1>3 DEF AllMarked, Steady, Listed, Lists
<1>6. Z \in SUBSET Obj /\ \A o \in Z : Kind[o] = "string"
  BY <1>1, <1>5 DEF StringsInWeak, Strings, Safe, IsA
<1> HIDE DEF Z
<1>7. /\ q \in GState /\ SameDue(m, q) /\ q.currentwhite = m.currentwhite
      /\ \A o \in Obj : Kind[o] # "string" \/ o \notin Z => q.mark[o] = m.mark[o]
  BY <1>1, <1>5, <1>6, MarksWritten DEF SameDue
<1> HIDE DEF q
<1>8. s \in GState /\ SameDue(q, s) /\ s.mark = q.mark /\ s.currentwhite = otherwhite(q.currentwhite)
  BY <1>7 DEF GState, otherwhite, Whites, SameDue
<1> HIDE DEF s
<1>9. s.tmudata \subseteq HasGC
  BY <1>2, <1>3, <1>7, <1>8 DEF AllMarked, SameDue
<1>10. SameDue(s, g') /\ g'.mark = s.mark /\ g'.currentwhite = s.currentwhite
  BY <1>1, <1>4, <1>8, <1>9, SweepListed DEF SameDue
<1>11. ASSUME NEW o \in heap, ~isdead(g', o), Kind[o] # "string" PROVE ~iswhite(m, o)
  <2>1. o \in Obj /\ m.currentwhite \in Whites /\ m.mark[o] # otherwhite(m.currentwhite)
    BY <1>1, <1>3, <1>5 DEF AllMarked, Steady, Fresh, isdead, GState
  <2>2. g'.mark[o] = m.mark[o] /\ g'.currentwhite = otherwhite(m.currentwhite)
    BY <1>7, <1>8, <1>10, <1>11, <2>1
  <2>3. QED
    BY <1>11, <2>1, <2>2 DEF isdead, iswhite, otherwhite, Whites
<1>12. ASSUME NEW o \in heap, o \notin Z, iswhite(m, o) PROVE isdead(g', o)
  <2>1. o \in Obj /\ m.currentwhite \in Whites /\ m.mark[o] # otherwhite(m.currentwhite)
    BY <1>1, <1>3, <1>5 DEF AllMarked, Steady, Fresh, isdead, GState
  <2>2. g'.mark[o] = m.mark[o] /\ g'.currentwhite = otherwhite(m.currentwhite)
    BY <1>7, <1>8, <1>10, <1>12, <2>1
  <2>3. QED
    BY <1>12, <2>1, <2>2 DEF isdead, iswhite, otherwhite, Whites
<1>13. QED
  BY <1>3, <1>4, <1>7, <1>8, <1>10, <1>11, <1>12 DEF SameDue, m, Z

(* singlestep keeps the invariant. *)
LEMMA SingleFin ==
  ASSUME GCInv, FinInv, full \in {"no", "sweep", "mark"}, singlestep, full' # "close"
  PROVE  FinInv' /\ (NoneDue \/ (g.gcstate = "propagate" /\ full # "close" /\ atomic))
<1>1. g \in GState /\ full # "close"
  BY DEF GCInv
<1>2. heap \subseteq Obj /\ Main \in Obj
  BY CastAssumption, KindAssumption DEF GCInv, Graph
<1>3. CASE MarkRoot
  <2>1. SameDue(g, g')
    BY <1>2, <1>3, StepsSame DEF MarkRoot
  <2>2. QED
    BY <1>3, <2>1, Quiet DEF MarkRoot
<1>4. CASE /\ g.gcstate = "propagate"
           /\ \E o \in g.gray : g' = propagatemark(g, o)
           /\ UNCHANGED <<heap, fields, open, called, garbage>>
  <2>1. SameDue(g, g')
    BY <1>2, <1>4, StepsSame
  <2>2. QED
    BY <1>4, <2>1, Quiet
<1>5. CASE /\ g.gcstate = "propagate" /\ g.gray = {}
           /\ atomic /\ UNCHANGED <<called, garbage>>
  <2> DEFINE m == MarkAll(g)
  <2>1. /\ heap' = heap /\ AllMarked(g, m)
        /\ g'.tmudata = m.tmudata /\ g'.finalized = m.finalized
    BY <1>1, <1>5, AtomicDue
  <2> HIDE DEF m
  <2>2. /\ g.finalized \subseteq g'.finalized
        /\ g'.tmudata = g.tmudata \cup ((g'.finalized \ g.finalized) \cap HasGC)
    BY <2>1 DEF AllMarked
  <2>3. FinInv'
    BY <1>1, <1>5, <2>1, <2>2, ModeAssumption DEF FinInv
  <2>4. QED
    BY <1>1, <1>5, <2>3
<1>6. ASSUME NEW ph, g' = [g EXCEPT !.gcstate = ph], UNCHANGED <<heap, called>> PROVE FinInv' /\ NoneDue
  <2>1. SameDue(g, g')
    BY <1>1, <1>6 DEF GState, SameDue
  <2>2. QED
    BY <1>6, <2>1, Quiet
<1>7. ASSUME NEW o \in Obj, sweeplist(o, g), called' = called PROVE FinInv' /\ NoneDue
  <2> DEFINE r == [g EXCEPT !.sweepgc = @ \ {o}, !.sweepstrgc = @ \ {o}]
             W == {o} \cup UpvalsOf({o})
  <2>1. r \in GState /\ SameDue(g, r)
    BY <1>1 DEF GState, SameDue
  <2>2. W \in SUBSET Obj
    BY <1>2 DEF UpvalsOf
  <2>3. g' = makewhite(r, W) /\ heap' \subseteq heap
    BY <1>7 DEF sweeplist
  <2> HIDE DEF r, W
  <2>4. SameDue(r, g')
    BY <2>1, <2>2, <2>3, MarksSame DEF GCInv
  <2>5. SameDue(g, g')
    BY <2>1, <2>4 DEF SameDue
  <2>6. QED
    BY <1>7, <2>3, <2>5, Quiet
<1>8. CASE /\ g.gcstate = "sweepstring"
           /\ IF g.sweepstrgc # {} THEN \E s \in g.sweepstrgc : sweeplist(s, g)
              ELSE g' = [g EXCEPT !.gcstate = "sweep"] /\ UNCHANGED <<heap, fields, open>>
           /\ UNCHANGED <<called, garbage>>
  <2>1. g.sweepstrgc \subseteq Obj
    BY <1>1 DEF GState
  <2>2. QED
    BY <1>6, <1>7, <1>8, <2>1
<1>9. CASE /\ g.gcstate = "sweep"
           /\ IF g.sweepgc # {} THEN \E o \in g.sweepgc : sweeplist(o, g)
              ELSE g' = [g EXCEPT !.gcstate = "finalize"] /\ UNCHANGED <<heap, fields, open>>
           /\ UNCHANGED <<called, garbage>>
  <2>1. g.sweepgc \subseteq Obj
    BY <1>1 DEF GState
  <2>2. QED
    BY <1>6, <1>7, <1>9, <2>1
<1>10. CASE GCTM
  BY <1>10, CalledOnce
<1>11. CASE /\ g.gcstate = "finalize" /\ g.tmudata = {} /\ full # "sweep"
            /\ g' = [g EXCEPT !.gcstate = "pause"]
            /\ UNCHANGED <<heap, fields, open, called, garbage>>
  BY <1>6, <1>11
<1>12. QED
  BY <1>3, <1>4, <1>5, <1>8, <1>9, <1>10, <1>11 DEF singlestep

(* Full collections and lua_close keep it too; lua_close makes due what    *)
(* has never been (lstate.c:213).                                          *)
LEMMA CollectFin ==
  ASSUME GCInv, FinInv, luaC_step \/ luaC_fullgc \/ lua_close
  PROVE  /\ FinInv'
         /\ NoneDue \/ full' = "close" \/ (g.gcstate = "propagate" /\ full # "close" /\ atomic)
<1>1. g \in GState /\ Graph /\ heap \subseteq Obj /\ Main \in Obj
  BY CastAssumption, KindAssumption DEF GCInv, Graph
<1>2. CASE luaC_step
  BY <1>2, SingleFin DEF luaC_step
<1>3. CASE luaC_fullgc
  <2>1. CASE /\ full = "no" /\ g.gcstate # "closed"
             /\ full' = "sweep"
             /\ g' = IF g.gcstate \in {"pause", "propagate"} THEN Abandon(g) ELSE g
             /\ UNCHANGED <<heap, fields, open, called, garbage, cast>>
    <3>1. SweepLists(g) \in GState /\ SameDue(g, SweepLists(g))
      BY <1>1, SweepListed DEF GCInv, Finalizing, SameDue
    <3>2. SameDue(g, Abandon(g))
      BY <3>1 DEF Abandon, GState, SameDue
    <3>3. SameDue(g, g')
      BY <2>1, <3>2 DEF SameDue
    <3>4. QED
      BY <2>1, <3>3, Quiet
  <2>2. CASE full \in {"sweep", "mark"} /\ singlestep /\ full' = full
    BY <2>2, SingleFin
  <2>3. CASE MarkRoot /\ full' = "mark"
    <3>1. SameDue(g, g')
      BY <1>1, <2>3, StepsSame DEF MarkRoot
    <3>2. QED
      BY <2>3, <3>1, Quiet DEF MarkRoot
  <2>4. CASE full' = "no" /\ UNCHANGED <<heap, g, called>>
    <3>1. SameDue(g, g')
      BY <2>4 DEF SameDue
    <3>2. QED
      BY <2>4, <3>1, Quiet
  <2>5. QED
    BY <1>3, <2>1, <2>2, <2>3, <2>4 DEF luaC_fullgc
<1>4. CASE lua_close
  <2>1. CASE /\ full' = "close" /\ g' = luaC_separateudata(g, TRUE)
             /\ UNCHANGED <<heap, fields, open, called, garbage, cast>>
    <3> DEFINE cand == {u \in heap : IsA(u, "udata") /\ u \notin g.finalized}
    <3>1. g' = [g EXCEPT !.finalized = @ \cup cand, !.tmudata = @ \cup (cand \cap HasGC)]
      BY <2>1 DEF luaC_separateudata
    <3>2. \A u \in heap \cap HasGC : u \in cand <=> u \notin g.finalized
      BY ModeAssumption DEF IsA
    <3> HIDE DEF cand
    <3>3. g'.finalized = g.finalized \cup cand /\ g'.tmudata = g.tmudata \cup (cand \cap HasGC)
      BY <1>1, <3>1 DEF GState
    <3>4. QED
      BY <2>1, <3>2, <3>3, ModeAssumption DEF FinInv
  <2>2. CASE full = "close" /\ GCTM /\ UNCHANGED <<garbage, full, cast>>
    BY <2>2, CalledOnce
  <2>3. CASE /\ g' = [g EXCEPT !.gcstate = "closed"] /\ full' = "no" /\ Free(heap) /\ called' = called
    <3>1. SameDue(g, g') /\ heap' = {}
      BY <1>1, <2>3 DEF GState, SameDue, Free
    <3>2. QED
      BY <2>3, <3>1, Quiet
  <2>4. QED
    BY <1>4, <2>1, <2>2, <2>3 DEF lua_close
<1>5. QED
  BY <1>2, <1>3, <1>4

(* A new userdata has not been finalized. *)
LEMMA LinkFin ==
  ASSUME GCInv, FinInv, Running, NEW o \in cast, NEW i, luaC_link(o, i)
  PROVE  FinInv' /\ NoneDue
<1> DEFINE r == [g EXCEPT !.finalized = @ \ {o}]
<1>1. g \in GState /\ Graph /\ o \in Obj /\ o \notin heap /\ cast \subseteq Obj
  BY CastAssumption DEF GCInv, Graph, luaC_link
<1>2. r \in GState /\ r.finalized = g.finalized \ {o} /\ r.tmudata = g.tmudata
  BY <1>1 DEF GState
<1>3. /\ g' = makewhite(r, {o}) /\ heap' = heap \cup {o} /\ full' = full
      /\ called' = [called EXCEPT ![o] = 0]
  BY DEF luaC_link
<1> HIDE DEF r
<1>4. g'.finalized = g.finalized \ {o} /\ g'.tmudata = g.tmudata
  BY <1>1, <1>2, <1>3, MarksSame DEF SameDue
<1>5. o \notin g.tmudata
  BY <1>1 DEF GCInv, Finalizing, Live
<1>6. called' \in [Obj -> {0, 1}] /\ called'[o] = 0 /\ \A u \in Obj : u # o => called'[u] = called[u]
  BY <1>1, <1>3 DEF FinInv
<1>7. full # "close"
  BY DEF Running
<1>8. \A u \in heap' \cap HasGC : u \in Obj /\ (u # o => u \in heap)
  BY <1>3, ModeAssumption
<1>9. NoneDue
  BY <1>4 DEF NoneDue
<1>10. FinInv'
  BY <1>3, <1>4, <1>5, <1>6, <1>7, <1>8 DEF FinInv
<1>11. QED
  BY <1>9, <1>10

(* What a program does calls no finalizer and makes nothing due. *)
LEMMA MutatorFin ==
  ASSUME GCInv, FinInv, Mutator
  PROVE  FinInv' /\ NoneDue
<1>1. Running /\ g \in GState /\ Graph /\ heap \subseteq Obj /\ cast \subseteq Obj /\ Main \in Obj
  BY CastAssumption, KindAssumption DEF Mutator, GCInv, Graph
<1> DEFINE S == Accessible
<1>2. Operate(S)
  BY DEF Mutator
<1>3. S \subseteq Live /\ S \subseteq heap /\ S \subseteq Obj
  BY <1>1, AccessibleLive DEF Running, Live
<1> HIDE DEF S
<1>4. \A k : Held(S, k) \subseteq S /\ Held(cast, k) \subseteq cast /\ \A o \in Held(cast, k) : Kind[o] = k
  BY DEF Held, IsA
<1>5. ASSUME called' = called, full' = full, SameDue(g, g'),
             \A o \in heap' : o \in heap \/ Kind[o] # "udata"
      PROVE  FinInv' /\ NoneDue
  BY <1>5, Quiet, ModeAssumption
<1>6. \A x \in Obj : makewhite(g, {x}) \in GState /\ SameDue(g, makewhite(g, {x}))
  BY <1>1, MarksSame
<1>7. CASE \E o \in cast, i \in Slots : luaC_link(o, i)
  BY <1>1, <1>7, LinkFin
<1>8. CASE \E s \in Held(cast, "string"), i \in Slots : luaS_newlstr(s, i)
  <2>1. PICK s \in Held(cast, "string"), i \in Slots : luaS_newlstr(s, i)
    BY <1>8
  <2>2. s \in Obj /\ Kind[s] = "string"
    BY <1>1, <1>4
  <2>3. SameDue(g, g')
    BY <1>6, <2>1, <2>2 DEF luaS_newlstr, Intern, SameDue
  <2>4. heap' \subseteq heap \cup {s} /\ called' = called /\ full' = full
    BY <2>1 DEF luaS_newlstr
  <2>5. \A o \in heap' : o \in heap \/ Kind[o] # "udata"
    BY <2>2, <2>4
  <2>6. QED
    BY <1>5, <2>3, <2>4, <2>5
<1>9. CASE \E th \in Held(S, "thread") : luaF_close(th) \/ \E i \in Slots : Pop(th, i)
  <2>1. PICK th \in Held(S, "thread") : luaF_close(th) \/ \E i \in Slots : Pop(th, i)
    BY <1>9
  <2>2. CASE luaF_close(th)
    <3> DEFINE uvs == UpvalsOf({th})
               D == {uv \in uvs : isdead(g, uv)}
    <3>1. uvs \ D \in SUBSET heap
      BY DEF UpvalsOf
    <3>2. g' = luaC_linkupval(g, uvs \ D) /\ heap' \subseteq heap /\ called' = called /\ full' = full
      BY <2>2 DEF luaF_close
    <3> HIDE DEF uvs, D
    <3>3. SameDue(g, g')
      BY <1>1, <3>1, <3>2, StepsSame
    <3>4. QED
      BY <1>5, <3>2, <3>3
  <2>3. CASE \E i \in Slots : Pop(th, i)
    BY <1>5, <2>3 DEF Pop, SameDue
  <2>4. QED
    BY <2>1, <2>2, <2>3
<1>10. CASE \E th \in Held(S, "thread"), i \in Slots, v \in S \ Held(S, "upval") : Push(th, i, v)
  BY <1>5, <1>10 DEF Push, SameDue
<1>11. CASE \E c \in Held(cast, "closure"), uv \in Held(cast, "upval"), th \in Held(S, "thread"),
               i, dst \in Slots : OP_CLOSURE(c, th, i, uv, dst)
  <2>1. PICK c \in Held(cast, "closure"), uv \in Held(cast, "upval"), th \in Held(S, "thread"),
             i \in Slots, dst \in Slots : OP_CLOSURE(c, th, i, uv, dst)
    BY <1>11
  <2>2. c \in Obj /\ Kind[c] = "closure" /\ uv \in Obj /\ Kind[uv] = "upval"
    BY <1>1, <1>4
  <2> DEFINE r == makewhite(g, {c})
  <2>3. r \in GState /\ SameDue(g, r)
    BY <1>6, <2>2
  <2>4. luaF_findupval(r, th, i, uv) /\ heap' = heap \cup {c, uv} /\ called' = called /\ full' = full
    BY <2>1 DEF OP_CLOSURE
  <2> HIDE DEF r
  <2>5. SameDue(r, makewhite(r, {uv}))
    BY <1>1, <2>2, <2>3, MarksSame
  <2>6. SameDue(r, g')
    BY <2>4, <2>5 DEF luaF_findupval, Resurrect, SameDue
  <2>7. SameDue(g, g')
    BY <2>3, <2>6 DEF SameDue
  <2>8. \A o \in heap' : o \in heap \/ Kind[o] # "udata"
    BY <2>2, <2>4
  <2>9. QED
    BY <1>5, <2>4, <2>7, <2>8
<1>12. CASE \E t \in Held(S, "table") : Clear(t)
  BY <1>5, <1>12 DEF Clear, SameDue
<1>13. CASE \E t \in Held(S, "table"), v \in S \ Held(S, "upval"), k \in (S \ Held(S, "upval")) \cup {None} :
               luaV_settable(t, k, v)
  <2>1. PICK t \in Held(S, "table"), v \in S \ Held(S, "upval"), k \in (S \ Held(S, "upval")) \cup {None} :
               luaV_settable(t, k, v)
    BY <1>13
  <2>2. t \in Obj /\ v \in Obj /\ (k # None => k \in Obj)
    BY <1>3, <1>4
  <2> DEFINE r == IF k = None THEN g ELSE luaC_barriert(g, t, k)
  <2>3. r \in GState /\ SameDue(g, r)
    <3>1. CASE k = None
      BY <1>1, <3>1 DEF SameDue
    <3>2. CASE k # None
      BY <1>1, <2>2, <3>2, StepsSame
    <3>3. QED
      BY <3>1, <3>2
  <2>4. g' = luaC_barriert(r, t, v) /\ heap' = heap /\ called' = called /\ full' = full
    BY <2>1 DEF luaV_settable
  <2> HIDE DEF r
  <2>5. SameDue(r, luaC_barriert(r, t, v))
    BY <2>2, <2>3 DEF luaC_barriert, luaC_barrierback, GState, SameDue
  <2>6. SameDue(g, g')
    BY <2>3, <2>4, <2>5 DEF SameDue
  <2>7. QED
    BY <1>5, <2>4, <2>6
<1>14. CASE \E u \in Held(S, "udata"), t \in Held(S, "table") : lua_setfenv(u, t)
  <2>1. SameDue(g, g')
    BY <1>1, <1>3, <1>4, <1>14, StepsSame DEF lua_setfenv
  <2>2. QED
    BY <1>5, <1>14, <2>1 DEF lua_setfenv
<1>15. CASE \E c \in Held(S, "closure"), v \in S \ Held(S, "upval") : OP_SETUPVAL(c, v)
  <2>1. PICK c \in Held(S, "closure"), v \in S \ Held(S, "upval") : OP_SETUPVAL(c, v)
    BY <1>15
  <2>2. c \in Obj /\ v \in Obj /\ ValuesOf(c) \subseteq Obj
    BY <1>1, <1>3, <1>4, Kids
  <2>3. PICK uv \in ValuesOf(c) : g' = luaC_objbarrier(g, uv, v)
    BY <2>1 DEF OP_SETUPVAL
  <2>4. SameDue(g, g')
    BY <1>1, <2>2, <2>3, StepsSame
  <2>5. QED
    BY <1>5, <2>1, <2>4 DEF OP_SETUPVAL
<1>16. QED
  BY <1>2, <1>7, <1>8, <1>9, <1>10, <1>11, <1>12, <1>13, <1>14, <1>15 DEF Operate

Alive == g.gcstate # "closed" => Accessible \subseteq Live

(* The atomic step makes due only what the program has lost, and takes it  *)
(* out of the weak tables.                                                 *)
LEMMA AtomicLost ==
  ASSUME GCInv, Alive', g.gcstate = "propagate", full # "close", atomic,
         NEW u \in g'.tmudata, u \notin g.tmudata
  PROVE  Lost(u) /\ \A t \in Accessible' : Mode[t] # {} => u \notin ValuesOf(t)'
<1> DEFINE m == MarkAll(g)
<1>1. /\ heap' = heap /\ AllMarked(g, m) /\ fields' = cleartable(m)
      /\ g'.tmudata = m.tmudata /\ g'.finalized = m.finalized
      /\ \A o \in heap : ~isdead(g', o) /\ Kind[o] # "string" => ~iswhite(m, o)
  BY AtomicDue
<1>2. g'.gcstate = "sweepstring"
  <2> DEFINE s == [SetMarks(m, StringsInWeak(m)) EXCEPT !.currentwhite = otherwhite(@)]
  <2>1. g' = SweepLists(s)
    BY DEF atomic
  <2> HIDE DEF s
  <2>2. QED
    BY <2>1 DEF SweepLists
<1> HIDE DEF m
<1>3. Graph /\ heap \subseteq Obj
  BY CastAssumption DEF GCInv, Graph
<1>4. u \in m.finalized \ g.finalized /\ u \in HasGC /\ Kind[u] = "udata"
  BY <1>1, ModeAssumption DEF AllMarked
<1>5. Lost(u)
  <2>1. Apart(g.tmudata, m.finalized \ g.finalized)
    BY <1>1 DEF AllMarked
  <2>2. QED
    BY <1>4, <2>1 DEF Apart, Lost
<1>6. ASSUME NEW t \in Accessible', Mode[t] # {} PROVE u \notin ValuesOf(t)'
  <2>1. t \in heap /\ ~isdead(g', t) /\ t \in Obj
    BY <1>1, <1>2, <1>3, <1>6 DEF Alive, Live
  <2>2. Kind[t] = "table"
    BY <1>3, <1>6, <2>1, Strict
  <2>3. ~iswhite(m, t) /\ m.mark[t] \in Colours
    BY <1>1, <2>1, <2>2 DEF AllMarked, Steady, GState
  <2>4. Coloured(m) /\ Listed(m) /\ m.gray = {}
    BY <1>1 DEF AllMarked, Steady
  <2>5. m.mark[t] = "gray"
    BY <1>6, <2>1, <2>3, <2>4 DEF Coloured, ColourOK, iswhite, Colours
  <2>6. t \in m.weak
    BY <1>6, <2>1, <2>2, <2>4, <2>5 DEF Listed, ListsApart, Lists, Listable
  <2>7. \A e \in fields'[t] : ~iscleared(m, e[2], FALSE)
    BY <1>1, <2>1, <2>6 DEF cleartable
  <2>8. ValuesOf(t)' = {e[2] : e \in fields'[t]}
    BY <2>2 DEF ValuesOf, FieldsOf, IsA
  <2>9. iscleared(m, u, FALSE)
    BY <1>4 DEF iscleared, IsA
  <2>10. QED
    BY <2>7, <2>8, <2>9
<1>7. QED
  BY <1>5, <1>6

(* Finalizers are called once for each userdata (lgc.c:127, :446,          *)
(* lstate.c:203), and only for what the program has lost: whatever brings  *)
(* a userdata back to life, and whenever lua_close comes.                  *)
THEOREM FinalizersRunOnce == Spec => FinalizersOnce
<1>1. Init => FinInv
  <2> SUFFICES ASSUME Init PROVE FinInv
    OBVIOUS
  <2>1. heap = {Main} /\ called = [o \in Obj |-> 0] /\ Main \notin HasGC
    BY KindAssumption, ModeAssumption DEF Init
  <2>2. QED
    BY <2>1 DEF FinInv
<1>2. GCInv /\ FinInv /\ [Next]_vars => FinInv'
  <2> SUFFICES ASSUME GCInv, FinInv, [Next]_vars PROVE FinInv'
    OBVIOUS
  <2>1. CASE Mutator
    BY <2>1, MutatorFin
  <2>2. CASE luaC_step \/ luaC_fullgc \/ lua_close
    BY <2>2, CollectFin
  <2>3. CASE UNCHANGED vars
    BY <2>3 DEF vars, FinInv
  <2>4. QED
    BY <2>1, <2>2, <2>3 DEF Next
<1>3. FinInv => FinalizedOnce
  <2> SUFFICES ASSUME FinInv PROVE FinalizedOnce
    OBVIOUS
  <2>1. \A u \in HasGC : called[u] <= 1
    BY ModeAssumption DEF FinInv
  <2>2. QED
    BY <2>1 DEF FinInv, FinalizedOnce
<1>4. GCInv => Alive
  BY AccessibleLive DEF Alive
<1>5. GCInv /\ FinInv /\ Alive' /\ [Next]_vars => [OnlyLost]_vars
  <2> SUFFICES ASSUME GCInv, FinInv, Alive', Next PROVE OnlyLost
    OBVIOUS
  <2>1. NoneDue \/ full' = "close" \/ (g.gcstate = "propagate" /\ full # "close" /\ atomic)
    BY MutatorFin, CollectFin DEF Next
  <2>2. QED
    BY <2>1, AtomicLost DEF NoneDue, OnlyLost
<1>6. QED
  BY <1>1, <1>2, <1>3, <1>4, <1>5, CollectorInvariant, PTL DEF Spec, FinalizersOnce

-----------------------------------------------------------------------------
(* Garbage.                                                                *)

(* While marking, what was garbage when the cycle began is white and       *)
(* nothing else leads to it; then it is dead, and at the end it is gone.   *)
GarbInv ==
  /\ g.gcstate = "propagate" /\ full # "close" => Lonely(g, garbage)
  /\ full = "sweep" => g.gcstate \in {"sweepstring", "sweep", "finalize"}
  /\ g.gcstate \in {"sweepstring", "sweep"} /\ full \in {"no", "mark"} =>
       \A o \in heap \cap garbage : isdead(g, o)
  /\ g.gcstate \in {"finalize", "pause"} /\ full # "sweep" => garbage \cap heap = {}

(* Closure finds all that is reached: each step adds an object or is the   *)
(* last that is needed.                                                    *)
LEMMA ClosureClosed ==
  ASSUME Graph, \A o \in heap : AllKids(o) \subseteq heap, NEW S \in SUBSET heap
  PROVE  /\ Closure(S, TRUE) \subseteq heap /\ S \subseteq Closure(S, TRUE)
         /\ \A o \in Closure(S, TRUE) : Keeps(o) \subseteq Closure(S, TRUE)
<1> DEFINE m == Cardinality(cast)
<1>1. heap \subseteq Obj /\ heap \subseteq cast
  BY CastAssumption DEF Graph
<1>2. CASE S = {}
  BY <1>2 DEF Closure
<1>3. CASE S # {}
  <2>1. S \in SUBSET Obj
    BY <1>1
  <2>2. IsFiniteSet(cast) /\ m \in Nat /\ m # 0 /\ \E c : Chain(S, TRUE, c)
    BY <1>3, <2>1, ClosureChain
  <2>3. PICK c : Chain(S, TRUE, c)
    BY <2>2
  <2>4. \A A \in SUBSET heap : IsFiniteSet(A) /\ Cardinality(A) \in Nat /\ Cardinality(A) <= m
    BY <1>1, <2>2, FS_Subset, FS_CardinalityType
  <2> DEFINE W(A) == WithKids(A, TRUE)
  <2>5. ASSUME NEW A \in SUBSET heap PROVE W(A) \in SUBSET heap /\ A \subseteq W(A)
    <3>1. A \in SUBSET Obj
      BY <1>1
    <3>2. QED
      BY <3>1, KidsOf
  <2>6. \A A \in SUBSET heap : W(A) = A => \A o \in A : Keeps(o) \subseteq A
    BY DEF WithKids, Keeps
  <2> HIDE DEF m, W
  <2>7. Closure(S, TRUE) = c[m] /\ \A n \in 1 .. m : c[n] = IF n = 1 THEN S ELSE W(c[n - 1])
    BY <2>3 DEF Chain, m, W
  <2> DEFINE Good(k) == c[k] \in SUBSET heap /\ S \subseteq c[k] /\ (W(c[k]) = c[k] \/ Cardinality(c[k]) >= k)
             Bad == {k \in 1 .. m : ~Good(k)}
  <2>8. Good(1)
    <3>1. c[1] = S
      BY <2>2, <2>7
    <3>2. Cardinality(S) \in Nat /\ Cardinality(S) # 0
      BY <1>3, <2>4, FS_EmptySet
    <3>3. QED
      BY <3>1, <3>2
  <2>9. ASSUME NEW k \in 1 .. m, k # 1, Good(k - 1) PROVE Good(k)
    <3> DEFINE A == c[k - 1]
               B == c[k]
               i == k - 1
    <3>1. B = W(A) /\ A \in SUBSET heap /\ S \subseteq A /\ (W(A) = A \/ Cardinality(A) >= i)
      BY <2>7, <2>9
    <3>2. k \in Nat /\ i \in Nat /\ k = i + 1
      BY <2>2, <2>9
    <3> HIDE DEF A, B, i
    <3>3. B \in SUBSET heap /\ A \subseteq B
      BY <2>5, <3>1
    <3>4. CASE W(A) = A
      BY <3>1, <3>3, <3>4 DEF B
    <3>5. CASE W(A) # A
      <4>1. PICK x \in B : x \notin A
        BY <3>1, <3>3, <3>5
      <4>2. A \cup {x} \in SUBSET heap /\ A \cup {x} \subseteq B
        BY <3>1, <3>3, <4>1
      <4>3. Cardinality(A \cup {x}) = Cardinality(A) + 1
        BY <2>4, <3>1, <4>1, FS_AddElement
      <4>4. Cardinality(A \cup {x}) <= Cardinality(B)
        BY <2>4, <3>3, <4>2, FS_Subset
      <4> DEFINE ca == Cardinality(A)
                 cb == Cardinality(B)
      <4>5. ca \in Nat /\ cb \in Nat /\ ca >= i /\ ca + 1 <= cb
        BY <2>4, <3>1, <3>3, <3>5, <4>3, <4>4
      <4> HIDE DEF ca, cb
      <4>6. cb >= k
        BY <3>2, <4>5
      <4>7. QED
        BY <3>1, <3>3, <4>6 DEF B, cb
    <3>6. QED
      BY <3>4, <3>5
  <2>10. ASSUME Bad # {} PROVE FALSE
    <3>1. Bad \subseteq Nat
      OBVIOUS
    <3>2. PICK k \in Bad : \A j \in Bad : k <= j
      BY <2>10, <3>1, LeastNumber
    <3>3. k \in 1 .. m /\ ~Good(k)
      OBVIOUS
    <3> HIDE DEF Good
    <3>4. k # 1
      BY <2>8, <3>3
    <3>5. k - 1 \in 1 .. m /\ ~(k <= k - 1)
      BY <2>2, <3>3, <3>4
    <3>6. Good(k - 1)
      BY <3>2, <3>5
    <3>7. QED
      BY <2>9, <3>3, <3>4, <3>6
  <2>11. Good(m)
    <3>1. m \in 1 .. m
      BY <2>2
    <3> HIDE DEF Good
    <3>2. QED
      BY <2>10, <3>1
  <2>12. W(c[m]) = c[m]
    <3>1. CASE Cardinality(c[m]) >= m
      <4> DEFINE A == c[m]
      <4>1. A \in SUBSET heap /\ A \subseteq cast /\ Cardinality(A) \in Nat /\ Cardinality(A) <= m
        BY <1>1, <2>4, <2>11
      <4>2. Cardinality(A) = Cardinality(cast)
        BY <2>2, <3>1, <4>1 DEF m
      <4>3. A = cast
        BY <2>2, <4>1, <4>2, FS_Subset
      <4>4. QED
        BY <1>1, <2>5, <4>1, <4>3
    <3>2. QED
      BY <2>11, <3>1
  <2>13. QED
    BY <2>6, <2>7, <2>11, <2>12
<1>4. QED
  BY <1>2, <1>3

(* A step of the program that takes C out of the garbage: what is left of  *)
(* it keeps its colour, and nothing else comes to lead to it.              *)
Sparing(C, r) ==
  \A o \in heap : o \in garbage /\ o \notin C /\ iswhite(g, o) =>
    IF g.gcstate = "propagate" THEN iswhite(r, o) ELSE r.mark[o] = g.mark[o]
Touch(C) ==
  /\ garbage' = garbage \ C /\ full' = full
  /\ g'.gcstate = g.gcstate /\ g'.currentwhite = g.currentwhite /\ g'.tmudata = g.tmudata
  /\ \A u \in heap' : u \notin g'.finalized => u \notin g.finalized \/ u \in C
  /\ \A o \in heap' : o \in heap \/ o \in C
  /\ Sparing(C, g')
  /\ g.gcstate = "propagate" =>
       /\ \A o \in heap : o \in C => Keeps(o) \subseteq C
       /\ \A o \in heap' : Keeps(o)' \subseteq C \/ (o \in heap /\ Keeps(o)' \subseteq Keeps(o) \cup C)

(* Such a step keeps the invariant. *)
LEMMA Mild ==
  ASSUME GarbInv, Running, NEW C, Touch(C)
  PROVE  GarbInv'
<1>1. full = "no" /\ full' = "no" /\ g'.gcstate = g.gcstate
  BY DEF Running, Touch
<1>2. ASSUME g.gcstate = "propagate" PROVE Lonely(g, garbage)'
  <2>1. Lonely(g, garbage)
    BY <1>1, <1>2 DEF GarbInv
  <2>2. OutOf(garbage)'
    <3> SUFFICES ASSUME NEW o \in heap', o \notin garbage', NEW k \in Keeps(o)', k \in garbage' PROVE FALSE
      BY DEF OutOf
    <3>1. k \in garbage /\ k \notin C
      BY DEF Touch
    <3>2. o \in heap /\ k \in Keeps(o)
      BY <1>2, <3>1 DEF Touch
    <3>3. o \in garbage
      BY <2>1, <3>1, <3>2 DEF Lonely, OutOf
    <3>4. o \in C
      BY <3>3 DEF Touch
    <3>5. QED
      BY <1>2, <3>1, <3>2, <3>4 DEF Touch
  <2>3. AllWhite(g, garbage)'
    BY <1>2, <2>1 DEF Lonely, AllWhite, Touch, Sparing, iswhite
  <2>4. QED
    BY <2>1, <2>2, <2>3 DEF Lonely, Touch
<1>3. ASSUME g.gcstate \in {"sweepstring", "sweep"} PROVE \A o \in (heap \cap garbage)' : isdead(g, o)'
  <2>1. \A o \in heap \cap garbage : isdead(g, o)
    BY <1>1, <1>3 DEF GarbInv
  <2>2. \A o \in heap : isdead(g, o) /\ g.currentwhite \in Whites => iswhite(g, o)
    BY DEF isdead, iswhite, otherwhite, Whites
  <2>3. \A o \in heap : isdead(g, o) => iswhite(g, o)
    BY DEF isdead, iswhite, otherwhite, Whites
  <2>4. \A o \in (heap \cap garbage)' : o \in heap \cap garbage /\ o \notin C
    BY DEF Touch
  <2>5. QED
    BY <1>3, <2>1, <2>3, <2>4 DEF Touch, Sparing, isdead
<1>4. g.gcstate \in {"finalize", "pause"} => (garbage \cap heap)' = {}
  BY <1>1 DEF GarbInv, Touch
<1>5. QED
  BY <1>1, <1>2, <1>3, <1>4 DEF GarbInv

(* What an object keeps, from its fields. *)
LEMMA KeepsFrom ==
  ASSUME NEW o, NEW C
  PROVE  /\ (\A e \in FieldsOf(o)' : e[2] \in C /\ (e[1] \in Obj => e[1] \in C)) => Keeps(o)' \subseteq C
         /\ (\A e \in FieldsOf(o)' : e \in FieldsOf(o) \/ (e[2] \in C /\ (e[1] \in Obj => e[1] \in C))) =>
              Keeps(o)' \subseteq Keeps(o) \cup C
<1>1. \A k : k \in Keeps(o)' <=>
        \E e \in FieldsOf(o)' : \/ k = e[1] /\ k \in Obj /\ ("k" \notin Mode[o] \/ IsA(k, "string"))
                                \/ k = e[2] /\ ("v" \notin Mode[o] \/ IsA(k, "string"))
  BY DEF Keeps, StrongKids, AllKids, Strings, KeysOf, ValuesOf
<1>2. \A k : k \in Keeps(o) <=>
        \E e \in FieldsOf(o) : \/ k = e[1] /\ k \in Obj /\ ("k" \notin Mode[o] \/ IsA(k, "string"))
                               \/ k = e[2] /\ ("v" \notin Mode[o] \/ IsA(k, "string"))
  BY DEF Keeps, StrongKids, AllKids, Strings, KeysOf, ValuesOf
<1>3. QED
  BY <1>1, <1>2

(* What the program holds, and what that leads to, while marking. *)
LEMMA HeldClosed ==
  ASSUME GCInv, g.gcstate = "propagate", NEW S \in SUBSET Live
  PROVE  /\ Closure(S, TRUE) \subseteq heap /\ S \subseteq Closure(S, TRUE)
         /\ \A o \in Closure(S, TRUE) : Keeps(o) \subseteq Closure(S, TRUE)
<1>1. Graph /\ Safe /\ Live = heap
  BY FreshHeap DEF GCInv, Sweeping
<1>2. \A o \in heap : AllKids(o) \subseteq heap
  BY <1>1 DEF Safe
<1>3. QED
  BY <1>1, <1>2, ClosureClosed

(* A store of what the program holds. *)
LEMMA StoreTouch ==
  ASSUME GCInv, GarbInv, Running, NEW S \in SUBSET Live, NEW p \in heap, NEW F, open[p] = None,
         \A e \in F : e \in fields[p] \/ (e[2] \in S /\ (e[1] \in Obj => e[1] \in S)),
         fields' = [fields EXCEPT ![p] = F], UNCHANGED <<heap, open, full>>,
         garbage' = garbage \ Closure(S, TRUE),
         SameLists(g, g'), Sparing(Closure(S, TRUE), g')
  PROVE  GarbInv'
<1> DEFINE C == Closure(S, TRUE)
<1>1. Graph /\ heap \subseteq Obj /\ p \in Obj
  BY FreshHeap DEF GCInv, Running
<1>2. g.gcstate = "propagate" => S \subseteq C /\ \A o \in C : Keeps(o) \subseteq C
  BY HeldClosed
<1> HIDE DEF C
<1>3. \A o \in Obj : fields'[o] = IF o = p THEN F ELSE fields[o]
  BY <1>1 DEF Graph
<1>4. ASSUME NEW o \in heap, NEW e \in FieldsOf(o)'
      PROVE  e \in FieldsOf(o) \/ (e[2] \in S /\ (e[1] \in Obj => e[1] \in S))
  <2>1. CASE open[o] = None
    BY <1>1, <1>3, <1>4, <2>1 DEF FieldsOf, UpFields
  <2>2. CASE open[o] # None
    <3>1. Kind[o] = "upval" /\ open[o][1] \in Obj
      BY <1>1, <2>2 DEF Graph
    <3>2. QED
      BY <1>3, <1>4, <2>2, <3>1 DEF FieldsOf, UpFields, IsA
  <2>3. QED
    BY <2>1, <2>2
<1>5. ASSUME g.gcstate = "propagate", NEW o \in heap PROVE Keeps(o)' \subseteq Keeps(o) \cup C
  <2>1. \A e \in FieldsOf(o)' : e \in FieldsOf(o) \/ (e[2] \in C /\ (e[1] \in Obj => e[1] \in C))
    BY <1>2, <1>4, <1>5
  <2>2. QED
    BY <2>1, KeepsFrom
<1>6. Touch(C)
  BY <1>2, <1>5 DEF Touch, SameLists, C
<1>7. QED
  BY <1>6, Mild

(* No mark is written. *)
LEMMA NoMarks ==
  ASSUME NEW C, NEW r, r = g
  PROVE  SameLists(g, r) /\ Sparing(C, r)
  BY DEF SameLists, Sparing

(* A barrier writes marks only to objects that are not white, and to what  *)
(* the program holds.                                                      *)
LEMMA BackSpares ==
  ASSUME GCInv, NEW t \in Obj, NEW v, NEW C
  PROVE  SameLists(g, luaC_barriert(g, t, v)) /\ Sparing(C, luaC_barriert(g, t, v))
<1> DEFINE r == luaC_barriert(g, t, v)
<1>1. g \in GState
  BY DEF GCInv
<1>2. CASE r = g
  BY <1>2 DEF SameLists, Sparing
<1>3. CASE r # g
  <2>1. g.mark[t] = "black" /\ r = [g EXCEPT !.mark[t] = "gray", !.grayagain = @ \cup {t}]
    BY <1>3 DEF luaC_barriert, luaC_barrierback
  <2> HIDE DEF r
  <2>2. SameLists(g, r)
    BY <1>1, <2>1 DEF SameLists, GState
  <2>3. \A o \in Obj : o # t => r.mark[o] = g.mark[o]
    BY <1>1, <2>1 DEF GState
  <2>4. ~iswhite(g, t)
    BY <2>1 DEF iswhite, Whites
  <2>5. heap \subseteq Obj
    BY CastAssumption DEF GCInv, Graph
  <2>6. Sparing(C, r)
    BY <2>3, <2>4, <2>5 DEF Sparing, iswhite
  <2>7. QED
    BY <2>2, <2>6 DEF r
<1>4. QED
  BY <1>2, <1>3

(* What is left of G without what the program holds. *)
LEMMA OutOfLess ==
  ASSUME NEW G, OutOf(G), NEW C, \A o \in heap : o \in C => Keeps(o) \subseteq C
  PROVE  OutOf(G \ C)
  BY DEF OutOf

(* luaC_barrierf marks what the program holds while marking. *)
LEMMA ForwardSpares ==
  ASSUME GCInv, GarbInv, Running, NEW p \in heap, NEW v \in Live
  PROVE  /\ SameLists(g, luaC_objbarrier(g, p, v))
         /\ Sparing(Closure({v}, TRUE), luaC_objbarrier(g, p, v))
<1> DEFINE r == luaC_objbarrier(g, p, v)
           C == Closure({v}, TRUE)
<1>1. Graph /\ g \in GState /\ heap \subseteq Obj /\ p \in Obj /\ v \in heap /\ v \in Obj
  BY FreshHeap DEF GCInv, Running, Live
<1>2. CASE r = g
  BY <1>2 DEF SameLists, Sparing
<1>3. CASE r # g /\ g.gcstate = "propagate"
  <2>1. r = reallymarkobject(g, {v})
    BY <1>3 DEF luaC_objbarrier, luaC_barrierf
  <2>2. {v} \in SUBSET Live /\ {v} \in SUBSET heap
    BY <1>1
  <2>3. {v} \subseteq C /\ \A o \in C : Keeps(o) \subseteq C
    BY <1>3, <2>2, HeldClosed
  <2> DEFINE G == garbage \ C
  <2>4. Lonely(g, garbage) /\ HeapClosed
    BY <1>3, FreshHeap DEF GarbInv, Running, GCInv, Sweeping
  <2> HIDE DEF C
  <2>5. OutOf(G) /\ AllWhite(g, G) /\ {v} \cap G = {}
    BY <2>3, <2>4, OutOfLess DEF Lonely, AllWhite
  <2> HIDE DEF G, r
  <2>6. AllWhite(r, G)
    BY <1>1, <2>1, <2>2, <2>4, <2>5, MarkSpares
  <2>7. Sparing(C, r)
    BY <1>3, <2>6 DEF Sparing, AllWhite, G
  <2>8. PICK T : Swath(g, {v}, T) /\ r = SetMarks(g, T)
    BY <1>1, <2>1, Marked
  <2>9. T \in SUBSET Obj
    BY <2>8 DEF Swath
  <2>10. SameLists(g, r)
    BY <1>1, <2>8, <2>9, MarksWritten DEF SameLists
  <2>11. QED
    BY <2>7, <2>10 DEF r, C
<1>4. CASE r # g /\ g.gcstate # "propagate"
  <2>1. g.mark[p] = "black" /\ r = makewhite(g, {p})
    BY <1>4 DEF luaC_objbarrier, luaC_barrierf
  <2> HIDE DEF r, C
  <2>2. SameLists(g, r) /\ \A o \in Obj : o # p => r.mark[o] = g.mark[o]
    BY <1>1, <2>1 DEF makewhite, SameLists, GState
  <2>3. ~iswhite(g, p)
    BY <2>1 DEF iswhite, Whites
  <2>4. Sparing(C, r)
    BY <1>1, <1>4, <2>2, <2>3 DEF Sparing, iswhite
  <2>5. QED
    BY <2>2, <2>4 DEF r, C
<1>5. QED
  BY <1>2, <1>3, <1>4

(* Push. *)
LEMMA PushGarb ==
  ASSUME GCInv, GarbInv, Running, NEW th \in Live, Kind[th] = "thread", NEW i \in Slots,
         NEW v \in Live, Push(th, i, v)
  PROVE  GarbInv'
<1> DEFINE F == SetSlot(th, i, v)
           S == {v}
<1>1. Graph /\ th \in heap /\ th \in Obj
  BY FreshHeap DEF GCInv, Running, Live
<1>2. open[th] = None
  BY <1>1, Strict
<1>3. S \in SUBSET Live /\ \A e \in F : e \in fields[th] \/ (e[2] \in S /\ (e[1] \in Obj => e[1] \in S))
  BY NoneAssumption DEF SetSlot
<1>4. /\ fields' = [fields EXCEPT ![th] = F] /\ UNCHANGED <<heap, open, full>>
      /\ garbage' = garbage \ Closure(S, TRUE) /\ g' = g
  BY DEF Push, Hold
<1> HIDE DEF F, S
<1>5. SameLists(g, g') /\ Sparing(Closure(S, TRUE), g')
  BY <1>4, NoMarks
<1>6. QED
  BY <1>1, <1>2, <1>3, <1>4, <1>5, StoreTouch

(* Fields are dropped. *)
LEMMA DropGarb ==
  ASSUME GCInv, GarbInv, Running, NEW p \in heap, open[p] = None, NEW F, F \subseteq fields[p],
         fields' = [fields EXCEPT ![p] = F], UNCHANGED <<heap, open, g, garbage, full>>
  PROVE  GarbInv'
<1> DEFINE S == {}
<1>1. S \in SUBSET Live /\ \A e \in F : e \in fields[p] \/ (e[2] \in S /\ (e[1] \in Obj => e[1] \in S))
  OBVIOUS
<1>2. garbage' = garbage \ Closure(S, TRUE)
  BY DEF Closure
<1> HIDE DEF S
<1>3. SameLists(g, g') /\ Sparing(Closure(S, TRUE), g')
  BY NoMarks
<1>4. QED
  BY <1>1, <1>2, <1>3, StoreTouch

(* Pop and Clear. *)
LEMMA LessGarb ==
  ASSUME GCInv, GarbInv, Running, NEW p \in Live,
         Kind[p] # "upval", Clear(p) \/ \E i \in Slots : Pop(p, i)
  PROVE  GarbInv'
<1>1. Graph /\ p \in heap /\ p \in Obj
  BY FreshHeap DEF GCInv, Running, Live
<1>2. open[p] = None
  BY <1>1, Strict
<1>3. CASE Clear(p)
  <2> DEFINE F == {}
  <2>1. F \subseteq fields[p] /\ fields' = [fields EXCEPT ![p] = F] /\ UNCHANGED <<heap, open, g, garbage, full>>
    BY <1>3 DEF Clear
  <2> HIDE DEF F
  <2>2. QED
    BY <1>1, <1>2, <2>1, DropGarb
<1>4. CASE \E i \in Slots : Pop(p, i)
  <2>1. PICK i \in Slots : Pop(p, i)
    BY <1>4
  <2> DEFINE F == {e \in fields[p] : e[1] # i}
  <2>2. F \subseteq fields[p] /\ fields' = [fields EXCEPT ![p] = F] /\ UNCHANGED <<heap, open, g, garbage, full>>
    BY <2>1 DEF Pop
  <2> HIDE DEF F
  <2>3. QED
    BY <1>1, <1>2, <2>2, DropGarb
<1>5. QED
  BY <1>3, <1>4

(* luaV_settable. *)
LEMMA SetTableGarb ==
  ASSUME GCInv, GarbInv, Running, NEW t \in Live, Kind[t] = "table", NEW v \in Live,
         NEW k, k \in Live \/ k = None, luaV_settable(t, k, v)
  PROVE  GarbInv'
<1> DEFINE F == {<<k, v>>}
           S == {v} \cup ({k} \ {None})
<1>1. Graph /\ heap \subseteq Obj /\ t \in heap /\ t \in Obj
  BY FreshHeap DEF GCInv, Running, Live
<1>2. open[t] = None /\ ColourOK(g, t)
  BY <1>1, Strict DEF GCInv, Coloured
<1>3. S \in SUBSET Live /\ \A e \in F : e \in fields[t] \/ (e[2] \in S /\ (e[1] \in Obj => e[1] \in S))
  BY NoneAssumption
<1>4. /\ fields' = [fields EXCEPT ![t] = F] /\ UNCHANGED <<heap, open, full>>
      /\ garbage' = garbage \ Closure(S, TRUE) /\ (k # None => "k" \in Mode[t])
      /\ g' = luaC_barriert(IF k = None THEN g ELSE luaC_barriert(g, t, k), t, v)
  BY DEF luaV_settable, Hold
<1>5. g' = luaC_barriert(g, t, v)
  <2>1. k # None => g.mark[t] # "black"
    BY <1>2, <1>4 DEF ColourOK
  <2>2. k # None => luaC_barriert(g, t, k) = g
    BY <2>1 DEF luaC_barriert
  <2>3. QED
    BY <1>4, <2>2
<1> HIDE DEF F, S
<1>6. SameLists(g, g') /\ Sparing(Closure(S, TRUE), g')
  BY <1>1, <1>5, BackSpares
<1>7. QED
  BY <1>1, <1>2, <1>3, <1>4, <1>6, StoreTouch

(* lua_setfenv, and OP_SETUPVAL on a closed upvalue. *)
LEMMA SetValueGarb ==
  ASSUME GCInv, GarbInv, Running, NEW p \in heap, open[p] = None, NEW v \in Live,
         fields' = [fields EXCEPT ![p] = {<<None, v>>}], g' = luaC_objbarrier(g, p, v),
         UNCHANGED <<heap, open, full>>, Hold({v})
  PROVE  GarbInv'
<1> DEFINE F == {<<None, v>>}
           S == {v}
<1>1. S \in SUBSET Live /\ \A e \in F : e \in fields[p] \/ (e[2] \in S /\ (e[1] \in Obj => e[1] \in S))
  BY NoneAssumption
<1>2. fields' = [fields EXCEPT ![p] = F] /\ garbage' = garbage \ Closure(S, TRUE)
  BY DEF Hold
<1>3. SameLists(g, g') /\ Sparing(Closure(S, TRUE), g')
  BY ForwardSpares
<1> HIDE DEF F, S
<1>4. QED
  BY <1>1, <1>2, <1>3, StoreTouch

(* OP_SETUPVAL. *)
LEMMA SetUpvalGarb ==
  ASSUME GCInv, GarbInv, Running, NEW c \in Live, Kind[c] = "closure", NEW v \in Live, OP_SETUPVAL(c, v)
  PROVE  GarbInv'
<1>1. Graph /\ Safe /\ heap \subseteq Obj /\ c \in heap /\ c \in Obj
  BY FreshHeap DEF GCInv, Running, Live
<1>2. PICK uv \in ValuesOf(c) :
        /\ fields' = IF open[uv] = None THEN [fields EXCEPT ![uv] = {<<None, v>>}]
                     ELSE [fields EXCEPT ![open[uv][1]] = SetSlot(open[uv][1], open[uv][2], v)]
        /\ g' = luaC_objbarrier(g, uv, v)
  BY DEF OP_SETUPVAL
<1>3. UNCHANGED <<heap, open, full>> /\ Hold({v})
  BY DEF OP_SETUPVAL
<1>4. uv \in heap /\ uv \in Obj
  BY <1>1, Kids DEF Safe, Live
<1>5. CASE open[uv] = None
  BY <1>2, <1>3, <1>4, <1>5, SetValueGarb
<1>6. CASE open[uv] # None
  <2> DEFINE th == open[uv][1]
             i == open[uv][2]
             F == SetSlot(th, i, v)
             S == {v}
  <2>1. th \in heap /\ th \in Obj /\ Kind[th] = "thread" /\ i \in Slots
    BY <1>1, <1>4, <1>6 DEF Graph
  <2>2. g' = g
    <3>1. g.mark[uv] # "black"
      BY <1>4, <1>6 DEF GCInv, Coloured, ColourOK
    <3>2. QED
      BY <1>2, <3>1 DEF luaC_objbarrier
  <2>3. fields' = [fields EXCEPT ![th] = F] /\ garbage' = garbage \ Closure(S, TRUE)
    BY <1>2, <1>3, <1>6 DEF Hold
  <2> HIDE DEF th, i
  <2>4. open[th] = None
    BY <1>1, <2>1, Strict
  <2>5. S \in SUBSET Live /\ \A e \in F : e \in fields[th] \/ (e[2] \in S /\ (e[1] \in Obj => e[1] \in S))
    BY <2>1, NoneAssumption DEF SetSlot
  <2> HIDE DEF F, S
  <2>6. SameLists(g, g') /\ Sparing(Closure(S, TRUE), g')
    BY <2>2, NoMarks
  <2>7. QED
    BY <1>3, <2>1, <2>3, <2>4, <2>5, <2>6, StoreTouch
<1>7. QED
  BY <1>5, <1>6

(* A new object, or a string found in the string table. *)
LEMMA NewGarb ==
  ASSUME GCInv, GarbInv, Running, NEW x \in cast, NEW i \in Slots, Kind[x] \notin {"upval", "closure"},
         x \notin heap \/ Kind[x] = "string",
         heap' = heap \cup {x}, fields' = [fields EXCEPT ![Main] = SetSlot(Main, i, x)],
         UNCHANGED <<open, full>>, garbage' = garbage \ {x},
         g'.gcstate = g.gcstate, g'.currentwhite = g.currentwhite, g'.tmudata = g.tmudata,
         \A o \in Obj : o # x => (o \in g'.finalized <=> o \in g.finalized),
         \A o \in Obj : o # x => g'.mark[o] = g.mark[o]
  PROVE  GarbInv'
<1> DEFINE C == {x}
<1>1. Graph /\ heap \subseteq Obj /\ Main \in heap /\ Main \in Obj
  BY FreshHeap DEF GCInv, Running
<1>2. x \in Obj /\ open[x] = None /\ open[Main] = None /\ x # Main
  BY <1>1, CastAssumption, KindAssumption, Strict DEF Graph
<1>3. \A o \in Obj : fields'[o] = IF o = Main THEN SetSlot(Main, i, x) ELSE fields[o]
  BY <1>1 DEF Graph
<1>4. \A e \in SetSlot(Main, i, x) : e \in fields[Main] \/ (e[2] \in C /\ e[1] \notin Obj)
  BY NoneAssumption DEF SetSlot
<1>5. fields[x] = {}
  BY <1>1, <1>2 DEF Graph, FieldOK
<1>6. ASSUME NEW o \in heap, o \in C PROVE Keeps(o) \subseteq C
  <2>1. AllKids(o) = {} /\ StrongKids(o) = {}
    BY <1>1, <1>2, <1>6, Kids
  <2>2. QED
    BY <2>1 DEF Keeps, Strings
<1>7. ASSUME NEW o \in heap' PROVE Keeps(o)' \subseteq C \/ (o \in heap /\ Keeps(o)' \subseteq Keeps(o) \cup C)
  <2>1. CASE o = x
    <3>1. FieldsOf(o)' = {}
      BY <1>2, <1>3, <1>5, <2>1 DEF FieldsOf, UpFields
    <3>2. QED
      BY <3>1, KeepsFrom
  <2>2. CASE o # x
    <3>1. o \in heap /\ o \in Obj
      BY <1>1, <2>2
    <3>2. ASSUME NEW e \in FieldsOf(o)'
          PROVE  e \in FieldsOf(o) \/ (e[2] \in C /\ (e[1] \in Obj => e[1] \in C))
      <4>1. CASE open[o] = None
        BY <1>3, <1>4, <3>1, <3>2, <4>1 DEF FieldsOf, UpFields
      <4>2. CASE open[o] # None
        <5>1. Kind[o] = "upval" /\ open[o][1] \in Obj
          BY <1>1, <3>1, <4>2 DEF Graph
        <5>2. QED
          BY <1>3, <1>4, <3>2, <4>2, <5>1 DEF FieldsOf, UpFields, IsA
      <4>3. QED
        BY <4>1, <4>2
    <3> HIDE DEF C
    <3>3. QED
      BY <3>1, <3>2, KeepsFrom
  <2>3. QED
    BY <2>1, <2>2
<1>8. Sparing(C, g')
  BY <1>1 DEF Sparing, iswhite
<1>9. \A u \in heap' : u \notin g'.finalized => u \notin g.finalized \/ u \in C
  BY <1>1
<1>10. Touch(C)
  BY <1>6, <1>7, <1>8, <1>9 DEF Touch
<1> HIDE DEF C
<1>11. QED
  BY <1>10, Mild

(* luaC_link. *)
LEMMA LinkGarb ==
  ASSUME GCInv, GarbInv, Running, NEW x \in cast, NEW i \in Slots, luaC_link(x, i)
  PROVE  GarbInv'
<1>1. /\ x \notin heap /\ Kind[x] \notin {"upval", "closure"} /\ heap' = heap \cup {x}
      /\ g' = makewhite([g EXCEPT !.finalized = @ \ {x}], {x}) /\ garbage' = garbage \ {x}
      /\ fields' = [fields EXCEPT ![Main] = SetSlot(Main, i, x)] /\ UNCHANGED <<open, full>>
  BY DEF luaC_link
<1> DEFINE s == [g EXCEPT !.finalized = @ \ {x}]
<1>2. /\ s \in GState /\ s.gcstate = g.gcstate /\ s.currentwhite = g.currentwhite
      /\ s.tmudata = g.tmudata /\ s.finalized = g.finalized \ {x} /\ s.mark = g.mark
  BY DEF GCInv, GState
<1>3. g' = makewhite(s, {x})
  BY <1>1
<1> HIDE DEF s
<1>4. /\ g'.gcstate = g.gcstate /\ g'.currentwhite = g.currentwhite
      /\ g'.tmudata = g.tmudata /\ g'.finalized = g.finalized \ {x}
      /\ \A o \in Obj : o # x => g'.mark[o] = g.mark[o]
  BY <1>2, <1>3 DEF makewhite, GState
<1>5. \A o \in Obj : o # x => (o \in g'.finalized <=> o \in g.finalized)
  BY <1>4
<1>6. QED
  BY <1>1, <1>4, <1>5, NewGarb

(* luaS_newlstr. *)
LEMMA InternGarb ==
  ASSUME GCInv, GarbInv, Running, NEW x \in cast, Kind[x] = "string", NEW i \in Slots, luaS_newlstr(x, i)
  PROVE  GarbInv'
<1>1. /\ heap' = heap \cup {x} /\ g' = Intern(g, x) /\ garbage' = garbage \ {x}
      /\ fields' = [fields EXCEPT ![Main] = SetSlot(Main, i, x)] /\ UNCHANGED <<open, full>>
  BY DEF luaS_newlstr
<1>2. g \in GState
  BY DEF GCInv
<1>3. /\ g'.gcstate = g.gcstate /\ g'.currentwhite = g.currentwhite
      /\ g'.tmudata = g.tmudata /\ g'.finalized = g.finalized
      /\ \A o \in Obj : o # x => g'.mark[o] = g.mark[o]
  <2>1. CASE g' = g
    BY <2>1
  <2>2. CASE g' = makewhite(g, {x})
    BY <1>2, <2>2 DEF makewhite, GState
  <2>3. QED
    BY <1>1, <2>1, <2>2 DEF Intern
<1>4. QED
  BY <1>1, <1>3, NewGarb

(* OP_CLOSURE: the closure, the upvalue and what the slot holds. *)
LEMMA ClosureGarb ==
  ASSUME GCInv, GarbInv, Running, NEW c \in cast, Kind[c] = "closure", NEW uv \in cast, Kind[uv] = "upval",
         NEW th \in Live, Kind[th] = "thread", NEW i \in Slots, NEW dst \in Slots,
         OP_CLOSURE(c, th, i, uv, dst)
  PROVE  GarbInv'
<1> DEFINE E == {x \in fields[th] : x[1] = i}
           V == {e[2] : e \in E}
           K == Closure(V, TRUE)
           C == {c, uv} \cup K
           F == SetSlot(Main, dst, c)
<1>1. /\ Graph /\ g \in GState /\ Safe /\ heap \subseteq Obj /\ Main \in heap /\ Main \in Obj
      /\ th \in heap /\ th \in Obj
  BY FreshHeap DEF GCInv, Running, Live
<1>2. c \in Obj /\ uv \in Obj /\ c # uv /\ c # Main /\ uv # Main /\ c # th /\ uv # th
  BY <1>1, CastAssumption, KindAssumption DEF Graph
<1>3. /\ c \notin heap /\ heap' = heap \cup {c, uv}
      /\ open' = [open EXCEPT ![uv] = <<th, i>>]
      /\ fields' = [fields EXCEPT ![c] = {<<None, uv>>}, ![Main] = F]
      /\ full' = full /\ garbage' = garbage \ C
      /\ luaF_findupval(makewhite(g, {c}), th, i, uv)
  BY DEF OP_CLOSURE
<1>4. \A e \in E : e[2] \in V /\ e[1] = i
  OBVIOUS
<1>5. V \in SUBSET Live
  <2>1. FieldsOf(th) = fields[th]
    BY DEF FieldsOf, IsA
  <2>2. V \subseteq AllKids(th)
    BY <2>1 DEF AllKids, ValuesOf
  <2>3. QED
    BY <1>1, <2>2 DEF Safe
<1>6. g.gcstate = "propagate" => V \subseteq K /\ \A o \in K : Keeps(o) \subseteq K
  <2> HIDE DEF V
  <2>1. QED
    BY <1>5, HeldClosed
<1>7. \A e \in F : e \in fields[Main] \/ e = <<dst, c>>
  BY DEF SetSlot
<1>8. \A e \in fields[th] : e[1] = i => e \in E
  OBVIOUS
<1> HIDE DEF E, V, K, F
<1>9. \A o \in Obj : fields'[o] = IF o = Main THEN F ELSE IF o = c THEN {<<None, uv>>} ELSE fields[o]
  BY <1>1, <1>2, <1>3 DEF Graph
<1>10. \A o \in Obj : open'[o] = IF o = uv THEN <<th, i>> ELSE open[o]
  BY <1>1, <1>2, <1>3 DEF Graph
<1>11. /\ g'.gcstate = g.gcstate /\ g'.currentwhite = g.currentwhite
       /\ g'.tmudata = g.tmudata /\ g'.finalized = g.finalized
       /\ \A o \in Obj : o # c /\ o # uv => g'.mark[o] = g.mark[o]
  <2> DEFINE a == makewhite(g, {c})
  <2>1. /\ a \in GState /\ SameLists(g, a)
        /\ a.mark = [o \in Obj |-> IF o \in {c} THEN g.currentwhite ELSE g.mark[o]]
    BY <1>1 DEF makewhite, GState, Colours, SameLists
  <2>2. luaF_findupval(a, th, i, uv)
    BY <1>3
  <2> HIDE DEF a
  <2>3. CASE g' = a
    BY <2>1, <2>3 DEF SameLists
  <2>4. CASE g' = makewhite(a, {uv})
    <3>1. SameLists(a, g') /\ g'.mark = [o \in Obj |-> IF o \in {uv} THEN a.currentwhite ELSE a.mark[o]]
      BY <2>1, <2>4 DEF makewhite, GState, Colours, SameLists
    <3>2. QED
      BY <2>1, <3>1 DEF SameLists
  <2>5. QED
    BY <2>2, <2>3, <2>4 DEF luaF_findupval, Resurrect
<1>12. Sparing(C, g')
  BY <1>1, <1>11 DEF Sparing, iswhite
<1>13. i \notin Obj /\ dst \notin Obj /\ None \notin Obj /\ <<th, i>> # None
  BY <1>1, NoneAssumption
<1>14. ASSUME g.gcstate = "propagate", NEW o \in heap, o \in C PROVE Keeps(o) \subseteq C
  <2>1. CASE o \in K
    BY <1>6, <1>14, <2>1
  <2>2. CASE o = uv
    <3>1. open[uv] = <<th, i>>
      BY <1>3, <1>14, <2>2 DEF luaF_findupval
    <3>2. FieldsOf(uv) = E
      BY <1>13, <3>1 DEF FieldsOf, UpFields, IsA, E
    <3>3. \A e \in FieldsOf(uv) : e[2] \in C /\ e[1] \notin Obj
      BY <1>4, <1>6, <1>13, <1>14, <3>2
    <3>4. AllKids(uv) \subseteq C /\ StrongKids(uv) \subseteq AllKids(uv)
      BY <3>3 DEF AllKids, StrongKids, KeysOf, ValuesOf
    <3>5. QED
      BY <2>2, <3>4 DEF Keeps, Strings
  <2>3. QED
    BY <1>3, <1>14, <2>1, <2>2
<1>15. ASSUME g.gcstate = "propagate", NEW o \in heap'
       PROVE  Keeps(o)' \subseteq C \/ (o \in heap /\ Keeps(o)' \subseteq Keeps(o) \cup C)
  <2>1. CASE o = c
    <3>1. FieldsOf(o)' = {<<None, uv>>}
      BY <1>2, <1>9, <2>1 DEF FieldsOf, IsA
    <3>2. \A e \in FieldsOf(o)' : e[2] \in C /\ (e[1] \in Obj => e[1] \in C)
      BY <1>13, <3>1
    <3> HIDE DEF C
    <3>3. QED
      BY <3>2, KeepsFrom
  <2>2. CASE o = uv
    <3>1. open'[uv] = <<th, i>> /\ open'[uv] # None
      BY <1>2, <1>10, <1>13
    <3>2. FieldsOf(o)' = {e \in fields'[th] : e[1] = i}
      BY <2>2, <3>1 DEF FieldsOf, UpFields, IsA
    <3>3. ASSUME NEW e \in FieldsOf(o)' PROVE e[2] \in C /\ e[1] \notin Obj
      <4>1. e \in fields[th] \/ e = <<dst, c>>
        BY <1>1, <1>2, <1>7, <1>9, <3>2, <3>3
      <4>2. e[1] = i
        BY <3>2, <3>3
      <4>3. QED
        BY <1>4, <1>6, <1>8, <1>13, <1>15, <4>1, <4>2
    <3> HIDE DEF C
    <3>4. QED
      BY <3>3, KeepsFrom
  <2>3. CASE o # c /\ o # uv
    <3>1. o \in heap /\ o \in Obj
      BY <1>1, <1>3, <2>3
    <3>2. open'[o] = open[o]
      BY <1>10, <2>3, <3>1
    <3>3. ASSUME NEW e \in FieldsOf(o)'
          PROVE  e \in FieldsOf(o) \/ (e[2] \in C /\ (e[1] \in Obj => e[1] \in C))
      <4>1. CASE open[o] = None
        BY <1>7, <1>9, <1>13, <2>3, <3>1, <3>2, <3>3, <4>1 DEF FieldsOf, UpFields
      <4>2. CASE open[o] # None
        <5>1. Kind[o] = "upval" /\ open[o][1] \in Obj /\ open[o][1] # c
          BY <1>1, <1>2, <3>1, <4>2 DEF Graph
        <5>2. e \in fields'[open[o][1]] /\ e[1] = open[o][2]
          BY <3>2, <3>3, <4>2, <5>1 DEF FieldsOf, UpFields, IsA
        <5>3. e \in fields[open[o][1]] \/ e = <<dst, c>>
          BY <1>7, <1>9, <5>1, <5>2
        <5>4. QED
          BY <1>13, <4>2, <5>1, <5>2, <5>3 DEF FieldsOf, UpFields, IsA
      <4>3. QED
        BY <4>1, <4>2
    <3> HIDE DEF C
    <3>4. QED
      BY <3>1, <3>3, KeepsFrom
  <2>4. QED
    BY <2>1, <2>2, <2>3
<1>16. Touch(C)
  BY <1>3, <1>11, <1>12, <1>14, <1>15 DEF Touch
<1> HIDE DEF C
<1>17. QED
  BY <1>16, Mild

(* luaF_close: the values of gray upvalues are marked. *)
LEMMA CloseGarb ==
  ASSUME GCInv, GarbInv, Running, NEW th \in Live, Kind[th] = "thread", luaF_close(th)
  PROVE  GarbInv'
<1> DEFINE uvs == UpvalsOf({th})
           dead == {uv \in uvs : isdead(g, uv)}
           Q == {uv \in uvs \ dead : g.mark[uv] = "gray"}
           vals == UNION {ValuesOf(uv) : uv \in Q}
           b == [g EXCEPT !.mark = [o \in Obj |-> IF o \in Q THEN "black" ELSE @[o]]]
<1>1. Graph /\ g \in GState /\ heap \subseteq Obj /\ th \in heap /\ th \in Obj
  BY FreshHeap DEF GCInv, Running, Live
<1>2. /\ heap' = heap \ dead
      /\ open' = [x \in Obj |-> IF x \in uvs THEN None ELSE open[x]]
      /\ fields' = [x \in Obj |-> IF x \in dead THEN {}
                                  ELSE IF x \in uvs THEN {<<None, e[2]>> : e \in UpFields(x)}
                                  ELSE fields[x]]
      /\ g' = luaC_linkupval(g, uvs \ dead) /\ full' = full /\ garbage' = garbage
  BY DEF luaF_close
<1>3. uvs \subseteq heap /\ \A uv \in uvs : uv \in Obj /\ open[uv] # None /\ Kind[uv] = "upval"
  BY <1>1 DEF UpvalsOf, Graph
<1>4. g' = IF g.gcstate = "propagate" THEN reallymarkobject(b, vals) ELSE makewhite(g, Q)
  BY <1>2 DEF luaC_linkupval
<1>5. dead \subseteq uvs /\ Q \subseteq uvs /\ \A x \in Q : x \in heap /\ g.mark[x] = "gray" /\ ~iswhite(g, x)
  BY <1>3 DEF iswhite, Whites
<1>6. \A v \in vals : \E x \in Q : v \in ValuesOf(x)
  OBVIOUS
<1> HIDE DEF uvs, dead, Q, vals
<1>7. ASSUME NEW o \in heap' PROVE Keeps(o)' = Keeps(o)
  <2>1. o \in heap /\ o \in Obj /\ o \notin dead
    BY <1>1, <1>2
  <2>2. ValuesOf(o)' = ValuesOf(o) /\ KeysOf(o)' = KeysOf(o)
    <3>1. CASE o \in uvs
      <4>1. /\ Kind[o] = "upval" /\ open[o] # None /\ open'[o] = None
            /\ fields'[o] = {<<None, e[2]>> : e \in UpFields(o)}
        BY <1>2, <1>3, <2>1, <3>1
      <4>2. QED
        BY <1>1, <2>1, <4>1, ClosedValue
    <3>2. CASE o \notin uvs
      <4>1. open'[o] = open[o] /\ fields'[o] = fields[o]
        BY <1>2, <1>5, <2>1, <3>2
      <4>2. Kind[o] = "upval" /\ open[o] # None => fields'[open[o][1]] = fields[open[o][1]]
        <5> SUFFICES ASSUME Kind[o] = "upval", open[o] # None PROVE fields'[open[o][1]] = fields[open[o][1]]
          OBVIOUS
        <5>1. open[o][1] \in Obj /\ Kind[open[o][1]] = "thread"
          BY <1>1, <2>1 DEF Graph
        <5>2. QED
          BY <1>2, <1>3, <1>5, <5>1
      <4>3. FieldsOf(o)' = FieldsOf(o)
        BY <4>1, <4>2 DEF FieldsOf, UpFields, IsA
      <4>4. QED
        BY <4>3 DEF ValuesOf, KeysOf
    <3>3. QED
      BY <3>1, <3>2
  <2>3. QED
    BY <2>2 DEF Keeps, StrongKids, AllKids
<1> DEFINE C == {}
<1>8. SameLists(g, g') /\ Sparing(C, g')
  <2>1. CASE g.gcstate # "propagate"
    <3>1. g' = makewhite(g, Q)
      BY <1>4, <2>1
    <3>2. SameLists(g, g') /\ \A o \in Obj : o \notin Q => g'.mark[o] = g.mark[o]
      BY <1>1, <3>1 DEF makewhite, SameLists, GState
    <3>3. QED
      BY <1>1, <1>5, <2>1, <3>2 DEF Sparing
  <2>2. CASE g.gcstate = "propagate"
    <3>1. g' = reallymarkobject(b, vals)
      BY <1>4, <2>2
    <3>2. b \in GState /\ SameLists(g, b) /\ \A o \in Obj : o \notin Q => b.mark[o] = g.mark[o]
      <4>1. [o \in Obj |-> IF o \in Q THEN "black" ELSE g.mark[o]] \in [Obj -> Colours]
        BY <1>1 DEF GState, Colours
      <4>2. QED
        BY <1>1, <4>1 DEF GState, SameLists
    <3> HIDE DEF b
    <3>3. Lonely(g, garbage) /\ HeapClosed
      BY <2>2, FreshHeap DEF GarbInv, Running, GCInv, Sweeping
    <3>4. \A x \in Q : x \notin garbage
      BY <1>5, <3>3 DEF Lonely, AllWhite
    <3>5. AllWhite(b, garbage)
      BY <1>1, <3>2, <3>3, <3>4 DEF Lonely, AllWhite, iswhite
    <3>6. vals \in SUBSET heap /\ vals \cap garbage = {}
      <4>1. ASSUME NEW x \in Q PROVE ValuesOf(x) \subseteq heap /\ ValuesOf(x) \cap garbage = {}
        <5>1. x \in heap /\ x \in Obj /\ Kind[x] = "upval" /\ x \notin garbage
          BY <1>3, <1>5, <3>4
        <5>2. ValuesOf(x) = StrongKids(x)
          BY <1>1, <5>1, Strict, Kids
        <5>3. QED
          BY <3>3, <5>1, <5>2 DEF HeapClosed, Lonely, OutOf, Keeps
      <4>2. QED
        BY <1>6, <4>1
    <3>7. AllWhite(g', garbage)
      BY <1>1, <3>1, <3>2, <3>3, <3>5, <3>6, MarkSpares DEF Lonely
    <3>8. vals \in SUBSET Obj
      BY <1>1, <3>6
    <3>9. PICK T : Swath(b, vals, T) /\ g' = SetMarks(b, T)
      BY <1>1, <3>1, <3>2, <3>8, Marked
    <3>10. T \in SUBSET Obj
      BY <3>9 DEF Swath
    <3>11. SameLists(b, g')
      BY <1>1, <3>2, <3>9, <3>10, MarksWritten DEF SameLists
    <3>12. QED
      BY <2>2, <3>2, <3>7, <3>11 DEF SameLists, Sparing, AllWhite
  <2>3. QED
    BY <2>1, <2>2
<1>9. Touch(C)
  BY <1>2, <1>7, <1>8 DEF Touch, SameLists
<1> HIDE DEF C
<1>10. QED
  BY <1>9, Mild

(* Every operation of the program keeps the invariant. *)
LEMMA MutatorGarb ==
  ASSUME GCInv, GarbInv, Mutator
  PROVE  GarbInv'
<1>1. Running
  BY DEF Mutator
<1> DEFINE S == Accessible
<1>2. Operate(S)
  BY DEF Mutator
<1>3. S \subseteq Live
  BY <1>1, AccessibleLive DEF Running
<1> HIDE DEF S
<1>4. \A k : \A o \in Held(S, k) : o \in Live /\ Kind[o] = k
  BY <1>3 DEF Held, IsA
<1>5. \A o \in S \ Held(S, "upval") : o \in Live
  BY <1>3
<1>6. \A k : \A o \in Held(cast, k) : o \in cast /\ Kind[o] = k
  BY DEF Held, IsA
<1>7. CASE \E o \in cast, i \in Slots : luaC_link(o, i)
  BY <1>1, <1>7, LinkGarb
<1>8. CASE \E s \in Held(cast, "string"), i \in Slots : luaS_newlstr(s, i)
  BY <1>1, <1>6, <1>8, InternGarb
<1>9. CASE \E th \in Held(S, "thread") : luaF_close(th) \/ \E i \in Slots : Pop(th, i)
  <2>1. PICK th \in Held(S, "thread") : luaF_close(th) \/ \E i \in Slots : Pop(th, i)
    BY <1>9
  <2>2. th \in Live /\ Kind[th] = "thread"
    BY <1>4
  <2>3. CASE luaF_close(th)
    BY <1>1, <2>2, <2>3, CloseGarb
  <2>4. CASE \E i \in Slots : Pop(th, i)
    BY <1>1, <2>2, <2>4, LessGarb
  <2>5. QED
    BY <2>1, <2>3, <2>4
<1>10. CASE \E th \in Held(S, "thread"), i \in Slots, v \in S \ Held(S, "upval") : Push(th, i, v)
  BY <1>1, <1>4, <1>5, <1>10, PushGarb
<1>11. CASE \E c \in Held(cast, "closure"), uv \in Held(cast, "upval"), th \in Held(S, "thread"),
               i, dst \in Slots : OP_CLOSURE(c, th, i, uv, dst)
  BY <1>1, <1>4, <1>6, <1>11, ClosureGarb
<1>12. CASE \E t \in Held(S, "table") : Clear(t)
  BY <1>1, <1>4, <1>12, LessGarb
<1>13. CASE \E t \in Held(S, "table"), v \in S \ Held(S, "upval"), k \in (S \ Held(S, "upval")) \cup {None} :
               luaV_settable(t, k, v)
  BY <1>1, <1>4, <1>5, <1>13, SetTableGarb
<1>14. CASE \E u \in Held(S, "udata"), t \in Held(S, "table") : lua_setfenv(u, t)
  <2>1. PICK u \in Held(S, "udata"), t \in Held(S, "table") : lua_setfenv(u, t)
    BY <1>14
  <2>2. u \in Live /\ t \in Live /\ Kind[u] = "udata"
    BY <1>4
  <2>3. u \in heap /\ u \in Obj /\ Graph
    BY <1>1, <2>2, FreshHeap DEF GCInv, Running, Live
  <2>4. open[u] = None
    BY <2>2, <2>3, Strict
  <2>5. /\ fields' = [fields EXCEPT ![u] = {<<None, t>>}] /\ g' = luaC_objbarrier(g, u, t)
        /\ UNCHANGED <<heap, open, full>> /\ Hold({t})
    BY <2>1 DEF lua_setfenv
  <2>6. QED
    BY <1>1, <2>2, <2>3, <2>4, <2>5, SetValueGarb
<1>15. CASE \E c \in Held(S, "closure"), v \in S \ Held(S, "upval") : OP_SETUPVAL(c, v)
  BY <1>1, <1>4, <1>5, <1>15, SetUpvalGarb
<1>16. QED
  BY <1>2, <1>7, <1>8, <1>9, <1>10, <1>11, <1>12, <1>13, <1>14, <1>15 DEF Operate

(* The cycle begins: what is not reached, and is not a userdata that its   *)
(* finalizer may revive, is garbage.                                       *)
LEMMA MarkRootGarb ==
  ASSUME GCInv, g.gcstate \in {"pause", "finalize"}, MarkRoot, full' \in {"no", "mark"}
  PROVE  GarbInv'
<1> DEFINE a == [g EXCEPT !.gray = {}, !.grayagain = {}, !.weak = {}, !.gcstate = "propagate"]
           r == reallymarkobject(a, {Main})
           U == {u \in heap : u \in HasGC \ g.finalized}
           K == Closure(Reachable \cup U, TRUE)
           G == heap \ K
<1>1. Graph /\ g \in GState /\ Safe /\ Fresh(g) /\ HeapClosed /\ Live = heap
  BY FreshHeap DEF GCInv, Sweeping
<1>2. heap \subseteq Obj /\ Main \in heap /\ Main \in Obj
  BY FreshHeap
<1>3. g' = r /\ garbage' = G /\ UNCHANGED <<heap, fields, open>>
  BY DEF MarkRoot, markroot
<1>4. \A o \in heap : AllKids(o) \subseteq heap
  BY <1>1 DEF Safe
<1>5. {Main} \cup g.tmudata \in SUBSET heap
  BY <1>1, <1>2 DEF GCInv, Finalizing
<1>6. Reachable \subseteq heap /\ {Main} \cup g.tmudata \subseteq Reachable
  BY <1>1, <1>4, <1>5, ClosureClosed DEF Reachable
<1>7. /\ Reachable \cup U \subseteq K
      /\ \A o \in K : Keeps(o) \subseteq K
  <2>1. Reachable \cup U \in SUBSET heap
    BY <1>6
  <2> DEFINE S == Reachable \cup U
  <2> HIDE DEF S
  <2>2. S \in SUBSET heap /\ K = Closure(S, TRUE)
    BY <2>1 DEF S
  <2>3. QED
    BY <1>1, <1>4, <2>2, ClosureClosed DEF S
<1>8. \A u \in heap \cap HasGC : u \notin g.finalized => u \in K
  BY <1>7
<1> HIDE DEF U, K
<1>9. OutOf(G) /\ Main \notin G /\ g.tmudata \cap G = {}
  BY <1>6, <1>7 DEF OutOf
<1>10. a \in GState /\ a.mark = g.mark /\ a.gcstate = "propagate" /\ SameDue(g, a)
  BY <1>1 DEF GState, Phases, SameDue
<1> HIDE DEF a
<1>11. AllWhite(a, G)
  <2>1. g.sweepstrgc = {} /\ g.sweepgc = {}
    BY DEF GCInv, Sweeping
  <2>2. \A o \in heap : g.mark[o] = g.currentwhite \/ o \in g.tmudata
    BY <2>1 DEF GCInv, Sweeping, Unswept
  <2>3. QED
    BY <1>1, <1>9, <1>10, <2>2 DEF AllWhite, iswhite, GState
<1> HIDE DEF G
<1>12. {Main} \in SUBSET heap /\ {Main} \cap G = {}
  BY <1>2, <1>9
<1>13. AllWhite(r, G)
  BY <1>1, <1>9, <1>10, <1>11, <1>12, MarkSpares
<1>14. r.gcstate = "propagate" /\ SameDue(g, r)
  <2>1. {Main} \in SUBSET Obj
    BY <1>2
  <2>2. PICK T : Swath(a, {Main}, T) /\ r = SetMarks(a, T)
    BY <1>1, <1>10, <2>1, Marked
  <2>3. T \in SUBSET Obj
    BY <2>2 DEF Swath
  <2>4. QED
    BY <1>1, <1>10, <2>2, <2>3, MarksWritten DEF SameDue
<1> HIDE DEF r
<1>15. \A o : Keeps(o)' = Keeps(o)
  BY <1>3 DEF Keeps, AllKids, StrongKids, KeysOf, ValuesOf, FieldsOf, UpFields
<1>16. OutOf(garbage)' /\ AllWhite(g, garbage)'
  BY <1>3, <1>9, <1>13, <1>15 DEF OutOf, AllWhite, iswhite
<1>17. \A u \in heap \cap HasGC : u \notin g.finalized => u \notin G
  BY <1>8 DEF G
<1>18. Lonely(g, garbage)'
  BY <1>3, <1>9, <1>14, <1>16, <1>17 DEF Lonely, SameDue
<1>19. QED
  BY <1>3, <1>14, <1>18 DEF GarbInv

(* One object is traversed. *)
LEMMA PropagateGarb ==
  ASSUME GCInv, GarbInv, g.gcstate = "propagate", full # "close", NEW o \in g.gray, g' = propagatemark(g, o),
         UNCHANGED <<heap, fields, open, garbage, full>>
  PROVE  GarbInv'
<1>1. Graph /\ Fresh(g) /\ HeapClosed /\ Steady(g, Again(g)) /\ Lonely(g, garbage) /\ full # "sweep"
  BY FreshHeap DEF GCInv, Sweeping, Marking, Steady, GarbInv
<1>2. AllWhite(g', garbage)
  BY <1>1, PropagateSpares DEF Lonely
<1>3. Grows(g, g')
  BY <1>1, PropagateKeeps
<1>4. \A x : Keeps(x)' = Keeps(x)
  BY DEF Keeps, AllKids, StrongKids, KeysOf, ValuesOf, FieldsOf, UpFields
<1>5. Lonely(g, garbage)'
  BY <1>1, <1>2, <1>3, <1>4 DEF Lonely, OutOf, AllWhite, iswhite, Grows
<1>6. QED
  BY <1>1, <1>3, <1>5 DEF GarbInv, Grows

(* The atomic step: what is garbage is dead. *)
LEMMA AtomicGarb ==
  ASSUME GCInv, GarbInv, g.gcstate = "propagate", full # "close", atomic, UNCHANGED <<garbage, full>>
  PROVE  GarbInv'
<1> DEFINE m == MarkAll(g)
           Z == StringsInWeak(m)
<1>1. /\ heap' = heap /\ AllMarked(g, m)
      /\ \A o \in heap : o \notin Z /\ iswhite(m, o) => isdead(g', o)
  BY AtomicDue
<1>2. g'.gcstate = "sweepstring"
  <2> DEFINE s == [SetMarks(m, StringsInWeak(m)) EXCEPT !.currentwhite = otherwhite(@)]
  <2>1. g' = SweepLists(s)
    BY DEF atomic
  <2> HIDE DEF s
  <2>2. QED
    BY <2>1 DEF SweepLists
<1> HIDE DEF m
<1>3. Lonely(g, garbage) /\ full # "sweep"
  BY DEF GarbInv
<1>4. AllWhite(m, garbage) /\ Listed(m)
  BY <1>1, <1>3 DEF AllMarked, Steady
<1>5. ASSUME NEW o \in heap, o \in garbage PROVE o \notin Z
  <2> SUFFICES ASSUME o \in Z PROVE FALSE
    OBVIOUS
  <2>1. PICK t \in m.weak : o \in Strings(AllKids(t))
    BY DEF StringsInWeak, Strings
  <2>2. t \in heap /\ m.mark[t] = "gray"
    BY <1>4, <2>1 DEF Listed, Lists
  <2>3. t \notin garbage
    BY <1>4, <2>2 DEF AllWhite, iswhite, Whites
  <2>4. QED
    BY <1>3, <1>5, <2>1, <2>2, <2>3 DEF Lonely, OutOf, Keeps
<1> HIDE DEF Z
<1>6. \A o \in heap \cap garbage : isdead(g', o)
  BY <1>1, <1>4, <1>5 DEF AllWhite
<1>7. QED
  BY <1>1, <1>2, <1>3, <1>6 DEF GarbInv, isdead

(* One object is swept: what of the garbage remains is dead still. *)
LEMMA SweepGarb ==
  ASSUME GCInv, GarbInv, g.gcstate \in {"sweepstring", "sweep"}, full \in {"no", "sweep", "mark"},
         NEW o \in Obj, sweeplist(o, g), UNCHANGED <<garbage, full>>
  PROVE  GarbInv'
<1> DEFINE W == {o} \cup UpvalsOf({o})
           dead == {x \in W : isdead(g, x)}
           s == [g EXCEPT !.sweepgc = @ \ {o}, !.sweepstrgc = @ \ {o}]
<1>1. heap' = heap \ dead /\ g' = makewhite(s, W)
  BY DEF sweeplist
<1>2. s \in GState /\ s.gcstate = g.gcstate /\ s.currentwhite = g.currentwhite /\ s.mark = g.mark
  BY DEF GCInv, GState
<1>3. \A x \in W : isdead(g, x) => x \in dead
  OBVIOUS
<1> HIDE DEF W, dead, s
<1>4. /\ g'.gcstate = g.gcstate /\ g'.currentwhite = g.currentwhite
      /\ \A x \in Obj : x \notin W => g'.mark[x] = g.mark[x]
  BY <1>1, <1>2 DEF makewhite, GState
<1>5. heap \subseteq Obj
  BY FreshHeap
<1>6. full # "sweep" => \A x \in (heap \cap garbage)' : isdead(g, x)'
  BY <1>1, <1>3, <1>4, <1>5 DEF GarbInv, isdead
<1>7. QED
  BY <1>4, <1>6 DEF GarbInv

(* The phases after the atomic step: at the end of the sweep nothing is    *)
(* dead.                                                                   *)
LEMMA PhaseGarb ==
  ASSUME GCInv, GarbInv, full \in {"no", "sweep", "mark"}, NEW ph,
         \/ g.gcstate = "sweepstring" /\ ph = "sweep"
         \/ g.gcstate = "sweep" /\ g.sweepgc = {} /\ ph = "finalize"
         \/ g.gcstate = "finalize" /\ full # "sweep" /\ ph = "pause",
         g' = [g EXCEPT !.gcstate = ph], UNCHANGED <<heap, garbage, full>>
  PROVE  GarbInv'
<1>1. g'.gcstate = ph /\ g'.mark = g.mark /\ g'.currentwhite = g.currentwhite
  BY DEF GCInv, GState
<1>2. CASE ph = "sweep"
  BY <1>1, <1>2 DEF GarbInv, isdead
<1>3. CASE ph = "finalize"
  <2>1. g.gcstate = "sweep" /\ g.sweepgc = {} /\ g.sweepstrgc = {} /\ heap \subseteq Obj
    BY <1>3, FreshHeap DEF GCInv, Sweeping
  <2>2. \A x \in heap : g.mark[x] = g.currentwhite \/ x \in g.tmudata
    BY <2>1 DEF GCInv, Sweeping, Unswept
  <2>3. \A x \in heap : ~isdead(g, x)
    BY <2>2 DEF GCInv, Finalizing, Live, isdead, otherwhite, GState, Whites
  <2>4. QED
    BY <1>1, <1>3, <2>1, <2>3 DEF GarbInv
<1>4. CASE ph = "pause"
  BY <1>1, <1>4 DEF GarbInv
<1>5. QED
  BY <1>2, <1>3, <1>4

(* A finalizer is called. *)
LEMMA GCTMGarb ==
  ASSUME GCInv, GarbInv, GCTM, g.gcstate = "finalize" \/ full = "close", UNCHANGED <<garbage, full>>
  PROVE  GarbInv'
<1>1. PICK u \in g.tmudata : g' = makewhite([g EXCEPT !.tmudata = @ \ {u}], {u})
  BY DEF GCTM
<1> DEFINE s == [g EXCEPT !.tmudata = @ \ {u}]
<1>2. s \in GState /\ s.gcstate = g.gcstate
  BY DEF GCInv, GState
<1>3. g' = makewhite(s, {u})
  BY <1>1
<1> HIDE DEF s
<1>4. g'.gcstate = g.gcstate /\ heap' = heap
  BY <1>2, <1>3 DEF makewhite, GState, GCTM
<1>5. QED
  BY <1>4 DEF GarbInv

(* singlestep. *)
LEMMA SingleGarb ==
  ASSUME GCInv, GarbInv, full \in {"no", "sweep", "mark"}, singlestep, full' = full
  PROVE  GarbInv'
<1>1. g.sweepstrgc \subseteq Obj /\ g.sweepgc \subseteq Obj
  BY DEF GCInv, GState
<1>2. CASE g.gcstate = "pause" /\ full = "no" /\ MarkRoot
  BY <1>2, MarkRootGarb
<1>3. CASE /\ g.gcstate = "propagate"
           /\ \E o \in g.gray : g' = propagatemark(g, o)
           /\ UNCHANGED <<heap, fields, open, called, garbage>>
  BY <1>3, PropagateGarb
<1>4. CASE /\ g.gcstate = "propagate" /\ g.gray = {}
           /\ atomic /\ UNCHANGED <<called, garbage>>
  BY <1>4, AtomicGarb
<1>5. CASE /\ g.gcstate = "sweepstring"
           /\ IF g.sweepstrgc # {} THEN \E s \in g.sweepstrgc : sweeplist(s, g)
              ELSE g' = [g EXCEPT !.gcstate = "sweep"] /\ UNCHANGED <<heap, fields, open>>
           /\ UNCHANGED <<called, garbage>>
  BY <1>1, <1>5, SweepGarb, PhaseGarb
<1>6. CASE /\ g.gcstate = "sweep"
           /\ IF g.sweepgc # {} THEN \E o \in g.sweepgc : sweeplist(o, g)
              ELSE g' = [g EXCEPT !.gcstate = "finalize"] /\ UNCHANGED <<heap, fields, open>>
           /\ UNCHANGED <<called, garbage>>
  BY <1>1, <1>6, SweepGarb, PhaseGarb
<1>7. CASE g.gcstate = "finalize" /\ g.tmudata # {} /\ full # "sweep" /\ GCTM /\ UNCHANGED garbage
  BY <1>7, GCTMGarb
<1>8. CASE /\ g.gcstate = "finalize" /\ g.tmudata = {} /\ full # "sweep"
           /\ g' = [g EXCEPT !.gcstate = "pause"]
           /\ UNCHANGED <<heap, fields, open, called, garbage>>
  BY <1>8, PhaseGarb
<1>9. QED
  BY <1>2, <1>3, <1>4, <1>5, <1>6, <1>7, <1>8 DEF singlestep

(* Full collections. *)
LEMMA FullGarb ==
  ASSUME GCInv, GarbInv, luaC_fullgc
  PROVE  GarbInv'
<1>1. g \in GState
  BY DEF GCInv
<1>2. CASE /\ full = "no" /\ g.gcstate # "closed" /\ full' = "sweep"
           /\ g' = IF g.gcstate \in {"pause", "propagate"} THEN Abandon(g) ELSE g
           /\ UNCHANGED <<heap, fields, open, called, garbage, cast>>
  <2>1. SweepLists(g) \in GState /\ SweepLists(g).gcstate = "sweepstring"
    BY <1>1, SweepListed DEF GCInv, Finalizing
  <2>2. Abandon(g).gcstate = "sweepstring"
    BY <2>1 DEF Abandon, GState
  <2>3. g'.gcstate \in {"sweepstring", "sweep", "finalize"}
    BY <1>1, <1>2, <2>2 DEF GState, Phases
  <2>4. QED
    BY <1>2, <2>3 DEF GarbInv
<1>3. CASE full \in {"sweep", "mark"} /\ singlestep /\ full' = full
  BY <1>3, SingleGarb
<1>4. CASE full = "sweep" /\ g.gcstate = "finalize" /\ MarkRoot /\ full' = "mark"
  BY <1>4, MarkRootGarb
<1>5. CASE full = "mark" /\ g.gcstate = "pause" /\ full' = "no" /\ UNCHANGED <<heap, g, garbage>>
  BY <1>5 DEF GarbInv
<1>6. QED
  BY <1>2, <1>3, <1>4, <1>5 DEF luaC_fullgc

(* lua_close. *)
LEMMA EndGarb ==
  ASSUME GCInv, GarbInv, lua_close
  PROVE  GarbInv'
<1>1. g \in GState
  BY DEF GCInv
<1>2. CASE /\ Running /\ full' = "close" /\ g' = luaC_separateudata(g, TRUE)
           /\ UNCHANGED <<heap, fields, open, called, garbage, cast>>
  <2>1. g'.gcstate = g.gcstate
    BY <1>1, <1>2 DEF luaC_separateudata, GState
  <2>2. QED
    BY <1>2, <2>1 DEF GarbInv, Running
<1>3. CASE full = "close" /\ GCTM /\ UNCHANGED <<garbage, full>>
  BY <1>3, GCTMGarb
<1>4. CASE g' = [g EXCEPT !.gcstate = "closed"] /\ full' = "no"
  BY <1>1, <1>4 DEF GarbInv, GState
<1>5. QED
  BY <1>2, <1>3, <1>4 DEF lua_close

(* What was unreachable when a cycle began is freed by its end (lgc.c),    *)
(* unless the program gets hold of it again, as a string or through a weak *)
(* table: no barrier and no list keeps it alive for another cycle.         *)
THEOREM GarbageIsFreed == Spec => []GarbageFreed
<1>1. Init => GarbInv
  BY DEF Init, GarbInv
<1>2. GCInv /\ GarbInv /\ [Next]_vars => GarbInv'
  <2> SUFFICES ASSUME GCInv, GarbInv, [Next]_vars PROVE GarbInv'
    OBVIOUS
  <2>1. CASE Mutator
    BY <2>1, MutatorGarb
  <2>2. CASE luaC_step
    BY <2>2, SingleGarb DEF luaC_step
  <2>3. CASE luaC_fullgc
    BY <2>3, FullGarb
  <2>4. CASE lua_close
    BY <2>4, EndGarb
  <2>5. CASE UNCHANGED vars
    <3>1. \A o : Keeps(o)' = Keeps(o)
      BY <2>5 DEF vars, Keeps, AllKids, StrongKids, KeysOf, ValuesOf, FieldsOf, UpFields
    <3>2. Lonely(g, garbage) => Lonely(g, garbage)'
      BY <2>5, <3>1 DEF vars, Lonely, OutOf, AllWhite, iswhite
    <3>3. QED
      BY <2>5, <3>2 DEF vars, GarbInv, isdead
  <2>6. QED
    BY <2>1, <2>2, <2>3, <2>4, <2>5 DEF Next
<1>3. GarbInv => GarbageFreed
  BY DEF GarbInv, GarbageFreed
<1>4. QED
  BY <1>1, <1>2, <1>3, CollectorInvariant, PTL DEF Spec
=============================================================================

------------------------------- MODULE LuaGC -------------------------------
(***************************************************************************)
(* Lua's collector (lua/lgc.c) with the mutator it runs against: an        *)
(* incremental mark-and-sweep collector with two whites, a forward barrier *)
(* for all objects but tables, a backward one for tables, weak tables,     *)
(* finalizers, open upvalues (lua/lfunc.c) and interned strings            *)
(* (lua/lstring.c).                                                        *)
(*                                                                         *)
(* The mutator is the most general program: it moves any object it can     *)
(* get at into any place it can get at, and asks for a step, a full        *)
(* collection or the end at any time; the pacing by bytes and thresholds   *)
(* of luaC_step is therefore left out.  gray lists are sets, as the order  *)
(* in which they are worked off is of no consequence; so are the lists     *)
(* the sweep walks.                                                        *)
(***************************************************************************)
EXTENDS Integers, FiniteSets, TLC

CONSTANTS Obj,          \* addresses
          Kind,         \* what is allocated at an address
          Mode,         \* for a table: which of "k", "v" its __mode names
          HasGC,        \* userdata with a __gc metamethod
          Main,         \* the main thread
          Casts,        \* sets of addresses that play together
          Slots,        \* stack slots of a thread
          None

Kinds == {"table", "closure", "upval", "udata", "string", "thread"}
ASSUME KindAssumption == Kind \in [Obj -> Kinds] /\ Main \in Obj /\ Kind[Main] = "thread"
ASSUME ModeAssumption ==
  /\ Mode \in [Obj -> SUBSET {"k", "v"}] /\ \A o \in Obj : Mode[o] # {} => Kind[o] = "table"
  /\ HasGC \subseteq Obj /\ \A u \in HasGC : Kind[u] = "udata"
ASSUME CastAssumption == \A c \in Casts : c \subseteq Obj /\ Main \in c /\ IsFiniteSet(c)
ASSUME NoneAssumption == None \notin Obj \cup Slots \cup (Obj \X Slots) /\ Obj \cap Slots = {}

VARIABLES heap,      \* the objects allocated
          fields,    \* per object its fields <<key, value>>; a thread: <<slot, value>>
          open,      \* per upvalue the slot <<thread, slot>> it is open at, or None
          g,         \* the global state: marks, lists and phase of the collector
          called,    \* how often a finalizer was called (auxiliary)
          garbage,   \* unreachable when the cycle began (auxiliary)
          full,      \* "no", or what luaC_fullgc is doing
          cast       \* the addresses in play

vars == <<heap, fields, open, g, called, garbage, full, cast>>

Whites == {"w0", "w1"}
otherwhite(w) == IF w = "w0" THEN "w1" ELSE "w0"
iswhite(gs, o) == gs.mark[o] \in Whites
isdead(gs, o) == gs.mark[o] = otherwhite(gs.currentwhite)
makewhite(gs, S) ==
  [gs EXCEPT !.mark = [o \in Obj |-> IF o \in S THEN gs.currentwhite ELSE @[o]]]
-----------------------------------------------------------------------------
(* The object graph.                                                       *)

IsA(o, k) == Kind[o] = k
Threads == {o \in heap : IsA(o, "thread")}
\* where an upvalue keeps its value: the slot it is open at, or itself
UpFields(uv) == IF open[uv] = None THEN fields[uv]
                ELSE {e \in fields[open[uv][1]] : e[1] = open[uv][2]}
FieldsOf(o) == IF IsA(o, "upval") THEN UpFields(o) ELSE fields[o]
KeysOf(o) == {e[1] : e \in FieldsOf(o)} \cap Obj
ValuesOf(o) == {e[2] : e \in FieldsOf(o)}
\* what the collector follows: not what the table's mode makes weak
StrongKids(o) == (IF "k" \in Mode[o] THEN {} ELSE KeysOf(o))
                 \cup (IF "v" \in Mode[o] THEN {} ELSE ValuesOf(o))
AllKids(o) == KeysOf(o) \cup ValuesOf(o)
Strings(S) == {s \in S : IsA(s, "string")}

\* the closure of a set of objects, through all fields or the strong ones;
\* a string counts as a value and is never weak
WithKids(S, strong) ==
  S \cup UNION {IF strong THEN StrongKids(o) \cup Strings(AllKids(o)) ELSE AllKids(o) : o \in S \cap heap}
Closure(S, strong) ==
  LET c[n \in 1..Cardinality(cast)] == IF n = 1 THEN S ELSE WithKids(c[n-1], strong)
  IN IF S = {} THEN {} ELSE c[Cardinality(cast)]

Accessible == Closure({Main}, FALSE)     \* what a program can get at
Reachable == Closure({Main} \cup g.tmudata, TRUE)
-----------------------------------------------------------------------------
(* Marking.                                                                *)

\* reallymarkobject goes on through userdata and upvalues at once, which
\* are never on a list: at most two levels, an upvalue that holds a userdata
Through(gs, S) == S \cup {k \in UNION {ValuesOf(o) : o \in {x \in S : Kind[x] \in {"udata", "upval"}}} :
                            iswhite(gs, k)}
NewMark(o) == IF IsA(o, "udata") \/ (IsA(o, "upval") /\ open[o] = None) THEN "black" ELSE "gray"
SetMarks(gs, S) ==
  [gs EXCEPT !.mark = [o \in Obj |-> IF o \in S THEN NewMark(o) ELSE @[o]],
             !.gray = @ \cup {o \in S : Kind[o] \in {"table", "closure", "thread"}}]

reallymarkobject(gs, S) ==
  SetMarks(gs, Through(gs, Through(gs, {o \in S : iswhite(gs, o)})))

\* the list and the colour of an object that has been traversed: threads are
\* visited again, weak tables stay gray and are cleared later
Traversed(gs, o) ==
  [gs EXCEPT !.gray = @ \ {o},
             !.weak = IF Mode[o] # {} THEN @ \cup {o} ELSE @,
             !.grayagain = IF IsA(o, "thread") THEN @ \cup {o} ELSE @,
             !.mark[o] = IF Mode[o] # {} \/ IsA(o, "thread") THEN "gray" ELSE "black"]

propagatemark(gs, o) == reallymarkobject(Traversed(gs, o), StrongKids(o))

PropagateOne(gs) == IF gs.gray = {} THEN gs ELSE propagatemark(gs, CHOOSE o \in gs.gray : TRUE)
propagateall(gs) ==
  LET p[n \in 0..Cardinality(cast) + 1] == IF n = 0 THEN gs ELSE PropagateOne(p[n-1])
  IN p[Cardinality(cast) + 1]

\* The main thread is the root: globals and registry are fields of it here,
\* and a running coroutine is on the stack of the thread that resumed it.
markroot(gs) ==
  reallymarkobject([gs EXCEPT !.gray = {}, !.grayagain = {}, !.weak = {},
                              !.gcstate = "propagate"], {Main})
-----------------------------------------------------------------------------
(* The atomic step.                                                        *)

NoRemark(gs) == gs             \* the call of remarkupvals is missing

\* values of marked open upvalues whose thread may be dead
remarkupvals(gs) ==
  reallymarkobject(gs, UNION {ValuesOf(uv) : uv \in {o \in heap :
    IsA(o, "upval") /\ open[o] # None /\ gs.mark[o] = "gray"}})

SeparateAgain(gs, all) ==      \* the finalized bit is neither tested nor set
  LET cand == {u \in heap : IsA(u, "udata") /\ u \notin gs.tmudata
                            /\ (iswhite(gs, u) \/ all)}
  IN [gs EXCEPT !.tmudata = @ \cup (cand \cap HasGC)]

\* dead userdata not finalized yet move to tmudata if they have a finalizer
luaC_separateudata(gs, all) ==
  LET cand == {u \in heap : IsA(u, "udata") /\ u \notin gs.finalized
                            /\ (iswhite(gs, u) \/ all)}
  IN [gs EXCEPT !.finalized = @ \cup cand, !.tmudata = @ \cup (cand \cap HasGC)]

marktmu(gs) == reallymarkobject(makewhite(gs, gs.tmudata), gs.tmudata)

RemarkWeak(gs) == propagateall(reallymarkobject([gs EXCEPT !.gray = gs.weak, !.weak = {}], {Main}))
RemarkAgain(gs) == propagateall([gs EXCEPT !.gray = gs.grayagain, !.grayagain = {}])
MarkAll(gs) ==
  propagateall(marktmu(luaC_separateudata(RemarkAgain(RemarkWeak(propagateall(remarkupvals(gs)))), FALSE)))

\* strings in weak tables are values: cleartable marks them
StringsInWeak(gs) == Strings(UNION {AllKids(t) : t \in gs.weak})

iscleared(gs, o, iskey) ==
  /\ ~IsA(o, "string")
  /\ \/ iswhite(gs, o)
     \/ IsA(o, "udata") /\ ~iskey /\ o \in gs.finalized

cleartable(gs) ==
  [t \in Obj |->
     IF t \notin gs.weak THEN fields[t]
     ELSE {e \in fields[t] : /\ e[1] \in Obj => ~iscleared(gs, e[1], TRUE)
                             /\ ~iscleared(gs, e[2], FALSE)}]

\* what the sweep walks: strings, and the root list, where open upvalues are
\* reached through their threads and userdata to be finalized are not
SweepLists(gs) ==
  [gs EXCEPT !.gcstate = "sweepstring",
             !.sweepstrgc = {o \in heap : IsA(o, "string")},
             !.sweepgc = {o \in heap \ gs.tmudata : ~IsA(o, "string") /\ open[o] = None}]

atomic ==
  \E m \in {MarkAll(g)} :
    /\ fields' = cleartable(m)
    /\ g' = SweepLists([SetMarks(m, StringsInWeak(m)) EXCEPT !.currentwhite = otherwhite(@)])
    /\ UNCHANGED <<heap, open>>
-----------------------------------------------------------------------------
(* Sweeping and finalizing.                                                *)

Free(S) == /\ heap' = heap \ S
           /\ fields' = [o \in Obj |-> IF o \in S THEN {} ELSE fields[o]]

UpvalsOf(S) == {uv \in heap : open[uv] # None /\ open[uv][1] \in S}

\* sweeplist on one object; a thread's open upvalues are swept with it, and a
\* thread that is freed closes the ones that stay (luaE_freethread)
sweeplist(o, gs) ==
  LET swept == {o} \cup UpvalsOf({o})
      dead == {x \in swept : isdead(gs, x)}
      closed == IF o \in dead THEN UpvalsOf({o}) \ dead ELSE {}
  IN /\ heap' = heap \ dead
     /\ fields' = [x \in Obj |-> IF x \in dead THEN {}
                                 ELSE IF x \in closed THEN {<<None, e[2]>> : e \in UpFields(x)}
                                 ELSE fields[x]]
     /\ open' = [x \in Obj |-> IF x \in dead \cup closed THEN None ELSE open[x]]
     /\ g' = makewhite([gs EXCEPT !.sweepgc = @ \ {o}, !.sweepstrgc = @ \ {o}], swept)

\* one finalizer: it may keep its userdata on the stack
GCTM ==
  \E u \in g.tmudata, keep \in Slots \cup {None} :
    /\ called' = [called EXCEPT ![u] = @ + 1]
    /\ g' = makewhite([g EXCEPT !.tmudata = @ \ {u}], {u})
    /\ fields' = IF keep = None THEN fields
                 ELSE [fields EXCEPT ![Main] = {e \in @ : e[1] # keep} \cup {<<keep, u>>}]
    /\ UNCHANGED <<heap, open>>

MarkRoot == /\ g' = markroot(g)
            /\ garbage' = heap \ Closure(Reachable \cup {u \in heap : u \in HasGC \ g.finalized}, TRUE)
            /\ UNCHANGED <<heap, fields, open, called>>

singlestep ==
  \/ g.gcstate = "pause" /\ full = "no" /\ MarkRoot
  \/ /\ g.gcstate = "propagate"
     /\ \E o \in g.gray : g' = propagatemark(g, o)
     /\ UNCHANGED <<heap, fields, open, called, garbage>>
  \/ /\ g.gcstate = "propagate" /\ g.gray = {}
     /\ atomic /\ UNCHANGED <<called, garbage>>
  \/ /\ g.gcstate = "sweepstring"
     /\ IF g.sweepstrgc # {} THEN \E s \in g.sweepstrgc : sweeplist(s, g)
        ELSE g' = [g EXCEPT !.gcstate = "sweep"] /\ UNCHANGED <<heap, fields, open>>
     /\ UNCHANGED <<called, garbage>>
  \/ /\ g.gcstate = "sweep"
     /\ IF g.sweepgc # {} THEN \E o \in g.sweepgc : sweeplist(o, g)
        ELSE g' = [g EXCEPT !.gcstate = "finalize"] /\ UNCHANGED <<heap, fields, open>>
     /\ UNCHANGED <<called, garbage>>
  \/ g.gcstate = "finalize" /\ g.tmudata # {} /\ full # "sweep"
     /\ GCTM /\ UNCHANGED garbage
  \/ /\ g.gcstate = "finalize" /\ g.tmudata = {} /\ full # "sweep"
     /\ g' = [g EXCEPT !.gcstate = "pause"]
     /\ UNCHANGED <<heap, fields, open, called, garbage>>

\* luaC_step, by one single step
luaC_step == g.gcstate # "closed" /\ full = "no" /\ singlestep /\ UNCHANGED <<full, cast>>

KeepMarks(gs) == [gs EXCEPT !.gcstate = "finalize", !.gray = {}, !.grayagain = {}, !.weak = {}]

\* A full collection first turns everything white again: a mark phase under
\* way is abandoned, a sweep under way is finished.
Abandon(gs) == [SweepLists(gs) EXCEPT !.gray = {}, !.grayagain = {}, !.weak = {}]

luaC_fullgc ==
  \/ /\ full = "no" /\ g.gcstate # "closed"
     /\ full' = "sweep"
     /\ g' = IF g.gcstate \in {"pause", "propagate"} THEN Abandon(g) ELSE g
     /\ UNCHANGED <<heap, fields, open, called, garbage, cast>>
  \/ full = "sweep" /\ g.gcstate # "finalize" /\ singlestep /\ UNCHANGED <<full, cast>>
  \/ full = "sweep" /\ g.gcstate = "finalize" /\ MarkRoot /\ full' = "mark" /\ UNCHANGED cast
  \/ full = "mark" /\ g.gcstate # "pause" /\ singlestep /\ UNCHANGED <<full, cast>>
  \/ full = "mark" /\ g.gcstate = "pause" /\ full' = "no"
     /\ UNCHANGED <<heap, fields, open, g, called, garbage, cast>>
-----------------------------------------------------------------------------
(* Barriers.                                                               *)

luaC_barrierf(gs, o, v) ==
  IF gs.gcstate = "propagate" THEN reallymarkobject(gs, {v}) ELSE makewhite(gs, {o})
luaC_barrierback(gs, t) == [gs EXCEPT !.mark[t] = "gray", !.grayagain = @ \cup {t}]

luaC_objbarrier(gs, p, v) ==
  IF iswhite(gs, v) /\ gs.mark[p] = "black" THEN luaC_barrierf(gs, p, v) ELSE gs

luaC_barriert(gs, t, v) ==
  IF iswhite(gs, v) /\ gs.mark[t] = "black" THEN luaC_barrierback(gs, t) ELSE gs

-----------------------------------------------------------------------------
(* The mutator.                                                            *)

Running == full = "no" /\ g.gcstate # "closed"
\* what the program holds is no longer garbage
Hold(S) == garbage' = garbage \ Closure(S, TRUE)
Held(S, k) == {o \in S : IsA(o, k)}

SetSlot(th, i, v) == {e \in fields[th] : e[1] # i} \cup {<<i, v>>}

\* push a value the program can get at; pop one
Push(th, i, v) ==
  /\ fields' = [fields EXCEPT ![th] = SetSlot(th, i, v)]
  /\ Hold({v}) /\ UNCHANGED <<heap, open, g, called, full, cast>>
Pop(th, i) ==
  /\ UpvalsOf({th}) = {}
  /\ \E e \in fields[th] : e[1] = i
  /\ fields' = [fields EXCEPT ![th] = {e \in @ : e[1] # i}]
  /\ UNCHANGED <<heap, open, g, called, garbage, full, cast>>

\* luaC_link and its like: a new object is white and on the stack
luaC_link(o, i) ==
  /\ o \in cast \ heap /\ Kind[o] \in {"table", "udata", "thread"}
  /\ heap' = heap \cup {o}
  /\ g' = makewhite([g EXCEPT !.finalized = @ \ {o}], {o})
  /\ fields' = [fields EXCEPT ![Main] = SetSlot(Main, i, o)]
  /\ called' = [called EXCEPT ![o] = 0]
  /\ garbage' = garbage \ {o} /\ UNCHANGED <<open, full, cast>>

\* a string found in the table of strings may be dead: it is resurrected
Intern(gs, s) ==
  IF s \notin heap \/ isdead(gs, s) THEN makewhite(gs, {s}) ELSE gs

luaS_newlstr(s, i) ==
  /\ heap' = heap \cup {s}
  /\ g' = Intern(g, s)
  /\ fields' = [fields EXCEPT ![Main] = SetSlot(Main, i, s)]
  /\ garbage' = garbage \ {s} /\ UNCHANGED <<open, called, full, cast>>

\* OP_CLOSURE captures a slot of thread th: the upvalue already open there,
\* resurrected if it is dead, or a new one
Resurrect(gs, uv) == IF isdead(gs, uv) THEN makewhite(gs, {uv}) ELSE gs
luaF_findupval(gs, th, i, uv) ==
  \/ uv \in heap /\ open[uv] = <<th, i>> /\ g' = Resurrect(gs, uv)
  \/ /\ uv \notin heap /\ \A x \in heap : open[x] # <<th, i>>
     /\ g' = makewhite(gs, {uv})
OP_CLOSURE(c, th, i, uv, dst) ==
  /\ c \notin heap /\ \E e \in fields[th] : e[1] = i
  /\ luaF_findupval(makewhite(g, {c}), th, i, uv)
  /\ heap' = heap \cup {c, uv}
  /\ open' = [open EXCEPT ![uv] = <<th, i>>]
  /\ fields' = [fields EXCEPT ![c] = {<<None, uv>>}, ![Main] = SetSlot(Main, dst, c)]
  /\ garbage' = garbage \ ({c, uv} \cup Closure({e[2] : e \in {x \in fields[th] : x[1] = i}}, TRUE))
  /\ UNCHANGED <<called, full, cast>>

\* luaC_linkupval on a set of upvalues that become closed
luaC_linkupval(gs, S) ==
  LET gray == {uv \in S : gs.mark[uv] = "gray"}
      vals == UNION {ValuesOf(uv) : uv \in gray}
  IN IF gs.gcstate = "propagate"
     THEN reallymarkobject([gs EXCEPT !.mark = [o \in Obj |-> IF o \in gray THEN "black" ELSE @[o]]], vals)
     ELSE makewhite(gs, gray)

luaF_close(th) ==
  LET uvs == UpvalsOf({th})
      dead == {uv \in uvs : isdead(g, uv)}
  IN /\ uvs # {}
     /\ heap' = heap \ dead
     /\ open' = [x \in Obj |-> IF x \in uvs THEN None ELSE open[x]]
     /\ fields' = [x \in Obj |-> IF x \in dead THEN {}
                                 ELSE IF x \in uvs THEN {<<None, e[2]>> : e \in UpFields(x)}
                                 ELSE fields[x]]
     /\ g' = luaC_linkupval(g, uvs \ dead)
     /\ UNCHANGED <<called, garbage, full, cast>>

\* t[k] = v, t[k] = nil; one field at a time
luaV_settable(t, k, v) ==
  /\ k # None => "k" \in Mode[t]
  /\ fields' = [fields EXCEPT ![t] = {<<k, v>>}]
  /\ g' = luaC_barriert(IF k = None THEN g ELSE luaC_barriert(g, t, k), t, v)
  /\ Hold({v} \cup ({k} \ {None})) /\ UNCHANGED <<heap, open, called, full, cast>>
Clear(t) ==
  /\ fields[t] # {}
  /\ fields' = [fields EXCEPT ![t] = {}]
  /\ UNCHANGED <<heap, open, g, called, garbage, full, cast>>

\* lua_setfenv, lua_setmetatable on a userdata
lua_setfenv(u, t) ==
  /\ fields' = [fields EXCEPT ![u] = {<<None, t>>}]
  /\ g' = luaC_objbarrier(g, u, t)
  /\ Hold({t}) /\ UNCHANGED <<heap, open, called, full, cast>>

\* OP_SETUPVAL: a write to the stack while the upvalue is open
OP_SETUPVAL(c, v) ==
  /\ \E uv \in ValuesOf(c) :
       /\ fields' = IF open[uv] = None THEN [fields EXCEPT ![uv] = {<<None, v>>}]
                    ELSE [fields EXCEPT ![open[uv][1]] = SetSlot(open[uv][1], open[uv][2], v)]
       /\ g' = luaC_objbarrier(g, uv, v)
  /\ Hold({v}) /\ UNCHANGED <<heap, open, called, full, cast>>

\* lua_close: all userdata are finalized, then everything is freed
lua_close ==
  \/ /\ Running
     /\ full' = "close"
     /\ g' = luaC_separateudata(g, TRUE)
     /\ UNCHANGED <<heap, fields, open, called, garbage, cast>>
  \/ full = "close" /\ g.tmudata # {} /\ GCTM /\ UNCHANGED <<garbage, full, cast>>
  \/ /\ full = "close" /\ g.tmudata = {}
     /\ g' = [g EXCEPT !.gcstate = "closed"] /\ full' = "no"
     /\ Free(heap) /\ open' = [o \in Obj |-> None]
     /\ UNCHANGED <<called, garbage, cast>>
-----------------------------------------------------------------------------
Init ==
  /\ heap = {Main} /\ cast \in Casts
  /\ fields = [o \in Obj |-> {}] /\ open = [o \in Obj |-> None]
  /\ g = [gcstate |-> "pause", currentwhite |-> "w0", mark |-> [o \in Obj |-> "w0"],
          gray |-> {}, grayagain |-> {}, weak |-> {}, tmudata |-> {}, finalized |-> {},
          sweepstrgc |-> {}, sweepgc |-> {}]
  /\ called = [o \in Obj |-> 0] /\ garbage = {} /\ full = "no"

\* S: what the program can get at
Operate(S) ==
  \/ \E o \in cast, i \in Slots : luaC_link(o, i)
  \/ \E s \in Held(cast, "string"), i \in Slots : luaS_newlstr(s, i)
  \/ \E th \in Held(S, "thread") : luaF_close(th) \/ \E i \in Slots : Pop(th, i)
  \/ \E th \in Held(S, "thread"), i \in Slots, v \in S \ Held(S, "upval") : Push(th, i, v)
  \/ \E c \in Held(cast, "closure"), uv \in Held(cast, "upval"), th \in Held(S, "thread"),
        i, dst \in Slots : OP_CLOSURE(c, th, i, uv, dst)
  \/ \E t \in Held(S, "table") : Clear(t)
  \/ \E t \in Held(S, "table"), v \in S \ Held(S, "upval"), k \in (S \ Held(S, "upval")) \cup {None} :
        luaV_settable(t, k, v)
  \/ \E u \in Held(S, "udata"), t \in Held(S, "table") : lua_setfenv(u, t)
  \/ \E c \in Held(S, "closure"), v \in S \ Held(S, "upval") : OP_SETUPVAL(c, v)
Mutator == Running /\ \E S \in {Accessible} : Operate(S)

Next == Mutator \/ luaC_step \/ luaC_fullgc \/ lua_close

Spec == Init /\ [][Next]_vars
-----------------------------------------------------------------------------
(* Properties.                                                             *)

TypeOK ==
  /\ heap \subseteq cast \cup {Main}
  /\ \A o \in Obj : g.mark[o] \in Whites \cup {"gray", "black"}
  /\ g.gcstate \in {"pause", "propagate", "sweepstring", "sweep", "finalize", "closed"}
  /\ full \in {"no", "sweep", "mark", "close"}
  /\ \A uv \in Obj : open[uv] # None => uv \in heap /\ open[uv] \in Threads \X Slots

\* Nothing a program can get at is freed: not through a table, a closed or an
\* open upvalue, a coroutine's stack, a weak table's surviving entries, a
\* string interned while it was dead, nor from a finalizer still to come.
NoDangling == g.gcstate # "closed" => Closure({Main} \cup g.tmudata, FALSE) \subseteq heap

\* The invariant the barriers restore (lgc.c:668, "restore invariant"): while
\* marking, a black object points to no white one.
NoBlackToWhite ==
  g.gcstate = "propagate" /\ full # "close" =>
    \A o \in heap \ g.tmudata : g.mark[o] = "black" => \A k \in StrongKids(o) : ~iswhite(g, k)

\* The lists gray, grayagain and weak are chained through one field, gclist:
\* an object on two of them would cut one list off.
OneList ==
  /\ g.gray \cap g.grayagain = {} /\ g.gray \cap g.weak = {} /\ g.grayagain \cap g.weak = {}
  /\ g.gcstate = "propagate" =>
       \A o \in g.gray \cup g.grayagain \cup g.weak : g.mark[o] = "gray"

\* What was unreachable when a cycle began is gone when it ends, if the program
\* did not get hold of it again through a weak table or as a string.
GarbageFreed == g.gcstate = "pause" => garbage \cap heap = {}

\* A finalizer is called at most once for a userdata, whatever resurrects it,
\* and once for each when the state is closed.
FinalizedOnce ==
  /\ \A u \in HasGC : called[u] <= 1
  /\ full = "close" => \A u \in heap \cap HasGC : u \in g.tmudata \/ called[u] = 1

\* The program has lost u: a set of objects holds the main thread and not u,
\* and no strong reference leads out of it, but from userdata already due.
Lost(u) ==
  \E C \in SUBSET heap :
    Main \in C /\ u \notin C /\ \A o \in C \ g.tmudata : StrongKids(o) \subseteq C

\* A finalizer becomes due only for a userdata the program has lost, and that
\* no value of a weak table it can get at still is (lgc.c:335, "keep them in
\* keys, but not in values").
OnlyLost ==
  full' # "close" => \A u \in g'.tmudata \ g.tmudata :
    Lost(u) /\ \A t \in Accessible' : Mode[t] # {} => u \notin ValuesOf(t)'

\* The collector takes nothing away that is in use, by the marks and lists that
\* its steps and the barriers keep in order.
CollectorSafe == TypeOK /\ NoDangling /\ NoBlackToWhite /\ OneList

\* Finalizers run once, and only for what the program has lost.
FinalizersOnce == []FinalizedOnce /\ [][OnlyLost]_vars
=============================================================================

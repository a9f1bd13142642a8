-------------------------- MODULE LuaThreadProofs --------------------------
(***************************************************************************)
(* Whatever is called, fails, is caught, yields or is collected, in any    *)
(* thread: stacks hold what runs on them, an error jumps to a protected    *)
(* call that is still there, and coroutine.status tells the truth, for any *)
(* number of threads, any program and any of the limits.                   *)
(*                                                                         *)
(* The inductive invariant says for each thread what its calls look like   *)
(* (Frames), for a thread that runs or waits for one it resumed that its   *)
(* handlers and its count of C calls belong to its calls (Live), for any   *)
(* other that it left nothing behind (Dormant), and how the threads in run *)
(* hang together (Chain).                                                  *)
(***************************************************************************)
EXTENDS LuaThread, FiniteSetTheorems, WellFoundedInduction, TLAPS

Name == {"base", "lua", "ret", "errfn"} \cup CallNames
Call == [fn : Name, c : BOOLEAN, func : Nat, base : Nat, top : Nat]
Handler == [by : {"pcall", "resume"}, ci : Nat, nCcalls : Nat, old_top : Nat, errfunc : {"none", "fn", "bad"}]
ThreadType ==
  [status : {"free", "ok", "yield", "errrun", "errerr"}, top : Nat, base : Nat, ci : Seq(Call),
   stacksize : Nat, size_ci : Nat, nCcalls : Nat, baseCcalls : Nat,
   errfunc : {"none", "fn", "bad"}, jmp : Seq(Handler)]

PCall == {"pcall", "xpcall"}
LuaFn == {"lua", "errfn"}

(* A call may be made on top of another one. *)
Above(f, g) ==
  /\ f.base <= g.func
  /\ f.fn \in PCall \cup {"c"} => g.c
  /\ g.fn # "errfn" => f.fn \in LuaFn \cup {"base", "c"} \cup PCall

(* As many slots as a frame may lie behind stack_last: the most parameters *)
(* of a vararg function of the program, as far as there are slots.         *)
Slacks == {m \in 0 .. EXTRA_STACK + 2 :
             m = EXTRA_STACK + 2 \/ \A p \in prog.protos : p.is_vararg = "dots" => p.numparams <= m}
Slack == CHOOSE m \in Slacks : \A k \in Slacks : m <= k

(* The highest top of a thread and of its calls: a dead thread has its     *)
(* message above what it used.                                             *)
Over(status) ==
  IF status \in {"errrun", "errerr"}
  THEN IF Slack <= EXTRA_STACK THEN Slack ELSE EXTRA_STACK + 1
  ELSE Slack - 1
Limit(L) == StackLast(L) + Over(L.status)

FrameOK(L, f) == f.func < f.base /\ f.base <= f.top /\ f.top <= Limit(L)

(* How the calls of a thread lie on its stack. *)
Frames(L) ==
  /\ L \in ThreadType
  /\ L.ci # <<>> /\ L.ci[1].fn = "base" /\ ~L.ci[1].c
  /\ Len(L.ci) <= L.size_ci /\ 2 <= L.size_ci
  /\ \A i \in 1 .. Len(L.ci) : FrameOK(L, L.ci[i])
  /\ \A i \in 1 .. Len(L.ci) - 1 : Above(L.ci[i], L.ci[i + 1])
  /\ L.base = L.ci[Len(L.ci)].base /\ L.base <= L.top /\ L.top <= Limit(L)

(* Among the first k calls: those entered through luaD_call; is none an    *)
(* error handler?                                                          *)
CCalls(L, k) == Cardinality({i \in 1 .. k : L.ci[i].c})
NoErrfn(L, k) == \A i \in 1 .. k : L.ci[i].fn # "errfn"

CLimit == LUAI_MAXCCALLS + (LUAI_MAXCCALLS \div 8)

(* A handler on the chain is that of a protected call there is. *)
HandlerOK(L, i) ==
  LET j == L.jmp[i]
  IN  /\ j.by = "pcall" /\ j.ci \in 2 .. Len(L.ci) /\ L.ci[j.ci].fn \in PCall
      /\ L.ci[j.ci].base <= j.old_top /\ j.old_top + 2 <= L.ci[j.ci].top
      /\ j.nCcalls >= L.baseCcalls + CCalls(L, j.ci)
      /\ NoErrfn(L, j.ci) => j.nCcalls = L.baseCcalls + CCalls(L, j.ci)
      /\ \A m \in 2 .. i - 1 : L.jmp[m].ci < j.ci

(* The call i has a handler on the chain. *)
Handled(L, i) == \E k \in 2 .. Len(L.jmp) : L.jmp[k].ci = i

Handlers(L) ==
  /\ L.jmp # <<>> /\ L.jmp[1].by = "resume"
  /\ \A i \in 2 .. Len(L.jmp) : HandlerOK(L, i)
  /\ \A i \in 1 .. Len(L.ci) - 1 : L.ci[i].fn \in PCall => Handled(L, i)
  /\ IF Len(L.jmp) = 1 THEN L.errfunc = "none" ELSE L.jmp[2].errfunc = "none"

(* The function of a thread was called. *)
Begun(L) == Len(L.ci) >= 2 /\ L.ci[2].fn = "lua"

(* A thread that is not in the middle of an error, and what one that is    *)
(* still has.                                                              *)
Settled(L) ==
  LET ci == L.ci[Len(L.ci)]
  IN  /\ Begun(L) /\ ~Handled(L, Len(L.ci))
      /\ NoErrfn(L, Len(L.ci)) => L.nCcalls = L.baseCcalls + CCalls(L, Len(L.ci))
      /\ ci.fn \in LuaFn => L.top = ci.top
      /\ ci.fn = "c" => L.top <= ci.top
      /\ ci.fn = "ret" => L.top <= ci.top + 1
      /\ ci.fn \in CallNames \ {"c"} => L.top + LUA_MINSTACK <= ci.top
      /\ ci.fn \in PCall \cup {"resume", "queueEvent"} => L.base + 1 <= L.top
      /\ ci.fn \in {"resume", "queueEvent"} => L.top <= L.base + MaxValues + 1
      /\ ci.fn \in {"wrap", "yield"} => L.top <= L.base + MaxValues

Guarded(L) == L.ci[Len(L.ci)].fn \in PCall => Handled(L, Len(L.ci))
Troubled(L, e) == (e # "outside" => Guarded(L) /\ Begun(L)) /\ (e = "msg" => L.base + 1 <= L.top)

Live(L) ==
  /\ L.status = "ok" /\ L.baseCcalls >= 1
  /\ Handlers(L)
  /\ L.nCcalls >= L.baseCcalls + CCalls(L, Len(L.ci))
  /\ L.baseCcalls + CCalls(L, Len(L.ci)) <= CLimit

Dormant(L) ==
  /\ L.jmp = <<>>
  /\ L.status \in {"ok", "yield"} => L.errfunc = "none"
  /\ L.status = "ok" => Len(L.ci) = 1
  /\ L.status = "yield" =>
       /\ Len(L.ci) >= 3 /\ Begun(L) /\ L.ci[Len(L.ci)].fn = "yield"
       /\ \A i \in 1 .. Len(L.ci) : ~L.ci[i].c
  /\ L.ci[Len(L.ci)].fn \notin LuaFn \cup {"base"} => L.top <= L.ci[Len(L.ci)].top

InRun(co) == \E k \in 1 .. Len(run) : run[k] = co

Chain ==
  /\ \A k, m \in 1 .. Len(run) : run[k] = run[m] => k = m
  /\ run # <<>> => run[1] = coro /\ th[coro].baseCcalls = 1
  /\ run = <<>> => err = "no" /\ (th[coro].status = "yield" => th[coro].nCcalls = 0)
  /\ \A k \in 1 .. Len(run) - 1 :
       /\ th[run[k]].ci[Len(th[run[k]].ci)].fn \in {"resume", "wrap"}
       /\ th[run[k]].top <= th[run[k]].base + 1
       /\ th[run[k + 1]].baseCcalls = th[run[k]].nCcalls + 1

Types ==
  /\ th \in [Thread -> ThreadType]
  /\ run \in Seq(Thread)
  /\ err \in {"no", "msg", "errrun", "errerr", "outside"}
  /\ params \in Seq(0 .. MaxValues)
  /\ prog \in Program

(* Writing behind the end of a stack takes a function with parameters for  *)
(* it.                                                                     *)
Outside(e) == e = "outside" => EXTRA_STACK <= Slack

ThreadInv ==
  /\ Types /\ Chain /\ Outside(err)
  /\ \A co \in Thread : Frames(th[co])
  /\ \A k \in 1 .. Len(run) :
       /\ Live(th[run[k]])
       /\ IF k < Len(run) \/ err = "no" THEN Settled(th[run[k]]) ELSE Troubled(th[run[k]], err)
  /\ \A co \in Thread : ~InRun(co) => Dormant(th[co])

(* No thread passes more results than any other can take. *)
RoomForResults == MaxValues + 2 <= LUAI_MAXCSTACK

(* The function of a coroutine is the first value on its stack; any thread *)
(* but coro that has not begun holds nothing else, one that has ended      *)
(* nothing at all.                                                         *)
Based(L) == 2 <= Len(L.ci) => L.ci[2].func = L.ci[1].base

Startable ==
  /\ \A co \in Thread : Based(th[co])
  /\ \A co \in Thread \ {coro} : ~InRun(co) /\ th[co].status = "ok" => th[co].top <= th[co].base + 1

-----------------------------------------------------------------------------
(* Counting calls.                                                         *)

(* The C calls among the first k calls are finitely many.                  *)
LEMMA CallsFinite ==
  ASSUME NEW L, NEW k \in Nat
  PROVE  IsFiniteSet({i \in 1 .. k : L.ci[i].c})
<1>1. 1 \in Int /\ k \in Int
  OBVIOUS
<1>2. IsFiniteSet(1 .. k)
  BY <1>1, FS_Interval, Zenon
<1>3. {i \in 1 .. k : L.ci[i].c} \in SUBSET (1 .. k)
  OBVIOUS
<1>4. QED
  BY <1>2, <1>3, FS_Subset, Zenon

(* The calls made by C are counted with numbers. *)
LEMMA CCallsNat ==
  ASSUME NEW L, NEW k \in Nat
  PROVE  CCalls(L, k) \in Nat
  BY CallsFinite, FS_CardinalityType, Zenon DEF CCalls

(* More calls, no smaller count. *)
LEMMA CCallsMore ==
  ASSUME NEW L, NEW k \in Nat, NEW m \in Nat, k <= m
  PROVE  CCalls(L, k) <= CCalls(L, m)
<1>1. {i \in 1 .. k : L.ci[i].c} \in SUBSET {i \in 1 .. m : L.ci[i].c}
  OBVIOUS
<1>2. QED
  BY <1>1, CallsFinite, FS_Subset, Zenon DEF CCalls

(* One more call adds one to the count if C made it. *)
LEMMA CCallsNext ==
  ASSUME NEW L, NEW k \in Nat, L.ci[k + 1].c \in BOOLEAN
  PROVE  CCalls(L, k + 1) = IF L.ci[k + 1].c THEN CCalls(L, k) + 1 ELSE CCalls(L, k)
<1> DEFINE S == {i \in 1 .. k : L.ci[i].c}
           T == {i \in 1 .. k + 1 : L.ci[i].c}
<1>1. IsFiniteSet(S) /\ k + 1 \notin S
  BY CallsFinite
<1>2. CASE L.ci[k + 1].c
  <2>1. T = S \cup {k + 1}
    BY <1>2
  <2>2. Cardinality(T) = Cardinality(S) + 1
    BY <1>1, <2>1, FS_AddElement
  <2>3. QED
    BY <1>2, <2>2 DEF CCalls
<1>3. CASE ~L.ci[k + 1].c
  <2>1. T = S
    BY <1>3
  <2>2. QED
    BY <1>3, <2>1 DEF CCalls
<1>4. QED
  BY <1>2, <1>3

(* The count depends on who made the calls and on nothing else. *)
LEMMA CCallsSame ==
  ASSUME NEW L, NEW G, NEW k \in Nat, \A i \in 1 .. k : G.ci[i].c = L.ci[i].c
  PROVE  CCalls(G, k) = CCalls(L, k)
<1>1. {i \in 1 .. k : G.ci[i].c} = {i \in 1 .. k : L.ci[i].c}
  OBVIOUS
<1>2. QED
  BY <1>1 DEF CCalls

(* None of the first calls was made by C: the count is 0. *)
LEMMA CCallsNone ==
  ASSUME NEW L, NEW k \in Nat, \A i \in 1 .. k : ~L.ci[i].c
  PROVE  CCalls(L, k) = 0
<1>1. {i \in 1 .. k : L.ci[i].c} = {}
  OBVIOUS
<1>2. QED
  BY <1>1, FS_EmptySet DEF CCalls

(* A count of 0: none of the calls was made by C. *)
LEMMA CCallsZero ==
  ASSUME NEW L, NEW k \in Nat, CCalls(L, k) = 0
  PROVE  \A i \in 1 .. k : ~L.ci[i].c
<1>1. IsFiniteSet({i \in 1 .. k : L.ci[i].c})
  BY CallsFinite
<1>2. {i \in 1 .. k : L.ci[i].c} = {}
  BY <1>1, FS_EmptySet DEF CCalls
<1>3. QED
  BY <1>2

-----------------------------------------------------------------------------
(* The parts of a thread.                                                  *)

(* What each field of a thread is.                                         *)
LEMMA FieldTypes ==
  ASSUME NEW L \in ThreadType
  PROVE  /\ L.top \in Nat /\ L.base \in Nat /\ L.ci \in Seq(Call) /\ Len(L.ci) \in Nat
         /\ L.stacksize \in Nat /\ L.size_ci \in Nat /\ L.nCcalls \in Nat /\ L.baseCcalls \in Nat
         /\ L.jmp \in Seq(Handler) /\ Len(L.jmp) \in Nat
         /\ L.errfunc \in {"none", "fn", "bad"}
         /\ L.status \in {"free", "ok", "yield", "errrun", "errerr"}
  BY DEF ThreadType

(* What a call on the stack is made of. *)
LEMMA CallTypes ==
  ASSUME NEW L \in ThreadType, NEW i \in 1 .. Len(L.ci)
  PROVE  /\ L.ci[i] \in Call /\ L.ci[i].fn \in Name /\ L.ci[i].c \in BOOLEAN
         /\ L.ci[i].func \in Nat /\ L.ci[i].base \in Nat /\ L.ci[i].top \in Nat
<1>1. L.ci \in Seq(Call)
  BY FieldTypes
<1>2. L.ci[i] \in Call
  BY <1>1
<1>3. QED
  BY <1>2 DEF Call

(* What a handler on the chain is made of. *)
LEMMA HandlerTypes ==
  ASSUME NEW L \in ThreadType, NEW i \in 1 .. Len(L.jmp)
  PROVE  /\ L.jmp[i] \in Handler /\ L.jmp[i].ci \in Nat /\ L.jmp[i].nCcalls \in Nat /\ L.jmp[i].old_top \in Nat
         /\ L.jmp[i].errfunc \in {"none", "fn", "bad"}
<1>1. L.jmp \in Seq(Handler)
  BY FieldTypes
<1>2. L.jmp[i] \in Handler
  BY <1>1
<1>3. QED
  BY <1>2 DEF Handler

(* The last call. *)
LEMMA LastCall ==
  ASSUME NEW L, Frames(L)
  PROVE  /\ Len(L.ci) \in Nat \ {0} /\ Ci(L) = L.ci[Len(L.ci)] /\ Ci(L) \in Call
         /\ Ci(L).func \in Nat /\ Ci(L).base \in Nat /\ Ci(L).top \in Nat /\ Ci(L).c \in BOOLEAN /\ Ci(L).fn \in Name
         /\ L.top \in Nat /\ L.base \in Nat /\ L.base = Ci(L).base /\ L.base <= L.top
<1>1. L \in ThreadType /\ L.ci # <<>> /\ L.ci \in Seq(Call)
  BY FieldTypes DEF Frames
<1>2. Len(L.ci) \in Nat \ {0} /\ Len(L.ci) \in 1 .. Len(L.ci)
  BY <1>1
<1>3. Ci(L) = L.ci[Len(L.ci)]
  BY DEF Ci, Last
<1>4. QED
  BY <1>1, <1>2, <1>3, CallTypes, FieldTypes DEF Frames

-----------------------------------------------------------------------------
(* Behind stack_last.                                                      *)

(* A set of numbers has a least one.                                       *)
LEMMA LeastNumber ==
  ASSUME NEW T, T \subseteq Nat, T # {}
  PROVE  \E m \in T : \A k \in T : m <= k
<1>1. PICK m \in T : \A k \in T : ~(<<k, m>> \in OpToRel(<, Nat))
  BY NatLessThanWellFounded, WFMin
<1>2. m \in Nat /\ \A k \in T : k \in Nat /\ ~(k < m)
  BY <1>1 DEF OpToRel
<1>3. QED
  BY <1>2

(* What a vararg function can make of a frame. *)
LEMMA SlackOK ==
  /\ Slack \in Nat /\ Slack <= EXTRA_STACK + 2 /\ EXTRA_STACK \in Nat \ {0}
  /\ \A p \in prog.protos : p.is_vararg = "dots" => p.numparams <= Slack \/ Slack = EXTRA_STACK + 2
  /\ Slack # 0 => \E p \in prog.protos : p.is_vararg = "dots" /\ ~(p.numparams <= Slack - 1)
<1>1. EXTRA_STACK \in Nat \ {0}
  BY LimitsAssumption
<1>2. EXTRA_STACK + 2 \in Slacks /\ Slacks \subseteq Nat
  BY <1>1 DEF Slacks
<1>3. \E m \in Slacks : \A k \in Slacks : m <= k
  BY <1>2, LeastNumber, Zenon
<1>4. Slack \in Slacks /\ \A k \in Slacks : Slack <= k
  BY <1>3, Zenon DEF Slack
<1> HIDE DEF Slack
<1>5. Slack \in 0 .. EXTRA_STACK + 2
      /\ (Slack = EXTRA_STACK + 2 \/ \A p \in prog.protos : p.is_vararg = "dots" => p.numparams <= Slack)
  BY <1>4 DEF Slacks
<1>6. ASSUME Slack # 0 PROVE \E p \in prog.protos : p.is_vararg = "dots" /\ ~(p.numparams <= Slack - 1)
  <2>1. Slack - 1 \in 0 .. EXTRA_STACK + 2 /\ Slack - 1 # EXTRA_STACK + 2 /\ ~(Slack <= Slack - 1)
    BY <1>1, <1>5, <1>6
  <2>2. Slack - 1 \notin Slacks
    BY <1>4, <2>1
  <2>3. QED
    BY <2>1, <2>2 DEF Slacks
<1>7. QED
  BY <1>1, <1>5, <1>6

(* It depends on the program alone. *)
LEMMA SlackKept ==
  ASSUME prog' = prog
  PROVE  Slack' = Slack
  BY DEF Slack, Slacks

(* The limit of a thread's stack is in the stack, and one slot below       *)
(* stack_last or above it.                                                 *)
LEMMA OverOK ==
  ASSUME NEW st
  PROVE  /\ Over(st) \in Int /\ 0 <= Over(st) + 1 /\ Over(st) <= EXTRA_STACK + 1
         /\ st \notin {"errrun", "errerr"} => Over(st) = Slack - 1
  BY SlackOK DEF Over

(* ... and what is up to it is in the stack. *)
LEMMA LimitOK ==
  ASSUME NEW L \in ThreadType
  PROVE  /\ StackLast(L) \in Int /\ Limit(L) \in Int /\ Limit(L) = StackLast(L) + Over(L.status)
         /\ Limit(L) <= L.stacksize /\ StackLast(L) <= Limit(L) + 1
         /\ StackLast(L) + EXTRA_STACK + 1 = L.stacksize
<1>1. L.stacksize \in Nat /\ EXTRA_STACK \in Nat
  BY FieldTypes, SlackOK
<1>2. StackLast(L) \in Int /\ StackLast(L) + EXTRA_STACK + 1 = L.stacksize
  BY <1>1 DEF StackLast
<1>3. Over(L.status) \in Int /\ 0 <= Over(L.status) + 1 /\ Over(L.status) <= EXTRA_STACK + 1
  BY OverOK
<1>4. QED
  BY <1>1, <1>2, <1>3 DEF Limit

-----------------------------------------------------------------------------
(* Growing.                                                                *)

(* G is L with other sizes of its arrays, which are large enough. *)
Resized(L, G) ==
  /\ G \in ThreadType
  /\ G.status = L.status /\ G.top = L.top /\ G.base = L.base /\ G.ci = L.ci
  /\ G.nCcalls = L.nCcalls /\ G.baseCcalls = L.baseCcalls /\ G.errfunc = L.errfunc /\ G.jmp = L.jmp

(* luaD_checkstack makes room for n values. *)
LEMMA Checked ==
  ASSUME NEW L, L \in ThreadType, L.top <= Limit(L), NEW n \in Nat
  PROVE  LET G == luaD_checkstack(L, n)
         IN  /\ Resized(L, G) /\ G.size_ci = L.size_ci /\ L.stacksize <= G.stacksize
             /\ Limit(L) <= Limit(G) /\ L.top + n <= Limit(G) /\ L.top + n <= StackLast(G)
             /\ Over(L.status) <= EXTRA_STACK => L.top + n + 1 <= StackLast(G)
<1>1. /\ L \in ThreadType /\ L.top \in Nat /\ L.stacksize \in Nat /\ EXTRA_STACK \in Nat /\ StackLast(L) \in Int
      /\ L.top <= StackLast(L) + Over(L.status) /\ StackLast(L) + EXTRA_STACK + 1 = L.stacksize
      /\ Over(L.status) \in Int /\ 0 <= Over(L.status) + 1 /\ Over(L.status) <= EXTRA_STACK + 1
  BY FieldTypes, LimitOK, OverOK, SlackOK
<1> DEFINE big == IF n <= L.stacksize THEN 2 * L.stacksize ELSE L.stacksize + n
           room == big + 1 + EXTRA_STACK
           G == [L EXCEPT !.stacksize = room]
<1>2. CASE ~(StackLast(L) - L.top <= n)
  <2>1. luaD_checkstack(L, n) = L
    BY <1>2 DEF luaD_checkstack
  <2>2. L.top + n + 1 <= StackLast(L)
    BY <1>1, <1>2
  <2>3. Limit(L) = StackLast(L) + Over(L.status) /\ Limit(L) \in Int
    BY LimitOK
  <2>4. L.top + n <= Limit(L) /\ L.top + n <= StackLast(L) /\ L.stacksize <= L.stacksize
    BY <1>1, <2>2, <2>3
  <2>5. Resized(L, L)
    BY DEF Resized
  <2>6. QED
    BY <2>1, <2>2, <2>3, <2>4, <2>5
<1>3. CASE StackLast(L) - L.top <= n
  <2>1. luaD_checkstack(L, n) = G
    BY <1>3 DEF luaD_checkstack, luaD_growstack, luaD_reallocstack
  <2>2. /\ room \in Nat /\ L.stacksize <= room
        /\ L.top + n <= (room - EXTRA_STACK) - 1 /\ StackLast(L) <= (room - EXTRA_STACK) - 1
        /\ Over(L.status) <= EXTRA_STACK => L.top + n + 1 <= (room - EXTRA_STACK) - 1
    BY <1>1
  <2> HIDE DEF room
  <2>3. G \in ThreadType
    BY <1>1, <2>2, ZenonT(30) DEF ThreadType
  <2>4. Resized(L, G) /\ G.size_ci = L.size_ci /\ G.stacksize = room
    BY <1>1, <2>3 DEF Resized, ThreadType
  <2> HIDE DEF G
  <2>5. StackLast(G) = (room - EXTRA_STACK) - 1
    BY <2>4 DEF StackLast
  <2>6. /\ Limit(G) = StackLast(G) + Over(L.status) /\ Limit(L) = StackLast(L) + Over(L.status)
        /\ Limit(L) \in Int /\ StackLast(G) \in Int /\ Limit(G) \in Int
    BY <2>3, <2>4, LimitOK DEF Resized
  <2>7. Limit(L) <= Limit(G) /\ L.top + n <= Limit(G)
    BY <1>1, <2>2, <2>5, <2>6
  <2>8. QED
    BY <2>1, <2>2, <2>4, <2>5, <2>7
<1>4. QED
  BY <1>2, <1>3

(* A thread with a larger stack still holds its calls. *)
LEMMA FramesResized ==
  ASSUME NEW L, NEW G, Frames(L), Resized(L, G), Len(L.ci) <= G.size_ci, 2 <= G.size_ci,
         G.top <= Limit(G), \A i \in 1 .. Len(L.ci) : L.ci[i].top <= Limit(G)
  PROVE  Frames(G)
  BY DEF Frames, Resized, FrameOK

(* ... in particular when the stack has grown *)
LEMMA FramesGrown ==
  ASSUME NEW L, NEW G, Frames(L), Resized(L, G), Len(L.ci) <= G.size_ci, 2 <= G.size_ci,
         L.stacksize <= G.stacksize
  PROVE  Frames(G)
<1>1. /\ L \in ThreadType /\ G \in ThreadType /\ L.top <= Limit(L) /\ G.top = L.top /\ G.status = L.status
      /\ L.stacksize \in Nat /\ G.stacksize \in Nat /\ EXTRA_STACK \in Nat /\ L.top \in Nat
  BY FieldTypes, LimitsAssumption DEF Frames, Resized
<1>2. Limit(L) \in Int /\ Limit(G) \in Int /\ Limit(L) <= Limit(G)
  <2>1. /\ Limit(L) = StackLast(L) + Over(L.status) /\ Limit(G) = StackLast(G) + Over(L.status)
        /\ StackLast(L) + EXTRA_STACK + 1 = L.stacksize /\ StackLast(G) + EXTRA_STACK + 1 = G.stacksize
        /\ Limit(L) \in Int /\ Limit(G) \in Int /\ StackLast(L) \in Int /\ StackLast(G) \in Int
        /\ Over(L.status) \in Int
    BY <1>1, LimitOK, OverOK
  <2>2. QED
    BY <1>1, <2>1
<1>3. G.top <= Limit(G)
  BY <1>1, <1>2
<1>4. ASSUME NEW i \in 1 .. Len(L.ci) PROVE L.ci[i].top <= Limit(G)
  <2>1. L.ci[i].top \in Nat /\ L.ci[i].top <= Limit(L)
    BY <1>1, CallTypes DEF Frames, FrameOK
  <2>2. QED
    BY <1>2, <2>1
<1>5. QED
  BY <1>3, <1>4, FramesResized

(* ... and its handlers and counts are what they were. *)
LEMMA LiveResized ==
  ASSUME NEW L, NEW G, Resized(L, G)
  PROVE  /\ Live(L) => Live(G)
         /\ Settled(L) => Settled(G)
         /\ Dormant(L) => Dormant(G)
<1>1. \A k : CCalls(G, k) = CCalls(L, k) /\ (NoErrfn(G, k) <=> NoErrfn(L, k)) /\ (Handled(G, k) <=> Handled(L, k))
  BY DEF Resized, CCalls, NoErrfn, Handled
<1>2. ASSUME NEW i PROVE HandlerOK(L, i) <=> HandlerOK(G, i)
  BY <1>1, Zenon DEF Resized, HandlerOK
<1>3. Handlers(L) => Handlers(G)
  BY <1>1, <1>2 DEF Resized, Handlers
<1>4. Live(L) => Live(G)
  BY <1>1, <1>3 DEF Resized, Live
<1>5. Settled(L) => Settled(G)
  BY <1>1 DEF Resized, Settled, Begun
<1>6. Dormant(L) => Dormant(G)
  BY <1>1 DEF Resized, Dormant, Begun
<1>7. QED
  BY <1>4, <1>5, <1>6

(* G has the calls and the handlers of L, and no fewer C calls. *)
Alike(L, G) ==
  /\ G.status = L.status /\ G.base = L.base /\ G.ci = L.ci
  /\ G.baseCcalls = L.baseCcalls /\ G.errfunc = L.errfunc /\ G.jmp = L.jmp
  /\ L.nCcalls <= G.nCcalls

(* What an error leaves of L where it is raised. *)
Raised(L, G, e) == Frames(G) /\ Alike(L, G) /\ (e = "msg" => G.base + 1 <= G.top) /\ Outside(e)

(* Threads with the same calls and handlers are live together. *)
LEMMA LiveAlike ==
  ASSUME NEW L, NEW G, L \in ThreadType, G \in ThreadType, Alike(L, G)
  PROVE  (Live(L) => Live(G)) /\ (Guarded(L) => Guarded(G)) /\ (Begun(L) => Begun(G))
<1>1. \A k : CCalls(G, k) = CCalls(L, k) /\ (NoErrfn(G, k) <=> NoErrfn(L, k)) /\ (Handled(G, k) <=> Handled(L, k))
  BY DEF Alike, CCalls, NoErrfn, Handled
<1>2. ASSUME NEW i PROVE HandlerOK(L, i) <=> HandlerOK(G, i)
  BY <1>1, Zenon DEF Alike, HandlerOK
<1>3. Handlers(L) => Handlers(G)
  BY <1>1, <1>2 DEF Alike, Handlers
<1>4. Len(L.ci) \in Nat /\ L.nCcalls \in Nat /\ G.nCcalls \in Nat /\ L.baseCcalls \in Nat
  BY FieldTypes
<1>5. CCalls(L, Len(L.ci)) \in Nat
  BY <1>4, CCallsNat
<1>6. Live(L) => Live(G)
  BY <1>1, <1>3, <1>4, <1>5 DEF Alike, Live
<1>7. Guarded(L) => Guarded(G)
  BY <1>1 DEF Alike, Guarded
<1>8. Begun(L) => Begun(G)
  BY DEF Alike, Begun
<1>9. QED
  BY <1>6, <1>7, <1>8

(* Another top, within the stack. *)
LEMMA TopSet ==
  ASSUME NEW L, Frames(L), NEW n \in Nat, L.base <= n, n <= Limit(L)
  PROVE  LET G == [L EXCEPT !.top = n]
         IN  /\ Frames(G) /\ Alike(L, G) /\ G.top = n
             /\ G.nCcalls = L.nCcalls /\ G.stacksize = L.stacksize /\ G.size_ci = L.size_ci
<1> DEFINE G == [L EXCEPT !.top = n]
<1>1. L \in ThreadType
  BY DEF Frames
<1>2. G \in ThreadType
  BY <1>1, ZenonT(30) DEF ThreadType
<1>3. /\ Alike(L, G) /\ G.top = n
      /\ G.nCcalls = L.nCcalls /\ G.stacksize = L.stacksize /\ G.size_ci = L.size_ci
  BY <1>1 DEF ThreadType, Alike
<1> HIDE DEF G
<1>4. Limit(G) = Limit(L)
  BY <1>3 DEF Alike, Limit, StackLast
<1>5. Frames(G)
  BY <1>2, <1>3, <1>4 DEF Frames, FrameOK, Alike
<1> USE DEF G
<1>6. QED
  BY <1>3, <1>5

(* Another count of C calls. *)
LEMMA CountSet ==
  ASSUME NEW L, Frames(L), NEW n \in Nat
  PROVE  LET G == [L EXCEPT !.nCcalls = n]
         IN  /\ Frames(G) /\ G.nCcalls = n /\ G.top = L.top /\ (L.nCcalls <= n => Alike(L, G))
             /\ G.status = L.status /\ G.base = L.base /\ G.ci = L.ci
             /\ G.baseCcalls = L.baseCcalls /\ G.errfunc = L.errfunc /\ G.jmp = L.jmp
             /\ G.stacksize = L.stacksize /\ G.size_ci = L.size_ci
<1> DEFINE G == [L EXCEPT !.nCcalls = n]
<1>1. L \in ThreadType
  BY DEF Frames
<1>2. G \in ThreadType
  BY <1>1, ZenonT(30) DEF ThreadType
<1>3. /\ G.nCcalls = n /\ G.top = L.top /\ G.status = L.status /\ G.base = L.base /\ G.ci = L.ci
      /\ G.baseCcalls = L.baseCcalls /\ G.errfunc = L.errfunc /\ G.jmp = L.jmp
      /\ G.stacksize = L.stacksize /\ G.size_ci = L.size_ci
  BY <1>1 DEF ThreadType
<1> HIDE DEF G
<1>4. Limit(G) = Limit(L)
  BY <1>3 DEF Limit, StackLast
<1>5. Frames(G) /\ (L.nCcalls <= n => Alike(L, G))
  BY <1>2, <1>3, <1>4 DEF Frames, FrameOK, Alike
<1> USE DEF G
<1>6. QED
  BY <1>3, <1>5

(* Pushing values grows the stack if need be (incr_top, luaD_checkstack). *)
LEMMA PushOK ==
  ASSUME NEW L, Frames(L), NEW n \in Nat
  PROVE  LET G == Push(L, n)
         IN  /\ Frames(G) /\ Alike(L, G) /\ G.top = L.top + n /\ G.nCcalls = L.nCcalls /\ G.size_ci = L.size_ci
<1> DEFINE C == luaD_checkstack(L, n)
           m == L.top + n
<1>1. /\ Resized(L, C) /\ C.size_ci = L.size_ci
      /\ L.stacksize <= C.stacksize /\ L.top + n <= Limit(C)
  BY Checked DEF Frames
<1>2. L \in ThreadType /\ L.top \in Nat /\ L.base \in Nat /\ L.base <= L.top /\ L.nCcalls \in Nat
      /\ Len(L.ci) <= L.size_ci /\ 2 <= L.size_ci
  BY FieldTypes DEF Frames
<1>3. Push(L, n) = [C EXCEPT !.top = C.top + n]
  BY DEF Push
<1> HIDE DEF C
<1>4. Frames(C) /\ Alike(L, C) /\ C.nCcalls = L.nCcalls
  BY <1>1, <1>2, FramesGrown DEF Resized, Alike
<1>5. C.top + n = m /\ m \in Nat /\ C.base <= m /\ m <= Limit(C)
  BY <1>1, <1>2 DEF Resized
<1> HIDE DEF m
<1>6. Push(L, n) = [C EXCEPT !.top = m]
  BY <1>3, <1>5
<1> DEFINE G == [C EXCEPT !.top = m]
<1>7. Frames(G) /\ Alike(C, G) /\ G.top = m /\ G.nCcalls = C.nCcalls /\ G.size_ci = C.size_ci
  BY <1>4, <1>5, TopSet
<1> HIDE DEF G
<1>8. Alike(L, G)
  BY <1>2, <1>4, <1>7 DEF Alike
<1>9. m = L.top + n
  BY DEF m
<1>10. Push(L, n) = G
  BY <1>6 DEF G
<1>11. QED
  BY <1>1, <1>4, <1>7, <1>8, <1>9, <1>10

(* Values above the top leave the stack only after a large vararg function. *)
LEMMA BeyondOK ==
  ASSUME NEW L, Frames(L), L.status \notin {"errrun", "errerr"}, NEW n \in 0 .. 3, Beyond(L, n)
  PROVE  EXTRA_STACK <= Slack
<1>1. /\ L.top \in Nat /\ L.top <= StackLast(L) + Slack - 1 /\ StackLast(L) + EXTRA_STACK + 1 = L.stacksize
      /\ StackLast(L) \in Int /\ Slack \in Nat /\ EXTRA_STACK \in Nat
  BY LimitOK, OverOK, SlackOK, FieldTypes DEF Frames
<1>2. L.top + n > L.stacksize
  BY DEF Beyond
<1>3. QED
  BY <1>1, <1>2

(* An error leaves its message on the stack (luaG_runerror). *)
LEMMA RunerrorOK ==
  ASSUME NEW L, Frames(L), L.status \notin {"errrun", "errerr"}
  PROVE  /\ luaG_runerror(L).err \in {"msg", "outside"}
         /\ Raised(L, luaG_runerror(L).L, luaG_runerror(L).err)
<1> DEFINE G == Push(L, 1)
<1>1. 1 \in Nat /\ 1 \in 0 .. 3 /\ L.top \in Nat /\ L.base \in Nat /\ L.base <= L.top /\ L.nCcalls \in Nat
  BY FieldTypes DEF Frames
<1>2. Frames(G) /\ Alike(L, G) /\ G.top = L.top + 1
  BY <1>1, PushOK
<1> HIDE DEF G
<1>3. CASE Beyond(L, 1)
  <2>1. luaG_runerror(L) = Step(L, "outside")
    BY <1>3 DEF luaG_runerror
  <2>2. Alike(L, L)
    BY <1>1 DEF Alike
  <2>3. EXTRA_STACK <= Slack
    BY <1>1, <1>3, BeyondOK
  <2>4. QED
    BY <2>1, <2>2, <2>3 DEF Step, Raised, Outside
<1>4. CASE ~Beyond(L, 1)
  <2>1. luaG_runerror(L) = Step(G, "msg")
    BY <1>4 DEF luaG_runerror, G
  <2>2. G.base + 1 <= G.top
    BY <1>1, <1>2 DEF Alike
  <2>3. QED
    BY <1>2, <2>1, <2>2 DEF Step, Raised, Outside
<1>5. QED
  BY <1>3, <1>4

-----------------------------------------------------------------------------
(* Calls.                                                                  *)

(* G is L with the call f on top of its calls. *)
Appended(L, G, f) ==
  /\ G \in ThreadType /\ G.ci = Append(L.ci, f) /\ Len(L.ci) + 1 <= G.size_ci /\ 2 <= G.size_ci
  /\ G.status = L.status /\ G.top = L.top /\ G.base = L.base /\ G.stacksize = L.stacksize
  /\ G.nCcalls = L.nCcalls /\ G.baseCcalls = L.baseCcalls /\ G.errfunc = L.errfunc /\ G.jmp = L.jmp

(* inc_ci adds the call, which it always does at the bottom of a thread, or fails. *)
LEMMA IncCi ==
  ASSUME NEW L, Frames(L), NEW f \in Call, L.status \notin {"errrun", "errerr"}
  PROVE  LET r == inc_ci(L, f)
         IN  /\ \/ r.err = "no" /\ Appended(L, r.L, f)
                \/ r.err \in {"msg", "errerr", "outside"} /\ Raised(L, r.L, r.err)
             /\ Len(L.ci) = 1 => r.err = "no"
<1> DEFINE two == 2 * L.size_ci
           G == [L EXCEPT !.size_ci = two]
           more == Append(L.ci, f)
           A == [L EXCEPT !.ci = more]
           B == [G EXCEPT !.ci = more]
<1>1. /\ L \in ThreadType /\ L.size_ci \in Nat /\ L.ci \in Seq(Call) /\ Len(L.ci) \in Nat
      /\ 2 <= L.size_ci /\ Len(L.ci) <= L.size_ci /\ LUAI_MAXCALLS \in Nat /\ L.nCcalls \in Nat /\ L.top \in Nat
  BY FieldTypes, LimitsAssumption DEF Frames
<1>2. more \in Seq(Call) /\ two \in Nat /\ L.size_ci < two
  BY <1>1
<1> HIDE DEF more, two
<1>3. G \in ThreadType
  BY <1>1, <1>2, ZenonT(30) DEF ThreadType
<1>4. Resized(L, G) /\ G.size_ci = two /\ G.stacksize = L.stacksize
  BY <1>1, <1>3 DEF ThreadType, Resized
<1>5. A \in ThreadType
  BY <1>1, <1>2, ZenonT(30) DEF ThreadType
<1>6. /\ A.ci = more /\ A.size_ci = L.size_ci
      /\ A.status = L.status /\ A.top = L.top /\ A.base = L.base /\ A.stacksize = L.stacksize
      /\ A.nCcalls = L.nCcalls /\ A.baseCcalls = L.baseCcalls /\ A.errfunc = L.errfunc /\ A.jmp = L.jmp
  BY <1>1 DEF ThreadType
<1>7. B \in ThreadType
  <2> HIDE DEF G
  <2>1. QED
    BY <1>2, <1>3, ZenonT(30) DEF ThreadType
<1>8. /\ B.ci = more /\ B.size_ci = G.size_ci
      /\ B.status = G.status /\ B.top = G.top /\ B.base = G.base /\ B.stacksize = G.stacksize
      /\ B.nCcalls = G.nCcalls /\ B.baseCcalls = G.baseCcalls /\ B.errfunc = G.errfunc /\ B.jmp = G.jmp
  <2> HIDE DEF G
  <2>1. QED
    BY <1>3 DEF ThreadType
<1>9. CASE Len(L.ci) < L.size_ci
  <2>1. inc_ci(L, f) = Step(A, "no")
    BY <1>9 DEF inc_ci, more
  <2> HIDE DEF A
  <2>2. Appended(L, A, f)
    BY <1>1, <1>5, <1>6, <1>9 DEF Appended, more
  <2>3. QED
    BY <2>1, <2>2 DEF Step
<1>10. CASE Len(L.ci) = L.size_ci
  <2>1. Len(L.ci) # 1
    BY <1>1, <1>10
  <2>2. CASE L.size_ci > LUAI_MAXCALLS
    <3>1. inc_ci(L, f) = Step(L, "errerr")
      BY <1>1, <1>10, <2>2 DEF inc_ci
    <3>2. Raised(L, L, "errerr")
      BY <1>1 DEF Raised, Alike, Outside
    <3>3. QED
      BY <2>1, <3>1, <3>2 DEF Step
  <2>3. CASE ~(L.size_ci > LUAI_MAXCALLS)
    <3>1. inc_ci(L, f) = IF G.size_ci > LUAI_MAXCALLS THEN luaG_runerror(G) ELSE Step(B, "no")
      BY <1>1, <1>10, <2>3 DEF inc_ci, two, more
    <3> HIDE DEF G, B
    <3>2. CASE G.size_ci > LUAI_MAXCALLS
      <4>1. L.stacksize <= G.stacksize /\ G.status \notin {"errrun", "errerr"}
        BY <1>1, <1>4, FieldTypes DEF Resized
      <4>2. Frames(G)
        BY <1>1, <1>2, <1>4, <4>1, FramesGrown
      <4>3. /\ luaG_runerror(G).err \in {"msg", "outside"}
            /\ Raised(G, luaG_runerror(G).L, luaG_runerror(G).err)
        BY <4>1, <4>2, RunerrorOK
      <4>4. Raised(L, luaG_runerror(G).L, luaG_runerror(G).err)
        BY <1>4, <4>3 DEF Raised, Resized, Alike
      <4>5. QED
        BY <2>1, <3>1, <3>2, <4>3, <4>4
    <3>3. CASE ~(G.size_ci > LUAI_MAXCALLS)
      <4>1. Appended(L, B, f)
        BY <1>1, <1>2, <1>4, <1>7, <1>8, <1>10 DEF Appended, Resized, more
      <4>2. QED
        BY <2>1, <3>1, <3>3, <4>1 DEF Step
    <3>4. QED
      BY <3>2, <3>3
  <2>4. QED
    BY <2>2, <2>3
<1>11. QED
  BY <1>1, <1>9, <1>10

(* G is L having entered the call f. *)
Entered(L, G, f) ==
  /\ Frames(G) /\ G.ci = Append(L.ci, f)
  /\ G.status = L.status /\ G.nCcalls = L.nCcalls /\ G.baseCcalls = L.baseCcalls
  /\ G.errfunc = L.errfunc /\ G.jmp = L.jmp

(* What a prototype is known to be. *)
ProtoOK(p) ==
  /\ p.maxstacksize \in Nat \ {0, 1} /\ p.numparams \in Nat /\ p.is_vararg \in {"no", "dots", "arg"}
  /\ Params(p) <= p.maxstacksize
  /\ p.is_vararg = "dots" => p.numparams <= Slack \/ Slack = EXTRA_STACK + 2

(* The call could be made on top of L. *)
MayCall(L, fn, c, p, nargs) ==
  /\ fn \in LuaFn \cup CallNames \cup {"object", "value"} /\ c \in BOOLEAN /\ ProtoOK(p) /\ nargs \in Nat
  /\ L.base + nargs + 1 <= L.top /\ L.status \notin {"errrun", "errerr"}
  /\ Ci(L).fn \in PCall \cup {"c"} => c
  /\ fn # "errfn" => Ci(L).fn \in LuaFn \cup {"base", "c"} \cup PCall

(* What runs when fn is called. *)
Entry(fn) == IF fn = "object" THEN "lua" ELSE fn

(* The call f that luaD_precall makes. *)
Made(L, fn, c, nargs, f) ==
  /\ f \in Call /\ f.fn = Entry(fn) /\ f.c = c /\ f.func = (L.top - nargs) - 1
  /\ fn \in CallNames => f.base = f.func + 1 /\ f.top = L.top + LUA_MINSTACK

(* ... and what it makes of L *)
CallMade(L, fn, c, nargs, r) ==
  /\ r.err = "no"
  /\ \E f : /\ Made(L, fn, c, nargs, f) /\ Entered(L, r.L, f)
            /\ r.L.top = IF fn \in CallNames THEN L.top ELSE f.top

CallFailed(L, r) == r.err \in {"msg", "errerr", "outside"} /\ Raised(L, r.L, r.err)

(* The calls of a thread stay where they are when the stack grows. *)
LEMMA FramesMoved ==
  ASSUME NEW L, NEW G, Frames(L), G \in ThreadType, Alike(L, G), L.size_ci <= G.size_ci,
         L.stacksize <= G.stacksize, G.base <= G.top, G.top <= Limit(G)
  PROVE  Frames(G)
<1>1. /\ L \in ThreadType /\ G.status = L.status /\ G.ci = L.ci /\ G.base = L.base
      /\ L.stacksize \in Nat /\ G.stacksize \in Nat /\ EXTRA_STACK \in Nat
      /\ L.size_ci \in Nat /\ G.size_ci \in Nat /\ Len(L.ci) \in Nat /\ Len(L.ci) <= L.size_ci /\ 2 <= L.size_ci
  BY FieldTypes, LimitsAssumption DEF Frames, Alike
<1>2. Limit(L) \in Int /\ Limit(G) \in Int /\ Limit(L) <= Limit(G)
  <2>1. /\ Limit(L) = StackLast(L) + Over(L.status) /\ Limit(G) = StackLast(G) + Over(L.status)
        /\ StackLast(L) + EXTRA_STACK + 1 = L.stacksize /\ StackLast(G) + EXTRA_STACK + 1 = G.stacksize
        /\ Limit(L) \in Int /\ Limit(G) \in Int /\ StackLast(L) \in Int /\ StackLast(G) \in Int
        /\ Over(L.status) \in Int
    BY <1>1, LimitOK, OverOK
  <2>2. QED
    BY <1>1, <2>1
<1>3. ASSUME NEW i \in 1 .. Len(L.ci) PROVE FrameOK(G, L.ci[i])
  <2>1. L.ci[i].top \in Nat /\ FrameOK(L, L.ci[i])
    BY <1>1, CallTypes DEF Frames
  <2>2. QED
    BY <1>2, <2>1 DEF FrameOK
<1>4. Len(G.ci) <= G.size_ci /\ 2 <= G.size_ci
  BY <1>1
<1>5. QED
  BY <1>1, <1>3, <1>4 DEF Frames

InCall(R, B, f, top) == R = [B EXCEPT !.base = f.base, !.top = top]

(* The thread R has entered the call f, which lies on its stack. *)
LEMMA EnterOK ==
  ASSUME NEW L, Frames(L), NEW B, NEW f \in Call, Appended(L, B, f), NEW top \in Nat,
         FrameOK(L, f), Above(Ci(L), f), f.base <= top, top <= Limit(L),
         NEW R, InCall(R, B, f, top)
  PROVE  Entered(L, R, f) /\ R.top = top
<1> DEFINE base == f.base
<1>0. R = [B EXCEPT !.base = base, !.top = top]
  BY DEF InCall
<1>1. /\ L \in ThreadType /\ Len(L.ci) \in Nat \ {0} /\ L.ci \in Seq(Call) /\ Ci(L) = L.ci[Len(L.ci)]
  BY LastCall, FieldTypes DEF Frames
<1>2. B \in ThreadType /\ base \in Nat
  BY DEF Appended, Call
<1> HIDE DEF base
<1>3. R \in ThreadType
  BY <1>0, <1>2, ZenonT(30) DEF ThreadType
<1>4. /\ R.base = base /\ R.top = top /\ R.ci = B.ci /\ R.stacksize = B.stacksize /\ R.size_ci = B.size_ci
      /\ R.status = B.status /\ R.nCcalls = B.nCcalls /\ R.baseCcalls = B.baseCcalls
      /\ R.errfunc = B.errfunc /\ R.jmp = B.jmp
  BY <1>0, <1>2 DEF ThreadType
<1>5. /\ R.ci = Append(L.ci, f) /\ R.stacksize = L.stacksize /\ Len(L.ci) + 1 <= R.size_ci /\ 2 <= R.size_ci
      /\ R.status = L.status /\ R.nCcalls = L.nCcalls /\ R.baseCcalls = L.baseCcalls
      /\ R.errfunc = L.errfunc /\ R.jmp = L.jmp
  BY <1>4 DEF Appended
<1>6. Limit(R) = Limit(L)
  BY <1>5 DEF Limit, StackLast
<1>7. Len(R.ci) = Len(L.ci) + 1 /\ R.ci[Len(L.ci) + 1] = f /\ \A i \in 1 .. Len(L.ci) : R.ci[i] = L.ci[i]
  BY <1>1, <1>5
<1>8. ASSUME NEW i \in 1 .. Len(R.ci)
      PROVE  FrameOK(R, R.ci[i])
  <2>1. CASE i = Len(L.ci) + 1
    BY <1>6, <1>7, <2>1 DEF FrameOK
  <2>2. CASE i # Len(L.ci) + 1
    <3>1. i \in 1 .. Len(L.ci)
      BY <1>1, <1>7, <2>2
    <3>2. FrameOK(L, L.ci[i])
      BY <3>1 DEF Frames
    <3>3. QED
      BY <1>6, <1>7, <3>1, <3>2 DEF FrameOK
  <2>3. QED
    BY <2>1, <2>2
<1>9. ASSUME NEW i \in 1 .. Len(R.ci) - 1
      PROVE  Above(R.ci[i], R.ci[i + 1])
  <2>1. CASE i = Len(L.ci)
    BY <1>1, <1>7, <2>1
  <2>2. CASE i # Len(L.ci)
    <3>1. i \in 1 .. Len(L.ci) - 1 /\ i \in 1 .. Len(L.ci) /\ i + 1 \in 1 .. Len(L.ci)
      BY <1>1, <1>7, <2>2
    <3>2. Above(L.ci[i], L.ci[i + 1])
      BY <3>1 DEF Frames
    <3>3. QED
      BY <1>7, <3>1, <3>2
  <2>3. QED
    BY <2>1, <2>2
<1>10. R.ci # <<>> /\ R.ci[1].fn = "base" /\ ~R.ci[1].c /\ Len(R.ci) <= R.size_ci /\ 2 <= R.size_ci
  <2>1. 1 \in 1 .. Len(L.ci) /\ L.ci[1].fn = "base" /\ ~L.ci[1].c
    BY <1>1 DEF Frames
  <2>2. R.ci[1] = L.ci[1] /\ R.ci \in Seq(Call)
    BY <1>3, <1>7, <2>1, FieldTypes
  <2>3. QED
    BY <1>1, <1>5, <1>7, <2>1, <2>2
<1>11. R.base = R.ci[Len(R.ci)].base /\ R.base <= R.top /\ R.top <= Limit(R)
  BY <1>1, <1>4, <1>6, <1>7 DEF base
<1>12. Frames(R)
  BY <1>3, <1>8, <1>9, <1>10, <1>11 DEF Frames
<1>13. Entered(L, R, f) /\ R.top = top
  BY <1>4, <1>5, <1>12 DEF Entered
<1>14. QED
  BY <1>13

(* The numbers of luaD_precall for a Lua function: where the function is,  *)
(* how many parameters are missing, the frame and what is filled of it.    *)
FuncAt(L, nargs) == (L.top - nargs) - 1
Missing(p, nargs) == IF p.is_vararg # "no" /\ nargs < p.numparams THEN p.numparams - nargs ELSE 0
NewBase(L, p, nargs) == IF p.is_vararg = "no" THEN FuncAt(L, nargs) + 1 ELSE L.top + Missing(p, nargs)
NewTop(L, p, nargs) == NewBase(L, p, nargs) + p.maxstacksize
Filled(L, p, nargs) ==
  IF p.is_vararg = "no" /\ L.top <= NewBase(L, p, nargs) + Params(p)
  THEN L.top ELSE NewBase(L, p, nargs) + Params(p)
Checked1(L, p) == luaD_checkstack(L, p.maxstacksize)
Checked2(L, p, nargs) ==
  IF p.is_vararg = "arg"
  THEN luaD_checkstack([Checked1(L, p) EXCEPT !.top = @ + Missing(p, nargs)], p.maxstacksize)
  ELSE Checked1(L, p)

(* Where the frame of a Lua function lies. *)
LEMMA LuaNumbers ==
  ASSUME NEW L, Frames(L), NEW p, ProtoOK(p), NEW nargs \in Nat, L.base + nargs + 1 <= L.top
  PROVE  /\ FuncAt(L, nargs) \in Nat /\ L.base <= FuncAt(L, nargs) /\ FuncAt(L, nargs) <= L.top
         /\ Missing(p, nargs) \in Nat /\ Missing(p, nargs) <= p.numparams
         /\ NewBase(L, p, nargs) \in Nat /\ FuncAt(L, nargs) < NewBase(L, p, nargs)
         /\ NewTop(L, p, nargs) \in Nat /\ NewBase(L, p, nargs) <= NewTop(L, p, nargs)
         /\ Filled(L, p, nargs) \in Nat /\ L.base + 1 <= Filled(L, p, nargs)
         /\ Filled(L, p, nargs) <= NewTop(L, p, nargs)
         /\ p.is_vararg = "no" => NewTop(L, p, nargs) <= L.top + p.maxstacksize
         /\ p.is_vararg # "no" => NewTop(L, p, nargs) = L.top + Missing(p, nargs) + p.maxstacksize
<1> DEFINE size == p.maxstacksize
           par == p.numparams
           params1 == Params(p)
<1>1. L.top \in Nat /\ L.base \in Nat
  BY FieldTypes DEF Frames
<1>2. size \in Nat /\ par \in Nat /\ params1 \in Nat /\ params1 <= size
  BY DEF ProtoOK, Params
<1> HIDE DEF size, par, params1
<1>3. FuncAt(L, nargs) \in Nat /\ L.base <= FuncAt(L, nargs) /\ FuncAt(L, nargs) <= L.top /\ FuncAt(L, nargs) + 1 <= L.top
  BY <1>1 DEF FuncAt
<1>4. Missing(p, nargs) \in Nat /\ Missing(p, nargs) <= par
  BY <1>2 DEF Missing, par
<1>5. /\ NewBase(L, p, nargs) \in Nat /\ FuncAt(L, nargs) + 1 <= NewBase(L, p, nargs)
      /\ p.is_vararg = "no" => NewBase(L, p, nargs) <= L.top
      /\ p.is_vararg # "no" => NewBase(L, p, nargs) = L.top + Missing(p, nargs)
  BY <1>1, <1>3, <1>4 DEF NewBase
<1>6. NewTop(L, p, nargs) = NewBase(L, p, nargs) + size
  BY DEF NewTop, size
<1>7. Filled(L, p, nargs) = IF p.is_vararg = "no" /\ L.top <= NewBase(L, p, nargs) + params1
                            THEN L.top ELSE NewBase(L, p, nargs) + params1
  BY DEF Filled, params1
<1>8. /\ Filled(L, p, nargs) \in Nat /\ L.base + 1 <= Filled(L, p, nargs)
      /\ Filled(L, p, nargs) <= NewTop(L, p, nargs)
  BY <1>1, <1>2, <1>3, <1>5, <1>6, <1>7
<1>9. /\ NewTop(L, p, nargs) \in Nat /\ NewBase(L, p, nargs) <= NewTop(L, p, nargs)
      /\ p.is_vararg = "no" => NewTop(L, p, nargs) <= L.top + size
      /\ p.is_vararg # "no" => NewTop(L, p, nargs) = L.top + Missing(p, nargs) + size
  BY <1>1, <1>2, <1>4, <1>5, <1>6
<1>10. QED
  BY <1>3, <1>4, <1>5, <1>8, <1>9 DEF size, par

(* G is L with another top and, maybe, a larger stack. *)
Moved(L, G) ==
  /\ G \in ThreadType /\ Alike(L, G) /\ G.nCcalls = L.nCcalls /\ G.size_ci = L.size_ci
  /\ L.stacksize <= G.stacksize

(* The stack has room for it, unless it is a vararg function that can leave the stack. *)
LEMMA LuaRoom ==
  ASSUME NEW L, Frames(L), L.status \notin {"errrun", "errerr"}, NEW p, ProtoOK(p),
         NEW nargs \in Nat, L.base + nargs + 1 <= L.top
  PROVE  /\ Moved(L, Checked1(L, p)) /\ Frames(Checked1(L, p))
         /\ Moved(L, Checked2(L, p, nargs))
         /\ NewTop(L, p, nargs) <= Limit(Checked2(L, p, nargs)) \/ Slack = EXTRA_STACK + 2
<1> DEFINE size == p.maxstacksize
           miss == Missing(p, nargs)
           C == Checked1(L, p)
           D == Checked2(L, p, nargs)
           ctop == NewTop(L, p, nargs)
<1>1. /\ L \in ThreadType /\ L.top \in Nat /\ L.base \in Nat /\ L.nCcalls \in Nat /\ L.stacksize \in Nat
      /\ L.top <= Limit(L) /\ L.size_ci \in Nat /\ Len(L.ci) <= L.size_ci /\ 2 <= L.size_ci /\ L.base <= L.top
  BY FieldTypes DEF Frames
<1>2. size \in Nat /\ 2 <= size /\ miss \in Nat /\ miss <= p.numparams /\ p.numparams \in Nat /\ ctop \in Nat
  BY LuaNumbers DEF ProtoOK
<1>3. /\ Resized(L, C) /\ C.size_ci = L.size_ci /\ L.stacksize <= C.stacksize
      /\ L.top + size <= Limit(C) /\ L.top + size <= StackLast(C)
      /\ Over(L.status) <= EXTRA_STACK => L.top + size + 1 <= StackLast(C)
  <2>1. C = luaD_checkstack(L, size)
    BY DEF Checked1
  <2> HIDE DEF size
  <2>2. QED
    BY <1>1, <1>2, <2>1, Checked
<1> HIDE DEF C
<1>4. Moved(L, C) /\ Frames(C) /\ C.top = L.top /\ C.status = L.status
  <2>1. C \in ThreadType /\ Alike(L, C) /\ C.nCcalls = L.nCcalls /\ C.top = L.top /\ C.status = L.status
    BY <1>1, <1>3 DEF Resized, Alike
  <2>2. Frames(C)
    BY <1>1, <1>3, FramesGrown
  <2>3. QED
    BY <1>3, <2>1, <2>2 DEF Moved
<1>5. /\ Limit(C) \in Int /\ StackLast(C) \in Int /\ Limit(C) = StackLast(C) + Over(L.status)
      /\ Over(L.status) = Slack - 1 /\ Slack \in Nat /\ EXTRA_STACK \in Nat /\ Slack <= EXTRA_STACK + 2
  BY <1>4, LimitOK, OverOK, SlackOK DEF Frames
<1>6. CASE p.is_vararg = "no"
  <2>1. D = C /\ ctop <= L.top + size
    BY <1>6, LuaNumbers DEF Checked2, C
  <2> HIDE DEF D, ctop, size
  <2>2. ctop <= Limit(C)
    BY <1>1, <1>2, <1>3, <1>5, <2>1
  <2>3. QED
    BY <1>4, <2>1, <2>2 DEF C, D, ctop
<1>7. CASE p.is_vararg = "dots"
  <2>1. D = C /\ ctop = L.top + miss + size
    BY <1>7, LuaNumbers DEF Checked2, C
  <2>2. p.numparams <= Slack \/ Slack = EXTRA_STACK + 2
    BY <1>7 DEF ProtoOK
  <2> HIDE DEF D, ctop, size, miss
  <2>3. ctop <= Limit(C) \/ Slack = EXTRA_STACK + 2
    BY <1>1, <1>2, <1>3, <1>5, <2>1, <2>2
  <2>4. QED
    BY <1>4, <2>1, <2>3 DEF C, D, ctop
<1>8. CASE p.is_vararg = "arg"
  <2> DEFINE up == L.top + miss
             M == [C EXCEPT !.top = up]
  <2>1. D = luaD_checkstack(M, size) /\ ctop = up + size
    <3>1. C.top + miss = up
      BY <1>4
    <3>2. QED
      BY <1>8, <3>1, LuaNumbers DEF Checked2, C
  <2>2. miss <= size
    <3>1. p.numparams <= size
      BY <1>2, <1>8 DEF ProtoOK, Params
    <3>2. QED
      BY <1>2, <3>1
  <2> HIDE DEF D, ctop, size, miss
  <2>3. up \in Nat /\ C.base <= up /\ up <= Limit(C) /\ up = L.top + miss
    <3>1. C.base = L.base
      BY <1>4 DEF Moved, Alike
    <3>2. L.top + size <= Limit(C) /\ Limit(C) \in Int
      BY <1>3, <1>5
    <3> DEFINE x == L.top
               y == L.base
               z == Limit(C)
    <3>3. x \in Nat /\ y \in Nat /\ y <= x /\ x + size <= z /\ z \in Int /\ size \in Nat /\ miss \in Nat /\ miss <= size
      BY <1>1, <1>2, <2>2, <3>2
    <3>4. up = x + miss /\ C.base = y
      BY <3>1
    <3> HIDE DEF x, y, z
    <3>5. x + miss \in Nat /\ y <= x + miss /\ x + miss <= z
      BY ONLY <3>3
    <3>6. QED
      BY <3>4, <3>5 DEF x, z
  <2> HIDE DEF up
  <2>4. Frames(M) /\ Alike(C, M) /\ M.top = up /\ M.nCcalls = C.nCcalls /\ M.stacksize = C.stacksize /\ M.size_ci = C.size_ci
    BY <1>4, <2>3, TopSet
  <2> HIDE DEF M
  <2>5. /\ Resized(M, D) /\ D.size_ci = M.size_ci /\ M.stacksize <= D.stacksize /\ M.top + size <= Limit(D)
    BY <1>2, <2>1, <2>4, Checked DEF Frames
  <2>6. Moved(L, D)
    <3>1. D.stacksize \in Nat /\ M.stacksize \in Nat /\ D \in ThreadType /\ M \in ThreadType
      BY <2>4, <2>5, FieldTypes DEF Resized, Frames
    <3>2. L.stacksize <= D.stacksize
      BY <1>1, <1>3, <2>4, <2>5, <3>1
    <3>3. Alike(L, D) /\ D.nCcalls = L.nCcalls /\ D.size_ci = L.size_ci
      BY <1>1, <1>4, <2>4, <2>5 DEF Moved, Alike, Resized
    <3>4. QED
      BY <3>1, <3>2, <3>3 DEF Moved
  <2>7. QED
    BY <1>4, <2>1, <2>4, <2>5, <2>6 DEF C, D, ctop
<1>9. QED
  BY <1>6, <1>7, <1>8 DEF ProtoOK

(* luaD_precall of a Lua function. *)
LEMMA CallLuaOK ==
  ASSUME NEW L, Frames(L), NEW fn \in LuaFn, NEW c, NEW p, NEW nargs, MayCall(L, fn, c, p, nargs)
  PROVE  LET r == CallLua(L, fn, c, p, nargs)
         IN  CallMade(L, fn, c, nargs, r) \/ (CallFailed(L, r) /\ (Len(L.ci) = 1 => r.err = "outside"))
<1> DEFINE func == FuncAt(L, nargs)
           base == NewBase(L, p, nargs)
           ctop == NewTop(L, p, nargs)
           fill == Filled(L, p, nargs)
           G == Checked1(L, p)
           H == Checked2(L, p, nargs)
           A == [H EXCEPT !.top = fill]
           f == [fn |-> fn, c |-> c, func |-> func, base |-> base, top |-> ctop]
           r == inc_ci(A, f)
           R == [r.L EXCEPT !.base = base, !.top = ctop]
           q == CallLua(L, fn, c, p, nargs)
<1>1. /\ q = IF Beyond(A, 0) THEN Step(G, "outside")
             ELSE IF r.err # "no" THEN r
             ELSE IF ctop > A.stacksize THEN Step(G, "outside")
             ELSE Step(R, "no")
  BY DEF CallLua, FuncAt, Missing, NewBase, NewTop, Filled, Checked1, Checked2
<1>2. /\ c \in BOOLEAN /\ ProtoOK(p) /\ nargs \in Nat /\ L.base + nargs + 1 <= L.top /\ fn \in Name
      /\ L.status \notin {"errrun", "errerr"} /\ fn \notin CallNames /\ Entry(fn) = fn
      /\ Ci(L).fn \in PCall \cup {"c"} => c
      /\ fn # "errfn" => Ci(L).fn \in LuaFn \cup {"base", "c"} \cup PCall
  BY DEF MayCall, LuaFn, CallNames, Name, Entry
<1>3. /\ func \in Nat /\ L.base <= func /\ func <= L.top /\ base \in Nat /\ func < base
      /\ ctop \in Nat /\ base <= ctop /\ fill \in Nat /\ L.base + 1 <= fill /\ fill <= ctop
      /\ func = (L.top - nargs) - 1
  BY <1>2, LuaNumbers DEF FuncAt
<1>4. Moved(L, G) /\ Frames(G) /\ Moved(L, H) /\ (ctop <= Limit(H) \/ Slack = EXTRA_STACK + 2)
  BY <1>2, LuaRoom
<1>5. /\ L \in ThreadType /\ L.base \in Nat /\ L.base = Ci(L).base /\ L.nCcalls \in Nat /\ Len(L.ci) \in Nat \ {0}
      /\ Ci(L) = L.ci[Len(L.ci)] /\ L.size_ci \in Nat /\ L.stacksize \in Nat
  BY LastCall, FieldTypes DEF Frames
<1> HIDE DEF func, base, ctop, fill, G, H
<1>6. A \in ThreadType
  BY <1>3, <1>4, ZenonT(30) DEF ThreadType, Moved
<1>7. /\ A.top = fill /\ A.base = H.base /\ A.ci = H.ci /\ A.status = H.status /\ A.stacksize = H.stacksize
      /\ A.size_ci = H.size_ci /\ A.nCcalls = H.nCcalls /\ A.baseCcalls = H.baseCcalls
      /\ A.errfunc = H.errfunc /\ A.jmp = H.jmp
  BY <1>4 DEF ThreadType, Moved
<1> HIDE DEF A
<1>8. Moved(L, A)
  BY <1>4, <1>6, <1>7 DEF Moved, Alike
<1>9. A.status = L.status /\ A.ci = L.ci /\ A.base = L.base /\ Ci(A) = Ci(L) /\ A.stacksize \in Nat
  BY <1>6, <1>8, FieldTypes DEF Moved, Alike, Ci
<1>10. Limit(A) = Limit(H) /\ Limit(A) \in Int /\ (Slack = EXTRA_STACK + 2 => Limit(A) = A.stacksize) /\ Limit(A) <= A.stacksize
  <2>1. Limit(A) = Limit(H)
    BY <1>7 DEF Limit, StackLast
  <2>2. /\ Limit(A) \in Int /\ Limit(A) = StackLast(A) + Slack - 1 /\ StackLast(A) \in Int /\ Limit(A) <= A.stacksize
        /\ StackLast(A) + EXTRA_STACK + 1 = A.stacksize /\ EXTRA_STACK \in Nat /\ Slack \in Nat
    BY <1>2, <1>6, <1>9, LimitOK, OverOK, SlackOK
  <2>3. QED
    BY <1>9, <2>1, <2>2
<1>11. f \in Call /\ f.fn = fn /\ f.c = c /\ f.func = func /\ f.base = base /\ f.top = ctop
  BY <1>2, <1>3, Zenon DEF Call
<1> HIDE DEF f
<1>12. Above(Ci(L), f)
  BY <1>2, <1>3, <1>5, <1>11 DEF Above
<1>13. ASSUME q = Step(G, "outside"), ~(ctop <= A.stacksize)
       PROVE  CallFailed(L, q) /\ q.err = "outside"
  <2>1. Slack = EXTRA_STACK + 2
    BY <1>3, <1>4, <1>9, <1>10, <1>13
  <2>2. EXTRA_STACK <= Slack
    BY <2>1, SlackOK
  <2>3. q.err = "outside" /\ q.L = G
    BY <1>13 DEF Step
  <2>4. Raised(L, G, "outside")
    BY <1>4, <2>2 DEF Raised, Moved, Outside
  <2> HIDE DEF q
  <2>5. QED
    BY <2>3, <2>4 DEF CallFailed
<1>14. CASE Beyond(A, 0)
  <2>1. q = Step(G, "outside")
    BY <1>1, <1>14
  <2>2. ~(ctop <= A.stacksize)
    BY <1>3, <1>7, <1>9, <1>14 DEF Beyond
  <2>3. QED
    BY <1>13, <2>1, <2>2
<1>15. CASE ~Beyond(A, 0)
  <2>1. Frames(A)
    <3>1. A.top <= Limit(A) /\ A.base <= A.top
      BY <1>3, <1>4, <1>5, <1>7, <1>9, <1>10, <1>15 DEF Beyond
    <3>2. Alike(L, A) /\ L.size_ci <= A.size_ci /\ L.stacksize <= A.stacksize
      BY <1>5, <1>8 DEF Moved
    <3>3. QED
      BY <1>6, <3>1, <3>2, FramesMoved
  <2>2. /\ \/ r.err = "no" /\ Appended(A, r.L, f)
           \/ r.err \in {"msg", "errerr", "outside"} /\ Raised(A, r.L, r.err)
        /\ Len(A.ci) = 1 => r.err = "no"
    BY <1>2, <1>9, <1>11, <2>1, IncCi
  <2> DEFINE B == r.L
             e == r.err
  <2>3. B = r.L /\ e = r.err /\ R = [B EXCEPT !.base = base, !.top = ctop]
    OBVIOUS
  <2>4. CASE r.err # "no"
    <3>1. q = r
      BY <1>1, <1>15, <2>4
    <3>2. e \in {"msg", "errerr", "outside"} /\ Raised(A, B, e) /\ Len(L.ci) # 1
      BY <1>9, <2>2, <2>4
    <3> HIDE DEF B, e, r
    <3>3. Raised(L, B, e)
      BY <1>8, <3>2 DEF Raised, Alike, Moved
    <3>4. q.err = e /\ q.L = B
      BY <2>3, <3>1
    <3> HIDE DEF q
    <3>5. CallFailed(L, q) /\ Len(L.ci) # 1
      BY <3>2, <3>3, <3>4 DEF CallFailed
    <3>6. QED
      BY <3>5 DEF q
  <2>5. CASE r.err = "no" /\ ctop > A.stacksize
    <3>1. q = Step(G, "outside")
      BY <1>1, <1>15, <2>5
    <3>2. ~(ctop <= A.stacksize)
      BY <1>3, <1>9, <2>5
    <3>3. QED
      BY <1>13, <3>1, <3>2
  <2>6. CASE r.err = "no" /\ ~(ctop > A.stacksize)
    <3>1. q = Step(R, "no")
      BY <1>1, <1>15, <2>6
    <3>2. Appended(A, B, f)
      BY <2>2, <2>6
    <3> HIDE DEF B, e, r
    <3>3. FrameOK(A, f) /\ ctop <= Limit(A) /\ f.base <= ctop
      BY <1>3, <1>4, <1>9, <1>10, <1>11, <2>6 DEF FrameOK
    <3>4. Above(Ci(A), f)
      BY <1>9, <1>12
    <3>5. InCall(R, B, f, ctop)
      BY <1>11, <2>3 DEF InCall
    <3>6. Entered(A, R, f) /\ R.top = ctop
      <4> HIDE DEF R
      <4>1. ctop \in Nat /\ f \in Call /\ f.base <= ctop /\ ctop <= Limit(A) /\ FrameOK(A, f)
        BY <1>3, <1>11, <3>3
      <4>2. QED
        BY ONLY <2>1, <3>2, <3>4, <3>5, <4>1, EnterOK
    <3> HIDE DEF R
    <3>7. Entered(L, R, f)
      BY <1>8, <3>6 DEF Entered, Moved, Alike
    <3>8. q.err = "no" /\ q.L = R
      BY <3>1 DEF Step
    <3> HIDE DEF q
    <3>9. Made(L, fn, c, nargs, f)
      BY <1>2, <1>3, <1>11 DEF Made
    <3>10. q.L.top = IF fn \in CallNames THEN L.top ELSE f.top
      BY <1>2, <1>11, <3>6, <3>8
    <3>11. CallMade(L, fn, c, nargs, q)
      BY <3>7, <3>8, <3>9, <3>10 DEF CallMade
    <3>12. QED
      BY <3>11 DEF q
  <2>7. QED
    BY <2>4, <2>5, <2>6
<1>16. QED
  BY <1>14, <1>15

(* luaD_precall of a C function. *)
LEMMA CallCOK ==
  ASSUME NEW L, Frames(L), NEW fn \in CallNames, NEW c, NEW p, NEW nargs, MayCall(L, fn, c, p, nargs), 2 <= Len(L.ci)
  PROVE  CallMade(L, fn, c, nargs, CallC(L, fn, c, nargs)) \/ CallFailed(L, CallC(L, fn, c, nargs))
<1> DEFINE func == FuncAt(L, nargs)
           base == func + 1
           ctop == L.top + LUA_MINSTACK
           G == luaD_checkstack(L, LUA_MINSTACK)
           f == [fn |-> fn, c |-> c, func |-> func, base |-> base, top |-> ctop]
           r == inc_ci(G, f)
           R == [r.L EXCEPT !.base = base]
           q == CallC(L, fn, c, nargs)
<1>1. q = IF r.err # "no" THEN r ELSE Step(R, "no")
  BY DEF CallC, FuncAt
<1>2. /\ c \in BOOLEAN /\ nargs \in Nat /\ L.base + nargs + 1 <= L.top /\ fn \in Name
      /\ L.status \notin {"errrun", "errerr"} /\ Entry(fn) = fn /\ fn # "errfn"
      /\ Ci(L).fn \in PCall \cup {"c"} => c
      /\ Ci(L).fn \in LuaFn \cup {"base", "c"} \cup PCall
      /\ LUA_MINSTACK \in Nat
  BY LimitsAssumption DEF MayCall, CallNames, Name, Entry
<1>3. /\ L \in ThreadType /\ L.base \in Nat /\ L.base = Ci(L).base /\ L.nCcalls \in Nat /\ Len(L.ci) \in Nat \ {0}
      /\ Ci(L) = L.ci[Len(L.ci)] /\ L.size_ci \in Nat /\ L.stacksize \in Nat /\ L.top \in Nat /\ L.top <= Limit(L)
      /\ Len(L.ci) <= L.size_ci /\ 2 <= L.size_ci
  BY LastCall, FieldTypes DEF Frames
<1>4. /\ func \in Nat /\ L.base <= func /\ base \in Nat /\ func < base /\ base <= L.top
      /\ ctop \in Nat /\ L.top <= ctop /\ base <= ctop /\ func = (L.top - nargs) - 1 /\ base = func + 1
      /\ ctop = L.top + LUA_MINSTACK
  <2>1. ProtoOK(p)
    BY DEF MayCall
  <2>2. func \in Nat /\ L.base <= func /\ func = (L.top - nargs) - 1
    BY <1>2, <2>1, LuaNumbers DEF FuncAt
  <2> DEFINE x == L.top
             y == LUA_MINSTACK
  <2>3. x \in Nat /\ y \in Nat /\ ctop = x + y /\ base = func + 1 /\ func = (x - nargs) - 1 /\ nargs \in Nat /\ func \in Nat
    BY <1>2, <1>3, <2>2
  <2> HIDE DEF x, y, func, base, ctop
  <2>4. base \in Nat /\ func < base /\ base <= x /\ ctop \in Nat /\ x <= ctop /\ base <= ctop
    BY ONLY <2>3
  <2>5. QED
    BY <2>2, <2>3, <2>4 DEF x, y
<1> HIDE DEF func, base, ctop
<1>5. /\ Resized(L, G) /\ G.size_ci = L.size_ci /\ L.stacksize <= G.stacksize /\ ctop <= Limit(G)
  BY <1>2, <1>3, <1>4, Checked
<1> HIDE DEF G
<1>6. Frames(G) /\ G.top = L.top /\ G.status = L.status /\ G.ci = L.ci /\ Ci(G) = Ci(L) /\ Limit(G) \in Int
  BY <1>3, <1>5, FramesGrown, LimitOK DEF Resized, Ci
<1>7. f \in Call /\ f.fn = fn /\ f.c = c /\ f.func = func /\ f.base = base /\ f.top = ctop
  BY <1>2, <1>4, Zenon DEF Call
<1> HIDE DEF f
<1>8. Above(Ci(G), f)
  BY <1>2, <1>3, <1>4, <1>6, <1>7 DEF Above
<1>9. \/ r.err = "no" /\ Appended(G, r.L, f)
      \/ r.err \in {"msg", "errerr", "outside"} /\ Raised(G, r.L, r.err)
  BY <1>2, <1>6, <1>7, IncCi
<1> DEFINE B == r.L
           e == r.err
<1>10. B = r.L /\ e = r.err /\ R = [B EXCEPT !.base = base]
  OBVIOUS
<1>11. CASE r.err # "no"
  <2>1. q = r
    BY <1>1, <1>11
  <2>2. e \in {"msg", "errerr", "outside"} /\ Raised(G, B, e)
    BY <1>9, <1>11
  <2> HIDE DEF B, e, r
  <2>3. Raised(L, B, e)
    BY <1>5, <2>2 DEF Raised, Alike, Resized
  <2>4. q.err = e /\ q.L = B
    BY <1>10, <2>1
  <2> HIDE DEF q
  <2>5. CallFailed(L, q)
    BY <2>2, <2>3, <2>4 DEF CallFailed
  <2>6. QED
    BY <2>5 DEF q
<1>12. CASE r.err = "no"
  <2>1. q = Step(R, "no")
    BY <1>1, <1>12
  <2>2. Appended(G, B, f)
    BY <1>9, <1>12
  <2> HIDE DEF B, e, r
  <2> DEFINE top == L.top
  <2>3. top \in Nat /\ f \in Call /\ f.base <= top /\ top <= Limit(G) /\ FrameOK(G, f) /\ B.top = top /\ B \in ThreadType
    BY <1>3, <1>4, <1>5, <1>6, <1>7, <2>2 DEF FrameOK, Appended
  <2>4. InCall(R, B, f, top)
    <3>1. R = [B EXCEPT !.base = base]
      BY <1>10
    <3>2. [B EXCEPT !.base = base] = [B EXCEPT !.base = base, !.top = top]
      BY <2>3 DEF ThreadType
    <3>3. QED
      BY <1>7, <3>1, <3>2 DEF InCall
  <2> HIDE DEF R, top
  <2>5. Entered(G, R, f) /\ R.top = top
    BY ONLY <1>6, <1>8, <2>2, <2>3, <2>4, EnterOK
  <2>6. Entered(L, R, f)
    BY <1>5, <2>5 DEF Entered, Resized
  <2>7. q.err = "no" /\ q.L = R
    BY <2>1 DEF Step
  <2> HIDE DEF q
  <2>8. Made(L, fn, c, nargs, f)
    BY <1>2, <1>4, <1>7 DEF Made
  <2>9. q.L.top = IF fn \in CallNames THEN L.top ELSE f.top
    BY <2>5, <2>7 DEF top
  <2>10. CallMade(L, fn, c, nargs, q)
    BY <2>6, <2>7, <2>8, <2>9 DEF CallMade
  <2>11. QED
    BY <2>10 DEF q
<1>13. QED
  BY <1>11, <1>12

(* luaD_precall enters the call or raises an error. *)
LEMMA PrecallOK ==
  ASSUME NEW L, NEW fn, NEW c, NEW p, NEW nargs, Frames(L), MayCall(L, fn, c, p, nargs),
         2 <= Len(L.ci) \/ fn = "lua"
  PROVE  LET r == luaD_precall(L, fn, c, p, nargs)
         IN  \/ CallMade(L, fn, c, nargs, r)
             \/ (CallFailed(L, r) /\ (Len(L.ci) = 1 => r.err = "outside"))
<1> DEFINE r == luaD_precall(L, fn, c, p, nargs)
<1>1. /\ fn \in LuaFn \cup CallNames \cup {"object", "value"} /\ L.status \notin {"errrun", "errerr"}
      /\ nargs \in Nat /\ c \in BOOLEAN /\ L.base + nargs + 1 <= L.top /\ ProtoOK(p)
  BY DEF MayCall
<1>2. L \in ThreadType /\ L.top \in Nat /\ L.base \in Nat /\ Len(L.ci) \in Nat /\ L.nCcalls \in Nat /\ L.ci \in Seq(Call)
  BY FieldTypes DEF Frames
<1>0. 2 <= Len(L.ci) => Len(L.ci) # 1
  <2> DEFINE k == Len(L.ci)
  <2>1. k \in Nat
    BY <1>2
  <2> HIDE DEF k
  <2>2. 2 <= k => k # 1
    BY ONLY <2>1
  <2>3. QED
    BY ONLY <2>2 DEF k
<1>3. CASE fn \in LuaFn
  <2>1. r = CallLua(L, fn, c, p, nargs)
    BY <1>3 DEF luaD_precall, LuaFn
  <2>2. QED
    BY <1>3, <2>1, CallLuaOK
<1>4. CASE fn \in CallNames
  <2>1. r = CallC(L, fn, c, nargs)
    BY <1>4 DEF luaD_precall, CallNames
  <2>2. 2 <= Len(L.ci) /\ Len(L.ci) # 1
    <3>1. fn # "lua"
      BY <1>4 DEF CallNames
    <3>2. 2 <= Len(L.ci)
      BY <3>1, Zenon
    <3>3. QED
      BY <1>2, <3>2
  <2>3. QED
    BY <1>4, <2>1, <2>2, CallCOK
<1>5. CASE fn = "value"
  <2>0. Len(L.ci) # 1
    <3>1. fn # "lua"
      BY <1>5
    <3>2. QED
      BY <1>0, <3>1, Zenon
  <2>1. r = luaG_runerror(L) /\ Len(L.ci) # 1
    BY <1>5, <2>0 DEF luaD_precall
  <2>2. luaG_runerror(L).err \in {"msg", "outside"} /\ Raised(L, luaG_runerror(L).L, luaG_runerror(L).err)
    BY <1>1, RunerrorOK
  <2>3. QED
    BY <2>1, <2>2 DEF CallFailed
<1>6. CASE fn = "object"
  <2>0. Len(L.ci) # 1
    <3>1. fn # "lua"
      BY <1>6
    <3>2. QED
      BY <1>0, <3>1, Zenon
  <2>1. CASE Beyond(L, 1)
    <3>1. r = Step(L, "outside")
      BY <1>6, <2>1 DEF luaD_precall
    <3>2. 1 \in 0 .. 3
      OBVIOUS
    <3>3. Raised(L, L, "outside")
      BY <1>1, <1>2, <2>1, <3>2, BeyondOK DEF Raised, Outside, Alike
    <3>4. QED
      BY <2>0, <3>1, <3>3 DEF CallFailed, Step
  <2>2. CASE ~Beyond(L, 1)
    <3> DEFINE G == Push(L, 1)
               n == nargs + 1
               q == CallLua(G, "lua", c, p, n)
               lua == "lua"
    <3>1. r = q
      BY <1>6, <2>2 DEF luaD_precall
    <3>2. Frames(G) /\ Alike(L, G) /\ G.top = L.top + 1 /\ G.nCcalls = L.nCcalls
      BY PushOK
    <3>3. lua \in LuaFn /\ lua = "lua" /\ n \in Nat /\ n = nargs + 1
      BY <1>1 DEF LuaFn
    <3>4. q = CallLua(G, lua, c, p, n)
      OBVIOUS
    <3> HIDE DEF G, n, lua
    <3>5. MayCall(G, lua, c, p, n)
      <4>1. G.base + n + 1 <= G.top /\ Ci(G) = Ci(L) /\ G.status = L.status
        BY <1>1, <1>2, <3>2, <3>3 DEF Alike, Ci
      <4>2. QED
        BY <1>1, <1>6, <3>3, <4>1 DEF MayCall
    <3>6. \/ CallMade(G, lua, c, n, q)
          \/ (CallFailed(G, q) /\ (Len(G.ci) = 1 => q.err = "outside"))
      BY <3>2, <3>3, <3>4, <3>5, CallLuaOK
    <3> HIDE DEF q
    <3>7. ASSUME CallFailed(G, q) PROVE CallFailed(L, q)
      BY <3>2, <3>7 DEF CallFailed, Raised, Alike
    <3>8. ASSUME CallMade(G, lua, c, n, q) PROVE CallMade(L, fn, c, nargs, q)
      <4>1. PICK f : Made(G, lua, c, n, f) /\ Entered(G, q.L, f) /\ q.L.top = IF lua \in CallNames THEN G.top ELSE f.top
        BY <3>8 DEF CallMade
      <4>2. fn \notin CallNames /\ lua \notin CallNames /\ Entry(fn) = lua /\ Entry(lua) = lua
        BY <1>6, <3>3 DEF CallNames, Entry
      <4>3. (G.top - n) - 1 = (L.top - nargs) - 1
        BY <1>1, <1>2, <3>2, <3>3
      <4>4. Made(L, fn, c, nargs, f)
        BY <4>1, <4>2, <4>3 DEF Made
      <4>5. Entered(L, q.L, f)
        BY <3>2, <4>1 DEF Entered, Alike
      <4>6. q.L.top = IF fn \in CallNames THEN L.top ELSE f.top
        BY <4>1, <4>2
      <4>7. q.err = "no"
        BY <3>8 DEF CallMade
      <4>8. QED
        BY <4>4, <4>5, <4>6, <4>7 DEF CallMade
    <3>9. QED
      BY <2>0, <3>1, <3>6, <3>7, <3>8
  <2>3. QED
    BY <2>1, <2>2
<1>7. QED
  BY <1>1, <1>3, <1>4, <1>5, <1>6

(* The thread r.L can go on with the error r.err. *)
Fine(L, r) ==
  /\ Frames(r.L) /\ Live(r.L) /\ r.L.baseCcalls = L.baseCcalls
  /\ r.err \in {"no", "msg", "errrun", "errerr", "outside"} /\ Outside(r.err)
  /\ IF r.err = "no" THEN Settled(r.L) ELSE Troubled(r.L, r.err)

(* What the library functions rely on of their arguments. *)
ArgsOK(fn, nargs) ==
  /\ fn \in PCall \cup {"resume", "queueEvent"} => 1 <= nargs
  /\ fn \in {"resume", "queueEvent"} => nargs <= MaxValues + 1
  /\ fn \in {"wrap", "yield"} => nargs <= MaxValues

Level(c) == IF c THEN 1 ELSE 0

(* A thread in which a call can be made, its level of the C stack counted already. *)
Callable(L, fn, c) ==
  /\ Handlers(L) /\ Guarded(L) /\ L.status = "ok" /\ 1 <= L.baseCcalls
  /\ (Len(L.ci) = 1 /\ fn = "lua") \/ Begun(L)
  /\ L.baseCcalls + CCalls(L, Len(L.ci)) + Level(c) <= L.nCcalls
  /\ L.baseCcalls + CCalls(L, Len(L.ci)) + Level(c) <= CLimit
  /\ fn # "errfn" /\ NoErrfn(L, Len(L.ci)) => L.nCcalls = L.baseCcalls + CCalls(L, Len(L.ci)) + Level(c)

(* The handlers stay when a call is added. *)
LEMMA HandlersEntered ==
  ASSUME NEW L, NEW G, NEW f \in Call, Frames(L), Entered(L, G, f), Handlers(L), Guarded(L)
  PROVE  /\ Handlers(G) /\ ~Handled(G, Len(G.ci))
         /\ CCalls(G, Len(G.ci)) = CCalls(L, Len(L.ci)) + Level(f.c)
         /\ NoErrfn(G, Len(G.ci)) <=> NoErrfn(L, Len(L.ci)) /\ f.fn # "errfn"
         /\ Len(G.ci) = Len(L.ci) + 1 /\ G.ci[Len(G.ci)] = f /\ \A i \in 1 .. Len(L.ci) : G.ci[i] = L.ci[i]
<1> DEFINE n == Len(L.ci)
<1>1. n \in Nat \ {0} /\ L.ci \in Seq(Call) /\ L \in ThreadType /\ G \in ThreadType
  BY LastCall, FieldTypes DEF Frames, Entered
<1>2. Len(G.ci) = n + 1 /\ G.ci[n + 1] = f /\ \A i \in 1 .. n : G.ci[i] = L.ci[i]
  BY <1>1 DEF Entered
<1>3. G.jmp = L.jmp /\ G.baseCcalls = L.baseCcalls /\ G.errfunc = L.errfunc
  BY DEF Entered
<1>4. \A i : Handled(G, i) <=> Handled(L, i)
  BY <1>3 DEF Handled
<1> HIDE DEF n
<1>5. ASSUME NEW k \in 0 .. n
      PROVE  CCalls(G, k) = CCalls(L, k) /\ (NoErrfn(G, k) <=> NoErrfn(L, k))
  <2>1. k \in Nat /\ \A i \in 1 .. k : G.ci[i] = L.ci[i]
    BY <1>1, <1>2
  <2>2. CCalls(G, k) = CCalls(L, k)
    BY <2>1, CCallsSame
  <2>3. QED
    BY <2>1, <2>2 DEF NoErrfn
<1>6. ASSUME NEW i \in 2 .. Len(L.jmp)
      PROVE  HandlerOK(G, i) /\ L.jmp[i].ci \in 2 .. n
  <2>1. HandlerOK(L, i)
    BY DEF Handlers
  <2>2. L.jmp[i].ci \in 2 .. n
    BY <2>1 DEF HandlerOK, n
  <2>3. L.jmp[i].ci \in 0 .. n /\ L.jmp[i].ci \in 1 .. n
    BY <1>1, <2>2
  <2>4. /\ G.ci[L.jmp[i].ci] = L.ci[L.jmp[i].ci]
        /\ CCalls(G, L.jmp[i].ci) = CCalls(L, L.jmp[i].ci)
        /\ NoErrfn(G, L.jmp[i].ci) <=> NoErrfn(L, L.jmp[i].ci)
    BY <1>2, <1>5, <2>3
  <2>5. L.jmp[i].ci \in 2 .. Len(G.ci)
    BY <1>1, <1>2, <2>2
  <2>6. QED
    BY <1>3, <2>1, <2>2, <2>4, <2>5 DEF HandlerOK
<1>7. ASSUME NEW i \in 1 .. Len(G.ci) - 1, G.ci[i].fn \in PCall
      PROVE  Handled(G, i)
  <2>1. i \in 1 .. n /\ G.ci[i] = L.ci[i]
    BY <1>1, <1>2
  <2>2. CASE i = n
    BY <1>4, <1>7, <2>1, <2>2 DEF Guarded, n
  <2>3. CASE i # n
    <3>1. i \in 1 .. n - 1
      BY <1>1, <2>1, <2>3
    <3>2. QED
      BY <1>4, <1>7, <2>1, <3>1 DEF Handlers, n
  <2>4. QED
    BY <2>2, <2>3
<1>8. Handlers(G)
  <2>1. \A i \in 2 .. Len(G.jmp) : HandlerOK(G, i)
    BY <1>3, <1>6
  <2>2. QED
    BY <1>3, <1>7, <2>1 DEF Handlers
<1>9. ~Handled(G, n + 1)
  BY <1>1, <1>3, <1>6 DEF Handled
<1>10. CCalls(G, n + 1) = CCalls(L, n) + Level(f.c)
  <2>1. n \in Nat /\ G.ci[n + 1].c \in BOOLEAN /\ n \in 0 .. n
    BY <1>1, <1>2 DEF Call
  <2>2. CCalls(G, n + 1) = IF G.ci[n + 1].c THEN CCalls(G, n) + 1 ELSE CCalls(G, n)
    BY <2>1, CCallsNext
  <2>3. CCalls(L, n) \in Nat /\ CCalls(G, n) = CCalls(L, n)
    BY <1>5, <2>1, CCallsNat
  <2>4. QED
    BY <1>2, <2>2, <2>3 DEF Level
<1>11. NoErrfn(G, n + 1) <=> NoErrfn(L, n) /\ f.fn # "errfn"
  BY <1>1, <1>2 DEF NoErrfn
<1>12. QED
  BY <1>2, <1>8, <1>9, <1>10, <1>11 DEF n

(* A thread in which an error was raised goes on with it. *)
LEMMA FailedFine ==
  ASSUME NEW L, NEW r, Frames(L), Live(L), Guarded(L), r.err \in {"msg", "errrun", "errerr", "outside"},
         Begun(L) \/ r.err = "outside", Raised(L, r.L, r.err)
  PROVE  Fine(L, r)
<1> DEFINE G == r.L
<1>1. L \in ThreadType /\ G \in ThreadType /\ Alike(L, G) /\ Frames(G) /\ Outside(r.err)
  BY DEF Frames, Raised
<1>2. Live(G) /\ Guarded(G) /\ (Begun(L) => Begun(G))
  BY <1>1, LiveAlike
<1>3. G.baseCcalls = L.baseCcalls
  BY <1>1 DEF Alike
<1>4. r.err # "no"
  OBVIOUS
<1>5. Troubled(G, r.err)
  BY <1>2 DEF Troubled, Raised
<1>6. QED
  BY <1>1, <1>2, <1>3, <1>4, <1>5 DEF Fine

(* luaD_precall enters the call or raises an error. *)
LEMMA PrecallFine ==
  ASSUME NEW L, NEW fn, NEW c, NEW p, NEW nargs, Frames(L), MayCall(L, fn, c, p, nargs),
         ArgsOK(fn, nargs), Callable(L, fn, c)
  PROVE  /\ Fine(L, luaD_precall(L, fn, c, p, nargs))
         /\ Len(L.ci) = 1 => luaD_precall(L, fn, c, p, nargs).err \in {"no", "outside"}
<1> DEFINE r == luaD_precall(L, fn, c, p, nargs)
           G == r.L
<1>1. /\ \/ CallMade(L, fn, c, nargs, r)
         \/ (CallFailed(L, r) /\ (Len(L.ci) = 1 => r.err = "outside"))
  <2>1. 2 <= Len(L.ci) \/ fn = "lua"
    BY DEF Callable, Begun
  <2>2. QED
    BY <2>1, PrecallOK
<1>2. /\ L \in ThreadType /\ Len(L.ci) \in Nat \ {0} /\ L.nCcalls \in Nat /\ L.baseCcalls \in Nat
      /\ L.top \in Nat /\ CCalls(L, Len(L.ci)) \in Nat
  BY LastCall, FieldTypes, CCallsNat DEF Frames
<1>3. /\ c \in BOOLEAN /\ nargs \in Nat /\ L.base \in Nat /\ L.base + nargs + 1 <= L.top
      /\ LUA_MINSTACK \in Nat \ {0} /\ LUAI_MAXCCALLS \in Nat /\ CLimit \in Nat /\ Level(c) \in 0 .. 1
  BY <1>2, FieldTypes, LimitsAssumption DEF MayCall, CLimit, Level
<1> HIDE DEF r
<1>4. CASE CallMade(L, fn, c, nargs, r)
  <2>1. PICK f : Made(L, fn, c, nargs, f) /\ Entered(L, G, f) /\ G.top = IF fn \in CallNames THEN L.top ELSE f.top
    BY <1>4 DEF CallMade
  <2>2. f \in Call /\ f.fn = Entry(fn) /\ f.c = c /\ f.func = (L.top - nargs) - 1 /\ f.top \in Nat /\ f.base \in Nat
        /\ (fn \in CallNames => f.base = f.func + 1 /\ f.top = L.top + LUA_MINSTACK)
    BY <2>1 DEF Made, Call
  <2>3. Handlers(L) /\ Guarded(L)
    BY DEF Callable
  <2> HIDE DEF G
  <2>4. /\ Handlers(G) /\ ~Handled(G, Len(G.ci))
        /\ CCalls(G, Len(G.ci)) = CCalls(L, Len(L.ci)) + Level(c)
        /\ NoErrfn(G, Len(G.ci)) <=> NoErrfn(L, Len(L.ci)) /\ f.fn # "errfn"
        /\ Len(G.ci) = Len(L.ci) + 1 /\ G.ci[Len(G.ci)] = f /\ \A i \in 1 .. Len(L.ci) : G.ci[i] = L.ci[i]
    BY <2>1, <2>2, <2>3, HandlersEntered
  <2>5. Frames(G) /\ G.nCcalls = L.nCcalls /\ G.baseCcalls = L.baseCcalls /\ G.status = L.status
    BY <2>1 DEF Entered
  <2>6. f.fn # "errfn" => fn # "errfn"
    BY <2>2 DEF Entry
  <2>7. Begun(G)
    <3>1. CASE Len(L.ci) = 1 /\ fn = "lua"
      BY <2>2, <2>4, <3>1 DEF Entry, Begun
    <3>2. CASE Begun(L)
      <4>1. 2 \in 1 .. Len(L.ci) /\ Len(G.ci) >= 2
        BY <1>2, <2>4, <3>2 DEF Begun
      <4>2. QED
        BY <2>4, <3>2, <4>1 DEF Begun
    <3>3. QED
      BY <3>1, <3>2 DEF Callable
  <2>8. Live(G)
    BY <1>2, <1>3, <2>4, <2>5 DEF Live, Callable
  <2>9. fn \in CallNames => G.base = L.top - nargs /\ G.base = f.base
    BY <1>2, <1>3, <2>2, <2>4, <2>5 DEF Frames
  <2>10. NoErrfn(G, Len(G.ci)) => G.nCcalls = G.baseCcalls + CCalls(G, Len(G.ci))
    BY <1>2, <1>3, <2>4, <2>5, <2>6 DEF Callable
  <2>11. fn \in CallNames => G.top + LUA_MINSTACK <= f.top /\ G.top = G.base + nargs /\ f.fn = fn
    <3>1. fn \in CallNames => Entry(fn) = fn
      BY DEF CallNames, Entry
    <3>2. fn \in CallNames => G.top = L.top
      BY <2>1
    <3>3. QED
      BY <1>2, <1>3, <2>2, <2>9, <3>1, <3>2
  <2>12. fn \notin CallNames => G.top = f.top
    BY <2>1
  <2>13. f.fn \notin CallNames <=> fn \notin CallNames
    BY <2>2 DEF CallNames, Entry
  <2>14. Settled(G)
    <3>1. f.fn \in LuaFn => G.top = f.top
      <4>1. f.fn \in LuaFn => f.fn \notin CallNames
        BY DEF CallNames, LuaFn
      <4>2. QED
        BY <2>12, <2>13, <4>1
    <3>2. f.fn = "ret" => FALSE
      BY <2>2 DEF MayCall, Entry, LuaFn, CallNames
    <3>3. G.top \in Nat /\ G.base \in Nat /\ MaxValues \in Nat
      BY <2>5, FieldTypes, LimitsAssumption DEF Frames
    <3>4. f.fn \in CallNames => G.top + LUA_MINSTACK <= f.top /\ G.top = G.base + nargs /\ f.fn = fn
      BY <2>11, <2>13
    <3>5. f.fn \in PCall \cup {"resume", "queueEvent", "wrap", "yield", "c"} => f.fn \in CallNames
      BY DEF PCall, CallNames
    <3>6. f.fn = "c" => G.top <= f.top
      BY <1>3, <2>2, <3>3, <3>4, <3>5
    <3>7. f.fn \in PCall \cup {"resume", "queueEvent"} => G.base + 1 <= G.top
      BY <1>3, <3>3, <3>4, <3>5 DEF ArgsOK
    <3>8. f.fn \in {"resume", "queueEvent"} => G.top <= G.base + MaxValues + 1
      BY <1>3, <3>3, <3>4, <3>5 DEF ArgsOK
    <3>9. f.fn \in {"wrap", "yield"} => G.top <= G.base + MaxValues
      BY <1>3, <3>3, <3>4, <3>5 DEF ArgsOK
    <3>10. QED
      BY <2>4, <2>7, <2>10, <3>1, <3>2, <3>4, <3>6, <3>7, <3>8, <3>9 DEF Settled
  <2>15. r.err = "no"
    BY <1>4 DEF CallMade
  <2>16. Fine(L, r)
    BY <2>5, <2>8, <2>14, <2>15 DEF Fine, Outside, G
  <2>17. QED
    BY <2>15, <2>16 DEF r
<1>5. CASE CallFailed(L, r) /\ (Len(L.ci) = 1 => r.err = "outside")
  <2>1. L.baseCcalls + CCalls(L, Len(L.ci)) <= L.nCcalls /\ L.baseCcalls + CCalls(L, Len(L.ci)) <= CLimit
    BY <1>2, <1>3 DEF Callable
  <2>2. Live(L) /\ Guarded(L)
    BY <1>2, <2>1 DEF Live, Callable
  <2>3. Begun(L) \/ r.err = "outside"
    BY <1>5 DEF Callable
  <2>4. Fine(L, r)
    BY <1>5, <2>2, <2>3, FailedFine DEF CallFailed
  <2>5. QED
    BY <1>5, <2>4 DEF r
<1>6. QED
  BY <1>1, <1>4, <1>5

(* luaD_call enters the call on another level of the C stack or raises an error. *)
LEMMA CallFine ==
  ASSUME NEW L, NEW fn, NEW p, NEW nargs, Frames(L), MayCall(L, fn, TRUE, p, nargs),
         ArgsOK(fn, nargs), Live(L), Guarded(L), Begun(L),
         fn # "errfn" /\ NoErrfn(L, Len(L.ci)) => L.nCcalls = L.baseCcalls + CCalls(L, Len(L.ci))
  PROVE  Fine(L, luaD_call(L, fn, p, nargs))
<1> DEFINE n == L.nCcalls + 1
           G == [L EXCEPT !.nCcalls = n]
           r == luaD_call(L, fn, p, nargs)
<1>1. /\ L \in ThreadType /\ Len(L.ci) \in Nat \ {0} /\ L.nCcalls \in Nat /\ L.baseCcalls \in Nat
      /\ L.top \in Nat /\ CCalls(L, Len(L.ci)) \in Nat /\ LUAI_MAXCCALLS \in Nat \ {0}
  BY LastCall, FieldTypes, CCallsNat, LimitsAssumption DEF Frames
<1>2. n \in Nat /\ L.nCcalls <= n
  BY <1>1
<1>3. r = CASE G.nCcalls = LUAI_MAXCCALLS -> luaG_runerror(G)
            [] G.nCcalls > LUAI_MAXCCALLS /\ G.nCcalls >= CLimit -> Step(G, "errerr")
            [] OTHER -> luaD_precall(G, fn, TRUE, p, nargs)
  BY DEF luaD_call, CLimit
<1>4. /\ Frames(G) /\ G.nCcalls = n /\ G.top = L.top /\ Alike(L, G)
      /\ G.status = L.status /\ G.base = L.base /\ G.ci = L.ci
      /\ G.baseCcalls = L.baseCcalls /\ G.errfunc = L.errfunc /\ G.jmp = L.jmp
  <2> HIDE DEF n
  <2>1. QED
    BY <1>2, CountSet
<1>5. Live(G) /\ Guarded(G) /\ Begun(G)
  <2> HIDE DEF G
  <2>1. QED
    BY <1>1, <1>4, LiveAlike DEF Frames
<1> HIDE DEF G, r
<1>6. CASE G.nCcalls = LUAI_MAXCCALLS
  <2>1. r = luaG_runerror(G)
    <3>1. ~(G.nCcalls > LUAI_MAXCCALLS)
      BY <1>1, <1>6
    <3>2. QED
      BY <1>3, <1>6, <3>1, Zenon
  <2>2. r.err \in {"msg", "outside"} /\ Raised(G, r.L, r.err)
    <3>1. G.status \notin {"errrun", "errerr"}
      BY <1>5 DEF Live
    <3>2. QED
      BY <1>4, <2>1, <3>1, RunerrorOK
  <2>3. Fine(G, r)
    BY <1>4, <1>5, <2>2, FailedFine
  <2>4. QED
    BY <1>4, <2>3 DEF Fine, r
<1>7. CASE G.nCcalls > LUAI_MAXCCALLS /\ G.nCcalls >= CLimit
  <2>1. r = Step(G, "errerr")
    <3>1. ~(G.nCcalls = LUAI_MAXCCALLS)
      BY <1>1, <1>7
    <3>2. QED
      BY <1>3, <1>7, <3>1, Zenon
  <2>2. QED
    BY <1>4, <1>5, <2>1 DEF Fine, Troubled, Outside, Step, r
<1>8. CASE ~(G.nCcalls = LUAI_MAXCCALLS) /\ ~(G.nCcalls > LUAI_MAXCCALLS /\ G.nCcalls >= CLimit)
  <2>1. r = luaD_precall(G, fn, TRUE, p, nargs)
    BY <1>3, <1>8
  <2>2. n <= CLimit
    BY <1>1, <1>2, <1>4, <1>8 DEF CLimit
  <2>3. MayCall(G, fn, TRUE, p, nargs)
    <3>1. Ci(G) = Ci(L)
      BY <1>4 DEF Ci
    <3>2. QED
      BY <1>4, <3>1 DEF MayCall
  <2>4. CCalls(G, Len(G.ci)) = CCalls(L, Len(L.ci)) /\ (NoErrfn(G, Len(G.ci)) <=> NoErrfn(L, Len(L.ci)))
    BY <1>4 DEF CCalls, NoErrfn
  <2>5. Callable(G, fn, TRUE)
    <3>1. Level(TRUE) = 1
      BY DEF Level
    <3>2. /\ G.baseCcalls + CCalls(G, Len(G.ci)) + 1 <= G.nCcalls
          /\ G.baseCcalls + CCalls(G, Len(G.ci)) + 1 <= CLimit
      BY <1>1, <1>4, <2>2, <2>4, LimitsAssumption DEF Live, CLimit
    <3>3. fn # "errfn" /\ NoErrfn(G, Len(G.ci)) => G.nCcalls = G.baseCcalls + CCalls(G, Len(G.ci)) + 1
      BY <1>1, <1>4, <2>4
    <3>4. QED
      BY <1>1, <1>4, <1>5, <3>1, <3>2, <3>3 DEF Callable, Live
  <2>6. Fine(G, r)
    BY <1>4, <2>1, <2>3, <2>5, PrecallFine
  <2>7. QED
    BY <1>4, <2>6 DEF Fine, r
<1>9. QED
  BY <1>6, <1>7, <1>8

-----------------------------------------------------------------------------
(* Returns.                                                                *)

(* The first elements of a sequence.                                       *)
LEMMA PrefixOf ==
  ASSUME NEW S, NEW s \in Seq(S), NEW k \in 0 .. Len(s)
  PROVE  /\ SubSeq(s, 1, k) \in Seq(S) /\ Len(SubSeq(s, 1, k)) = k
         /\ \A i \in 1 .. k : SubSeq(s, 1, k)[i] = s[i]
<1>1. SubSeq(s, 1, k) \in Seq(S)
  OBVIOUS
<1>2. Len(SubSeq(s, 1, k)) = k
  OBVIOUS
<1>3. \A i \in 1 .. k : SubSeq(s, 1, k)[i] = s[i]
  OBVIOUS
<1>4. QED
  BY <1>1, <1>2, <1>3

(* All but the last element of a sequence, and the last. *)
LEMMA FrontOf ==
  ASSUME NEW S, NEW s \in Seq(S), Len(s) >= 1
  PROVE  /\ Front(s) \in Seq(S) /\ Len(Front(s)) = Len(s) - 1 /\ Len(s) \in Nat
         /\ \A i \in 1 .. Len(s) - 1 : Front(s)[i] = s[i]
         /\ Last(s) = s[Len(s)] /\ Last(s) \in S
<1>1. Len(s) \in Nat /\ Len(s) - 1 \in 0 .. Len(s)
  OBVIOUS
<1>2. /\ Front(s) \in Seq(S) /\ Len(Front(s)) = Len(s) - 1
      /\ \A i \in 1 .. Len(s) - 1 : Front(s)[i] = s[i]
  BY <1>1, PrefixOf, Zenon DEF Front
<1>3. Last(s) = s[Len(s)] /\ s[Len(s)] \in S
  BY <1>1 DEF Last
<1>4. QED
  BY <1>1, <1>2, <1>3

(* G is L after the return from its last call. *)
Popped(L, G) ==
  /\ Frames(G) /\ Len(G.ci) = Len(L.ci) - 1 /\ \A i \in 1 .. Len(L.ci) - 1 : G.ci[i] = L.ci[i]
  /\ G.nCcalls = L.nCcalls - Level(L.ci[Len(L.ci)].c)
  /\ G.status = L.status /\ G.baseCcalls = L.baseCcalls /\ G.errfunc = L.errfunc /\ G.jmp = L.jmp

(* luaD_poscall takes the last call off and moves its results down. *)
LEMMA PoscallOK ==
  ASSUME NEW L, Frames(L), 2 <= Len(L.ci), NEW nres \in Nat,
         L.ci[Len(L.ci)].func + nres <= Limit(L), Level(L.ci[Len(L.ci)].c) <= L.nCcalls
  PROVE  LET G == luaD_poscall(L, nres)
             n == Len(L.ci)
         IN  /\ Popped(L, G)
             /\ G.top = IF L.ci[n - 1].fn \in LuaFn /\ L.ci[n].fn # "errfn"
                        THEN L.ci[n - 1].top ELSE L.ci[n].func + nres
<1> DEFINE n == Len(L.ci)
           ci == L.ci[n]
           caller == L.ci[n - 1]
           below == Front(L.ci)
           base == caller.base
           top == IF caller.fn \in LuaFn /\ ci.fn # "errfn" THEN caller.top ELSE ci.func + nres
           count == L.nCcalls - Level(ci.c)
           G == [L EXCEPT !.ci = below, !.base = base, !.top = top, !.nCcalls = count]
<1>1. L \in ThreadType /\ n \in Nat /\ 2 <= n /\ L.ci \in Seq(Call) /\ L.nCcalls \in Nat /\ L.size_ci \in Nat
      /\ L.stacksize \in Nat /\ Limit(L) \in Int
  BY FieldTypes, LimitOK DEF Frames
<1>2. n \in 1 .. n /\ n - 1 \in 1 .. n /\ n - 1 \in 1 .. n - 1 /\ (n - 1) + 1 = n
  BY <1>1
<1>3. below \in Seq(Call) /\ Len(below) = n - 1 /\ (\A i \in 1 .. n - 1 : below[i] = L.ci[i]) /\ Ci(L) = ci
  <2>1. L.ci \in Seq(Call) /\ Len(L.ci) >= 1
    BY <1>1
  <2>2. QED
    BY <2>1, FrontOf, Zenon DEF Ci
<1>4. Last(below) = caller
  <2> HIDE DEF below
  <2>1. QED
    BY <1>1, <1>2, <1>3 DEF Last
<1>5. ci \in Call /\ caller \in Call /\ ci.func \in Nat /\ caller.base \in Nat /\ caller.top \in Nat /\ ci.c \in BOOLEAN
  BY <1>1, <1>2, CallTypes
<1>6. Above(caller, ci)
  BY <1>1, <1>2 DEF Frames
<1>7. caller.base <= ci.func /\ caller.base <= caller.top /\ caller.top <= Limit(L)
  BY <1>1, <1>2, <1>6 DEF Frames, FrameOK, Above
<1>8. base \in Nat /\ top \in Nat /\ count \in Nat /\ base <= top /\ top <= Limit(L)
  <2>1. count \in Nat /\ base \in Nat
    BY <1>1, <1>5, SMTT(30) DEF Level
  <2>2. CASE caller.fn \in LuaFn /\ ci.fn # "errfn"
    BY <1>1, <1>5, <1>7, <2>1, <2>2
  <2>3. CASE ~(caller.fn \in LuaFn /\ ci.fn # "errfn")
    <3>1. top = ci.func + nres
      BY <2>3
    <3>2. ci.func \in Nat /\ ci.func + nres <= Limit(L)
      BY <1>5
    <3> HIDE DEF top, ci, caller
    <3>3. top \in Nat
      BY <3>1, <3>2
    <3>4. base <= top
      BY <1>5, <1>7, <3>1, <3>2
    <3>5. QED
      BY <2>1, <3>1, <3>2, <3>3, <3>4
  <2>4. QED
    BY <2>2, <2>3
<1>9. luaD_poscall(L, nres) = G
  <2>1. (IF ci.c THEN L.nCcalls - 1 ELSE L.nCcalls) = count
    BY <1>1, <1>5 DEF Level
  <2>2. QED
    BY <1>3, <1>4, <2>1 DEF luaD_poscall, LuaFn
<1> HIDE DEF below, base, top, count
<1>10. G \in ThreadType
  BY <1>1, <1>3, <1>8, ZenonT(30) DEF ThreadType
<1>11. /\ G.ci = below /\ G.base = base /\ G.top = top /\ G.nCcalls = count /\ G.size_ci = L.size_ci
       /\ G.stacksize = L.stacksize
       /\ G.status = L.status /\ G.baseCcalls = L.baseCcalls /\ G.errfunc = L.errfunc /\ G.jmp = L.jmp
  BY <1>1 DEF ThreadType
<1> HIDE DEF G
<1>12. Limit(G) = Limit(L)
  BY <1>11 DEF Limit, StackLast
<1>13. Frames(G)
  <2>1. G.ci # <<>> /\ G.ci[1].fn = "base" /\ ~G.ci[1].c
    <3>1. 1 \in 1 .. n - 1 /\ G.ci[1] = L.ci[1]
      BY <1>1, <1>3, <1>11
    <3>2. QED
      BY <1>1, <1>3, <1>11, <3>1 DEF Frames
  <2>2. Len(G.ci) <= G.size_ci /\ 2 <= G.size_ci
    BY <1>1, <1>3, <1>11 DEF Frames
  <2>3. ASSUME NEW i \in 1 .. Len(G.ci)
        PROVE  FrameOK(G, G.ci[i])
    <3>1. i \in 1 .. n - 1 /\ i \in 1 .. n
      BY <1>1, <1>3, <1>11
    <3>2. QED
      BY <1>3, <1>11, <1>12, <3>1 DEF Frames, FrameOK
  <2>4. ASSUME NEW i \in 1 .. Len(G.ci) - 1
        PROVE  Above(G.ci[i], G.ci[i + 1])
    <3>1. i \in 1 .. n - 1 /\ i + 1 \in 1 .. n - 1
      BY <1>1, <1>3, <1>11
    <3>2. QED
      BY <1>1, <1>3, <1>11, <3>1 DEF Frames
  <2>5. G.base = G.ci[Len(G.ci)].base /\ G.base <= G.top /\ G.top <= Limit(G)
    BY <1>2, <1>3, <1>8, <1>11, <1>12 DEF base
  <2>6. QED
    BY <1>10, <2>1, <2>2, <2>3, <2>4, <2>5 DEF Frames
<1>14. Popped(L, G)
  BY <1>3, <1>11, <1>13 DEF Popped, count
<1>15. QED
  BY <1>9, <1>11, <1>14 DEF top

(* The first calls of G are those of L: so are the counts and the handlers among them. *)
LEMMA SamePrefix ==
  ASSUME NEW L, NEW G, NEW n \in Nat, \A i \in 1 .. n : G.ci[i] = L.ci[i]
  PROVE  \A k \in 0 .. n : CCalls(G, k) = CCalls(L, k) /\ (NoErrfn(G, k) <=> NoErrfn(L, k))
<1> SUFFICES ASSUME NEW k \in 0 .. n
             PROVE  CCalls(G, k) = CCalls(L, k) /\ (NoErrfn(G, k) <=> NoErrfn(L, k))
  OBVIOUS
<1>1. k \in Nat /\ \A i \in 1 .. k : G.ci[i] = L.ci[i]
  OBVIOUS
<1>2. CCalls(G, k) = CCalls(L, k)
  BY <1>1, CCallsSame
<1>3. QED
  BY <1>1, <1>2 DEF NoErrfn

(* A handler stays one while the calls up to its own stay. *)
LEMMA HandlerMoved ==
  ASSUME NEW L, NEW G, NEW i, HandlerOK(L, i), NEW n \in Nat, \A k \in 1 .. n : G.ci[k] = L.ci[k],
         n <= Len(G.ci), Len(G.ci) \in Nat, L.jmp[i].ci \in 2 .. n, G.baseCcalls = L.baseCcalls,
         G.jmp[i] = L.jmp[i], \A m \in 2 .. i - 1 : G.jmp[m] = L.jmp[m]
  PROVE  HandlerOK(G, i)
<1> DEFINE c == L.jmp[i].ci
<1>1. c \in 0 .. n /\ c \in 1 .. n /\ c \in 2 .. Len(G.ci)
  OBVIOUS
<1>2. CCalls(G, c) = CCalls(L, c) /\ (NoErrfn(G, c) <=> NoErrfn(L, c)) /\ G.ci[c] = L.ci[c]
  <2> HIDE DEF c
  <2>1. \A k \in 0 .. n : CCalls(G, k) = CCalls(L, k) /\ (NoErrfn(G, k) <=> NoErrfn(L, k))
    BY SamePrefix
  <2>2. QED
    BY <1>1, <2>1
<1>3. QED
  BY <1>1, <1>2 DEF HandlerOK

(* The thread a call returned from, none of whose handlers is that call's. *)
LEMMA LivePopped ==
  ASSUME NEW L, NEW G, Frames(L), Live(L), Popped(L, G), ~Handled(L, Len(L.ci)), 3 <= Len(L.ci)
  PROVE  /\ Live(G) /\ Guarded(G) /\ (Begun(L) => Begun(G))
         /\ CCalls(L, Len(L.ci)) = CCalls(G, Len(G.ci)) + Level(L.ci[Len(L.ci)].c)
         /\ NoErrfn(L, Len(L.ci)) <=> NoErrfn(G, Len(G.ci)) /\ L.ci[Len(L.ci)].fn # "errfn"
         /\ Handled(G, Len(G.ci)) => G.ci[Len(G.ci)].fn \in PCall
<1> DEFINE n == Len(L.ci)
           m == n - 1
           ci == L.ci[n]
<1>1. /\ n \in Nat /\ 3 <= n /\ m \in Nat /\ m + 1 = n /\ ci.c \in BOOLEAN /\ L.nCcalls \in Nat /\ L.baseCcalls \in Nat
      /\ G.nCcalls \in Nat
  <2>1. L \in ThreadType /\ G \in ThreadType /\ n \in Nat
    BY FieldTypes DEF Frames, Popped
  <2>2. ci.c \in BOOLEAN
    BY LastCall
  <2>3. QED
    BY <2>1, <2>2, FieldTypes
<1>2. /\ Len(G.ci) = m /\ (\A i \in 1 .. m : G.ci[i] = L.ci[i]) /\ G.nCcalls = L.nCcalls - Level(ci.c)
      /\ G.status = L.status /\ G.baseCcalls = L.baseCcalls /\ G.errfunc = L.errfunc /\ G.jmp = L.jmp
  BY DEF Popped
<1> HIDE DEF n, m, ci
<1>3. \A k \in 0 .. m : CCalls(G, k) = CCalls(L, k) /\ (NoErrfn(G, k) <=> NoErrfn(L, k))
  BY <1>1, <1>2, SamePrefix
<1>4. \A i : Handled(G, i) <=> Handled(L, i)
  BY <1>2 DEF Handled
<1>5. CCalls(L, n) = CCalls(L, m) + Level(ci.c) /\ CCalls(L, m) \in Nat
  <2>1. L.ci[m + 1].c \in BOOLEAN
    BY <1>1 DEF ci
  <2>2. CCalls(L, m + 1) = IF L.ci[m + 1].c THEN CCalls(L, m) + 1 ELSE CCalls(L, m)
    BY <1>1, <2>1, CCallsNext
  <2>3. CCalls(L, m) \in Nat
    BY <1>1, CCallsNat
  <2>4. QED
    BY <1>1, <2>2, <2>3 DEF Level, ci
<1>6. ASSUME NEW i \in 2 .. Len(G.jmp) PROVE HandlerOK(G, i) /\ G.jmp[i].ci \in 2 .. m
  <2>1. HandlerOK(L, i)
    BY <1>2 DEF Live, Handlers
  <2>2. L.jmp[i].ci \in 2 .. n /\ L.jmp[i].ci # n
    BY <1>2, <2>1 DEF HandlerOK, Handled, n
  <2>3. L.jmp[i].ci \in 2 .. m
    BY <1>1, <2>2
  <2>4. HandlerOK(G, i)
    BY <1>1, <1>2, <2>1, <2>3, HandlerMoved
  <2>5. QED
    BY <1>2, <2>3, <2>4
<1>7. ASSUME NEW i \in 1 .. m, G.ci[i].fn \in PCall PROVE Handled(G, i)
  <2>1. i \in 1 .. n - 1
    BY <1>1
  <2>2. QED
    BY <1>2, <1>4, <1>7, <2>1 DEF Live, Handlers, n
<1>8. Handlers(G)
  <2>1. \A i \in 1 .. m - 1 : G.ci[i].fn \in PCall => Handled(G, i)
    BY <1>1, <1>7
  <2>2. QED
    BY <1>2, <1>6, <2>1 DEF Live, Handlers
<1>9. Guarded(G)
  BY <1>1, <1>2, <1>7 DEF Guarded
<1>10. G.baseCcalls + CCalls(G, m) <= G.nCcalls /\ G.baseCcalls + CCalls(G, m) <= CLimit
  <2>1. m \in 0 .. m /\ CLimit \in Int /\ Level(ci.c) \in Nat
    BY <1>1, LimitsAssumption DEF CLimit, Level
  <2>2. CCalls(G, m) = CCalls(L, m)
    BY <1>3, <2>1
  <2>3. L.baseCcalls + CCalls(L, n) <= L.nCcalls /\ L.baseCcalls + CCalls(L, n) <= CLimit
    BY <1>1 DEF Live, n
  <2>4. QED
    BY <1>1, <1>2, <1>5, <2>1, <2>2, <2>3
<1>11. Live(G) /\ (Begun(L) => Begun(G))
  <2>1. 2 \in 1 .. m /\ 2 <= m
    BY <1>1
  <2>2. G.ci[2] = L.ci[2]
    BY <1>2, <2>1
  <2>3. QED
    BY <1>1, <1>2, <1>8, <1>10, <2>1, <2>2 DEF Live, Begun
<1>12. NoErrfn(L, n) <=> NoErrfn(G, m) /\ ci.fn # "errfn"
  BY <1>1, <1>2, SMTT(30) DEF NoErrfn, ci
<1>13. Handled(G, m) => G.ci[m].fn \in PCall
  BY <1>6 DEF Handled, HandlerOK
<1>14. CCalls(L, n) = CCalls(G, m) + Level(ci.c)
  BY <1>1, <1>3, <1>5
<1>15. QED
  BY <1>2, <1>9, <1>11, <1>12, <1>13, <1>14 DEF n, ci

(* A C function that is about to return. *)
LEMMA DoneOK ==
  ASSUME NEW L, Frames(L), 2 <= Len(L.ci), L.ci[Len(L.ci)].fn \in CallNames
  PROVE  LET G == Done(L)
             n == Len(L.ci)
         IN  /\ Frames(G) /\ Len(G.ci) = n /\ (\A i \in 1 .. n - 1 : G.ci[i] = L.ci[i])
             /\ G.ci[n].fn = "ret" /\ G.ci[n].c = L.ci[n].c /\ G.ci[n].func = L.ci[n].func
             /\ G.ci[n].base = L.ci[n].base /\ G.ci[n].top = L.ci[n].top
             /\ G.top = L.top /\ G.base = L.base /\ G.nCcalls = L.nCcalls
             /\ G.status = L.status /\ G.baseCcalls = L.baseCcalls /\ G.errfunc = L.errfunc /\ G.jmp = L.jmp
<1> DEFINE n == Len(L.ci)
           ci == [L.ci[n] EXCEPT !.fn = "ret"]
           cs == [L.ci EXCEPT ![n] = ci]
           G == [L EXCEPT !.ci = cs]
<1>1. Done(L) = G
  BY DEF Done
<1>2. L \in ThreadType /\ n \in Nat /\ 2 <= n /\ n \in 1 .. n /\ L.ci \in Seq(Call) /\ L.ci[n] \in Call
  BY FieldTypes, LastCall DEF Frames
<1>3. ci \in Call
  <2>1. "ret" \in Name
    BY DEF Name
  <2>2. QED
    BY <1>2, <2>1, Zenon DEF Call
<1>4. ci.fn = "ret" /\ ci.c = L.ci[n].c /\ ci.func = L.ci[n].func /\ ci.base = L.ci[n].base /\ ci.top = L.ci[n].top
  BY <1>2 DEF Call
<1> HIDE DEF ci, n
<1>5. cs \in Seq(Call) /\ Len(cs) = n /\ cs[n] = ci /\ \A i \in 1 .. n : i # n => cs[i] = L.ci[i]
  BY <1>2, <1>3 DEF n
<1> HIDE DEF cs
<1>6. G \in ThreadType
  BY <1>2, <1>5, ZenonT(30) DEF ThreadType
<1>7. /\ G.ci = cs /\ G.top = L.top /\ G.base = L.base /\ G.nCcalls = L.nCcalls
      /\ G.stacksize = L.stacksize /\ G.size_ci = L.size_ci
      /\ G.status = L.status /\ G.baseCcalls = L.baseCcalls /\ G.errfunc = L.errfunc /\ G.jmp = L.jmp
  BY <1>2 DEF ThreadType
<1> HIDE DEF G
<1>8. Limit(G) = Limit(L)
  BY <1>7 DEF Limit, StackLast
<1>9. ASSUME NEW i \in 1 .. Len(G.ci) PROVE FrameOK(G, G.ci[i])
  <2>1. FrameOK(L, L.ci[i])
    BY <1>5, <1>7 DEF Frames, n
  <2>2. G.ci[i].func = L.ci[i].func /\ G.ci[i].base = L.ci[i].base /\ G.ci[i].top = L.ci[i].top
    BY <1>4, <1>5, <1>7
  <2>3. QED
    BY <1>8, <2>1, <2>2 DEF FrameOK
<1>10. ASSUME NEW i \in 1 .. Len(G.ci) - 1
       PROVE  Above(G.ci[i], G.ci[i + 1])
  <2>1. Above(L.ci[i], L.ci[i + 1]) /\ i \in 1 .. n /\ i # n /\ i + 1 \in 1 .. n
    BY <1>2, <1>5, <1>7 DEF Frames, n
  <2>2. G.ci[i] = L.ci[i]
    BY <1>5, <1>7, <2>1
  <2>3. CASE i + 1 = n
    <3>1. G.ci[i + 1] = ci /\ L.ci[i + 1].fn # "errfn"
      BY <1>5, <1>7, <2>3 DEF CallNames, n
    <3>2. QED
      BY <1>4, <2>1, <2>2, <2>3, <3>1 DEF Above
  <2>4. CASE i + 1 # n
    BY <1>5, <1>7, <2>1, <2>2, <2>4
  <2>5. QED
    BY <2>3, <2>4
<1>11. Frames(G)
  <2>1. 1 \in 1 .. n /\ 1 # n
    BY <1>2
  <2>2. G.ci[1] = L.ci[1] /\ G.ci # <<>>
    BY <1>2, <1>5, <1>7, <2>1
  <2>3. Len(G.ci) <= G.size_ci /\ 2 <= G.size_ci
    BY <1>5, <1>7 DEF Frames, n
  <2>4. G.base = G.ci[Len(G.ci)].base /\ G.base <= G.top /\ G.top <= Limit(G)
    BY <1>4, <1>5, <1>7, <1>8 DEF Frames, n
  <2>5. QED
    BY <1>6, <1>9, <1>10, <2>2, <2>3, <2>4 DEF Frames
<1>12. /\ Len(G.ci) = n /\ \A i \in 1 .. n - 1 : G.ci[i] = L.ci[i]
       /\ G.ci[n].fn = "ret" /\ G.ci[n].c = L.ci[n].c /\ G.ci[n].func = L.ci[n].func
       /\ G.ci[n].base = L.ci[n].base /\ G.ci[n].top = L.ci[n].top
  BY <1>2, <1>4, <1>5, <1>7
<1>13. QED
  BY <1>1, <1>7, <1>11, <1>12 DEF n

(* A C function that has done its work waits to return. *)
LEMMA DoneFine ==
  ASSUME NEW L, Frames(L), Live(L), Begun(L), L.ci[Len(L.ci)].fn \in CallNames, ~Handled(L, Len(L.ci)),
         L.top <= L.ci[Len(L.ci)].top + 1,
         NoErrfn(L, Len(L.ci)) => L.nCcalls = L.baseCcalls + CCalls(L, Len(L.ci))
  PROVE  Fine(L, Step(Done(L), "no"))
<1> DEFINE G == Done(L)
           n == Len(L.ci)
<1>1. /\ Frames(G) /\ Len(G.ci) = n /\ (\A i \in 1 .. n - 1 : G.ci[i] = L.ci[i])
      /\ G.ci[n].fn = "ret" /\ G.ci[n].c = L.ci[n].c /\ G.ci[n].func = L.ci[n].func /\ G.ci[n].top = L.ci[n].top
      /\ G.top = L.top /\ G.base = L.base /\ G.nCcalls = L.nCcalls
      /\ G.status = L.status /\ G.baseCcalls = L.baseCcalls /\ G.errfunc = L.errfunc /\ G.jmp = L.jmp
  BY DoneOK DEF Begun
<1> HIDE DEF G
<1>2. n \in Nat /\ 2 <= n /\ n - 1 \in Nat /\ n \in 1 .. n /\ L \in ThreadType
  BY FieldTypes DEF Frames, Begun
<1> HIDE DEF n
<1>3. \A i \in 1 .. n : G.ci[i].c = L.ci[i].c /\ (G.ci[i].fn = "errfn" <=> L.ci[i].fn = "errfn")
  <2>1. L.ci[n].fn # "errfn"
    BY DEF CallNames, n
  <2>2. ASSUME NEW i \in 1 .. n PROVE i = n \/ i \in 1 .. n - 1
    BY <1>2
  <2>3. QED
    BY <1>1, <2>1, <2>2
<1>4. CCalls(G, n) = CCalls(L, n) /\ (NoErrfn(G, n) <=> NoErrfn(L, n))
  BY <1>2, <1>3, CCallsSame DEF NoErrfn
<1>5. \A i : Handled(G, i) <=> Handled(L, i)
  BY <1>1 DEF Handled
<1>6. ASSUME NEW i \in 2 .. Len(G.jmp) PROVE HandlerOK(G, i)
  <2>1. HandlerOK(L, i)
    BY <1>1 DEF Live, Handlers
  <2>2. L.jmp[i].ci \in 2 .. n /\ L.jmp[i].ci # n
    BY <1>1, <2>1 DEF HandlerOK, Handled, n
  <2>3. L.jmp[i].ci \in 2 .. n - 1 /\ n - 1 <= Len(G.ci) /\ Len(G.ci) \in Nat
    BY <1>1, <1>2, <2>2
  <2> DEFINE m == n - 1
  <2>4. m \in Nat /\ (\A k \in 1 .. m : G.ci[k] = L.ci[k]) /\ m <= Len(G.ci) /\ L.jmp[i].ci \in 2 .. m
    BY <1>1, <1>2, <2>3
  <2> HIDE DEF m
  <2>5. QED
    BY <1>1, <2>1, <2>3, <2>4, HandlerMoved
<1>7. Handlers(G)
  <2>1. \A i \in 1 .. Len(G.ci) - 1 : G.ci[i].fn \in PCall => Handled(G, i)
    BY <1>1, <1>2, <1>5 DEF Live, Handlers, n
  <2>2. QED
    BY <1>1, <1>6, <2>1 DEF Live, Handlers
<1>8. Live(G) /\ Begun(G)
  <2>1. n # 2
    BY DEF Begun, CallNames, n
  <2>2. 2 \in 1 .. n - 1
    BY <1>2, <2>1
  <2>3. G.ci[2].fn = "lua"
    BY <1>1, <2>2 DEF Begun
  <2>4. QED
    BY <1>1, <1>2, <1>4, <1>7, <2>3 DEF Live, Begun, n
<1>9. Settled(G)
  BY <1>1, <1>4, <1>5, <1>8 DEF Settled, LuaFn, CallNames, PCall, n
<1>10. QED
  BY <1>1, <1>8, <1>9 DEF Fine, Outside, Step, G

-----------------------------------------------------------------------------
(* The end of a protected call.                                            *)

(* G has the calls of L up to the innermost protected one, whose handler is gone. *)
Unwound(L, G) ==
  LET m == Len(L.jmp)
      j == L.jmp[m]
  IN  /\ 2 <= m /\ G.jmp = Front(L.jmp) /\ G.errfunc = j.errfunc
      /\ Len(G.ci) = j.ci /\ \A i \in 1 .. j.ci : G.ci[i] = L.ci[i]
      /\ G.status = L.status /\ G.baseCcalls = L.baseCcalls

(* luaB_pcall and luaB_xpcall, with the status pushed, wait to return.     *)
LEMMA StatusFine ==
  ASSUME NEW L, Frames(L), Live(L), Begun(L), L.ci[Len(L.ci)].fn \in PCall, ~Handled(L, Len(L.ci)),
         L.top <= L.ci[Len(L.ci)].top, L.ci[Len(L.ci)].fn = "pcall" => L.top + 1 <= Limit(L),
         NoErrfn(L, Len(L.ci)) => L.nCcalls = L.baseCcalls + CCalls(L, Len(L.ci))
  PROVE  LET G == WithStatus(L)
             n == Len(L.ci)
         IN  /\ Fine(L, Step(G, "no"))
             /\ G \in ThreadType /\ Len(G.ci) = n /\ (\A i \in 1 .. n - 1 : G.ci[i] = L.ci[i])
             /\ G.ci[n].func = L.ci[n].func /\ G.errfunc = L.errfunc /\ G.nCcalls = L.nCcalls
<1> DEFINE n == Len(L.ci)
           x == IF Ci(L).fn = "pcall" THEN L.top + 1 ELSE L.top
           G == [L EXCEPT !.top = x]
<1>1. /\ L \in ThreadType /\ L.top \in Nat /\ L.base \in Nat /\ L.base <= L.top /\ L.top <= Limit(L)
      /\ Ci(L) = L.ci[n] /\ L.ci[n].top \in Nat
  BY LastCall DEF Frames
<1>2. x \in Nat /\ L.base <= x /\ x <= Limit(L) /\ x <= L.ci[n].top + 1
  <2>1. CASE Ci(L).fn = "pcall"
    <3>1. x = L.top + 1 /\ x <= Limit(L)
      BY <1>1, <2>1
    <3> HIDE DEF x, n
    <3>2. QED
      BY <1>1, <3>1 DEF n
  <2>2. CASE Ci(L).fn # "pcall"
    <3>1. x = L.top
      BY <2>2
    <3> HIDE DEF x, n
    <3>2. QED
      BY <1>1, <3>1 DEF n
  <2>3. QED
    BY <2>1, <2>2
<1>3. WithStatus(L) = Done(G)
  BY DEF WithStatus
<1> HIDE DEF x
<1>4. Frames(G) /\ Alike(L, G) /\ G.top = x /\ G.nCcalls = L.nCcalls
  BY <1>2, TopSet
<1> HIDE DEF G
<1>5. G.ci = L.ci /\ G.jmp = L.jmp /\ G.baseCcalls = L.baseCcalls /\ G.errfunc = L.errfunc /\ G \in ThreadType
  BY <1>4 DEF Alike, Frames
<1>6. Live(G) /\ Begun(G)
  BY <1>1, <1>4, <1>5, LiveAlike
<1>7. /\ ~Handled(G, n) /\ CCalls(G, n) = CCalls(L, n) /\ (NoErrfn(G, n) <=> NoErrfn(L, n))
  BY <1>5 DEF Handled, CCalls, NoErrfn
<1>8. G.ci[Len(G.ci)].fn \in CallNames /\ Len(G.ci) = n /\ G.top <= G.ci[Len(G.ci)].top + 1 /\ 2 <= Len(G.ci)
  BY <1>2, <1>4, <1>5 DEF PCall, CallNames, Begun
<1>9. Fine(G, Step(Done(G), "no"))
  BY <1>4, <1>5, <1>6, <1>7, <1>8, DoneFine
<1>10. /\ Frames(Done(G)) /\ Len(Done(G).ci) = n /\ (\A i \in 1 .. n - 1 : Done(G).ci[i] = G.ci[i])
       /\ Done(G).ci[n].func = G.ci[n].func /\ Done(G).errfunc = G.errfunc /\ Done(G).nCcalls = G.nCcalls
  BY <1>4, <1>8, DoneOK
<1>11. Fine(L, Step(WithStatus(L), "no"))
  BY <1>3, <1>5, <1>9 DEF Fine
<1>12. QED
  BY <1>3, <1>4, <1>5, <1>10, <1>11 DEF Frames

(* Unwinding to the innermost protected call keeps the outer handlers. *)
LEMMA HandlersUnwound ==
  ASSUME NEW L, NEW G, Frames(L), Frames(G), Handlers(L), Unwound(L, G)
  PROVE  LET j == L.jmp[Len(L.jmp)]
         IN  /\ Handlers(G) /\ ~Handled(G, Len(G.ci)) /\ HandlerOK(L, Len(L.jmp))
             /\ CCalls(G, Len(G.ci)) = CCalls(L, j.ci) /\ (NoErrfn(G, Len(G.ci)) <=> NoErrfn(L, j.ci))
             /\ G.ci[Len(G.ci)] = L.ci[j.ci]
<1> DEFINE m == Len(L.jmp)
           j == L.jmp[m]
           n == j.ci
<1>1. L \in ThreadType /\ m \in Nat /\ 2 <= m /\ L.jmp \in Seq(Handler) /\ Len(L.ci) \in Nat
  BY FieldTypes DEF Frames, Unwound
<1>2. HandlerOK(L, m)
  BY <1>1 DEF Handlers
<1>3. n \in 2 .. Len(L.ci) /\ n \in Nat
  BY <1>1, <1>2 DEF HandlerOK
<1>4. /\ G.jmp = Front(L.jmp) /\ G.errfunc = j.errfunc /\ Len(G.ci) = n
      /\ (\A i \in 1 .. n : G.ci[i] = L.ci[i]) /\ G.baseCcalls = L.baseCcalls
  BY DEF Unwound
<1>5. Len(G.jmp) = m - 1 /\ (\A i \in 1 .. m - 1 : G.jmp[i] = L.jmp[i]) /\ G.jmp \in Seq(Handler)
  <2>1. Len(L.jmp) >= 1
    BY <1>1
  <2>2. /\ Front(L.jmp) \in Seq(Handler) /\ Len(Front(L.jmp)) = m - 1
        /\ \A i \in 1 .. m - 1 : Front(L.jmp)[i] = L.jmp[i]
    BY <1>1, <2>1, FrontOf
  <2>3. QED
    BY <1>4, <2>2
<1>6. ASSUME NEW i \in 2 .. m - 1 PROVE L.jmp[i].ci \in 2 .. n - 1 /\ L.jmp[i].ci \in 2 .. n
  <2>1. i \in 2 .. m /\ HandlerOK(L, i)
    BY <1>1 DEF Handlers
  <2>2. L.jmp[i].ci < n
    BY <1>1, <1>2 DEF HandlerOK
  <2>3. L.jmp[i].ci \in 2 .. Len(L.ci)
    BY <2>1 DEF HandlerOK
  <2>4. QED
    BY <1>1, <1>3, <2>2, <2>3
<1> HIDE DEF n
<1>7. ASSUME NEW i \in 2 .. Len(G.jmp) PROVE HandlerOK(G, i)
  <2>1. i \in 2 .. m - 1 /\ i \in 1 .. m - 1 /\ i \in 2 .. m /\ \A k \in 2 .. i - 1 : k \in 1 .. m - 1
    BY <1>1, <1>5
  <2>2. HandlerOK(L, i) /\ L.jmp[i].ci \in 2 .. n
    BY <1>6, <2>1 DEF Handlers
  <2>3. G.jmp[i] = L.jmp[i] /\ \A k \in 2 .. i - 1 : G.jmp[k] = L.jmp[k]
    BY <1>5, <2>1
  <2>4. n <= Len(G.ci) /\ Len(G.ci) \in Nat
    BY <1>3, <1>4
  <2> HIDE DEF m
  <2>5. QED
    BY <1>3, <1>4, <2>2, <2>3, <2>4, HandlerMoved
<1>8. ~Handled(G, n)
  <2> SUFFICES ASSUME NEW k \in 2 .. Len(G.jmp), G.jmp[k].ci = n PROVE FALSE
    BY DEF Handled
  <2>1. k \in 2 .. m - 1 /\ k \in 1 .. m - 1
    BY <1>1, <1>5
  <2>2. L.jmp[k].ci = n
    BY <1>5, <2>1
  <2>3. QED
    BY <1>3, <1>6, <2>1, <2>2
<1>9. ASSUME NEW i \in 1 .. n - 1, G.ci[i].fn \in PCall PROVE Handled(G, i)
  <2>1. i \in 1 .. Len(L.ci) - 1 /\ i \in 1 .. n /\ i # n
    BY <1>1, <1>3
  <2>2. Handled(L, i)
    BY <1>4, <1>9, <2>1 DEF Handlers
  <2>3. PICK k \in 2 .. m : L.jmp[k].ci = i
    BY <2>2 DEF Handled
  <2>4. k # m
    BY <2>1, <2>3 DEF n
  <2>5. k \in 2 .. m - 1 /\ k \in 1 .. m - 1
    BY <1>1, <2>4
  <2>6. QED
    BY <1>5, <2>3, <2>5 DEF Handled
<1>10. Handlers(G)
  <2>1. G.jmp # <<>> /\ G.jmp[1].by = "resume"
    <3>1. 1 \in 1 .. m - 1 /\ Len(G.jmp) >= 1
      BY <1>1, <1>5
    <3>2. G.jmp[1] = L.jmp[1]
      BY <1>5, <3>1
    <3>3. QED
      BY <1>5, <3>1, <3>2 DEF Handlers
  <2>2. IF Len(G.jmp) = 1 THEN G.errfunc = "none" ELSE G.jmp[2].errfunc = "none"
    <3>1. L.jmp[2].errfunc = "none"
      BY <1>1 DEF Handlers
    <3>2. CASE m = 2
      BY <1>4, <1>5, <3>1, <3>2
    <3>3. CASE m # 2
      <4>1. 2 \in 1 .. m - 1 /\ Len(G.jmp) # 1
        <5> HIDE DEF m
        <5>1. QED
          BY <1>1, <1>5, <3>3
      <4>2. QED
        BY <1>5, <3>1, <4>1
    <3>4. QED
      BY <3>2, <3>3
  <2>3. QED
    BY <1>4, <1>7, <1>9, <2>1, <2>2 DEF Handlers
<1>11. CCalls(G, n) = CCalls(L, n) /\ (NoErrfn(G, n) <=> NoErrfn(L, n))
  <2>1. \A k \in 0 .. n : CCalls(G, k) = CCalls(L, k) /\ (NoErrfn(G, k) <=> NoErrfn(L, k))
    BY <1>3, <1>4, SamePrefix
  <2>2. n \in 0 .. n
    BY <1>3
  <2>3. QED
    BY <2>1, <2>2
<1>12. G.ci[n] = L.ci[n]
  BY <1>3, <1>4
<1>13. QED
  BY <1>2, <1>4, <1>8, <1>10, <1>11, <1>12 DEF n

(* The protected call, its handler gone, with the C calls it was made with, can return. *)
LEMMA UnwoundFine ==
  ASSUME NEW L, NEW G, Frames(L), Live(L), Begun(L), Frames(G), Unwound(L, G),
         G.top <= G.ci[Len(G.ci)].top, G.ci[Len(G.ci)].fn = "pcall" => G.top + 1 <= Limit(G),
         CCalls(L, L.jmp[Len(L.jmp)].ci) + L.baseCcalls <= G.nCcalls,
         NoErrfn(L, L.jmp[Len(L.jmp)].ci) => G.nCcalls = L.baseCcalls + CCalls(L, L.jmp[Len(L.jmp)].ci)
  PROVE  LET H == WithStatus(G)
             n == Len(G.ci)
         IN  /\ Fine(G, Step(H, "no"))
             /\ H \in ThreadType /\ Len(H.ci) = n /\ (\A i \in 1 .. n - 1 : H.ci[i] = G.ci[i])
             /\ H.ci[n].func = G.ci[n].func /\ H.errfunc = G.errfunc /\ H.nCcalls = G.nCcalls
<1> DEFINE j == L.jmp[Len(L.jmp)]
           n == Len(G.ci)
<1>1. /\ Handlers(G) /\ ~Handled(G, n) /\ HandlerOK(L, Len(L.jmp))
      /\ CCalls(G, n) = CCalls(L, j.ci) /\ (NoErrfn(G, n) <=> NoErrfn(L, j.ci))
      /\ G.ci[n] = L.ci[j.ci]
  BY HandlersUnwound DEF Live
<1>2. /\ G.status = L.status /\ G.baseCcalls = L.baseCcalls /\ n = j.ci /\ \A i \in 1 .. n : G.ci[i] = L.ci[i]
  BY DEF Unwound
<1>3. j.ci \in 2 .. Len(L.ci) /\ L.ci[j.ci].fn \in PCall
  BY <1>1 DEF HandlerOK
<1>4. /\ L \in ThreadType /\ Len(L.ci) \in Nat /\ L.nCcalls \in Nat /\ L.baseCcalls \in Nat /\ j.ci \in Nat
      /\ CCalls(L, j.ci) \in Nat /\ CCalls(L, Len(L.ci)) \in Nat /\ CCalls(L, j.ci) <= CCalls(L, Len(L.ci))
  <2> HIDE DEF j
  <2>1. L \in ThreadType /\ Len(L.ci) \in Nat /\ L.nCcalls \in Nat /\ L.baseCcalls \in Nat /\ j.ci \in Nat
    BY <1>3, FieldTypes DEF Frames
  <2>2. j.ci <= Len(L.ci)
    BY <1>3, <2>1
  <2>3. QED
    BY <2>1, <2>2, CCallsNat, CCallsMore
<1>5. G.nCcalls \in Nat /\ CLimit \in Int
  BY FieldTypes, LimitsAssumption DEF Frames, CLimit
<1> HIDE DEF j, n
<1>6. G.baseCcalls + CCalls(G, n) <= G.nCcalls /\ G.baseCcalls + CCalls(G, n) <= CLimit
  BY <1>1, <1>2, <1>4, <1>5 DEF Live, j
<1>7. G.ci[2].fn = "lua" /\ n >= 2
  <2>1. 2 \in 1 .. n /\ n >= 2
    BY <1>2, <1>3, <1>4
  <2>2. QED
    BY <1>2, <2>1 DEF Begun
<1>8. Live(G) /\ Begun(G)
  BY <1>1, <1>2, <1>6, <1>7 DEF Live, Begun, n
<1>9. NoErrfn(G, n) => G.nCcalls = G.baseCcalls + CCalls(G, n)
  BY <1>1, <1>2 DEF j
<1>10. QED
  BY <1>1, <1>3, <1>8, <1>9, StatusFine DEF n

(* The end of luaD_pcall without an error. *)
LEMMA UnprotectFine ==
  ASSUME NEW L, Frames(L), Live(L), Begun(L), Handled(L, Len(L.ci)), L.top <= L.ci[Len(L.ci)].top,
         L.top + 1 <= Limit(L),
         NoErrfn(L, Len(L.ci)) => L.nCcalls = L.baseCcalls + CCalls(L, Len(L.ci))
  PROVE  Fine(L, Step(Unprotect(L), "no"))
<1> DEFINE m == Len(L.jmp)
           j == L.jmp[m]
           n == Len(L.ci)
           ef == j.errfunc
           front == Front(L.jmp)
           G == [L EXCEPT !.errfunc = ef, !.jmp = front]
<1>1. L \in ThreadType /\ m \in Nat /\ L.jmp \in Seq(Handler) /\ n \in Nat
  BY FieldTypes DEF Frames
<1>2. PICK k \in 2 .. m : L.jmp[k].ci = n
  BY DEF Handled
<1>3. 2 <= m /\ m \in 2 .. m /\ m \in 1 .. m
  BY <1>1, <1>2
<1>4. HandlerOK(L, m)
  BY <1>3 DEF Live, Handlers
<1>5. j.ci = n
  <2>1. j.ci \in 2 .. n /\ (k \in 2 .. m - 1 => L.jmp[k].ci < j.ci)
    BY <1>4 DEF HandlerOK
  <2>2. CASE k = m
    BY <1>2, <2>2
  <2>3. CASE k # m
    <3>1. k \in 2 .. m - 1
      BY <1>1, <2>3
    <3>2. QED
      BY <1>1, <1>2, <2>1, <3>1
  <2>4. QED
    BY <2>2, <2>3
<1>6. ef \in {"none", "fn", "bad"} /\ front \in Seq(Handler) /\ Last(L.jmp) = j
  <2>1. ef \in {"none", "fn", "bad"}
    BY <1>1, <1>3, HandlerTypes
  <2>2. Len(L.jmp) >= 1
    BY <1>1, <1>3
  <2>3. QED
    BY <1>1, <2>1, <2>2, FrontOf
<1>7. Unprotect(L) = WithStatus(G)
  BY <1>6 DEF Unprotect
<1> HIDE DEF ef, front
<1>8. G \in ThreadType
  BY <1>1, <1>6, ZenonT(30) DEF ThreadType
<1>9. /\ G.errfunc = ef /\ G.jmp = front /\ G.ci = L.ci /\ G.top = L.top /\ G.base = L.base
      /\ G.stacksize = L.stacksize /\ G.size_ci = L.size_ci
      /\ G.nCcalls = L.nCcalls /\ G.status = L.status /\ G.baseCcalls = L.baseCcalls
  BY <1>1 DEF ThreadType
<1> HIDE DEF G
<1>10. Limit(G) = Limit(L)
  BY <1>9 DEF Limit, StackLast
<1>11. Frames(G)
  BY <1>8, <1>9, <1>10 DEF Frames, FrameOK
<1>12. Unwound(L, G)
  BY <1>3, <1>5, <1>9 DEF Unwound, ef, front
<1>13. CCalls(L, n) + L.baseCcalls <= G.nCcalls
  BY <1>1, <1>9, FieldTypes, CCallsNat DEF Live
<1>14. Fine(G, Step(WithStatus(G), "no"))
  BY <1>5, <1>9, <1>10, <1>11, <1>12, <1>13, UnwoundFine
<1>15. QED
  BY <1>7, <1>9, <1>14 DEF Fine

(* restore_stack_limit leaves room for the calls there are. *)
LEMMA RestoreOK ==
  ASSUME NEW L, Frames(L), 2 <= Len(L.ci)
  PROVE  LET G == restore_stack_limit(L)
         IN  Resized(L, G) /\ Frames(G) /\ G.stacksize = L.stacksize
<1> DEFINE G == [L EXCEPT !.size_ci = LUAI_MAXCALLS]
<1>1. L \in ThreadType /\ Len(L.ci) \in Nat /\ LUAI_MAXCALLS \in Nat /\ L.stacksize \in Nat
  BY FieldTypes, LimitsAssumption DEF Frames
<1>2. CASE L.size_ci > LUAI_MAXCALLS /\ Len(L.ci) < LUAI_MAXCALLS
  <2>1. restore_stack_limit(L) = G
    BY <1>2 DEF restore_stack_limit
  <2>2. G \in ThreadType
    BY <1>1, ZenonT(30) DEF ThreadType
  <2>3. Resized(L, G) /\ G.size_ci = LUAI_MAXCALLS /\ G.stacksize = L.stacksize
    BY <1>1, <2>2 DEF ThreadType, Resized
  <2> HIDE DEF G
  <2>4. L.stacksize <= G.stacksize
    BY <1>1, <2>3
  <2>5. Frames(G)
    BY <1>1, <1>2, <2>3, <2>4, FramesGrown
  <2>6. QED
    BY <2>1, <2>3, <2>5
<1>3. CASE ~(L.size_ci > LUAI_MAXCALLS /\ Len(L.ci) < LUAI_MAXCALLS)
  <2>1. restore_stack_limit(L) = L
    BY <1>3 DEF restore_stack_limit
  <2>2. QED
    BY <1>1, <2>1 DEF Resized
<1>4. QED
  BY <1>2, <1>3

(* The end of luaD_pcall with an error. *)
LEMMA CatchFine ==
  ASSUME NEW L, Frames(L), Live(L), Begun(L), Last(L.jmp).by = "pcall"
  PROVE  LET j == Last(L.jmp)
             G == CatchError(L)
         IN  /\ Fine(L, Step(G, "no"))
             /\ SubSeq(G.ci, 1, j.ci - 1) = SubSeq(L.ci, 1, j.ci - 1) /\ Len(G.ci) = j.ci
             /\ G.ci[j.ci].func = L.ci[j.ci].func
             /\ G.errfunc = j.errfunc /\ G.nCcalls = j.nCcalls
<1> DEFINE m == Len(L.jmp)
           j == L.jmp[m]
           n == j.ci
           ci == SubSeq(L.ci, 1, n)
           top == j.old_top + 1
           base == L.ci[n].base
           count == j.nCcalls
           ef == j.errfunc
           front == Front(L.jmp)
           G == [L EXCEPT !.ci = ci, !.top = top, !.base = base, !.nCcalls = count, !.errfunc = ef, !.jmp = front]
           H == restore_stack_limit(G)
<1>1. L \in ThreadType /\ m \in Nat /\ L.jmp \in Seq(Handler) /\ Len(L.ci) \in Nat /\ L.ci \in Seq(Call)
  BY FieldTypes DEF Frames
<1>2. L.jmp # <<>> /\ L.jmp[1].by = "resume" /\ Last(L.jmp) = j
  BY DEF Live, Handlers, Last
<1>3. 2 <= m /\ m \in 2 .. m /\ m \in 1 .. m
  BY <1>1, <1>2
<1>4. HandlerOK(L, m)
  BY <1>3 DEF Live, Handlers
<1>5. /\ n \in 2 .. Len(L.ci) /\ n \in 1 .. Len(L.ci) /\ n \in 0 .. Len(L.ci) /\ n \in Nat
      /\ L.ci[n].fn \in PCall /\ L.ci[n].base <= j.old_top /\ j.old_top + 2 <= L.ci[n].top
  BY <1>1, <1>4 DEF HandlerOK
<1>6. /\ j.nCcalls \in Nat /\ j.old_top \in Nat /\ j.errfunc \in {"none", "fn", "bad"}
      /\ L.ci[n].base \in Nat /\ L.ci[n].top \in Nat
  BY <1>1, <1>3, <1>5, HandlerTypes, CallTypes
<1>7. /\ top \in Nat /\ base \in Nat /\ count \in Nat /\ ef \in {"none", "fn", "bad"} /\ base <= top
      /\ top + 1 <= L.ci[n].top
  <2> DEFINE x == j.old_top
             y == L.ci[n].base
             z == L.ci[n].top
  <2>1. x \in Nat /\ y \in Nat /\ y <= x /\ z \in Nat /\ x + 2 <= z
    BY <1>5, <1>6
  <2> HIDE DEF x, y, z
  <2>2. x + 1 \in Nat /\ y <= x + 1 /\ (x + 1) + 1 <= z
    BY <2>1
  <2>3. QED
    BY <1>6, <2>2 DEF x, y, z
<1>8. ci \in Seq(Call) /\ Len(ci) = n /\ \A i \in 1 .. n : ci[i] = L.ci[i]
  <2> HIDE DEF n
  <2>1. QED
    BY <1>1, <1>5, PrefixOf
<1>9. front \in Seq(Handler)
  <2>1. Len(L.jmp) >= 1
    BY <1>1, <1>3
  <2>2. QED
    BY <1>1, <2>1, FrontOf
<1>10. CatchError(L) = WithStatus(H)
  BY <1>2 DEF CatchError
<1> HIDE DEF ci, top, base, count, ef, front
<1>11. G \in ThreadType
  BY <1>1, <1>7, <1>8, <1>9, ZenonT(30) DEF ThreadType
<1>12. /\ G.errfunc = ef /\ G.jmp = front /\ G.ci = ci /\ G.top = top /\ G.base = base
       /\ G.stacksize = L.stacksize /\ G.size_ci = L.size_ci
       /\ G.nCcalls = count /\ G.status = L.status /\ G.baseCcalls = L.baseCcalls
  BY <1>1 DEF ThreadType
<1> HIDE DEF G
<1>13. Limit(G) = Limit(L) /\ Limit(L) \in Int
  BY <1>1, <1>12, LimitOK DEF Limit, StackLast
<1> HIDE DEF n, j
<1>14. Frames(G) /\ G.top + 1 <= Limit(G)
  <2>1. G.ci # <<>> /\ G.ci[1].fn = "base" /\ ~G.ci[1].c
    <3>1. 1 \in 1 .. n /\ Len(G.ci) = n /\ n # 0
      BY <1>1, <1>5, <1>8, <1>12
    <3>2. QED
      BY <1>8, <1>12, <3>1 DEF Frames
  <2>2. Len(G.ci) <= G.size_ci /\ 2 <= G.size_ci
    BY <1>1, <1>5, <1>8, <1>12, FieldTypes DEF Frames
  <2>3. ASSUME NEW i \in 1 .. Len(G.ci)
        PROVE  FrameOK(G, G.ci[i])
    <3>1. i \in 1 .. n /\ i \in 1 .. Len(L.ci)
      BY <1>1, <1>5, <1>8, <1>12
    <3>2. QED
      BY <1>8, <1>12, <1>13, <3>1 DEF Frames, FrameOK
  <2>4. ASSUME NEW i \in 1 .. Len(G.ci) - 1
        PROVE  Above(G.ci[i], G.ci[i + 1])
    <3>1. i \in 1 .. n /\ i + 1 \in 1 .. n /\ i \in 1 .. Len(L.ci) - 1
      BY <1>1, <1>5, <1>8, <1>12
    <3>2. QED
      BY <1>8, <1>12, <3>1 DEF Frames
  <2>5. G.base = G.ci[Len(G.ci)].base
    <3>1. n \in 1 .. n /\ Len(G.ci) = n /\ G.ci[n] = L.ci[n]
      BY <1>1, <1>5, <1>8, <1>12
    <3>2. QED
      BY <1>12, <3>1 DEF base
  <2>6. G.base <= G.top /\ G.top <= Limit(G) /\ G.top + 1 <= Limit(G)
    <3>1. L.ci[n].top <= Limit(L)
      BY <1>5 DEF Frames, FrameOK
    <3>2. QED
      BY <1>5, <1>6, <1>7, <1>12, <1>13, <3>1
  <2>7. QED
    BY <1>11, <2>1, <2>2, <2>3, <2>4, <2>5, <2>6 DEF Frames
<1>15. 2 <= Len(G.ci)
  BY <1>5, <1>8, <1>12
<1>16. Resized(G, H) /\ Frames(H) /\ H.stacksize = G.stacksize
  BY <1>14, <1>15, RestoreOK
<1> HIDE DEF H
<1>17. Unwound(L, H)
  BY <1>3, <1>8, <1>12, <1>16 DEF Unwound, Resized, ef, front, n, j
<1>18. /\ H.top <= H.ci[Len(H.ci)].top /\ H.top + 1 <= Limit(H)
       /\ CCalls(L, n) + L.baseCcalls <= H.nCcalls
       /\ NoErrfn(L, n) => H.nCcalls = L.baseCcalls + CCalls(L, n)
  <2>1. H.ci[Len(H.ci)] = L.ci[n] /\ H.top = top /\ H.nCcalls = count
    BY <1>1, <1>5, <1>8, <1>12, <1>16 DEF Resized
  <2>2. CCalls(L, n) \in Nat /\ L.baseCcalls \in Nat
    BY <1>1, <1>5, CCallsNat, FieldTypes
  <2>3. count >= L.baseCcalls + CCalls(L, n) /\ (NoErrfn(L, n) => count = L.baseCcalls + CCalls(L, n))
    BY <1>4 DEF HandlerOK, n, j, count
  <2>4. H.top + 1 <= Limit(H)
    BY <1>14, <1>16 DEF Resized, Limit, StackLast
  <2>5. top <= L.ci[n].top
    BY <1>6, <1>7 DEF n
  <2>6. QED
    BY <1>5, <1>7, <2>1, <2>2, <2>3, <2>4, <2>5
<1> DEFINE W == WithStatus(H)
<1>19. /\ Fine(H, Step(W, "no")) /\ W \in ThreadType /\ Len(W.ci) = Len(H.ci)
       /\ \A i \in 1 .. Len(H.ci) - 1 : W.ci[i] = H.ci[i]
       /\ W.ci[Len(H.ci)].func = H.ci[Len(H.ci)].func /\ W.errfunc = H.errfunc /\ W.nCcalls = H.nCcalls
  BY <1>16, <1>17, <1>18, UnwoundFine DEF n, j
<1>24. W = CatchError(L)
  BY <1>10
<1> HIDE DEF W
<1>20. Fine(L, Step(W, "no"))
  BY <1>12, <1>16, <1>19 DEF Fine, Resized
<1>21. /\ Len(W.ci) = n /\ (\A i \in 1 .. n - 1 : W.ci[i] = L.ci[i])
       /\ W.ci[n].func = L.ci[n].func /\ W.errfunc = ef /\ W.nCcalls = count
  <2>1. Len(H.ci) = n /\ H.errfunc = ef /\ H.nCcalls = count /\ \A i \in 1 .. n : H.ci[i] = L.ci[i]
    BY <1>1, <1>5, <1>8, <1>12, <1>16 DEF Resized
  <2>2. \A i \in 1 .. n - 1 : i \in 1 .. n
    BY <1>5
  <2>3. n \in 1 .. n
    BY <1>5
  <2>4. QED
    BY <1>19, <2>1, <2>2, <2>3
<1>22. SubSeq(W.ci, 1, n - 1) = SubSeq(L.ci, 1, n - 1)
  <2> DEFINE D == W.ci
             k == n - 1
  <2>1. D \in Seq(Call) /\ k \in 0 .. Len(D) /\ k \in 0 .. Len(L.ci)
    BY <1>1, <1>5, <1>19, <1>21, FieldTypes
  <2>2. \A i \in 1 .. k : D[i] = L.ci[i]
    BY <1>21
  <2> HIDE DEF D, k
  <2>3. SubSeq(D, 1, k) = [i \in 1 .. k |-> D[i]]
    BY <2>1
  <2>4. SubSeq(L.ci, 1, k) = [i \in 1 .. k |-> L.ci[i]]
    BY <1>1, <2>1
  <2>5. QED
    BY <2>2, <2>3, <2>4 DEF D, k
<1>23. QED
  BY <1>2, <1>20, <1>21, <1>22, <1>24 DEF n, j, ef, count

-----------------------------------------------------------------------------
(* Coroutines.                                                             *)

(* G is L with more room for its last call. *)
Roomier(L, G) ==
  LET n == Len(L.ci)
  IN  /\ Frames(G) /\ Len(G.ci) = n /\ (\A i \in 1 .. n : i # n => G.ci[i] = L.ci[i])
      /\ G.ci[n].fn = L.ci[n].fn /\ G.ci[n].c = L.ci[n].c /\ G.ci[n].func = L.ci[n].func
      /\ G.ci[n].base = L.ci[n].base /\ L.ci[n].top <= G.ci[n].top
      /\ G.top = L.top /\ G.base = L.base /\ G.nCcalls = L.nCcalls
      /\ G.status = L.status /\ G.baseCcalls = L.baseCcalls /\ G.errfunc = L.errfunc /\ G.jmp = L.jmp

(* The larger of two numbers. *)
LEMMA MaxOfTwo ==
  ASSUME NEW a \in Nat, NEW b \in Nat
  PROVE  Max({a, b}) \in Nat /\ a <= Max({a, b}) /\ b <= Max({a, b}) /\ Max({a, b}) \in {a, b}
<1>1. \E x \in {a, b} : \A y \in {a, b} : x >= y
  <2>1. CASE a >= b
    BY <2>1
  <2>2. CASE ~(a >= b)
    BY <2>2
  <2>3. QED
    BY <2>1, <2>2
<1>2. Max({a, b}) \in {a, b} /\ \A y \in {a, b} : Max({a, b}) >= y
  BY <1>1, Zenon DEF Max
<1>3. QED
  BY <1>2

(* lua_checkstack makes the room it is asked for. *)
LEMMA RoomMade ==
  ASSUME NEW L, Frames(L), NEW size \in Nat
  PROVE  LET G == lua_checkstack(L, size)
         IN  /\ Roomier(L, G) /\ L.top + size <= Limit(G)
             /\ L.top <= L.ci[Len(L.ci)].top => L.top + size <= G.ci[Len(L.ci)].top
<1> DEFINE n == Len(L.ci)
           C == luaD_checkstack(L, size)
           top == Max({L.ci[n].top, L.top + size})
           ci == [L.ci[n] EXCEPT !.top = top]
           cs == [L.ci EXCEPT ![n] = ci]
           G == [C EXCEPT !.ci = cs]
<1>1. /\ L \in ThreadType /\ n \in Nat /\ 1 <= n /\ n \in 1 .. n /\ L.ci \in Seq(Call) /\ L.ci[n] \in Call
      /\ L.top \in Nat /\ L.ci[n].top \in Nat /\ L.ci[n].func \in Nat /\ L.ci[n].base \in Nat /\ L.size_ci \in Nat
      /\ L.top <= Limit(L) /\ L.ci[n].top <= Limit(L) /\ L.ci[n].func < L.ci[n].base /\ L.ci[n].base <= L.ci[n].top
      /\ Len(L.ci) <= L.size_ci /\ 2 <= L.size_ci
  BY FieldTypes, LastCall DEF Frames, FrameOK
<1>2. CASE size = 0
  <2>1. lua_checkstack(L, size) = L
    BY <1>2 DEF lua_checkstack
  <2>2. QED
    BY <1>1, <1>2, <2>1 DEF Roomier
<1>3. CASE size # 0
  <2>1. /\ Resized(L, C) /\ C.size_ci = L.size_ci
        /\ Limit(L) <= Limit(C) /\ L.top + size <= Limit(C)
    BY <1>1, Checked
  <2>2. C.ci = L.ci
    BY <2>1 DEF Resized
  <2>3. lua_checkstack(L, size) = G
    BY <1>3, <2>2 DEF lua_checkstack
  <2> HIDE DEF C
  <2>4. /\ top \in Nat /\ L.ci[n].top <= top /\ L.top + size <= top
        /\ top \in {L.ci[n].top, L.top + size}
    <3>1. L.top + size \in Nat
      BY <1>1
    <3>2. QED
      BY <1>1, <3>1, MaxOfTwo
  <2>5. Limit(C) \in Int /\ C \in ThreadType /\ Limit(L) \in Int
    BY <1>1, <2>1, LimitOK DEF Resized
  <2> HIDE DEF top
  <2>6. top <= Limit(C)
    BY <1>1, <2>1, <2>4, <2>5
  <2>7. ci \in Call
    BY <1>1, <2>4, Zenon DEF Call
  <2>8. ci.fn = L.ci[n].fn /\ ci.c = L.ci[n].c /\ ci.func = L.ci[n].func /\ ci.base = L.ci[n].base /\ ci.top = top
    BY <1>1 DEF Call
  <2> HIDE DEF ci, n
  <2>9. cs \in Seq(Call) /\ Len(cs) = n /\ cs[n] = ci /\ \A i \in 1 .. n : i # n => cs[i] = L.ci[i]
    BY <1>1, <2>7 DEF n
  <2> HIDE DEF cs
  <2>10. G \in ThreadType
    BY <2>5, <2>9, ZenonT(30) DEF ThreadType
  <2>11. /\ G.ci = cs /\ G.top = C.top /\ G.base = C.base /\ G.nCcalls = C.nCcalls
         /\ G.stacksize = C.stacksize /\ G.size_ci = C.size_ci
         /\ G.status = C.status /\ G.baseCcalls = C.baseCcalls /\ G.errfunc = C.errfunc /\ G.jmp = C.jmp
    BY <2>5 DEF ThreadType
  <2> HIDE DEF G
  <2>12. Limit(G) = Limit(C)
    BY <2>11 DEF Limit, StackLast
  <2>13. ASSUME NEW i \in 1 .. Len(G.ci)
         PROVE  FrameOK(G, G.ci[i])
    <3>1. i \in 1 .. n /\ FrameOK(L, L.ci[i]) /\ L.ci[i].top \in Nat
      BY <1>1, <2>9, <2>11, CallTypes DEF Frames, n
    <3>2. CASE i = n
      BY <1>1, <2>4, <2>6, <2>8, <2>9, <2>11, <2>12, <3>2 DEF FrameOK
    <3>3. CASE i # n
      BY <2>1, <2>5, <2>9, <2>11, <2>12, <3>1, <3>3 DEF FrameOK
    <3>4. QED
      BY <3>2, <3>3
  <2>14. ASSUME NEW i \in 1 .. Len(G.ci) - 1
         PROVE  Above(G.ci[i], G.ci[i + 1])
    <3>1. Above(L.ci[i], L.ci[i + 1]) /\ i \in 1 .. n /\ i # n /\ i + 1 \in 1 .. n
      BY <1>1, <2>9, <2>11 DEF Frames, n
    <3>2. G.ci[i] = L.ci[i]
      BY <2>9, <2>11, <3>1
    <3>3. CASE i + 1 = n
      BY <2>8, <2>9, <2>11, <3>1, <3>2, <3>3 DEF Above
    <3>4. CASE i + 1 # n
      BY <2>9, <2>11, <3>1, <3>2, <3>4
    <3>5. QED
      BY <3>3, <3>4
  <2>15. Frames(G)
    <3>1. 1 \in 1 .. n
      BY <1>1
    <3>2. G.ci[1].fn = "base" /\ ~G.ci[1].c /\ G.ci # <<>>
      <4>1. L.ci[1].fn = "base" /\ ~L.ci[1].c
        BY DEF Frames
      <4>2. G.ci[1].fn = L.ci[1].fn /\ G.ci[1].c = L.ci[1].c
        BY <2>8, <2>9, <2>11, <3>1
      <4>3. QED
        BY <1>1, <2>9, <2>11, <4>1, <4>2
    <3>3. Len(G.ci) <= G.size_ci /\ 2 <= G.size_ci
      BY <1>1, <2>1, <2>9, <2>11 DEF n
    <3>4. G.base = G.ci[Len(G.ci)].base /\ G.base <= G.top
      BY <2>1, <2>8, <2>9, <2>11 DEF Frames, Resized, n
    <3>5. G.top <= Limit(G)
      BY <1>1, <2>1, <2>5, <2>11, <2>12 DEF Resized
    <3>6. QED
      BY <2>10, <2>13, <2>14, <3>2, <3>3, <3>4, <3>5 DEF Frames
  <2>16. Roomier(L, G)
    BY <1>1, <2>1, <2>4, <2>8, <2>9, <2>11, <2>15 DEF Roomier, Resized, n
  <2>17. L.top + size <= Limit(G) /\ L.top + size <= G.ci[n].top
    BY <2>1, <2>4, <2>8, <2>9, <2>11, <2>12
  <2>18. QED
    BY <2>3, <2>16, <2>17 DEF n
<1>4. QED
  BY <1>2, <1>3

(* More room disturbs neither a live nor a dormant thread. *)
LEMMA LiveRoomier ==
  ASSUME NEW L, NEW G, Frames(L), Roomier(L, G)
  PROVE  /\ Live(L) => Live(G)
         /\ Settled(L) /\ L.ci[Len(L.ci)].fn \notin LuaFn => Settled(G)
         /\ Dormant(L) => Dormant(G)
         /\ Begun(L) => Begun(G)
<1> DEFINE n == Len(L.ci)
<1>1. /\ n \in Nat /\ 1 <= n /\ n \in 1 .. n /\ L.top \in Nat /\ L.ci[n].top \in Nat /\ G.ci[n].top \in Nat
      /\ L \in ThreadType /\ G \in ThreadType /\ LUA_MINSTACK \in Nat
  BY FieldTypes, LastCall, LimitsAssumption, SMTT(30) DEF Frames, Roomier, Ci, Last
<1>2. /\ Len(G.ci) = n /\ (\A i \in 1 .. n : i # n => G.ci[i] = L.ci[i])
      /\ G.ci[n].fn = L.ci[n].fn /\ G.ci[n].c = L.ci[n].c /\ G.ci[n].func = L.ci[n].func
      /\ G.ci[n].base = L.ci[n].base /\ L.ci[n].top <= G.ci[n].top
      /\ G.top = L.top /\ G.base = L.base /\ G.nCcalls = L.nCcalls
      /\ G.status = L.status /\ G.baseCcalls = L.baseCcalls /\ G.errfunc = L.errfunc /\ G.jmp = L.jmp
  BY DEF Roomier
<1>3. ASSUME NEW i \in 1 .. n
      PROVE  /\ G.ci[i].fn = L.ci[i].fn /\ G.ci[i].c = L.ci[i].c /\ G.ci[i].base = L.ci[i].base
             /\ L.ci[i].top <= G.ci[i].top /\ L.ci[i].top \in Nat /\ G.ci[i].top \in Nat
  <2>1. L.ci[i].top \in Nat
    BY <1>1, CallTypes
  <2>2. CASE i = n
    BY <1>1, <1>2, <2>2
  <2>3. CASE i # n
    BY <1>2, <2>1, <2>3
  <2>4. QED
    BY <2>2, <2>3
<1> HIDE DEF n
<1>4. ASSUME NEW k \in 0 .. n
      PROVE  CCalls(G, k) = CCalls(L, k) /\ (NoErrfn(G, k) <=> NoErrfn(L, k))
  <2>1. k \in Nat /\ \A i \in 1 .. k : G.ci[i].fn = L.ci[i].fn /\ G.ci[i].c = L.ci[i].c
    BY <1>1, <1>3
  <2>2. CCalls(G, k) = CCalls(L, k)
    BY <2>1, CCallsSame
  <2>3. QED
    BY <2>1, <2>2 DEF NoErrfn
<1>5. \A i : Handled(G, i) <=> Handled(L, i)
  BY <1>2 DEF Handled
<1>6. ASSUME NEW i \in 2 .. Len(L.jmp), HandlerOK(L, i) PROVE HandlerOK(G, i)
  <2> DEFINE c == L.jmp[i].ci
  <2>1. c \in 2 .. n
    BY <1>6 DEF HandlerOK, n
  <2>2. c \in 0 .. n /\ c \in 1 .. n
    BY <1>1, <2>1
  <2> HIDE DEF c
  <2>3. CCalls(G, c) = CCalls(L, c) /\ (NoErrfn(G, c) <=> NoErrfn(L, c))
    BY <1>4, <2>2
  <2>4. /\ G.ci[c].fn = L.ci[c].fn /\ G.ci[c].base = L.ci[c].base
        /\ L.ci[c].top <= G.ci[c].top /\ L.ci[c].top \in Nat /\ G.ci[c].top \in Nat
    BY <1>3, <2>2
  <2>5. i \in 1 .. Len(L.jmp)
    BY <1>1, FieldTypes
  <2>6. L.jmp[i].old_top \in Nat
    BY <1>1, <2>5, HandlerTypes
  <2>7. L.jmp[i].old_top + 2 <= G.ci[c].top
    BY <1>6, <2>4, <2>6 DEF HandlerOK, c
  <2>8. QED
    BY <1>2, <1>6, <2>1, <2>3, <2>4, <2>7 DEF HandlerOK, c
<1>7. Handlers(L) => Handlers(G)
  <2>1. \A i \in 1 .. n - 1 : G.ci[i].fn = L.ci[i].fn
    BY <1>1, <1>3
  <2>2. QED
    BY <1>2, <1>5, <1>6, <2>1 DEF Handlers, n
<1>8. CCalls(G, n) = CCalls(L, n) /\ (NoErrfn(G, n) <=> NoErrfn(L, n))
  BY <1>1, <1>4
<1>9. (Live(L) => Live(G)) /\ (Begun(L) => Begun(G))
  <2>1. n >= 2 => G.ci[2].fn = L.ci[2].fn
    BY <1>1, <1>3
  <2>2. QED
    BY <1>2, <1>7, <1>8, <2>1 DEF Live, Begun, n
<1>10. Settled(L) /\ L.ci[n].fn \notin LuaFn => Settled(G)
  <2> SUFFICES ASSUME Settled(L), L.ci[n].fn \notin LuaFn PROVE Settled(G)
    OBVIOUS
  <2>1. /\ L.ci[n].fn = "c" => L.top <= G.ci[n].top
        /\ L.ci[n].fn = "ret" => L.top <= G.ci[n].top + 1
        /\ L.ci[n].fn \in CallNames \ {"c"} => L.top + LUA_MINSTACK <= G.ci[n].top
    BY <1>1, <1>2 DEF Settled, n
  <2>2. QED
    BY <1>2, <1>5, <1>8, <1>9, <2>1 DEF Settled, n
<1>11. Dormant(L) => Dormant(G)
  <2> SUFFICES ASSUME Dormant(L) PROVE Dormant(G)
    OBVIOUS
  <2>1. L.ci[n].fn \notin LuaFn \cup {"base"} => L.top <= G.ci[n].top
    BY <1>1, <1>2 DEF Dormant, n
  <2>2. n >= 2 => G.ci[2].fn = L.ci[2].fn
    BY <1>1, <1>3
  <2>3. QED
    BY <1>1, <1>2, <1>3, <2>1, <2>2 DEF Dormant, Begun, n
<1>12. QED
  BY <1>9, <1>10, <1>11 DEF n

(* A C function that has pushed its results returns. *)
LEMMA PushedFine ==
  ASSUME NEW L, Frames(L), Live(L), Settled(L), L.ci[Len(L.ci)].fn \in CallNames,
         NEW n \in Nat, L.base <= n, n <= L.ci[Len(L.ci)].top
  PROVE  Fine(L, Step(Done([L EXCEPT !.top = n]), "no"))
<1> DEFINE G == [L EXCEPT !.top = n]
<1>1. n <= Limit(L) /\ L \in ThreadType /\ Len(L.ci) \in 1 .. Len(L.ci)
  <2>1. L.ci[Len(L.ci)].top \in Nat /\ L.ci[Len(L.ci)].top <= Limit(L) /\ L \in ThreadType
        /\ Len(L.ci) \in 1 .. Len(L.ci)
    BY LastCall DEF Frames, FrameOK
  <2>2. Limit(L) \in Int
    BY <2>1, LimitOK
  <2>3. QED
    BY <2>1, <2>2
<1>2. Frames(G) /\ Alike(L, G) /\ G.top = n /\ G.nCcalls = L.nCcalls
  BY <1>1, TopSet
<1> HIDE DEF G
<1>3. Live(G) /\ Begun(G)
  BY <1>1, <1>2, LiveAlike DEF Frames, Settled
<1>4. G.ci = L.ci /\ G.baseCcalls = L.baseCcalls /\ G.jmp = L.jmp
  BY <1>2 DEF Alike
<1>5. /\ ~Handled(G, Len(G.ci))
      /\ NoErrfn(G, Len(G.ci)) => G.nCcalls = G.baseCcalls + CCalls(G, Len(G.ci))
  BY <1>2, <1>4 DEF Settled, Handled, NoErrfn, CCalls
<1>6. G.top <= G.ci[Len(G.ci)].top + 1
  <2>1. L.ci[Len(L.ci)].top \in Nat
    BY LastCall
  <2>2. QED
    BY <1>2, <1>4, <2>1
<1>7. Fine(G, Step(Done(G), "no"))
  BY <1>2, <1>3, <1>4, <1>5, <1>6, DoneFine
<1>8. QED
  BY <1>4, <1>7 DEF Fine, G

(* An error of a C function that has not made a protected call. *)
LEMMA RaisedFine ==
  ASSUME NEW L, NEW G, Frames(L), Live(L), Begun(L), L.ci[Len(L.ci)].fn \notin PCall,
         NEW e \in {"msg", "errrun", "errerr", "outside"}, Raised(L, G, e)
  PROVE  Fine(L, Step(G, e))
<1> DEFINE q == Step(G, e)
<1>1. Guarded(L) /\ q.err = e /\ q.L = G
  BY DEF Guarded, Step
<1> HIDE DEF q
<1>2. Fine(L, q)
  BY <1>1, FailedFine
<1>3. QED
  BY <1>2 DEF q

(* An error is raised in a thread. *)
LEMMA RunerrorFine ==
  ASSUME NEW L, Frames(L), Live(L), Begun(L), Guarded(L)
  PROVE  Fine(L, luaG_runerror(L))
<1>1. L.status \notin {"errrun", "errerr"}
  BY DEF Live
<1>2. luaG_runerror(L).err \in {"msg", "outside"} /\ Raised(L, luaG_runerror(L).L, luaG_runerror(L).err)
  BY <1>1, RunerrorOK
<1>3. QED
  BY <1>2, FailedFine

(* luaB_coresume and luaB_auxwrap of a thread that could not be resumed, or failed. *)
LEMMA RefusedFine ==
  ASSUME NEW L, Frames(L), Live(L), Settled(L), L.ci[Len(L.ci)].fn \in {"resume", "wrap"}
  PROVE  Fine(L, Refused(L))
<1> DEFINE n == Len(L.ci)
           one == L.top + 1
           two == L.top + 2
<1>1. /\ Ci(L) = L.ci[n] /\ L.top \in Nat /\ L.base \in Nat /\ L.base <= L.top /\ L.ci[n].top \in Nat
      /\ LUA_MINSTACK \in Nat /\ 2 <= LUA_MINSTACK /\ L.ci[n].fn \in CallNames
      /\ L.ci[n].top <= Limit(L) /\ L \in ThreadType
  BY LastCall, LimitsAssumption DEF Frames, FrameOK, CallNames
<1>2. L.top + LUA_MINSTACK <= L.ci[n].top
  BY <1>1 DEF Settled
<1>3. Limit(L) \in Int
  BY <1>1, LimitOK
<1>4. /\ one \in Nat /\ L.base <= one /\ one <= Limit(L) /\ L.top <= one /\ L.top + 1 <= one
      /\ two \in Nat /\ L.base <= two /\ two <= L.ci[n].top
  <2> DEFINE c == L.ci[n].top
             h == Limit(L)
             a == L.top
  <2>1. c \in Nat /\ h \in Int /\ c <= h /\ a \in Nat /\ a + LUA_MINSTACK <= c
    BY <1>1, <1>2, <1>3
  <2> HIDE DEF c, h, a
  <2>2. a + 1 \in Nat /\ a + 1 <= h /\ a <= a + 1 /\ a + 1 <= a + 1 /\ a + 2 \in Nat /\ a + 2 <= c /\ a <= a + 2
    BY <1>1, <2>1
  <2>3. L.base <= a + 1 /\ L.base <= a + 2
    BY <1>1 DEF a
  <2>4. QED
    BY <2>2, <2>3 DEF a, c, h
<1>5. Refused(L) = IF L.ci[n].fn = "wrap" THEN Step([L EXCEPT !.top = one], "msg")
                   ELSE Step(Done([L EXCEPT !.top = two]), "no")
  BY <1>1 DEF Refused
<1> HIDE DEF one, two
<1>6. CASE L.ci[n].fn = "wrap"
  <2> DEFINE G == [L EXCEPT !.top = one]
  <2>1. Frames(G) /\ Alike(L, G) /\ G.top = one
    BY <1>4, TopSet
  <2> HIDE DEF G
  <2>2. "msg" \in {"msg", "errrun", "errerr", "outside"} /\ L.ci[n].fn \notin PCall /\ Begun(L) /\ Outside("msg")
    BY <1>6 DEF PCall, Settled, Outside
  <2>3. G.base + 1 <= G.top
    BY <1>1, <2>1 DEF Alike, one
  <2>4. Raised(L, G, "msg")
    BY <2>1, <2>2, <2>3 DEF Raised
  <2>5. Fine(L, Step(G, "msg"))
    BY <2>2, <2>4, RaisedFine
  <2>6. QED
    BY <1>5, <1>6, <2>5 DEF G
<1>7. CASE L.ci[n].fn # "wrap"
  <2>1. Fine(L, Step(Done([L EXCEPT !.top = two]), "no"))
    BY <1>1, <1>4, PushedFine
  <2>2. QED
    BY <1>5, <1>7, <2>1
<1>8. QED
  BY <1>6, <1>7

(* ... and of one that yielded or ended with nres values *)
LEMMA ReceivedFine ==
  ASSUME NEW L, Frames(L), Live(L), Settled(L), L.ci[Len(L.ci)].fn \in {"resume", "wrap"}, NEW nres \in Nat
  PROVE  /\ Fine(L, Received(L, nres))
         /\ MayPush(L, nres + 1) => Received(L, nres).err = "no"
<1> DEFINE n == Len(L.ci)
           m == nres + 1
           G == lua_checkstack(L, m)
           top == G.top + (nres + (IF L.ci[n].fn = "wrap" THEN 0 ELSE 1))
<1>1. /\ Ci(L) = L.ci[n] /\ L.top \in Nat /\ L.base \in Nat /\ L.base <= L.top /\ L.ci[n].top \in Nat
      /\ LUA_MINSTACK \in Nat /\ L.ci[n].fn \in CallNames /\ m \in Nat
      /\ L.ci[n].fn \notin LuaFn /\ L.ci[n].fn \notin PCall
  BY LastCall, LimitsAssumption DEF CallNames, LuaFn, PCall
<1>2. L.top <= L.ci[n].top
  BY <1>1 DEF Settled
<1>3. Received(L, nres) = IF ~MayPush(L, m) THEN luaG_runerror(L)
                          ELSE Step(Done([G EXCEPT !.top = G.top + nres + (IF L.ci[n].fn = "wrap" THEN 0 ELSE 1)]), "no")
  BY <1>1 DEF Received
<1>4. Roomier(L, G) /\ L.top + m <= G.ci[n].top
  <2> HIDE DEF m
  <2>1. QED
    BY <1>1, <1>2, RoomMade
<1>5. CASE ~MayPush(L, m)
  <2>1. Guarded(L) /\ Begun(L)
    BY <1>1 DEF Guarded, Settled
  <2>2. QED
    BY <1>3, <1>5, <2>1, RunerrorFine
<1>6. CASE MayPush(L, m)
  <2> HIDE DEF G, m
  <2>1. G.top = L.top /\ G.base = L.base /\ G.ci[Len(G.ci)].fn = L.ci[n].fn /\ Len(G.ci) = n /\ Frames(G)
        /\ G.baseCcalls = L.baseCcalls
    BY <1>4 DEF Roomier
  <2>2. Live(G) /\ Settled(G)
    BY <1>1, <1>4, LiveRoomier
  <2>3. top \in Nat /\ G.base <= top /\ top <= L.top + m
    <3>1. CASE L.ci[n].fn = "wrap"
      BY <1>1, <2>1, <3>1 DEF m
    <3>2. CASE L.ci[n].fn # "wrap"
      BY <1>1, <2>1, <3>2 DEF m
    <3>3. QED
      BY <3>1, <3>2
  <2>4. G.ci[n].top \in Nat
    BY <2>1, LastCall
  <2>5. top <= G.ci[Len(G.ci)].top
    <3> HIDE DEF top
    <3>1. L.top + m \in Nat
      BY <1>1
    <3>2. QED
      BY <1>4, <2>1, <2>3, <2>4, <3>1
  <2>6. G.top + nres + (IF L.ci[n].fn = "wrap" THEN 0 ELSE 1) = top
    <3>1. CASE L.ci[n].fn = "wrap"
      BY <1>1, <2>1, <3>1
    <3>2. CASE L.ci[n].fn # "wrap"
      BY <1>1, <2>1, <3>2
    <3>3. QED
      BY <3>1, <3>2
  <2> HIDE DEF top
  <2>7. Fine(G, Step(Done([G EXCEPT !.top = top]), "no"))
    BY <1>1, <2>1, <2>2, <2>3, <2>5, PushedFine
  <2>8. Received(L, nres) = Step(Done([G EXCEPT !.top = top]), "no")
    BY <1>3, <1>6, <2>6
  <2>9. QED
    BY <2>1, <2>7, <2>8 DEF Fine, Step
<1>7. QED
  BY <1>5, <1>6

(* A thread whose only handler is that of lua_resume, and that made no call from C. *)
Fresh(L, n) ==
  /\ L.jmp = <<InResume>> /\ L.errfunc = "none" /\ L.nCcalls = n /\ L.baseCcalls = n
  /\ \A i \in 1 .. Len(L.ci) : ~L.ci[i].c

(* A thread just resumed has the handler of lua_resume only. *)
LEMMA FreshHandlers ==
  ASSUME NEW L, NEW n, Frames(L), Fresh(L, n)
  PROVE  /\ Handlers(L) /\ \A i : ~Handled(L, i)
         /\ CCalls(L, Len(L.ci)) = 0 /\ \A i \in 1 .. Len(L.ci) - 1 : L.ci[i].fn \notin PCall \cup {"c"}
<1>1. Len(L.ci) \in Nat /\ L \in ThreadType
  BY FieldTypes DEF Frames
<1>2. L.jmp = <<InResume>> /\ Len(L.jmp) = 1 /\ L.jmp[1].by = "resume" /\ L.jmp # <<>>
  BY DEF Fresh, InResume
<1>3. \A i \in 1 .. Len(L.ci) - 1 : L.ci[i].fn \notin PCall \cup {"c"}
  <2> SUFFICES ASSUME NEW i \in 1 .. Len(L.ci) - 1, L.ci[i].fn \in PCall \cup {"c"} PROVE FALSE
    OBVIOUS
  <2>1. Above(L.ci[i], L.ci[i + 1]) /\ i + 1 \in 1 .. Len(L.ci)
    BY <1>1 DEF Frames
  <2>2. L.ci[i + 1].c
    BY <2>1 DEF Above
  <2>3. QED
    BY <2>1, <2>2 DEF Fresh
<1>4. \A i : ~Handled(L, i)
  BY <1>2 DEF Handled
<1>5. Handlers(L)
  BY <1>2, <1>3 DEF Handlers, Fresh
<1>6. CCalls(L, Len(L.ci)) = 0
  BY <1>1, CCallsNone DEF Fresh
<1>7. QED
  BY <1>3, <1>4, <1>5, <1>6

(* The thread that lua_resume is about to run. *)
LEMMA ResumeSet ==
  ASSUME NEW L, Frames(L), L.errfunc = "none", \A i \in 1 .. Len(L.ci) : ~L.ci[i].c
  PROVE  LET n == L.nCcalls + 1
             G == [L EXCEPT !.nCcalls = n, !.baseCcalls = n, !.jmp = <<InResume>>]
         IN  /\ Frames(G) /\ Fresh(G, n) /\ G.ci = L.ci /\ G.top = L.top /\ G.base = L.base
             /\ G.status = L.status /\ G.stacksize = L.stacksize /\ n \in Nat
<1> DEFINE n == L.nCcalls + 1
           jmp == <<InResume>>
           G == [L EXCEPT !.nCcalls = n, !.baseCcalls = n, !.jmp = jmp]
<1>1. L \in ThreadType
  BY DEF Frames
<1>2. n \in Nat
  BY <1>1, FieldTypes
<1>3. InResume \in Handler
  BY DEF InResume, Handler
<1>4. jmp \in Seq(Handler)
  BY <1>3
<1> HIDE DEF n, jmp
<1>5. G \in ThreadType
  BY <1>1, <1>2, <1>4, ZenonT(30) DEF ThreadType
<1>6. /\ G.ci = L.ci /\ G.top = L.top /\ G.base = L.base /\ G.nCcalls = n /\ G.baseCcalls = n
      /\ G.stacksize = L.stacksize /\ G.size_ci = L.size_ci
      /\ G.status = L.status /\ G.errfunc = L.errfunc /\ G.jmp = jmp
  BY <1>1 DEF ThreadType
<1> HIDE DEF G
<1>7. Limit(G) = Limit(L)
  BY <1>6 DEF Limit, StackLast
<1>8. Frames(G)
  BY <1>5, <1>6, <1>7 DEF Frames, FrameOK
<1>9. Fresh(G, n)
  BY <1>6 DEF Fresh, jmp
<1>10. QED
  BY <1>2, <1>6, <1>8, <1>9 DEF n, jmp, G

(* A status is set without a change of the calls. *)
LEMMA StatusSet ==
  ASSUME NEW L, Frames(L), L.status \in {"free", "ok", "yield"}, NEW st \in {"free", "ok", "yield"}
  PROVE  LET G == [L EXCEPT !.status = st]
         IN  /\ Frames(G) /\ G.status = st /\ G.ci = L.ci /\ G.top = L.top /\ G.base = L.base
             /\ G.nCcalls = L.nCcalls /\ G.baseCcalls = L.baseCcalls /\ G.stacksize = L.stacksize
             /\ G.errfunc = L.errfunc /\ G.jmp = L.jmp
<1> DEFINE G == [L EXCEPT !.status = st]
<1>1. L \in ThreadType
  BY DEF Frames
<1>2. G \in ThreadType
  BY <1>1, ZenonT(30) DEF ThreadType
<1>3. /\ G.status = st /\ G.ci = L.ci /\ G.top = L.top /\ G.base = L.base
      /\ G.nCcalls = L.nCcalls /\ G.baseCcalls = L.baseCcalls /\ G.stacksize = L.stacksize
      /\ G.errfunc = L.errfunc /\ G.jmp = L.jmp /\ G.size_ci = L.size_ci
  BY <1>1 DEF ThreadType
<1> HIDE DEF G
<1>4. Limit(G) = Limit(L)
  BY <1>3 DEF Limit, StackLast, Over
<1>5. Frames(G)
  BY <1>2, <1>3, <1>4 DEF Frames, FrameOK
<1>6. QED
  BY <1>3, <1>5 DEF G

(* A thread that lua_resume has just set going. *)
Resumed(L, r) ==
  /\ Frames(r.L) /\ Live(r.L) /\ r.L.baseCcalls = L.nCcalls + 1
  /\ r.err \in {"no", "outside"} /\ Outside(r.err)
  /\ IF r.err = "no" THEN Settled(r.L) ELSE Troubled(r.L, r.err)

(* The first resume of a coroutine calls its function. *)
LEMMA ResumeFirst ==
  ASSUME NEW L, Frames(L), Dormant(L), L.status = "ok", NEW nargs \in Nat, NEW p, ProtoOK(p),
         L.base + nargs + 1 <= L.top, L.nCcalls + 1 <= CLimit
  PROVE  LET r == lua_resume(L, nargs, p)
         IN  /\ Resumed(L, r)
             /\ r.L.ci[1] = L.ci[1] /\ (2 <= Len(r.L.ci) => r.L.ci[2].func = (L.top - nargs) - 1)
<1> DEFINE n == L.nCcalls + 1
           G == [L EXCEPT !.nCcalls = n, !.baseCcalls = n, !.jmp = <<InResume>>]
           r == lua_resume(L, nargs, p)
           lua == "lua"
           no == FALSE
<1>1. /\ L \in ThreadType /\ Len(L.ci) = 1 /\ L.ci[1].fn = "base" /\ ~L.ci[1].c /\ L.errfunc = "none"
      /\ L.top \in Nat /\ L.base \in Nat /\ L.nCcalls \in Nat
  BY FieldTypes DEF Frames, Dormant
<1>2. /\ Frames(G) /\ Fresh(G, n) /\ G.ci = L.ci /\ G.top = L.top /\ G.base = L.base
      /\ G.status = L.status /\ n \in Nat
  <2>1. \A i \in 1 .. Len(L.ci) : ~L.ci[i].c
    BY <1>1
  <2>2. QED
    BY <1>1, <2>1, ResumeSet
<1>3. r = luaD_precall(G, lua, no, p, nargs)
  <2>1. r = resume(G, nargs, p)
    BY DEF lua_resume
  <2> HIDE DEF G, r
  <2>2. QED
    BY <1>2, <2>1 DEF resume
<1> HIDE DEF G, r
<1>4. /\ Handlers(G) /\ (\A i : ~Handled(G, i)) /\ CCalls(G, Len(G.ci)) = 0
  BY <1>2, FreshHandlers
<1>5. lua = "lua" /\ lua \in LuaFn /\ no = FALSE /\ no \in BOOLEAN
  BY DEF LuaFn
<1>6. Guarded(G) /\ Level(no) = 0
  BY <1>1, <1>2 DEF Guarded, PCall, Level
<1>7. ArgsOK(lua, nargs)
  BY DEF ArgsOK, PCall
<1> HIDE DEF lua, no
<1>8. MayCall(G, lua, no, p, nargs)
  <2>1. Ci(G).fn = "base"
    BY <1>1, <1>2 DEF Ci, Last
  <2>2. QED
    BY <1>2, <1>5, <2>1 DEF MayCall, PCall
<1>9. Callable(G, lua, no)
  <2>1. CLimit \in Int
    BY LimitsAssumption DEF CLimit
  <2>2. G.baseCcalls = n /\ G.nCcalls = n /\ 1 <= n /\ n <= CLimit
    BY <1>1, <1>2 DEF Fresh
  <2> HIDE DEF n
  <2>3. n + 0 + 0 = n
    BY <1>2
  <2>4. G.baseCcalls + CCalls(G, Len(G.ci)) + Level(no) = n
    BY <1>4, <1>6, <2>2, <2>3
  <2>5. Len(G.ci) = 1 /\ G.status = "ok" /\ n <= n
    BY <1>1, <1>2
  <2>6. QED
    BY <1>4, <1>5, <1>6, <2>2, <2>4, <2>5, Zenon DEF Callable
<1>10. Fine(G, r) /\ r.err \in {"no", "outside"}
  BY <1>1, <1>2, <1>3, <1>7, <1>8, <1>9, PrecallFine
<1>11. G.baseCcalls = n
  BY <1>2 DEF Fresh
<1>12. Resumed(L, r)
  BY <1>10, <1>11 DEF Resumed, Fine
<1>13. CallMade(G, lua, no, nargs, r) \/ CallFailed(G, r)
  BY <1>2, <1>3, <1>5, <1>8, PrecallOK
<1>14. G.ci \in Seq(Call) /\ Len(G.ci) = 1
  BY <1>1, <1>2, FieldTypes
<1>15. CASE CallMade(G, lua, no, nargs, r)
  <2>1. PICK f : Made(G, lua, no, nargs, f) /\ Entered(G, r.L, f)
    BY <1>15 DEF CallMade
  <2>2. r.L.ci = Append(G.ci, f) /\ f \in Call /\ f.func = (G.top - nargs) - 1
    BY <2>1 DEF Entered, Made
  <2>3. r.L.ci[1] = G.ci[1] /\ r.L.ci[2] = f
    BY <1>14, <2>2
  <2>4. QED
    BY <1>2, <1>12, <2>2, <2>3 DEF r
<1>16. CASE CallFailed(G, r)
  <2>1. r.L.ci = L.ci
    BY <1>2, <1>16 DEF CallFailed, Raised, Alike
  <2>2. ~(2 <= Len(r.L.ci))
    <3>1. Len(r.L.ci) = 1
      BY <1>1, <2>1, Zenon
    <3>2. ~(2 <= 1)
      BY ONLY SMT
    <3>3. QED
      BY ONLY <3>1, <3>2, Zenon
  <2>3. QED
    BY <1>12, <2>1, <2>2 DEF r
<1>17. QED
  BY <1>13, <1>15, <1>16

(* A later resume returns from the yield. *)
LEMMA ResumeAgain ==
  ASSUME NEW L, Frames(L), Dormant(L), L.status = "yield", NEW nargs \in Nat, NEW p,
         L.base + nargs <= L.top, L.nCcalls + 1 <= CLimit
  PROVE  LET r == lua_resume(L, nargs, p)
         IN  /\ Resumed(L, r) /\ r.err = "no"
             /\ r.L.ci[1] = L.ci[1] /\ r.L.ci[2] = L.ci[2]
<1> DEFINE n == L.nCcalls + 1
           m == Len(L.ci)
           B == [L EXCEPT !.nCcalls = n, !.baseCcalls = n, !.jmp = <<InResume>>]
           C == [B EXCEPT !.status = "ok"]
           G == luaD_poscall(C, nargs)
           r == lua_resume(L, nargs, p)
<1>1. /\ L \in ThreadType /\ m \in Nat /\ m >= 3 /\ L.errfunc = "none" /\ (\A i \in 1 .. m : ~L.ci[i].c)
      /\ L.top \in Nat /\ L.base \in Nat /\ L.nCcalls \in Nat /\ L.ci[m].func \in Nat /\ L.ci[m].func < L.base
      /\ L.ci[m].fn = "yield" /\ L.ci[2].fn = "lua" /\ L.top <= Limit(L) /\ Limit(L) \in Int
  <2>1. L \in ThreadType /\ m >= 3 /\ L.errfunc = "none" /\ (\A i \in 1 .. m : ~L.ci[i].c)
        /\ L.ci[m].fn = "yield" /\ L.ci[2].fn = "lua" /\ L.top <= Limit(L)
    BY DEF Frames, Dormant, Begun
  <2>2. m \in 1 .. m /\ L.base = L.ci[m].base
    BY <2>1, FieldTypes DEF Frames
  <2>3. L.ci[m].func < L.base
    BY <2>2 DEF Frames, FrameOK
  <2>4. QED
    BY <2>1, <2>3, FieldTypes, LastCall, LimitOK
<1>2. /\ Frames(B) /\ Fresh(B, n) /\ B.ci = L.ci /\ B.top = L.top /\ B.base = L.base
      /\ B.status = L.status /\ B.stacksize = L.stacksize /\ n \in Nat
  BY <1>1, ResumeSet
<1>3. r = Step(G, "no")
  <2>1. r = resume(B, nargs, p)
    BY DEF lua_resume
  <2> HIDE DEF B, r
  <2>2. QED
    BY <1>2, <2>1 DEF resume
<1> HIDE DEF B, r
<1>4. /\ Frames(C) /\ C.status = "ok" /\ C.ci = L.ci /\ C.top = L.top /\ C.base = L.base
      /\ C.stacksize = L.stacksize /\ Fresh(C, n)
  BY <1>2, StatusSet DEF Fresh
<1> HIDE DEF C
<1>5. Limit(C) = Limit(L)
  BY <1>4 DEF Limit, StackLast, Over
<1>6. /\ C.ci[Len(C.ci)].func + nargs <= Limit(C)
      /\ Level(C.ci[Len(C.ci)].c) = 0 /\ Level(C.ci[Len(C.ci)].c) <= C.nCcalls
  <2>1. L.ci[m].func + nargs <= Limit(L)
    BY <1>1, <1>5
  <2>2. ~L.ci[m].c
    BY <1>1
  <2>3. QED
    BY <1>2, <1>4, <1>5, <2>1, <2>2 DEF Level, Fresh
<1>7. /\ Popped(C, G)
      /\ G.top = IF C.ci[m - 1].fn \in LuaFn /\ C.ci[m].fn # "errfn"
                 THEN C.ci[m - 1].top ELSE C.ci[m].func + nargs
  <2>1. Len(C.ci) = m /\ 2 <= Len(C.ci)
    BY <1>1, <1>4
  <2> HIDE DEF m
  <2>2. QED
    BY <1>4, <1>6, <2>1, PoscallOK
<1> HIDE DEF G, n, m
<1>8. /\ Frames(G) /\ Len(G.ci) = m - 1 /\ (\A i \in 1 .. m - 1 : G.ci[i] = L.ci[i])
      /\ G.nCcalls = n /\ G.baseCcalls = n /\ G.status = "ok" /\ G.errfunc = "none" /\ G.jmp = <<InResume>>
  <2>1. C.nCcalls - 0 = n /\ Len(C.ci) = m
    BY <1>2, <1>4 DEF Fresh, m
  <2>2. QED
    BY <1>4, <1>6, <1>7, <2>1 DEF Popped, Fresh
<1>9. Fresh(G, n)
  BY <1>1, <1>8, SMTT(30) DEF Fresh
<1>10. /\ Handlers(G) /\ (\A i : ~Handled(G, i)) /\ CCalls(G, Len(G.ci)) = 0
  BY <1>8, <1>9, FreshHandlers
<1>11. L.ci[m - 1].fn \in LuaFn \cup {"base"}
  <2>1. \A i \in 1 .. Len(C.ci) - 1 : C.ci[i].fn \notin PCall \cup {"c"}
    BY <1>4, FreshHandlers
  <2>2. m - 1 \in 1 .. Len(C.ci) - 1 /\ (m - 1) + 1 = m
    BY <1>1, <1>4 DEF m
  <2>3. Above(C.ci[m - 1], C.ci[m])
    BY <1>4, <2>2 DEF Frames
  <2>4. QED
    BY <1>1, <1>4, <2>1, <2>2, <2>3 DEF Above
<1>12. G.ci[Len(G.ci)] = L.ci[m - 1] /\ G.ci[1] = L.ci[1] /\ G.ci[2] = L.ci[2] /\ Len(G.ci) >= 2
  <2>1. m \in Nat /\ m >= 3
    BY <1>1
  <2>2. 1 \in 1 .. m - 1 /\ 2 \in 1 .. m - 1 /\ m - 1 \in 1 .. m - 1 /\ m - 1 >= 2
    BY <2>1
  <2>3. QED
    BY <1>8, <2>2
<1>13. Live(G) /\ Begun(G)
  <2>1. n >= 1 /\ n <= CLimit /\ n + 0 = n /\ n >= n
    BY <1>1, <1>2 DEF n
  <2>2. G.ci[2].fn = "lua"
    BY <1>1, <1>12
  <2>3. QED
    BY <1>8, <1>10, <1>12, <2>1, <2>2 DEF Live, Begun
<1>14. Settled(G)
  <2>1. G.nCcalls = G.baseCcalls + CCalls(G, Len(G.ci))
    BY <1>2, <1>8, <1>10
  <2>2. L.ci[m - 1].fn \in LuaFn => G.top = L.ci[m - 1].top
    BY <1>1, <1>4, <1>7
  <2>3. QED
    BY <1>10, <1>11, <1>12, <1>13, <2>1, <2>2 DEF Settled, LuaFn, CallNames, PCall
<1>15. QED
  BY <1>3, <1>8, <1>12, <1>13, <1>14 DEF Resumed, Outside, Step, r, n

-----------------------------------------------------------------------------
(* New, dead and shrunk threads.                                           *)

(* What a new thread looks like.                                           *)
LEMMA NewFrames ==
  /\ Frames(NewThread) /\ NewThread.status = "ok" /\ NewThread.jmp = <<>> /\ NewThread.errfunc = "none"
  /\ NewThread.top = 1 /\ NewThread.base = 1 /\ Len(NewThread.ci) = 1 /\ NewThread.ci[1].fn = "base"
  /\ NewThread.nCcalls = 0 /\ NewThread.ci[1].func = 0 /\ 4 <= Limit(NewThread)
<1> DEFINE f == [fn |-> "base", c |-> FALSE, func |-> 0, base |-> 1, top |-> 1 + LUA_MINSTACK]
           size == BASIC_STACK_SIZE + EXTRA_STACK
<1>1. LUA_MINSTACK \in Nat /\ 3 <= LUA_MINSTACK /\ EXTRA_STACK \in Nat /\ BASIC_CI_SIZE \in Nat /\ 2 <= BASIC_CI_SIZE
  BY LimitsAssumption
<1>2. f \in Call /\ <<f>> \in Seq(Call) /\ Len(<<f>>) = 1 /\ <<f>>[1] = f
  <2>1. 1 + LUA_MINSTACK \in Nat /\ "base" \in Name
    BY <1>1 DEF Name
  <2>2. f \in Call
    BY <2>1 DEF Call
  <2>3. QED
    BY <2>2
<1>3. size \in Nat
  BY <1>1 DEF BASIC_STACK_SIZE
<1>4. NewThread \in ThreadType
  <2> HIDE DEF f, size
  <2>1. NewThread = [status |-> "ok", top |-> 1, base |-> 1, ci |-> <<f>>, stacksize |-> size, size_ci |-> BASIC_CI_SIZE,
                     nCcalls |-> 0, baseCcalls |-> 0, errfunc |-> "none", jmp |-> <<>>]
    BY DEF NewThread, f, size
  <2>2. <<>> \in Seq(Handler) /\ 0 \in Nat /\ 1 \in Nat
    OBVIOUS
  <2>3. QED
    BY <1>1, <1>2, <1>3, <2>1, <2>2, ZenonT(30) DEF ThreadType
<1>5. /\ NewThread.status = "ok" /\ NewThread.jmp = <<>> /\ NewThread.errfunc = "none"
      /\ NewThread.top = 1 /\ NewThread.base = 1 /\ NewThread.ci = <<f>>
      /\ NewThread.nCcalls = 0 /\ NewThread.stacksize = size /\ NewThread.size_ci = BASIC_CI_SIZE
  BY DEF NewThread
<1>6. StackLast(NewThread) = 2 * LUA_MINSTACK - 1
  BY <1>1, <1>5 DEF StackLast, BASIC_STACK_SIZE
<1>7. f.fn = "base" /\ f.c = FALSE /\ f.func = 0 /\ f.base = 1 /\ f.top = 1 + LUA_MINSTACK
  OBVIOUS
<1> HIDE DEF f, size
<1>8. 4 <= Limit(NewThread) /\ FrameOK(NewThread, f)
  <2>1. StackLast(NewThread) <= Limit(NewThread) + 1 /\ Limit(NewThread) \in Int
    BY <1>4, LimitOK
  <2>2. QED
    BY <1>1, <1>6, <1>7, <2>1 DEF FrameOK
<1>9. Frames(NewThread)
  <2>1. 1 <= Limit(NewThread)
    BY <1>4, <1>8, LimitOK
  <2>2. QED
    BY <1>1, <1>2, <1>4, <1>5, <1>7, <1>8, <2>1 DEF Frames
<1>10. QED
  BY <1>1, <1>2, <1>5, <1>7, <1>8, <1>9

(* An address without a thread, seen as one that does nothing. *)
LEMMA FreeOK ==
  Frames(Free) /\ Dormant(Free) /\ Free.status = "free" /\ Len(Free.ci) = 1
<1>1. "free" \in {"free", "ok", "yield"} /\ NewThread.status \in {"free", "ok", "yield"}
  BY NewFrames
<1>2. /\ Frames(Free) /\ Free.status = "free" /\ Free.ci = NewThread.ci /\ Free.jmp = NewThread.jmp
  BY <1>1, NewFrames, StatusSet DEF Free
<1>3. QED
  BY <1>2, NewFrames DEF Dormant

(* A thread that holds the function it is to run. *)
LEMMA CreatedOK ==
  LET G == [NewThread EXCEPT !.top = 2]
  IN  /\ Frames(G) /\ Dormant(G) /\ G.status = "ok" /\ Len(G.ci) = 1 /\ G.top = 2 /\ G.base = 1
      /\ G.nCcalls = 0 /\ G.ci[1].func = 0
<1> DEFINE two == 2
           G == [NewThread EXCEPT !.top = two]
<1>1. two \in Nat /\ NewThread.base <= two /\ two <= Limit(NewThread) /\ two = 2
  <2>1. Limit(NewThread) \in Int
    BY NewFrames, LimitOK DEF Frames
  <2>2. QED
    BY <2>1, NewFrames
<1> HIDE DEF two
<1>2. Frames(G) /\ Alike(NewThread, G) /\ G.top = two /\ G.nCcalls = NewThread.nCcalls
  BY <1>1, NewFrames, TopSet
<1>3. G = [NewThread EXCEPT !.top = 2]
  BY <1>1
<1> HIDE DEF G
<1>4. Dormant(G) /\ G.status = "ok" /\ Len(G.ci) = 1 /\ G.top = 2 /\ G.base = 1 /\ G.nCcalls = 0 /\ G.ci[1].func = 0
  BY <1>1, <1>2, NewFrames DEF Alike, Dormant
<1>5. QED
  BY <1>2, <1>3, <1>4

(* A thread that died of an error has its message on top of what it had. *)
LEMMA KilledOK ==
  ASSUME NEW L, Frames(L), L.status = "ok", 1 <= L.nCcalls, ~Beyond(L, 1), NEW e \in {"errrun", "errerr"}
  PROVE  LET G == Killed(L, e)
             n == Len(L.ci)
         IN  /\ Frames(G) /\ Dormant(G) /\ G.status = e /\ Len(G.ci) = n
             /\ G.top = L.top + 1 /\ G.base = L.base
             /\ \A i \in 1 .. n : G.ci[i].func = L.ci[i].func /\ G.ci[i].base = L.ci[i].base
<1> DEFINE n == Len(L.ci)
           top == L.top + 1
           f == [L.ci[n] EXCEPT !.top = top]
           cs == [L.ci EXCEPT ![n] = f]
           count == L.nCcalls - 1
           none == <<>>
           G == [L EXCEPT !.status = e, !.top = top, !.ci = cs, !.nCcalls = count, !.jmp = none]
<1>1. /\ L \in ThreadType /\ n \in Nat /\ 1 <= n /\ n \in 1 .. n /\ L.ci \in Seq(Call) /\ L.ci[n] \in Call
      /\ L.top \in Nat /\ L.base \in Nat /\ L.base <= L.top /\ L.nCcalls \in Nat /\ L.base = L.ci[n].base
      /\ L.stacksize \in Nat
  BY FieldTypes, LastCall DEF Frames
<1>2. top \in Nat /\ count \in Nat /\ none \in Seq(Handler) /\ e \in {"free", "ok", "yield", "errrun", "errerr"}
  BY <1>1
<1>3. Killed(L, e) = G
  BY DEF Killed
<1>4. top <= L.stacksize
  BY <1>1 DEF Beyond
<1> HIDE DEF count
<1>5. L.base <= top /\ top = L.top + 1
  BY <1>1
<1> HIDE DEF top
<1>6. f \in Call
  BY <1>1, <1>2, Zenon DEF Call
<1>7. f.fn = L.ci[n].fn /\ f.c = L.ci[n].c /\ f.func = L.ci[n].func /\ f.base = L.ci[n].base /\ f.top = top
  BY <1>1 DEF Call
<1> HIDE DEF f, n
<1>8. cs \in Seq(Call) /\ Len(cs) = n /\ cs[n] = f /\ \A i \in 1 .. n : i # n => cs[i] = L.ci[i]
  BY <1>1, <1>6 DEF n
<1>9. none = <<>>
  OBVIOUS
<1> HIDE DEF cs, none
<1>10. G \in ThreadType
  BY <1>1, <1>2, <1>8, ZenonT(30) DEF ThreadType
<1>11. /\ G.status = e /\ G.top = top /\ G.base = L.base /\ G.ci = cs /\ G.stacksize = L.stacksize
       /\ G.size_ci = L.size_ci /\ G.jmp = none
  BY <1>1 DEF ThreadType
<1> HIDE DEF G
<1>12. Limit(L) \in Int /\ Limit(G) \in Int /\ Limit(L) <= Limit(G) /\ top <= Limit(G)
  <2>1. /\ StackLast(G) = StackLast(L) /\ StackLast(L) \in Int /\ StackLast(L) + EXTRA_STACK + 1 = L.stacksize
        /\ EXTRA_STACK \in Nat /\ Slack \in Nat /\ Slack <= EXTRA_STACK + 2
    BY <1>1, <1>11, LimitOK, SlackOK DEF StackLast
  <2>2. Over(L.status) = Slack - 1
    BY OverOK
  <2>3. Over(G.status) = IF Slack <= EXTRA_STACK THEN Slack ELSE EXTRA_STACK + 1
    BY <1>11 DEF Over
  <2>4. L.top <= StackLast(L) + (Slack - 1)
    BY <2>2 DEF Frames, Limit
  <2> DEFINE x == StackLast(L)
             y == Slack
             a == L.top
             z == L.stacksize
  <2>5. /\ x \in Int /\ y \in Nat /\ a \in Nat /\ z \in Nat /\ x + EXTRA_STACK + 1 = z /\ EXTRA_STACK \in Nat
        /\ y <= EXTRA_STACK + 2 /\ a <= x + (y - 1) /\ a + 1 <= z
    BY <1>1, <1>4, <1>5, <2>1, <2>4
  <2>6. /\ Limit(L) = x + (y - 1) /\ Limit(G) = x + (IF y <= EXTRA_STACK THEN y ELSE EXTRA_STACK + 1) /\ top = a + 1
    BY <1>5, <2>1, <2>2, <2>3 DEF Limit
  <2> HIDE DEF x, y, a, z
  <2>7. QED
    BY ONLY <2>5, <2>6
<1>13. ASSUME NEW i \in 1 .. n
       PROVE  FrameOK(G, G.ci[i]) /\ G.ci[i].func = L.ci[i].func /\ G.ci[i].base = L.ci[i].base
              /\ G.ci[i].fn = L.ci[i].fn /\ G.ci[i].c = L.ci[i].c
  <2>1. FrameOK(L, L.ci[i]) /\ L.ci[i].top \in Nat
    BY <1>1, CallTypes DEF Frames, n
  <2>2. CASE i = n
    BY <1>1, <1>5, <1>7, <1>8, <1>11, <1>12, <2>1, <2>2 DEF FrameOK
  <2>3. CASE i # n
    BY <1>8, <1>11, <1>12, <2>1, <2>3 DEF FrameOK
  <2>4. QED
    BY <2>2, <2>3
<1>14. Frames(G)
  <2>1. ASSUME NEW i \in 1 .. Len(G.ci) - 1
        PROVE  Above(G.ci[i], G.ci[i + 1])
    <3>1. i \in 1 .. n /\ i + 1 \in 1 .. n /\ Above(L.ci[i], L.ci[i + 1])
      BY <1>1, <1>8, <1>11 DEF Frames, n
    <3>2. QED
      BY <1>13, <3>1 DEF Above
  <2>2. G.ci # <<>> /\ G.ci[1].fn = "base" /\ ~G.ci[1].c
    <3>1. 1 \in 1 .. n
      BY <1>1
    <3>2. QED
      BY <1>8, <1>11, <1>13, <3>1 DEF Frames
  <2>3. Len(G.ci) <= G.size_ci /\ 2 <= G.size_ci /\ Len(G.ci) = n
    BY <1>8, <1>11 DEF Frames, n
  <2>4. G.base = G.ci[Len(G.ci)].base /\ G.base <= G.top /\ G.top <= Limit(G)
    BY <1>1, <1>5, <1>7, <1>8, <1>11, <1>12
  <2>5. QED
    BY <1>10, <1>13, <2>1, <2>2, <2>3, <2>4 DEF Frames
<1>15. Dormant(G)
  <2>1. G.ci[Len(G.ci)] = f /\ G.top <= f.top
    BY <1>2, <1>7, <1>8, <1>11
  <2>2. QED
    BY <1>9, <1>11, <2>1 DEF Dormant
<1>16. QED
  BY <1>3, <1>5, <1>8, <1>11, <1>13, <1>14, <1>15 DEF n

(* A thread that stops running takes back its count and its handler. *)
LEMMA SuspendedOK ==
  ASSUME NEW L, Frames(L), 1 <= L.nCcalls
  PROVE  LET G == Suspended(L)
         IN  /\ Frames(G) /\ G.jmp = <<>> /\ G.nCcalls = L.nCcalls - 1 /\ G.status = L.status /\ G.top = L.top
             /\ G.base = L.base /\ G.ci = L.ci /\ G.errfunc = L.errfunc /\ G.baseCcalls = L.baseCcalls
<1> DEFINE n == L.nCcalls - 1
           empty == <<>>
           G == [L EXCEPT !.nCcalls = n, !.jmp = empty]
<1>1. L \in ThreadType
  BY DEF Frames
<1>2. n \in Nat /\ empty \in Seq(Handler)
  BY <1>1, FieldTypes
<1>3. Suspended(L) = G
  BY DEF Suspended
<1> HIDE DEF n, empty
<1>4. G \in ThreadType
  BY <1>1, <1>2, ZenonT(30) DEF ThreadType
<1>5. /\ G.jmp = empty /\ G.nCcalls = n /\ G.status = L.status /\ G.top = L.top /\ G.size_ci = L.size_ci
      /\ G.base = L.base /\ G.ci = L.ci /\ G.errfunc = L.errfunc /\ G.baseCcalls = L.baseCcalls
      /\ G.stacksize = L.stacksize
  BY <1>1 DEF ThreadType
<1> HIDE DEF G
<1>6. Limit(G) = Limit(L)
  BY <1>5 DEF Limit, StackLast
<1>7. Frames(G)
  BY <1>4, <1>5, <1>6 DEF Frames, FrameOK
<1>8. QED
  BY <1>3, <1>5, <1>7 DEF n, empty

(* A set of numbers with a bound has a largest one. *)
LEMMA LargestNumber ==
  ASSUME NEW T, T \subseteq Nat, T # {}, NEW b \in Nat, \A x \in T : x <= b
  PROVE  Max(T) \in T /\ \A x \in T : x <= Max(T)
<1> DEFINE U == {u \in Nat : \A x \in T : x <= u}
<1>1. U \subseteq Nat /\ U # {}
  OBVIOUS
<1>2. PICK m \in U : \A k \in U : ~(<<k, m>> \in OpToRel(<, Nat))
  BY <1>1, NatLessThanWellFounded, WFMin
<1>3. m \in Nat /\ (\A x \in T : x <= m) /\ \A k \in U : ~(k < m)
  BY <1>2 DEF OpToRel
<1>4. m \in T
  <2> SUFFICES ASSUME m \notin T PROVE FALSE
    OBVIOUS
  <2>1. \A x \in T : x \in Nat /\ x < m
    BY <1>3
  <2>2. PICK x \in T : TRUE
    OBVIOUS
  <2>3. m - 1 \in Nat /\ m - 1 < m
    BY <1>3, <2>1, <2>2
  <2>4. \A y \in T : y <= m - 1
    BY <1>3, <2>1
  <2>5. m - 1 \in U
    BY <2>3, <2>4
  <2>6. QED
    BY <1>3, <2>3, <2>5
<1>5. \E x \in T : \A y \in T : x >= y
  BY <1>3, <1>4
<1>6. Max(T) \in T /\ \A y \in T : Max(T) >= y
  BY <1>5, Zenon DEF Max
<1>7. QED
  BY <1>6

(* The slot up to which traversestack clears the stack. *)
LEMMA UsedOK ==
  ASSUME NEW L, Frames(L)
  PROVE  /\ s_used(L) \in Nat /\ 1 <= s_used(L) /\ s_used(L) <= Limit(L)
         /\ L.top <= s_used(L) /\ \A i \in 1 .. Len(L.ci) : L.ci[i].top <= s_used(L)
<1> DEFINE S == {L.top} \cup {L.ci[i].top : i \in DOMAIN L.ci}
           n == Len(L.ci)
           b == Limit(L)
<1>1. /\ L \in ThreadType /\ n \in Nat /\ n \in 1 .. n /\ L.ci \in Seq(Call) /\ DOMAIN L.ci = 1 .. n
      /\ L.top \in Nat /\ L.top <= b /\ b \in Int /\ L.base \in Nat /\ L.base <= L.top
      /\ L.base = L.ci[n].base /\ L.ci[n].func \in Nat
  BY FieldTypes, LastCall, LimitOK DEF Frames
<1>2. L.ci[n].func < L.base
  BY <1>1 DEF Frames, FrameOK
<1>3. b \in Nat /\ 1 <= L.top
  <2> HIDE DEF b
  <2>1. QED
    BY <1>1, <1>2
<1>4. \A i \in 1 .. n : L.ci[i].top \in Nat /\ L.ci[i].top <= b
  BY <1>1, CallTypes DEF Frames, FrameOK
<1>5. S \subseteq Nat /\ S # {} /\ \A x \in S : x <= b
  BY <1>1, <1>4
<1>6. s_used(L) = Max(S)
  BY DEF s_used
<1>7. L.top \in S /\ \A i \in 1 .. n : L.ci[i].top \in S
  BY <1>1
<1> HIDE DEF S, b
<1>8. s_used(L) \in S /\ \A x \in S : x <= s_used(L)
  BY <1>3, <1>5, <1>6, LargestNumber
<1>9. s_used(L) \in Nat /\ s_used(L) <= b /\ L.top <= s_used(L)
  BY <1>5, <1>7, <1>8
<1> DEFINE u == s_used(L)
<1>10. u \in Nat /\ L.top <= u
  BY <1>9
<1> HIDE DEF u
<1>11. 1 <= u
  BY <1>1, <1>3, <1>10
<1>12. QED
  BY <1>7, <1>8, <1>9, <1>11 DEF u, b

(* checkstacksizes never takes the room a call may use. *)
LEMMA ShrunkOK ==
  ASSUME NEW L, Frames(L)
  PROVE  Resized(L, checkstacksizes(L)) /\ Frames(checkstacksizes(L))
<1> DEFINE used == s_used(L)
           n == Len(L.ci)
           half == L.size_ci \div 2
           small == IF 4 * (n - 1) < L.size_ci /\ 2 * BASIC_CI_SIZE < L.size_ci THEN [L EXCEPT !.size_ci = half] ELSE L
           size == (L.stacksize \div 2) + 1 + EXTRA_STACK
           less == [small EXCEPT !.stacksize = size]
<1>1. /\ L \in ThreadType /\ n \in Nat /\ 1 <= n /\ L.size_ci \in Nat
      /\ L.stacksize \in Nat /\ L.top \in Nat /\ n <= L.size_ci /\ 2 <= L.size_ci
      /\ BASIC_CI_SIZE \in Nat /\ 2 <= BASIC_CI_SIZE /\ EXTRA_STACK \in Nat
  BY FieldTypes, LastCall, LimitsAssumption DEF Frames
<1>3. \A i \in 1 .. n : L.ci[i].top \in Nat
  BY <1>1, CallTypes
<1>5. used \in Nat /\ 1 <= used /\ L.top <= used /\ \A i \in 1 .. n : L.ci[i].top <= used
  BY UsedOK
<1>6. checkstacksizes(L) =
        IF L.size_ci > LUAI_MAXCALLS THEN L
        ELSE IF 4 * used < L.stacksize /\ 2 * (BASIC_STACK_SIZE + EXTRA_STACK) < L.stacksize
             THEN less ELSE small
  BY DEF checkstacksizes, luaD_reallocstack
<1> HIDE DEF used
<1>7. /\ small \in ThreadType /\ Resized(L, small) /\ small.stacksize = L.stacksize
      /\ n <= small.size_ci /\ 2 <= small.size_ci
  <2>1. CASE 4 * (n - 1) < L.size_ci /\ 2 * BASIC_CI_SIZE < L.size_ci
    <3> DEFINE G == [L EXCEPT !.size_ci = half]
    <3>1. half \in Nat /\ n <= half /\ 2 <= half
      BY <1>1, <2>1
    <3> HIDE DEF half
    <3>2. G \in ThreadType
      BY <1>1, <3>1, ZenonT(30) DEF ThreadType
    <3>3. Resized(L, G) /\ G.stacksize = L.stacksize /\ G.size_ci = half
      BY <1>1, <3>2 DEF ThreadType, Resized
    <3> HIDE DEF G
    <3>4. small = G
      BY <2>1 DEF G
    <3> HIDE DEF small
    <3>5. QED
      BY <3>1, <3>2, <3>3, <3>4
  <2>2. CASE ~(4 * (n - 1) < L.size_ci /\ 2 * BASIC_CI_SIZE < L.size_ci)
    <3>1. small = L
      BY <2>2
    <3> HIDE DEF small
    <3>2. QED
      BY <1>1, <3>1 DEF Resized
  <2>3. QED
    BY <2>1, <2>2
<1> HIDE DEF small
<1>8. Frames(small)
  <2>1. L.stacksize <= small.stacksize
    BY <1>1, <1>7
  <2>2. QED
    BY <1>7, <2>1, FramesGrown
<1>9. ASSUME 4 * used < L.stacksize
      PROVE  Resized(L, less) /\ Frames(less)
  <2>1. size \in Nat /\ used + 1 <= (size - EXTRA_STACK) - 1
    BY <1>1, <1>5, <1>9
  <2> HIDE DEF size
  <2>2. less \in ThreadType
    BY <1>7, <2>1, ZenonT(30) DEF ThreadType
  <2>3. Resized(small, less) /\ less.stacksize = size /\ less.size_ci = small.size_ci
    BY <1>7, <2>2 DEF ThreadType, Resized
  <2> HIDE DEF less
  <2>4. Resized(L, less)
    BY <1>7, <2>3 DEF Resized
  <2>5. Limit(less) \in Int /\ used <= Limit(less)
    <3>1. StackLast(less) \in Int /\ StackLast(less) <= Limit(less) + 1 /\ Limit(less) \in Int
      BY <2>2, LimitOK DEF less
    <3>2. used + 1 <= StackLast(less)
      BY <2>1, <2>3 DEF StackLast
    <3>3. QED
      BY <1>5, <3>1, <3>2
  <2>6. less.top <= Limit(less)
    BY <1>1, <1>5, <2>4, <2>5 DEF Resized
  <2>7. \A i \in 1 .. n : L.ci[i].top <= Limit(less)
    BY <1>3, <1>5, <2>5
  <2>8. Len(L.ci) <= less.size_ci /\ 2 <= less.size_ci
    BY <1>7, <2>3
  <2>9. QED
    BY <2>4, <2>6, <2>7, <2>8, FramesResized
<1>10. Resized(L, L)
  BY <1>1 DEF Resized
<1> HIDE DEF less
<1>11. QED
  BY <1>6, <1>7, <1>8, <1>9, <1>10

-----------------------------------------------------------------------------
(* Steps.                                                                  *)

(* The running thread. *)
LEMMA RunningThread ==
  ASSUME ThreadInv, run # <<>>
  PROVE  /\ Len(run) \in Nat \ {0} /\ t = run[Len(run)] /\ t \in Thread /\ L0 = th[t]
         /\ Frames(L0) /\ Live(L0) /\ IF err = "no" THEN Settled(L0) ELSE Troubled(L0, err)
         /\ Outside(err)
         /\ coro \in Thread /\ run[1] = coro /\ \A k \in 1 .. Len(run) : run[k] \in Thread
<1>1. run \in Seq(Thread) /\ run[1] = coro /\ coro \in Thread
  BY LimitsAssumption DEF ThreadInv, Types, Chain
<1>2. Len(run) \in Nat \ {0} /\ Len(run) \in 1 .. Len(run) /\ ~(Len(run) < Len(run))
  BY <1>1
<1>3. t = run[Len(run)] /\ L0 = th[t]
  BY DEF t, Last, L0
<1>4. \A k \in 1 .. Len(run) : run[k] \in Thread
  BY <1>1
<1>5. Frames(L0) /\ Live(L0) /\ Outside(err) /\ IF err = "no" THEN Settled(L0) ELSE Troubled(L0, err)
  BY <1>2, <1>3, <1>4 DEF ThreadInv
<1>6. QED
  BY <1>1, <1>2, <1>3, <1>4, <1>5

(* A thread that waits for the one it resumed. *)
LEMMA WaitingThread ==
  ASSUME ThreadInv, NEW k \in 1 .. Len(run) - 1
  PROVE  LET L == th[run[k]]
         IN  /\ run[k] \in Thread /\ run[k] # t /\ Frames(L) /\ Live(L) /\ Settled(L)
             /\ L.ci[Len(L.ci)].fn \in {"resume", "wrap"} /\ L.top <= L.base + 1
<1>1. run \in Seq(Thread)
  BY DEF ThreadInv, Types
<1>2. Len(run) \in Nat /\ k \in 1 .. Len(run) /\ k < Len(run) /\ Len(run) \in 1 .. Len(run) /\ k # Len(run)
  BY <1>1
<1>3. run[k] \in Thread /\ run[k] # run[Len(run)]
  BY <1>1, <1>2 DEF ThreadInv, Chain
<1>4. t = run[Len(run)]
  BY DEF t, Last
<1>5. QED
  BY <1>2, <1>3, <1>4 DEF ThreadInv, Chain

(* How calls lie on a stack depends on the thread and the program. *)
LEMMA FramesKept ==
  ASSUME prog' = prog
  PROVE  /\ \A L : Frames(L)' <=> Frames(L)
         /\ \A e : Outside(e)' <=> Outside(e)
<1>1. Slack' = Slack
  BY SlackKept
<1>2. \A e : Over(e)' = Over(e)
  BY <1>1 DEF Over
<1>3. \A L : Limit(L)' = Limit(L)
  BY <1>2 DEF Limit, StackLast
<1>4. \A L, f : FrameOK(L, f)' <=> FrameOK(L, f)
  BY <1>3 DEF FrameOK
<1>5. QED
  BY <1>1, <1>3, <1>4 DEF Frames, Outside

(* The running thread goes on. *)
LEMMA GoInv ==
  ASSUME ThreadInv, run # <<>>, NEW r, Go(r), Fine(L0, r)
  PROVE  ThreadInv'
<1>1. /\ Len(run) \in Nat \ {0} /\ t = run[Len(run)] /\ t \in Thread /\ L0 = th[t]
      /\ coro \in Thread /\ run[1] = coro /\ \A k \in 1 .. Len(run) : run[k] \in Thread
  BY RunningThread
<1>2. th' = [th EXCEPT ![t] = r.L] /\ err' = r.err /\ run' = run /\ params' = params /\ prog' = prog
  BY DEF Go
<1>3. th \in [Thread -> ThreadType] /\ Types /\ Chain
  BY DEF ThreadInv, Types
<1>4. th'[t] = r.L /\ \A co \in Thread : co # t => th'[co] = th[co]
  BY <1>1, <1>2, <1>3
<1>5. /\ Frames(r.L) /\ Live(r.L) /\ r.L.baseCcalls = th[t].baseCcalls
      /\ r.err \in {"no", "msg", "errrun", "errerr", "outside"} /\ Outside(r.err)
      /\ IF r.err = "no" THEN Settled(r.L) ELSE Troubled(r.L, r.err)
  BY <1>1 DEF Fine
<1>6. ASSUME NEW k \in 1 .. Len(run), run[k] = t PROVE k = Len(run)
  BY <1>1, <1>3, <1>6 DEF Chain
<1>7. Types'
  <2>1. r.L \in ThreadType
    BY <1>5 DEF Frames
  <2>2. th' \in [Thread -> ThreadType]
    BY <1>1, <1>2, <1>3, <2>1
  <2>3. QED
    BY <1>2, <1>3, <1>5, <2>2 DEF Types
<1>8. \A co \in Thread : Frames(th'[co]) /\ th'[co].baseCcalls = th[co].baseCcalls
  BY <1>4, <1>5 DEF ThreadInv
<1>9. Chain'
  <2>1. ASSUME NEW k \in 1 .. Len(run) - 1
        PROVE  /\ th'[run[k]] = th[run[k]]
               /\ th'[run[k + 1]].baseCcalls = th[run[k]].nCcalls + 1
    <3>1. k \in 1 .. Len(run) /\ k + 1 \in 1 .. Len(run) /\ k # Len(run)
      BY <1>1
    <3>2. run[k] \in Thread /\ run[k + 1] \in Thread /\ run[k] # t
      BY <1>1, <1>6, <3>1
    <3>3. th[run[k + 1]].baseCcalls = th[run[k]].nCcalls + 1
      BY <1>3 DEF Chain
    <3>4. QED
      BY <1>4, <1>8, <3>2, <3>3
  <2>2. run[1] = coro /\ th'[coro].baseCcalls = 1
    BY <1>1, <1>3, <1>8 DEF Chain
  <2>3. \A k, m \in 1 .. Len(run) : run[k] = run[m] => k = m
    BY <1>3 DEF Chain
  <2>4. ASSUME NEW k \in 1 .. Len(run) - 1
        PROVE  /\ th'[run[k]].ci[Len(th'[run[k]].ci)].fn \in {"resume", "wrap"}
               /\ th'[run[k]].top <= th'[run[k]].base + 1
               /\ th'[run[k + 1]].baseCcalls = th'[run[k]].nCcalls + 1
    BY <1>3, <2>1 DEF Chain
  <2>5. QED
    BY <1>2, <2>2, <2>3, <2>4 DEF Chain
<1>10. ASSUME NEW k \in 1 .. Len(run)
       PROVE  /\ Live(th'[run[k]])
              /\ IF k < Len(run) \/ err' = "no" THEN Settled(th'[run[k]]) ELSE Troubled(th'[run[k]], err')
  <2>1. CASE run[k] = t
    <3>1. k = Len(run) /\ ~(k < Len(run))
      BY <1>1, <1>6, <2>1
    <3>2. QED
      BY <1>2, <1>4, <1>5, <2>1, <3>1
  <2>2. CASE run[k] # t
    <3>1. k \in 1 .. Len(run) - 1 /\ k < Len(run)
      BY <1>1, <2>2
    <3>2. th'[run[k]] = th[run[k]]
      BY <1>1, <1>4, <2>2
    <3>3. QED
      BY <3>1, <3>2, WaitingThread
  <2>3. QED
    BY <2>1, <2>2
<1>11. ASSUME NEW co \in Thread, ~InRun(co)' PROVE Dormant(th'[co])
  <2>1. ~InRun(co) /\ co # t
    BY <1>1, <1>2, <1>11 DEF InRun
  <2>2. QED
    BY <1>4, <2>1 DEF ThreadInv
<1>12. (\A co \in Thread : Frames(th[co]))' /\ Outside(err)'
  BY <1>2, <1>5, <1>8, FramesKept
<1>13. QED
  BY <1>2, <1>7, <1>9, <1>10, <1>11, <1>12 DEF ThreadInv

(* A prototype of the program. *)
LEMMA ProtosOK ==
  ASSUME ThreadInv, NEW p \in prog.protos
  PROVE  ProtoOK(p)
<1>1. prog \in Programs /\ Proto \subseteq {q \in Protos : Params(q) <= q.maxstacksize}
  BY LimitsAssumption DEF ThreadInv, Types
<1>2. prog.protos \subseteq Proto
  BY <1>1 DEF Programs
<1>3. p \in Protos /\ Params(p) <= p.maxstacksize
  BY <1>1, <1>2
<1>4. p.is_vararg = "dots" => p.numparams <= Slack \/ Slack = EXTRA_STACK + 2
  BY SlackOK
<1>5. QED
  BY <1>3, <1>4 DEF Protos, ProtoOK

(* What a program may call. *)
Calls == CallNames \cup {"lua", "object", "value"}

(* A program calls functions, with as many arguments as they need. *)
LEMMA CalleeOK ==
  ASSUME ThreadInv, NEW f \in Callee
  PROVE  f[1] \in Calls /\ OnStack(f) \in Nat /\ ArgsOK(f[1], OnStack(f)) /\ f[1] # "errfn"
<1>1. MaxValues \in Nat /\ prog.values \in 0 .. MaxValues
  BY LimitsAssumption DEF ThreadInv, Types, Programs
<1>2. CASE f \in {<<"c", 0>>, <<"object", 0>>, <<"value", 0>>, <<"pcall", 1>>, <<"xpcall", 2>>, <<"create", 1>>}
  <2>1. /\ f[1] \in {"object", "value", "c", "pcall", "xpcall", "create"} /\ f[2] \in 0 .. 2
        /\ f[1] \in PCall => 1 <= f[2]
    BY <1>2 DEF PCall
  <2>2. OnStack(f) = f[2]
    BY <2>1 DEF OnStack
  <2>3. QED
    BY <2>1, <2>2 DEF Calls, CallNames, ArgsOK
<1>3. CASE f \in {"lua", "resume", "wrap", "yield", "queueEvent"} \X (0 .. prog.values)
  <2>1. f[1] \in {"lua", "resume", "wrap", "yield", "queueEvent"} /\ f[2] \in 0 .. prog.values
    BY <1>3
  <2>2. f[2] \in Nat /\ f[2] <= MaxValues
    BY <1>1, <2>1
  <2>3. CASE f[1] \in {"resume", "queueEvent"}
    <3>1. OnStack(f) = f[2] + 1
      BY <2>3 DEF OnStack
    <3>2. OnStack(f) \in Nat /\ 1 <= OnStack(f) /\ OnStack(f) <= MaxValues + 1
      BY <1>1, <2>2, <3>1
    <3>3. QED
      BY <2>3, <3>2 DEF Calls, CallNames, ArgsOK, PCall
  <2>4. CASE f[1] \in {"lua", "wrap", "yield"}
    <3>1. OnStack(f) = f[2]
      BY <2>4 DEF OnStack
    <3>2. OnStack(f) \in Nat /\ OnStack(f) <= MaxValues
      BY <1>1, <2>2, <3>1
    <3>3. QED
      BY <2>4, <3>2 DEF Calls, CallNames, ArgsOK, PCall
  <2>5. QED
    BY <2>1, <2>3, <2>4
<1>4. QED
  BY <1>2, <1>3 DEF Callee

(* Where a thread is settled a function may be called. *)
LEMMA CallableFrom ==
  ASSUME NEW L, NEW fn, Frames(L), Live(L), Settled(L), Guarded(L)
  PROVE  Callable(L, fn, FALSE)
<1> DEFINE n == Len(L.ci)
           k == CCalls(L, n)
           z == Level(FALSE)
<1>1. L \in ThreadType /\ n \in Nat /\ L.baseCcalls \in Nat /\ L.nCcalls \in Nat
  BY FieldTypes DEF Frames
<1>2. k \in Nat /\ z = 0
  BY <1>1, CCallsNat DEF Level
<1>3. /\ L.nCcalls >= L.baseCcalls + k /\ L.baseCcalls + k <= CLimit /\ L.baseCcalls >= 1 /\ n >= 2
      /\ NoErrfn(L, n) => L.nCcalls = L.baseCcalls + k
      /\ L.status = "ok" /\ Begun(L) /\ Handlers(L)
  BY DEF Live, Settled, Begun
<1> HIDE DEF k, z
<1>4. L.baseCcalls + k + z = L.baseCcalls + k
  BY <1>1, <1>2
<1>5. L.baseCcalls + k <= L.nCcalls /\ 1 <= L.baseCcalls /\ 2 <= n
  BY <1>1, <1>2, <1>3
<1>6. /\ L.baseCcalls + k + z <= L.nCcalls /\ L.baseCcalls + k + z <= CLimit
      /\ NoErrfn(L, n) => L.nCcalls = L.baseCcalls + k + z
  BY <1>3, <1>4, <1>5
<1>7. QED
  BY <1>3, <1>5, <1>6, Zenon DEF Callable, k, z

(* OP_CALL keeps the invariant. *)
LEMMA StepOpCall ==
  ASSUME ThreadInv, NEW p \in prog.protos, NEW f \in Callee, OP_CALL(f, p)
  PROVE  ThreadInv'
<1> DEFINE n == OnStack(f)
           fn == f[1]
           no == FALSE
           r == luaD_precall(L0, fn, no, p, n)
           ci == L0.ci[Len(L0.ci)]
<1>1. run # <<>> /\ err = "no" /\ Ci(L0).fn \in LuaFn /\ n + 1 <= Ci(L0).top - L0.base /\ Go(r)
  BY DEF OP_CALL, In, Running, LuaFn
<1>2. Frames(L0) /\ Live(L0) /\ Settled(L0)
  BY <1>1, RunningThread
<1>3. Ci(L0) = ci /\ L0.top \in Nat /\ L0.base \in Nat /\ ci.top \in Nat /\ ci.fn \notin PCall \cup {"c"} /\ ci.fn \in LuaFn
  BY <1>1, <1>2, LastCall DEF LuaFn, PCall
<1>4. fn \in Calls /\ n \in Nat /\ ArgsOK(fn, n) /\ fn # "errfn" /\ ProtoOK(p) /\ no \in BOOLEAN
  BY CalleeOK, ProtosOK
<1>5. L0.top = ci.top /\ L0.status = "ok"
  BY <1>2, <1>3 DEF Settled, Live
<1>6. Callable(L0, fn, no)
  <2>1. Guarded(L0)
    BY <1>3 DEF Guarded
  <2>2. QED
    BY <1>2, <2>1, CallableFrom
<1> HIDE DEF n, fn, ci, no
<1>7. L0.base + n + 1 <= L0.top
  BY <1>1, <1>3, <1>4, <1>5
<1>8. MayCall(L0, fn, no, p, n)
  BY <1>3, <1>4, <1>5, <1>7 DEF MayCall, Calls, LuaFn
<1>9. Fine(L0, r)
  BY <1>2, <1>4, <1>6, <1>8, PrecallFine
<1>10. QED
  BY <1>1, <1>9, GoInv

(* luaD_call by a thread. *)
LEMMA StepCall ==
  ASSUME ThreadInv, run # <<>>, NEW L, NEW fn \in Calls \cup {"errfn"}, NEW p \in prog.protos, NEW nargs \in Nat,
         ArgsOK(fn, nargs), Frames(L), Live(L), Begun(L), Guarded(L), L.baseCcalls = L0.baseCcalls,
         fn # "errfn" /\ NoErrfn(L, Len(L.ci)) => L.nCcalls = L.baseCcalls + CCalls(L, Len(L.ci)),
         L.base + nargs + 1 <= L.top,
         fn # "errfn" => L.ci[Len(L.ci)].fn \in LuaFn \cup {"base", "c"} \cup PCall,
         Go(luaD_call(L, fn, p, nargs))
  PROVE  ThreadInv'
<1> DEFINE r == luaD_call(L, fn, p, nargs)
           yes == TRUE
<1>1. yes \in BOOLEAN /\ yes
  OBVIOUS
<1> HIDE DEF yes
<1>2. Ci(L) = L.ci[Len(L.ci)] /\ L.status = "ok" /\ ProtoOK(p)
  BY LastCall, ProtosOK DEF Live
<1>3. MayCall(L, fn, yes, p, nargs)
  BY <1>1, <1>2 DEF MayCall, Calls, LuaFn
<1>4. Fine(L, r)
  BY <1>3, CallFine DEF yes
<1> HIDE DEF r
<1>5. Fine(L0, r)
  BY <1>4 DEF Fine
<1>6. QED
  BY <1>5, GoInv DEF r

(* The same calls, the same counts. *)
LEMMA SameCounts ==
  ASSUME NEW L, NEW G, G.ci = L.ci
  PROVE  /\ CCalls(G, Len(G.ci)) = CCalls(L, Len(L.ci)) /\ (NoErrfn(G, Len(G.ci)) <=> NoErrfn(L, Len(L.ci)))
         /\ G.ci[Len(G.ci)] = L.ci[Len(L.ci)]
  BY DEF CCalls, NoErrfn

(* A value is written behind the end of the stack. *)
LEMMA StepBeyond ==
  ASSUME ThreadInv, run # <<>>, Guarded(L0), NEW n \in 0 .. 3, Beyond(L0, n), Go(Step(L0, "outside"))
  PROVE  ThreadInv'
<1> DEFINE e == "outside"
           r == Step(L0, e)
<1>1. Frames(L0) /\ Live(L0) /\ L0.status = "ok" /\ L0.nCcalls \in Nat
  BY RunningThread, FieldTypes DEF Live, Frames
<1>2. Outside(e)
  BY <1>1, BeyondOK DEF Outside
<1>3. r.L = L0 /\ r.err = e /\ e # "msg" /\ e = "outside"
  BY DEF Step
<1> HIDE DEF e
<1>4. Raised(L0, L0, e)
  BY <1>1, <1>2, <1>3 DEF Raised, Alike
<1>5. Fine(L0, r)
  BY <1>1, <1>3, <1>4, FailedFine
<1>6. QED
  BY <1>5, GoInv DEF e

(* A tag method called by the machine (callTMres). *)
LEMMA StepTM ==
  ASSUME ThreadInv, NEW p \in prog.protos, callTMres(p)
  PROVE  ThreadInv'
<1> DEFINE L == Push(L0, 3)
           lua == "lua"
<1>1. run # <<>> /\ err = "no" /\ Ci(L0).fn = lua
      /\ Go(IF Beyond(L0, 3) THEN Step(L0, "outside") ELSE luaD_call(L, lua, p, 2))
  BY DEF callTMres, In, Running
<1>2. Frames(L0) /\ Live(L0) /\ Settled(L0)
  BY <1>1, RunningThread
<1>3. 3 \in Nat /\ 3 \in 0 .. 3 /\ 2 \in Nat /\ lua \in Calls \cup {"errfn"}
  BY DEF Calls
<1>4. Frames(L) /\ Alike(L0, L) /\ L.top = L0.top + 3 /\ L.nCcalls = L0.nCcalls
  BY <1>2, <1>3, PushOK
<1> HIDE DEF L
<1>5. L0.ci[Len(L0.ci)].fn = lua /\ L0.top \in Nat /\ L0.base \in Nat /\ L0.base <= L0.top
  BY <1>1, <1>2, LastCall
<1>6. L.ci = L0.ci /\ L.base = L0.base /\ L.baseCcalls = L0.baseCcalls
  BY <1>4 DEF Alike
<1>7. L.ci[Len(L.ci)].fn = lua /\ Guarded(L) /\ Guarded(L0)
  BY <1>5, <1>6 DEF Guarded, PCall
<1>8. Live(L) /\ Begun(L)
  BY <1>2, <1>4, LiveAlike DEF Frames, Settled
<1>9. NoErrfn(L, Len(L.ci)) => L.nCcalls = L.baseCcalls + CCalls(L, Len(L.ci))
  BY <1>2, <1>4, <1>6, SameCounts DEF Settled
<1>10. L.base + 2 + 1 <= L.top
  BY <1>4, <1>5, <1>6
<1>11. ArgsOK(lua, 2) /\ L.ci[Len(L.ci)].fn \in LuaFn \cup {"base", "c"} \cup PCall
  BY <1>7 DEF ArgsOK, LuaFn, PCall
<1> HIDE DEF lua
<1>12. CASE Beyond(L0, 3)
  BY <1>1, <1>3, <1>7, <1>12, StepBeyond
<1>13. CASE ~Beyond(L0, 3)
  <2>1. Go(luaD_call(L, lua, p, 2))
    BY <1>1, <1>13
  <2>2. QED
    BY <1>1, <1>3, <1>4, <1>6, <1>7, <1>8, <1>9, <1>10, <1>11, <2>1, StepCall
<1>14. QED
  BY <1>12, <1>13

(* A call made by a C function (lua_call). *)
LEMMA StepLuaCall ==
  ASSUME ThreadInv, NEW p \in prog.protos, NEW f \in Callee, lua_call(f, p)
  PROVE  ThreadInv'
<1> DEFINE k == OnStack(f)
           n == L0.top + 1 + k
           L == [L0 EXCEPT !.top = n]
           fn == f[1]
<1>1. run # <<>> /\ err = "no" /\ Ci(L0).fn = "c" /\ n <= Ci(L0).top /\ Go(luaD_call(L, fn, p, k))
  BY DEF lua_call, In, Running
<1>2. Frames(L0) /\ Live(L0) /\ Settled(L0)
  BY <1>1, RunningThread
<1>3. fn \in Calls \cup {"errfn"} /\ k \in Nat /\ ArgsOK(fn, k) /\ fn # "errfn"
  BY CalleeOK
<1> HIDE DEF k, fn
<1>4. /\ L0.ci[Len(L0.ci)] = Ci(L0) /\ L0.top \in Nat /\ L0.base \in Nat /\ L0.base <= L0.top /\ Ci(L0).top \in Nat
      /\ Len(L0.ci) \in 1 .. Len(L0.ci) /\ L0 \in ThreadType
  BY <1>2, LastCall DEF Frames
<1>5. Ci(L0).top <= Limit(L0) /\ Limit(L0) \in Int
  BY <1>2, <1>4, LimitOK DEF Frames, FrameOK
<1>6. n \in Nat /\ L0.base <= n /\ n <= Limit(L0) /\ L0.base + k + 1 <= n
  BY <1>1, <1>3, <1>4, <1>5
<1> HIDE DEF n
<1>7. Frames(L) /\ Alike(L0, L) /\ L.top = n /\ L.nCcalls = L0.nCcalls
  BY <1>2, <1>6, TopSet
<1> HIDE DEF L
<1>8. L.ci = L0.ci /\ L.base = L0.base /\ L.baseCcalls = L0.baseCcalls
  BY <1>7 DEF Alike
<1>9. L.ci[Len(L.ci)].fn = "c" /\ Guarded(L)
  BY <1>1, <1>4, <1>8 DEF Guarded, PCall
<1>10. Live(L) /\ Begun(L)
  BY <1>2, <1>7, LiveAlike DEF Frames, Settled
<1>11. NoErrfn(L, Len(L.ci)) => L.nCcalls = L.baseCcalls + CCalls(L, Len(L.ci))
  BY <1>2, <1>7, <1>8, SameCounts DEF Settled
<1>12. L.base + k + 1 <= L.top
  BY <1>6, <1>7, <1>8
<1>13. L.ci[Len(L.ci)].fn \in LuaFn \cup {"base", "c"} \cup PCall
  BY <1>9
<1>14. QED
  BY <1>1, <1>3, <1>7, <1>8, <1>9, <1>10, <1>11, <1>12, <1>13, StepCall

(* error, and every error of the machine. *)
LEMMA StepError ==
  ASSUME ThreadInv, luaB_error
  PROVE  ThreadInv'
<1>1. run # <<>> /\ err = "no" /\ Ci(L0).fn \in {"lua", "c"} /\ Go(luaG_runerror(L0))
  BY DEF luaB_error, In, Running
<1>2. Frames(L0) /\ Live(L0) /\ Settled(L0)
  BY <1>1, RunningThread
<1>3. Guarded(L0) /\ Begun(L0)
  BY <1>1, <1>2, LastCall DEF PCall, Guarded, Settled
<1>4. QED
  BY <1>1, <1>2, <1>3, RunerrorFine, GoInv

(* luaD_pcall puts its handler on the chain. *)
LEMMA ProtectedOK ==
  ASSUME NEW L, Frames(L), Live(L), Settled(L), L.ci[Len(L.ci)].fn \in PCall, NEW ef \in {"none", "fn", "bad"}
  PROVE  LET G == [L EXCEPT !.jmp = Append(@, Protected(L)), !.errfunc = ef]
         IN  /\ Frames(G) /\ Live(G) /\ Begun(G) /\ Guarded(G)
             /\ G.ci = L.ci /\ G.top = L.top /\ G.base = L.base /\ G.nCcalls = L.nCcalls /\ G.baseCcalls = L.baseCcalls
<1> DEFINE p == Protected(L)
           q == Append(L.jmp, p)
           G == [L EXCEPT !.jmp = q, !.errfunc = ef]
           n == Len(L.ci)
           m == Len(L.jmp)
           k == CCalls(L, n)
<1>1. /\ L \in ThreadType /\ L.jmp \in Seq(Handler) /\ m \in Nat /\ n \in Nat /\ L.top \in Nat /\ L.base \in Nat
      /\ L.nCcalls \in Nat /\ L.errfunc \in {"none", "fn", "bad"} /\ L.baseCcalls \in Nat
  BY FieldTypes DEF Frames
<1>2. L.base = L.ci[n].base /\ L.ci[n].base \in Nat /\ L.ci[n].top \in Nat
  BY LastCall
<1>3. L.base + 1 <= L.top /\ L.top + LUA_MINSTACK <= L.ci[n].top /\ LUA_MINSTACK \in Nat /\ 1 <= LUA_MINSTACK
  BY LimitsAssumption DEF Settled, PCall, CallNames
<1>4. L.top - 1 \in Nat /\ L.ci[n].base <= L.top - 1 /\ (L.top - 1) + 2 <= L.ci[n].top
  <2> DEFINE a == L.top
             b == L.ci[n].base
             c == L.ci[n].top
  <2>1. a \in Nat /\ b \in Nat /\ c \in Nat /\ b + 1 <= a /\ a + LUA_MINSTACK <= c /\ LUA_MINSTACK \in Nat /\ 1 <= LUA_MINSTACK
    BY <1>1, <1>2, <1>3
  <2> HIDE DEF a, b, c
  <2>2. a - 1 \in Nat /\ b <= a - 1 /\ (a - 1) + 2 <= c
    BY <2>1
  <2>3. QED
    BY <2>2 DEF a, b, c
<1>5. /\ p.by = "pcall" /\ p.ci = n /\ p.nCcalls = L.nCcalls /\ p.old_top = L.top - 1 /\ p.errfunc = L.errfunc
      /\ p \in Handler
  BY <1>1, <1>4 DEF Protected, Handler
<1> HIDE DEF p
<1>6. /\ q \in Seq(Handler) /\ Len(q) = m + 1 /\ q[m + 1] = p
      /\ \A i \in 1 .. m : q[i] = L.jmp[i]
  BY <1>1, <1>5
<1> HIDE DEF q
<1>7. G \in ThreadType
  BY <1>1, <1>6, ZenonT(30) DEF ThreadType
<1>8. /\ G.ci = L.ci /\ G.top = L.top /\ G.base = L.base /\ G.nCcalls = L.nCcalls /\ G.baseCcalls = L.baseCcalls
      /\ G.jmp = q /\ G.errfunc = ef /\ G.status = L.status /\ G.stacksize = L.stacksize /\ G.size_ci = L.size_ci
  BY <1>1 DEF ThreadType
<1> HIDE DEF G
<1>9. Frames(G)
  <2>1. StackLast(G) = StackLast(L)
    BY <1>8 DEF StackLast
  <2>2. Limit(G) = Limit(L)
    BY <1>8, <2>1 DEF Limit
  <2>3. QED
    BY <1>7, <1>8, <2>2 DEF Frames, FrameOK
<1>10. /\ Handlers(L) /\ L.status = "ok" /\ n >= 2 /\ Begun(L) /\ L.baseCcalls >= 1
       /\ L.nCcalls >= L.baseCcalls + k /\ L.baseCcalls + k <= CLimit
       /\ NoErrfn(L, n) => L.nCcalls = L.baseCcalls + k
       /\ ~Handled(L, n)
  BY DEF Live, Settled, Begun
<1>11. m >= 1 /\ L.jmp # <<>> /\ L.jmp[1].by = "resume"
  BY <1>1, <1>10 DEF Handlers
<1>12. k \in Nat /\ CCalls(G, n) = k /\ (NoErrfn(G, n) <=> NoErrfn(L, n))
  BY <1>1, <1>8, CCallsNat DEF CCalls, NoErrfn
<1>13. ASSUME NEW i \in 2 .. m PROVE HandlerOK(L, i) /\ L.jmp[i].ci \in 2 .. n /\ L.jmp[i].ci < n
  <2>1. HandlerOK(L, i) /\ L.jmp[i].ci \in 2 .. n
    BY <1>10 DEF Handlers, HandlerOK
  <2>2. L.jmp[i].ci # n
    BY <1>10 DEF Handled
  <2>3. QED
    BY <1>1, <2>1, <2>2
<1>14. ASSUME NEW i \in 2 .. m + 1 PROVE HandlerOK(G, i)
  <2>1. CASE i \in 2 .. m
    <3>1. HandlerOK(L, i) /\ L.jmp[i].ci \in 2 .. n
      BY <1>13, <2>1
    <3>2. G.jmp[i] = L.jmp[i] /\ \A x \in 2 .. i - 1 : G.jmp[x] = L.jmp[x]
      BY <1>1, <1>6, <1>8, <2>1
    <3>3. n \in Nat /\ n <= Len(G.ci) /\ Len(G.ci) \in Nat /\ \A x \in 1 .. n : G.ci[x] = L.ci[x]
      BY <1>1, <1>8
    <3> HIDE DEF n, m
    <3>4. QED
      BY <1>8, <3>1, <3>2, <3>3, HandlerMoved
  <2>2. CASE i = m + 1
    <3>1. G.jmp[i] = p /\ \A x \in 2 .. i - 1 : G.jmp[x].ci < n
      BY <1>1, <1>6, <1>8, <1>13, <2>2
    <3>2. n \in 2 .. n
      BY <1>1, <1>10
    <3>3. p.nCcalls >= G.baseCcalls + CCalls(G, n) /\ (NoErrfn(G, n) => p.nCcalls = G.baseCcalls + CCalls(G, n))
      BY <1>5, <1>8, <1>10, <1>12
    <3>4. L.ci[n].base <= p.old_top /\ p.old_top + 2 <= L.ci[n].top
      BY <1>4, <1>5
    <3>5. /\ G.jmp[i].by = "pcall" /\ G.jmp[i].ci = n /\ G.ci[n] = L.ci[n] /\ G.ci[n].fn \in PCall /\ Len(G.ci) = n
          /\ G.ci[n].base <= G.jmp[i].old_top /\ G.jmp[i].old_top + 2 <= G.ci[n].top
          /\ G.jmp[i].nCcalls >= G.baseCcalls + CCalls(G, n)
          /\ NoErrfn(G, n) => G.jmp[i].nCcalls = G.baseCcalls + CCalls(G, n)
      BY <1>5, <1>8, <3>1, <3>3, <3>4
    <3>6. QED
      BY <3>1, <3>2, <3>5, Zenon DEF HandlerOK
  <2>3. QED
    BY <1>1, <2>1, <2>2
<1>15. Len(G.jmp) = m + 1 /\ G.jmp # <<>> /\ G.jmp[1].by = "resume"
  BY <1>1, <1>6, <1>8, <1>11
<1>16. Handled(G, n)
  BY <1>1, <1>5, <1>6, <1>8, <1>11, <1>15 DEF Handled
<1>17. ASSUME NEW i, Handled(L, i) PROVE Handled(G, i)
  <2>1. PICK x \in 2 .. m : L.jmp[x].ci = i
    BY <1>17 DEF Handled
  <2>2. x \in 2 .. m + 1 /\ G.jmp[x] = L.jmp[x]
    BY <1>1, <1>6, <1>8
  <2>3. QED
    BY <1>15, <2>1, <2>2 DEF Handled
<1>18. G.jmp[2].errfunc = "none" /\ Len(G.jmp) # 1
  <2>1. CASE m = 1
    <3>1. L.errfunc = "none"
      BY <1>10, <2>1 DEF Handlers
    <3>2. 2 = m + 1
      BY <2>1
    <3>3. G.jmp[2] = p
      BY <1>6, <1>8, <3>2
    <3>4. QED
      BY <1>5, <1>15, <2>1, <3>1, <3>3
  <2>2. CASE m # 1
    <3>1. L.jmp[2].errfunc = "none"
      BY <1>10, <2>2 DEF Handlers
    <3>2. 2 \in 1 .. m
      <4>1. m \in Nat /\ m >= 1 /\ m # 1
        BY <1>1, <1>11, <2>2
      <4> HIDE DEF m
      <4>2. QED
        BY <4>1
    <3>3. QED
      BY <1>1, <1>6, <1>8, <1>11, <1>15, <2>2, <3>1, <3>2
  <2>3. QED
    BY <2>1, <2>2
<1>19. Handlers(G)
  <2>1. \A i \in 1 .. Len(G.ci) - 1 : G.ci[i].fn \in PCall => Handled(G, i)
    BY <1>8, <1>10, <1>17 DEF Handlers
  <2>2. QED
    BY <1>14, <1>15, <1>18, <2>1 DEF Handlers
<1>20. Live(G) /\ Begun(G) /\ Guarded(G)
  BY <1>8, <1>10, <1>12, <1>16, <1>19 DEF Live, Begun, Guarded
<1>21. QED
  BY <1>8, <1>9, <1>20 DEF G, q, p

(* pcall and xpcall. *)
LEMMA StepPcall ==
  ASSUME ThreadInv, NEW p \in prog.protos, NEW f \in Callee, NEW ef \in {"none", "fn", "bad"},
         luaB_pcall(f, p, ef)
  PROVE  ThreadInv'
<1> DEFINE L == [L0 EXCEPT !.jmp = Append(@, Protected(L0)), !.errfunc = ef]
           fn == f[1]
<1>1. run # <<>> /\ err = "no" /\ Ci(L0).fn \in PCall /\ OnStack(f) = 0 /\ Go(luaD_call(L, fn, p, 0))
  BY DEF luaB_pcall, In, Running, PCall
<1>2. Frames(L0) /\ Live(L0) /\ Settled(L0)
  BY <1>1, RunningThread
<1>3. fn \in Calls \cup {"errfn"} /\ 0 \in Nat /\ ArgsOK(fn, 0) /\ fn # "errfn"
  BY <1>1, CalleeOK
<1> HIDE DEF fn
<1>4. L0.ci[Len(L0.ci)] = Ci(L0) /\ L0.top \in Nat /\ L0.base \in Nat
  BY <1>2, LastCall
<1>5. L0.base + 1 <= L0.top
  BY <1>1, <1>2, <1>4 DEF Settled
<1>6. /\ Frames(L) /\ Live(L) /\ Begun(L) /\ Guarded(L) /\ L.ci = L0.ci /\ L.top = L0.top /\ L.base = L0.base
      /\ L.nCcalls = L0.nCcalls /\ L.baseCcalls = L0.baseCcalls
  BY <1>1, <1>2, <1>4, ProtectedOK
<1> HIDE DEF L
<1>7. NoErrfn(L, Len(L.ci)) => L.nCcalls = L.baseCcalls + CCalls(L, Len(L.ci))
  BY <1>2, <1>6, SameCounts DEF Settled
<1>8. L.base + 0 + 1 <= L.top
  BY <1>4, <1>5, <1>6
<1>9. L.ci[Len(L.ci)].fn \in LuaFn \cup {"base", "c"} \cup PCall
  BY <1>1, <1>4, <1>6
<1>10. QED
  BY <1>1, <1>3, <1>6, <1>7, <1>8, <1>9, StepCall

(* luaG_errormsg: the handler is called, or there is none. *)
LEMMA StepErrormsg ==
  ASSUME ThreadInv, run # <<>>, NEW p \in prog.protos, luaG_errormsg(p)
  PROVE  ThreadInv'
<1> DEFINE L == Push(L0, 1)
           fn == "errfn"
           r == CASE L0.errfunc = "none" -> Step(L0, "errrun")
                  [] L0.errfunc = "bad" -> Step(L0, "errerr")
                  [] OTHER -> IF Beyond(L0, 1) THEN Step(L0, "outside") ELSE luaD_call(L, fn, p, 1)
<1>1. err = "msg" /\ Go(r)
  BY DEF luaG_errormsg
<1>2. Frames(L0) /\ Live(L0) /\ Begun(L0) /\ Guarded(L0) /\ L0.base + 1 <= L0.top
  BY <1>1, RunningThread DEF Troubled
<1>3. ASSUME NEW e \in {"errrun", "errerr"}, r = Step(L0, e) PROVE ThreadInv'
  <2>1. Fine(L0, Step(L0, e))
    BY <1>2 DEF Fine, Troubled, Step, Outside
  <2>2. QED
    BY <1>1, <1>3, <2>1, GoInv
<1>4. CASE L0.errfunc = "none"
  <2>1. r = Step(L0, "errrun")
    BY <1>4
  <2>2. QED
    BY <1>3, <2>1
<1>5. CASE L0.errfunc = "bad"
  <2>1. r = Step(L0, "errerr")
    BY <1>5
  <2>2. QED
    BY <1>3, <2>1
<1>6. CASE L0.errfunc # "none" /\ L0.errfunc # "bad" /\ Beyond(L0, 1)
  <2>1. r = Step(L0, "outside") /\ 1 \in 0 .. 3
    BY <1>6
  <2>2. QED
    BY <1>1, <1>2, <1>6, <2>1, StepBeyond
<1>7. CASE L0.errfunc # "none" /\ L0.errfunc # "bad" /\ ~Beyond(L0, 1)
  <2>1. r = luaD_call(L, fn, p, 1)
    BY <1>7
  <2>2. 1 \in Nat /\ fn \in Calls \cup {"errfn"} /\ ArgsOK(fn, 1) /\ fn = "errfn"
    BY DEF ArgsOK, PCall
  <2>3. Frames(L) /\ Alike(L0, L) /\ L.top = L0.top + 1
    BY <1>2, <2>2, PushOK
  <2> HIDE DEF L, r, fn
  <2>4. L0.top \in Nat /\ L0.base \in Nat /\ L0.base <= L0.top
    BY <1>2, LastCall
  <2>5. L.base = L0.base /\ L.baseCcalls = L0.baseCcalls
    BY <2>3 DEF Alike
  <2>6. Live(L) /\ Begun(L) /\ Guarded(L)
    BY <1>2, <2>3, LiveAlike DEF Frames
  <2>7. L.base + 1 + 1 <= L.top
    BY <1>2, <2>3, <2>4, <2>5
  <2>8. QED
    BY <1>1, <2>1, <2>2, <2>3, <2>5, <2>6, <2>7, StepCall
<1>8. QED
  BY <1>4, <1>5, <1>6, <1>7

(* There is room for the results of a call and one value more. *)
Ready(L, nres) == IF nres <= lua_gettop(L) THEN L ELSE luaD_checkstack(L, nres)

(* ... after luaD_checkstack, where results come from OP_VARARG. *)
LEMMA ReturnRoom ==
  ASSUME NEW L, Frames(L), NEW nres \in Nat
  PROVE  LET H == Ready(L, nres)
         IN  Resized(L, H) /\ Frames(H) /\ L.ci[Len(L.ci)].func + nres + 1 <= Limit(H)
<1> DEFINE H == Ready(L, nres)
           g == L.ci[Len(L.ci)]
<1>1. /\ L \in ThreadType /\ L.top \in Nat /\ L.base \in Nat /\ L.base <= L.top /\ L.base = g.base
      /\ g.func \in Nat /\ g.base \in Nat /\ L.top <= Limit(L) /\ Limit(L) \in Int /\ Len(L.ci) \in 1 .. Len(L.ci)
  BY LastCall, LimitOK DEF Frames
<1>2. g.func < g.base
  BY <1>1 DEF Frames, FrameOK
<1> HIDE DEF g
<1>3. CASE nres <= lua_gettop(L)
  <2>1. H = L
    BY <1>3 DEF Ready
  <2>2. g.func + nres + 1 <= Limit(L)
    BY <1>1, <1>2, <1>3 DEF lua_gettop
  <2>3. QED
    BY <1>1, <2>1, <2>2 DEF Resized, g
<1>4. CASE ~(nres <= lua_gettop(L))
  <2> DEFINE C == luaD_checkstack(L, nres)
  <2>1. H = C
    BY <1>4 DEF Ready
  <2>2. Resized(L, C) /\ C.size_ci = L.size_ci /\ L.stacksize <= C.stacksize /\ L.top + nres <= Limit(C)
    BY <1>1, Checked
  <2> HIDE DEF C
  <2>3. Frames(C)
    BY <2>2, FramesGrown DEF Frames
  <2>4. Limit(C) \in Int
    BY <2>3, LimitOK DEF Frames
  <2>5. g.func + nres + 1 <= Limit(C)
    BY <1>1, <1>2, <2>2, <2>4
  <2> HIDE DEF H
  <2>6. QED
    BY <2>1, <2>2, <2>3, <2>5 DEF H, g
<1>5. QED
  BY <1>3, <1>4

(* adjustresults gives a C function room for what is on its stack. *)
LEMMA AdjustOK ==
  ASSUME NEW L, Frames(L)
  PROVE  LET A == adjustresults(L)
         IN  /\ Roomier(L, A) /\ L.top <= A.ci[Len(L.ci)].top /\ Limit(A) = Limit(L)
<1> DEFINE n == Len(L.ci)
           top == Max({L.ci[n].top, L.top})
           ci == [L.ci[n] EXCEPT !.top = top]
           cs == [L.ci EXCEPT ![n] = ci]
           G == [L EXCEPT !.ci = cs]
<1>1. /\ L \in ThreadType /\ n \in Nat /\ 1 <= n /\ n \in 1 .. n /\ L.ci \in Seq(Call) /\ L.ci[n] \in Call
      /\ L.top \in Nat /\ L.ci[n].top \in Nat /\ L.ci[n].func \in Nat /\ L.ci[n].base \in Nat /\ L.size_ci \in Nat
      /\ L.top <= Limit(L) /\ L.ci[n].top <= Limit(L) /\ L.ci[n].func < L.ci[n].base /\ L.ci[n].base <= L.ci[n].top
      /\ Len(L.ci) <= L.size_ci /\ 2 <= L.size_ci
  BY FieldTypes, LastCall DEF Frames, FrameOK
<1>2. adjustresults(L) = G
  BY DEF adjustresults
<1>3. top \in Nat /\ L.ci[n].top <= top /\ L.top <= top /\ top \in {L.ci[n].top, L.top}
  BY <1>1, MaxOfTwo
<1> HIDE DEF top
<1>4. top <= Limit(L)
  BY <1>1, <1>3
<1>5. ci \in Call
  BY <1>1, <1>3, Zenon DEF Call
<1>6. ci.fn = L.ci[n].fn /\ ci.c = L.ci[n].c /\ ci.func = L.ci[n].func /\ ci.base = L.ci[n].base /\ ci.top = top
  BY <1>1 DEF Call
<1> HIDE DEF ci, n
<1>7. cs \in Seq(Call) /\ Len(cs) = n /\ cs[n] = ci /\ \A i \in 1 .. n : i # n => cs[i] = L.ci[i]
  BY <1>1, <1>5 DEF n
<1> HIDE DEF cs
<1>8. G \in ThreadType
  BY <1>1, <1>7, ZenonT(30) DEF ThreadType
<1>9. /\ G.ci = cs /\ G.top = L.top /\ G.base = L.base /\ G.nCcalls = L.nCcalls
      /\ G.stacksize = L.stacksize /\ G.size_ci = L.size_ci
      /\ G.status = L.status /\ G.baseCcalls = L.baseCcalls /\ G.errfunc = L.errfunc /\ G.jmp = L.jmp
  BY <1>1 DEF ThreadType
<1> HIDE DEF G
<1>10. Limit(G) = Limit(L)
  BY <1>9 DEF Limit, StackLast
<1>11. ASSUME NEW i \in 1 .. Len(G.ci) PROVE FrameOK(G, G.ci[i])
  <2>1. i \in 1 .. n /\ FrameOK(L, L.ci[i]) /\ L.ci[i].top \in Nat
    BY <1>1, <1>7, <1>9, CallTypes DEF Frames, n
  <2>2. CASE i = n
    BY <1>1, <1>3, <1>4, <1>6, <1>7, <1>9, <1>10, <2>2 DEF FrameOK
  <2>3. CASE i # n
    BY <1>7, <1>9, <1>10, <2>1, <2>3 DEF FrameOK
  <2>4. QED
    BY <2>2, <2>3
<1>12. ASSUME NEW i \in 1 .. Len(G.ci) - 1 PROVE Above(G.ci[i], G.ci[i + 1])
  <2>1. Above(L.ci[i], L.ci[i + 1]) /\ i \in 1 .. n /\ i # n /\ i + 1 \in 1 .. n
    BY <1>1, <1>7, <1>9 DEF Frames, n
  <2>2. G.ci[i] = L.ci[i]
    BY <1>7, <1>9, <2>1
  <2>3. CASE i + 1 = n
    BY <1>6, <1>7, <1>9, <2>1, <2>2, <2>3 DEF Above
  <2>4. CASE i + 1 # n
    BY <1>7, <1>9, <2>1, <2>2, <2>4
  <2>5. QED
    BY <2>3, <2>4
<1>13. G.ci # <<>> /\ G.ci[1].fn = "base" /\ ~G.ci[1].c
  <2>1. L.ci[1].fn = "base" /\ ~L.ci[1].c /\ 1 \in 1 .. n
    BY <1>1 DEF Frames
  <2>2. G.ci[1].fn = L.ci[1].fn /\ G.ci[1].c = L.ci[1].c
    BY <1>6, <1>7, <1>9, <2>1
  <2>3. QED
    BY <1>1, <1>7, <1>9, <2>1, <2>2
<1>14. G.base = G.ci[Len(G.ci)].base /\ G.base <= G.top /\ G.top <= Limit(G) /\ Len(G.ci) <= G.size_ci /\ 2 <= G.size_ci
  BY <1>1, <1>6, <1>7, <1>9, <1>10 DEF Frames, n
<1>15. Frames(G)
  BY <1>8, <1>11, <1>12, <1>13, <1>14 DEF Frames
<1>16. Roomier(L, G)
  BY <1>3, <1>6, <1>7, <1>9, <1>15 DEF Roomier, n
<1>17. L.top <= G.ci[n].top
  BY <1>3, <1>6, <1>7, <1>9
<1>18. QED
  BY <1>2, <1>10, <1>16, <1>17 DEF n

(* A larger frame, the same counts. *)
LEMMA RoomierSame ==
  ASSUME NEW L, NEW G, Frames(L), Roomier(L, G)
  PROVE  /\ CCalls(G, Len(G.ci)) = CCalls(L, Len(L.ci)) /\ (NoErrfn(G, Len(G.ci)) <=> NoErrfn(L, Len(L.ci)))
         /\ \A i : Handled(G, i) <=> Handled(L, i)
<1> DEFINE n == Len(L.ci)
<1>1. n \in Nat /\ Len(G.ci) = n /\ G.jmp = L.jmp
  BY FieldTypes DEF Roomier, Frames
<1>2. \A i \in 1 .. n : G.ci[i].fn = L.ci[i].fn /\ G.ci[i].c = L.ci[i].c
  BY DEF Roomier
<1> HIDE DEF n
<1>3. CCalls(G, n) = CCalls(L, n)
  BY <1>1, <1>2, CCallsSame
<1>4. QED
  BY <1>1, <1>2, <1>3 DEF NoErrfn, Handled, n

(* What a return leads to: the caller, a protected call or a failed handler. *)
LEMMA ReturnFine ==
  ASSUME NEW L, Frames(L), Live(L), Settled(L), 3 <= Len(L.ci), NEW nres \in Nat,
         L.ci[Len(L.ci)].func + nres + 1 <= Limit(L)
  PROVE  LET G == luaD_poscall(L, nres)
         IN  Fine(L, IF Ci(L).fn = "errfn" THEN Step(G, "errrun")
                     ELSE IF Ci(G).fn \in {"pcall", "xpcall"} THEN Step(Unprotect(adjustresults(G)), "no")
                     ELSE IF Ci(G).fn = "c" THEN Step(adjustresults(G), "no")
                     ELSE Step(G, "no"))
<1> DEFINE G == luaD_poscall(L, nres)
           n == Len(L.ci)
           f == L.ci[n - 1]
           g == L.ci[n]
<1>1. /\ L \in ThreadType /\ n \in Nat /\ Ci(L) = g /\ g.func \in Nat /\ g.top \in Nat /\ g.c \in BOOLEAN
      /\ L.nCcalls \in Nat /\ L.baseCcalls \in Nat /\ Limit(L) \in Int
  BY LastCall, FieldTypes, LimitOK DEF Frames
<1>2. Above(f, g) /\ n \in 1 .. n /\ n - 1 \in 1 .. n - 1 /\ n - 1 \in 1 .. n /\ (n - 1) + 1 = n
  <2>1. n \in 1 .. n /\ n - 1 \in 1 .. n - 1 /\ (n - 1) + 1 = n /\ n - 1 \in 1 .. n
    BY <1>1
  <2>2. Above(L.ci[n - 1], L.ci[(n - 1) + 1])
    BY <2>1 DEF Frames
  <2>3. QED
    BY <2>1, <2>2
<1>3. CCalls(L, n) \in Nat /\ L.nCcalls >= L.baseCcalls + CCalls(L, n) /\ L.baseCcalls >= 1 /\ Level(g.c) \in 0 .. 1
  BY <1>1, CCallsNat DEF Live, Level
<1>4. g.func + nres <= Limit(L) /\ Level(g.c) <= L.nCcalls /\ 2 <= n
  <2>1. g.func + nres + 1 <= Limit(L)
    OBVIOUS
  <2> HIDE DEF g
  <2>2. QED
    BY <1>1, <1>3, <2>1
<1>5. /\ Popped(L, G) /\ G.top = IF f.fn \in LuaFn /\ g.fn # "errfn" THEN f.top ELSE g.func + nres
  BY <1>4, PoscallOK
<1>6. Limit(G) = Limit(L)
  <2>1. G.stacksize = L.stacksize
    BY <1>1 DEF luaD_poscall, ThreadType
  <2>2. QED
    BY <1>5, <2>1 DEF Limit, StackLast, Popped
<1>7. /\ ~Handled(L, n) /\ Begun(L) /\ (NoErrfn(L, n) => L.nCcalls = L.baseCcalls + CCalls(L, n))
  BY DEF Settled
<1> HIDE DEF G
<1>8. /\ Live(G) /\ Begun(G) /\ Guarded(G) /\ CCalls(L, n) = CCalls(G, Len(G.ci)) + Level(g.c)
      /\ NoErrfn(L, n) <=> NoErrfn(G, Len(G.ci)) /\ g.fn # "errfn"
      /\ Handled(G, Len(G.ci)) => G.ci[Len(G.ci)].fn \in PCall
  BY <1>5, <1>7, LivePopped
<1>9. /\ Frames(G) /\ G.baseCcalls = L.baseCcalls /\ Len(G.ci) = n - 1 /\ G.ci[Len(G.ci)] = f
      /\ G.nCcalls = L.nCcalls - Level(g.c) /\ Ci(G) = f
  <2>1. /\ Frames(G) /\ G.baseCcalls = L.baseCcalls /\ Len(G.ci) = n - 1 /\ G.ci[n - 1] = f
        /\ G.nCcalls = L.nCcalls - Level(g.c)
    BY <1>2, <1>5 DEF Popped
  <2>2. Ci(G) = G.ci[Len(G.ci)]
    BY <2>1, LastCall
  <2>3. QED
    BY <2>1, <2>2
<1>10. CASE g.fn = "errfn"
  <2>1. Fine(L, Step(G, "errrun"))
    BY <1>8, <1>9 DEF Fine, Troubled, Step, Outside
  <2>2. QED
    BY <1>1, <1>10, <2>1 DEF G
<1>11. CASE g.fn # "errfn"
  <2>1. NoErrfn(G, Len(G.ci)) => G.nCcalls = G.baseCcalls + CCalls(G, Len(G.ci))
    <3>1. CCalls(G, Len(G.ci)) \in Nat
      BY <1>1, <1>9, CCallsNat, FieldTypes DEF Frames
    <3>2. NoErrfn(G, Len(G.ci)) => L.nCcalls = L.baseCcalls + (CCalls(G, Len(G.ci)) + Level(g.c))
      BY <1>7, <1>8, <1>11
    <3> DEFINE a == CCalls(G, Len(G.ci))
               b == Level(g.c)
    <3>3. a \in Nat /\ b \in 0 .. 1 /\ G.nCcalls = L.nCcalls - b /\ G.baseCcalls = L.baseCcalls
      BY <1>3, <1>9, <3>1
    <3> HIDE DEF a, b
    <3>4. L.nCcalls = L.baseCcalls + (a + b) => G.nCcalls = G.baseCcalls + a
      BY <1>1, <3>3
    <3>5. QED
      BY <3>2, <3>4 DEF a, b
  <2>2. /\ f.fn \in LuaFn => G.top = f.top
        /\ f.fn \notin LuaFn => G.top + 1 <= Limit(G)
    BY <1>5, <1>6, <1>11
  <2>3. f.fn \in LuaFn \cup {"base", "c"} \cup PCall
    BY <1>2, <1>11 DEF Above
  <2> DEFINE A == adjustresults(G)
  <2>4. /\ Roomier(G, A) /\ G.top <= A.ci[Len(G.ci)].top /\ Limit(A) = Limit(G)
    BY <1>9, AdjustOK
  <2> HIDE DEF A
  <2>5. /\ Frames(A) /\ A.top = G.top /\ Len(A.ci) = Len(G.ci) /\ A.ci[Len(A.ci)].fn = f.fn
        /\ A.baseCcalls = G.baseCcalls /\ A.nCcalls = G.nCcalls /\ A.top <= A.ci[Len(A.ci)].top
    BY <1>9, <2>4 DEF Roomier
  <2>6. Live(A) /\ Begun(A)
    BY <1>8, <1>9, <2>4, LiveRoomier
  <2>7. /\ NoErrfn(A, Len(A.ci)) => A.nCcalls = A.baseCcalls + CCalls(A, Len(A.ci))
        /\ Handled(A, Len(A.ci)) <=> Handled(G, Len(G.ci))
    BY <1>9, <2>1, <2>4, <2>5, RoomierSame
  <2>8. CASE f.fn \in PCall
    <3>1. f.fn \notin LuaFn
      BY <2>8 DEF PCall, LuaFn
    <3>2. A.top + 1 <= Limit(A) /\ Handled(A, Len(A.ci))
      BY <1>8, <1>9, <2>2, <2>4, <2>5, <2>7, <2>8, <3>1 DEF Guarded
    <3>3. Fine(A, Step(Unprotect(A), "no"))
      BY <2>5, <2>6, <2>7, <3>2, UnprotectFine
    <3>4. Fine(L, Step(Unprotect(A), "no"))
      BY <1>9, <2>5, <3>3 DEF Fine
    <3>5. QED
      BY <1>1, <1>9, <1>11, <2>8, <3>4 DEF G, A, PCall
  <2>9. CASE f.fn = "c"
    <3>1. ~Handled(A, Len(A.ci)) /\ f.fn \notin PCall
      BY <1>8, <1>9, <2>7, <2>9 DEF PCall
    <3>2. f.fn \notin LuaFn \cup (CallNames \ {"c"}) \cup PCall \cup {"resume", "queueEvent", "wrap", "yield", "ret"}
      BY <2>9 DEF LuaFn, PCall
    <3>3. Settled(A)
      BY <2>5, <2>6, <2>7, <3>1, <3>2 DEF Settled
    <3>4. Fine(L, Step(A, "no"))
      BY <1>9, <2>5, <2>6, <3>3 DEF Fine, Step, Outside
    <3>5. QED
      BY <1>1, <1>9, <1>11, <2>9, <3>4 DEF G, A
  <2>10. CASE f.fn \notin PCall \cup {"c"}
    <3>1. ~Handled(G, Len(G.ci))
      BY <1>8, <1>9, <2>10
    <3>2. f.fn \in LuaFn \cup {"base"}
      BY <2>3, <2>10
    <3>3. f.fn \notin CallNames \cup PCall \cup {"c", "resume", "queueEvent", "wrap", "yield", "ret"}
      BY <3>2 DEF LuaFn, CallNames, PCall
    <3>4. Settled(G)
      BY <1>8, <1>9, <2>1, <2>2, <3>1, <3>3 DEF Settled
    <3>5. Fine(L, Step(G, "no"))
      BY <1>8, <1>9, <3>4 DEF Fine, Step, Outside
    <3>6. QED
      BY <1>1, <1>9, <1>11, <2>10, <3>5 DEF G, PCall
  <2>11. QED
    BY <2>3, <2>8, <2>9, <2>10
<1>12. QED
  BY <1>10, <1>11

(* OP_RETURN and the return of a C function. *)
LEMMA StepReturn ==
  ASSUME ThreadInv, NEW nres \in 0 .. prog.values, Return(nres)
  PROVE  ThreadInv'
<1> DEFINE H == Ready(L0, nres)
           G == luaD_poscall(H, nres)
           r == IF Ci(L0).fn = "errfn" THEN Step(G, "errrun")
                ELSE IF Ci(G).fn \in {"pcall", "xpcall"} THEN Step(Unprotect(adjustresults(G)), "no")
                ELSE IF Ci(G).fn = "c" THEN Step(adjustresults(G), "no")
                ELSE Step(G, "no")
<1>1. run # <<>> /\ err = "no" /\ Len(L0.ci) > 2 /\ Go(r)
  BY DEF Return, In, Running, Returned, Ready
<1>2. Frames(L0) /\ Live(L0) /\ Settled(L0) /\ nres \in Nat
  <2>1. prog.values \in 0 .. MaxValues /\ MaxValues \in Nat
    BY LimitsAssumption DEF ThreadInv, Types, Programs
  <2>2. nres \in Nat
    BY <2>1
  <2>3. QED
    BY <1>1, <2>2, RunningThread
<1>3. Resized(L0, H) /\ Frames(H) /\ L0.ci[Len(L0.ci)].func + nres + 1 <= Limit(H)
  BY <1>2, ReturnRoom
<1> HIDE DEF H
<1>4. H.ci = L0.ci /\ H.baseCcalls = L0.baseCcalls /\ Live(H) /\ Settled(H)
  BY <1>2, <1>3, LiveResized DEF Resized
<1>5. 3 <= Len(H.ci) /\ Ci(H) = Ci(L0)
  BY <1>1, <1>2, <1>4, LastCall DEF Ci
<1>6. H.ci[Len(H.ci)].func + nres + 1 <= Limit(H)
  BY <1>3, <1>4
<1>7. Fine(H, r)
  BY <1>2, <1>3, <1>4, <1>5, <1>6, ReturnFine
<1> HIDE DEF r
<1>8. Fine(L0, r)
  BY <1>4, <1>7 DEF Fine
<1>9. QED
  BY <1>1, <1>8, GoInv

-----------------------------------------------------------------------------
(* A thread stops.                                                         *)

(* A thread that stops keeps its frames with less on its stack.            *)
LEMMA LessOnStack ==
  ASSUME NEW L, Frames(L), Dormant(L), NEW k \in Nat, L.base + k <= L.top
  PROVE  LET G == [L EXCEPT !.top = L.top - k]
         IN  /\ Frames(G) /\ Dormant(G) /\ G.top = L.top - k /\ G.base = L.base /\ G.status = L.status
             /\ G.ci = L.ci /\ G.nCcalls = L.nCcalls
<1> DEFINE n == L.top - k
           G == [L EXCEPT !.top = n]
<1>1. L.top \in Nat /\ L.base \in Nat /\ L.top <= Limit(L) /\ L.ci[Len(L.ci)].top \in Nat
  BY FieldTypes, LastCall DEF Frames
<1>2. Limit(L) \in Int
  BY LimitOK DEF Frames
<1>3. n \in Nat /\ L.base <= n /\ n <= Limit(L) /\ n <= L.top
  BY <1>1, <1>2
<1> HIDE DEF n
<1>4. Frames(G) /\ Alike(L, G) /\ G.top = n /\ G.nCcalls = L.nCcalls
  BY <1>3, TopSet
<1> HIDE DEF G
<1>5. Dormant(G)
  <2>1. L.ci[Len(L.ci)].fn \notin LuaFn \cup {"base"} => n <= L.ci[Len(L.ci)].top
    <3>1. L.ci[Len(L.ci)].fn \notin LuaFn \cup {"base"} => L.top <= L.ci[Len(L.ci)].top
      BY DEF Dormant
    <3>2. L.top <= L.ci[Len(L.ci)].top => n <= L.ci[Len(L.ci)].top
      BY <1>1, <1>3
    <3>3. QED
      BY <3>1, <3>2
  <2>2. QED
    BY <1>4, <2>1 DEF Dormant, Alike, Begun
<1>6. QED
  BY <1>4, <1>5 DEF G, n, Alike

(* The host gets control back from its coroutine. *)
LEMMA BackAlone ==
  ASSUME ThreadInv, run # <<>>, t = coro, NEW G, NEW ok \in BOOLEAN, Back(G, ok),
         run' = Front(run), params' = params, prog' = prog,
         Frames(G), Dormant(G), G.status = "yield" => G.nCcalls = 0
  PROVE  ThreadInv'
<1>1. /\ Len(run) \in Nat \ {0} /\ t = run[Len(run)] /\ t \in Thread /\ L0 = th[t]
      /\ coro \in Thread /\ run[1] = coro
  BY RunningThread
<1>2. th \in [Thread -> ThreadType] /\ Types /\ Chain /\ run \in Seq(Thread)
  BY DEF ThreadInv, Types
<1>3. Len(run) = 1
  <2>1. 1 \in 1 .. Len(run) /\ Len(run) \in 1 .. Len(run)
    BY <1>1
  <2>2. QED
    BY <1>1, <1>2, <2>1 DEF Chain
<1>4. th' = [th EXCEPT ![t] = G] /\ err' = "no"
  BY DEF Back
<1>5. Front(run) \in Seq(Thread) /\ Len(Front(run)) = 0
  BY <1>1, <1>2, <1>3, FrontOf
<1>6. run' = <<>> /\ Len(run') = 0
  BY <1>5
<1>7. th'[t] = G /\ (\A co \in Thread : co # t => th'[co] = th[co]) /\ th' \in [Thread -> ThreadType]
  BY <1>1, <1>2, <1>4 DEF Frames
<1>8. Types'
  BY <1>2, <1>4, <1>6, <1>7 DEF Types
<1>9. Chain'
  BY <1>4, <1>6, <1>7 DEF Chain
<1>10. (\A co \in Thread : Frames(th[co]))' /\ Outside(err)'
  <2>1. \A co \in Thread : Frames(th'[co])
    BY <1>7 DEF ThreadInv
  <2>2. QED
    BY <1>4, <2>1, FramesKept DEF Outside
<1>11. ASSUME NEW co \in Thread PROVE Dormant(th'[co])
  <2>1. CASE co = t
    BY <1>7, <2>1
  <2>2. CASE co # t
    <3>1. ~InRun(co)
      BY <1>1, <1>3, <2>2 DEF InRun
    <3>2. QED
      BY <1>7, <2>2, <3>1 DEF ThreadInv
  <2>3. QED
    BY <2>1, <2>2
<1>12. QED
  BY <1>6, <1>8, <1>9, <1>10, <1>11 DEF ThreadInv

(* A thread stops and the one that resumed it goes on. *)
LEMMA BackFrom ==
  ASSUME ThreadInv, run # <<>>, t # coro, NEW G, NEW ok \in BOOLEAN, Back(G, ok),
         run' = Front(run), params' = params, prog' = prog,
         Frames(G), Dormant(G), ok \/ G.base + 1 <= G.top
  PROVE  ThreadInv'
<1> DEFINE from == run[Len(run) - 1]
           nres == lua_gettop(G)
           r == IF ok THEN Received(th[from], nres) ELSE Refused(th[from])
           moved == IF ~ok THEN 1 ELSE IF r.err = "no" THEN nres ELSE 0
           H == [G EXCEPT !.top = G.top - moved]
           m == Len(run) - 1
<1>1. /\ Len(run) \in Nat \ {0} /\ t = run[Len(run)] /\ t \in Thread /\ L0 = th[t]
      /\ coro \in Thread /\ run[1] = coro /\ \A k \in 1 .. Len(run) : run[k] \in Thread
  BY RunningThread
<1>2. th \in [Thread -> ThreadType] /\ Types /\ Chain /\ run \in Seq(Thread)
  BY DEF ThreadInv, Types
<1>3. m \in Nat /\ 1 <= m /\ m \in 1 .. m /\ Len(run) = m + 1 /\ m \in 1 .. Len(run) - 1 /\ Len(run) # 1
      /\ from = run[m]
  BY <1>1
<1> HIDE DEF m
<1>4. th' = [th EXCEPT ![t] = H, ![from] = r.L] /\ err' = r.err
  BY DEF Back
<1>5. /\ Front(run) \in Seq(Thread) /\ Len(Front(run)) = m /\ \A i \in 1 .. m : Front(run)[i] = run[i]
  BY <1>1, <1>2, <1>3, FrontOf
<1>6. /\ from \in Thread /\ from # t /\ Frames(th[from]) /\ Live(th[from]) /\ Settled(th[from])
      /\ th[from].ci[Len(th[from].ci)].fn \in {"resume", "wrap"}
  BY <1>3, WaitingThread
<1>7. nres \in Nat /\ G.base + nres = G.top /\ G.top \in Nat /\ G.base \in Nat /\ G.base <= G.top
  <2>1. G.top \in Nat /\ G.base \in Nat /\ G.base <= G.top
    BY LastCall
  <2>2. QED
    BY <2>1 DEF lua_gettop
<1> HIDE DEF nres
<1>8. Fine(th[from], r)
  BY <1>6, <1>7, ReceivedFine, RefusedFine
<1> HIDE DEF r
<1>9. moved \in Nat /\ G.base + moved <= G.top
  BY <1>7
<1> HIDE DEF moved
<1>10. Frames(H) /\ Dormant(H)
  BY <1>9, LessOnStack
<1> HIDE DEF H, from
<1>11. /\ th'[t] = H /\ th'[from] = r.L /\ \A co \in Thread : co # t /\ co # from => th'[co] = th[co]
  BY <1>1, <1>2, <1>4, <1>6
<1>12. /\ Frames(r.L) /\ Live(r.L) /\ r.L.baseCcalls = th[from].baseCcalls
       /\ r.err \in {"no", "msg", "errrun", "errerr", "outside"} /\ Outside(r.err)
       /\ IF r.err = "no" THEN Settled(r.L) ELSE Troubled(r.L, r.err)
  BY <1>8 DEF Fine
<1>13. th' \in [Thread -> ThreadType]
  BY <1>1, <1>2, <1>4, <1>6, <1>10, <1>12 DEF Frames
<1>14. Types'
  BY <1>2, <1>4, <1>5, <1>12, <1>13 DEF Types
<1>15. (\A co \in Thread : Frames(th[co]))' /\ Outside(err)'
  <2>1. \A co \in Thread : Frames(th'[co])
    BY <1>10, <1>11, <1>12 DEF ThreadInv
  <2>2. QED
    BY <1>4, <1>12, <2>1, FramesKept
<1>16. ASSUME NEW k \in 1 .. m
       PROVE  /\ run'[k] = run[k] /\ run[k] \in Thread /\ run[k] # t /\ (run[k] = from <=> k = m)
              /\ th'[run[k]].baseCcalls = th[run[k]].baseCcalls
              /\ k # m => th'[run[k]] = th[run[k]]
  <2>1. k \in 1 .. Len(run) /\ m \in 1 .. Len(run) /\ Len(run) \in 1 .. Len(run) /\ k # Len(run)
    BY <1>1, <1>3
  <2>2. run[k] # t /\ (run[k] = from <=> k = m)
    BY <1>1, <1>2, <1>3, <2>1 DEF Chain
  <2>3. QED
    BY <1>1, <1>5, <1>11, <1>12, <2>1, <2>2
<1>17. Len(run') = m /\ run' # <<>>
  BY <1>3, <1>5
<1>18. Chain'
  <2>1. ASSUME NEW k \in 1 .. m, NEW i \in 1 .. m, run'[k] = run'[i] PROVE k = i
    <3>1. run[k] = run[i] /\ k \in 1 .. Len(run) /\ i \in 1 .. Len(run)
      BY <1>1, <1>3, <1>16, <2>1
    <3>2. QED
      BY <1>2, <3>1 DEF Chain
  <2>2. run'[1] = coro /\ th'[coro].baseCcalls = 1
    <3>1. 1 \in 1 .. m
      BY <1>3
    <3>2. th[coro].baseCcalls = 1
      BY <1>2 DEF Chain
    <3>3. QED
      BY <1>1, <1>16, <3>1, <3>2
  <2>3. ASSUME NEW k \in 1 .. m - 1
        PROVE  /\ th'[run'[k]].ci[Len(th'[run'[k]].ci)].fn \in {"resume", "wrap"}
               /\ th'[run'[k]].top <= th'[run'[k]].base + 1
               /\ th'[run'[k + 1]].baseCcalls = th'[run'[k]].nCcalls + 1
    <3>1. k \in 1 .. Len(run) - 1 /\ k \in 1 .. m /\ k + 1 \in 1 .. m /\ k # m
      BY <1>3
    <3>2. run'[k] = run[k] /\ run'[k + 1] = run[k + 1] /\ th'[run[k]] = th[run[k]]
          /\ th'[run[k + 1]].baseCcalls = th[run[k + 1]].baseCcalls
      BY <1>16, <3>1
    <3>3. QED
      BY <1>2, <3>1, <3>2 DEF Chain
  <2>4. QED
    BY <1>17, <2>1, <2>2, <2>3 DEF Chain
<1>19. ASSUME NEW k \in 1 .. m
       PROVE  /\ Live(th'[run'[k]])
              /\ IF k < m \/ err' = "no" THEN Settled(th'[run'[k]]) ELSE Troubled(th'[run'[k]], err')
  <2>1. CASE k = m
    <3>1. th'[run'[k]] = r.L /\ ~(k < m)
      BY <1>3, <1>11, <1>16, <2>1
    <3>2. QED
      BY <1>4, <1>12, <3>1
  <2>2. CASE k # m
    <3>1. th'[run'[k]] = th[run[k]] /\ k < m /\ k \in 1 .. Len(run) - 1
      BY <1>3, <1>16, <2>2
    <3>2. QED
      BY <3>1, WaitingThread
  <2>3. QED
    BY <2>1, <2>2
<1>20. ASSUME NEW co \in Thread, ~InRun(co)' PROVE Dormant(th'[co])
  <2>1. \A k \in 1 .. m : run[k] # co
    BY <1>16, <1>17, <1>20 DEF InRun
  <2>2. co # from
    BY <1>3, <2>1
  <2>3. CASE co = t
    BY <1>10, <1>11, <2>3
  <2>4. CASE co # t
    <3>1. ~InRun(co)
      <4>1. \A k \in 1 .. Len(run) : k \in 1 .. m \/ k = Len(run)
        BY <1>1, <1>3
      <4>2. QED
        BY <1>1, <2>1, <2>4, <4>1 DEF InRun
    <3>2. QED
      BY <1>11, <2>2, <2>4, <3>1 DEF ThreadInv
  <2>5. QED
    BY <2>3, <2>4
<1>21. QED
  BY <1>14, <1>15, <1>17, <1>18, <1>19, <1>20 DEF ThreadInv

(* Without a protected call there is no handler left. *)
LEMMA NoProtected ==
  ASSUME NEW L, Frames(L), Handlers(L), \A i \in 2 .. Len(L.ci) : L.ci[i].fn \notin PCall
  PROVE  L.errfunc = "none"
<1>1. L.jmp \in Seq(Handler) /\ Len(L.jmp) \in Nat /\ L.jmp # <<>>
  BY FieldTypes DEF Frames, Handlers
<1>2. ~(2 <= Len(L.jmp))
  <2> SUFFICES ASSUME 2 <= Len(L.jmp) PROVE FALSE
    OBVIOUS
  <2>1. 2 \in 2 .. Len(L.jmp)
    BY <1>1
  <2>2. HandlerOK(L, 2)
    BY <2>1 DEF Handlers
  <2>3. QED
    BY <2>2 DEF HandlerOK
<1>3. Len(L.jmp) = 1
  <2> DEFINE m == Len(L.jmp)
  <2>1. m \in Nat /\ m # 0 /\ ~(2 <= m)
    BY <1>1, <1>2
  <2> HIDE DEF m
  <2>2. m = 1
    BY <2>1
  <2>3. QED
    BY <2>2 DEF m
<1>4. QED
  BY <1>3 DEF Handlers

(* luaD_throw: to the innermost protected call, or out of the thread. *)
LEMMA StepThrow ==
  ASSUME ThreadInv, run # <<>>, luaD_throw
  PROVE  ThreadInv'
<1>1. err \in {"errrun", "errerr"} /\ Frames(L0) /\ Live(L0) /\ Begun(L0) /\ Guarded(L0)
  BY RunningThread DEF luaD_throw, Troubled
<1>2. CASE Last(L0.jmp).by = "pcall"
  <2> DEFINE r == Step(CatchError(L0), "no")
  <2>1. Go(r)
    BY <1>2 DEF luaD_throw
  <2>2. Fine(L0, r)
    BY <1>1, <1>2, CatchFine
  <2> HIDE DEF r
  <2>3. QED
    BY <2>1, <2>2, GoInv
<1>3. CASE Last(L0.jmp).by # "pcall" /\ Beyond(L0, 1)
  <2>1. Go(Step(L0, "outside")) /\ 1 \in 0 .. 3
    BY <1>3 DEF luaD_throw
  <2>2. QED
    BY <1>1, <1>3, <2>1, StepBeyond
<1>4. CASE Last(L0.jmp).by # "pcall" /\ ~Beyond(L0, 1)
  <2> DEFINE G == Killed(L0, err)
             no == FALSE
  <2>1. Back(G, no) /\ run' = Front(run) /\ params' = params /\ prog' = prog
    BY <1>4 DEF luaD_throw
  <2>2. /\ L0.status = "ok" /\ L0.nCcalls \in Nat /\ L0.baseCcalls \in Nat /\ Len(L0.ci) \in Nat
        /\ L0.top \in Nat /\ L0.base \in Nat /\ L0.base <= L0.top
        /\ L0.baseCcalls >= 1 /\ L0.nCcalls >= L0.baseCcalls + CCalls(L0, Len(L0.ci))
    BY <1>1, FieldTypes, LastCall DEF Live, Frames
  <2>3. 1 <= L0.nCcalls
    BY <2>2, CCallsNat
  <2>4. Frames(G) /\ Dormant(G) /\ G.status = err /\ G.top = L0.top + 1 /\ G.base = L0.base
    BY <1>1, <1>4, <2>2, <2>3, KilledOK
  <2> HIDE DEF G
  <2>5. G.base + 1 <= G.top /\ G.status # "yield" /\ no \in BOOLEAN
    BY <1>1, <2>2, <2>4
  <2> HIDE DEF no
  <2>6. QED
    BY <2>1, <2>4, <2>5, BackAlone, BackFrom
<1>5. QED
  BY <1>2, <1>3, <1>4

(* lua_yield of a thread that is in no call from C. *)
LEMMA YieldedOK ==
  ASSUME NEW L, Frames(L), Live(L), Settled(L), Ci(L).fn = "yield", ~(L.nCcalls > L.baseCcalls)
  PROVE  LET G == Suspended([L EXCEPT !.status = "yield", !.base = L.top - lua_gettop(L)])
         IN  /\ Frames(G) /\ Dormant(G) /\ G.nCcalls = L.baseCcalls - 1 /\ G.status = "yield" /\ G.ci = L.ci
             /\ G.top = L.top /\ G.base = L.base
<1> DEFINE b == L.top - lua_gettop(L)
           Y == [L EXCEPT !.status = "yield", !.base = b]
           G == Suspended(Y)
           n == Len(L.ci)
<1>1. /\ L \in ThreadType /\ n \in Nat \ {0} /\ Ci(L) = L.ci[n] /\ L.top \in Nat /\ L.base \in Nat /\ L.base <= L.top
      /\ L.nCcalls \in Nat /\ L.baseCcalls \in Nat /\ L.ci[n].fn = "yield" /\ L.ci[n].top \in Nat
  BY LastCall, FieldTypes DEF Frames
<1>2. b = L.base
  BY <1>1 DEF lua_gettop
<1> HIDE DEF b
<1>3. Y \in ThreadType
  BY <1>1, <1>2, ZenonT(30) DEF ThreadType
<1>4. /\ Y.status = "yield" /\ Y.base = L.base /\ Y.ci = L.ci /\ Y.top = L.top /\ Y.nCcalls = L.nCcalls
      /\ Y.errfunc = L.errfunc /\ Y.stacksize = L.stacksize /\ Y.size_ci = L.size_ci /\ Y.baseCcalls = L.baseCcalls
  BY <1>1, <1>2 DEF ThreadType
<1> HIDE DEF Y
<1>5. Frames(Y)
  <2>1. StackLast(Y) = StackLast(L)
    BY <1>4 DEF StackLast
  <2>2. Over(Y.status) = Over(L.status)
    <3>1. Y.status \notin {"errrun", "errerr"} /\ L.status \notin {"errrun", "errerr"}
      BY <1>4 DEF Live
    <3>2. QED
      BY <3>1, OverOK
  <2>3. Limit(Y) = Limit(L)
    BY <2>1, <2>2 DEF Limit
  <2>4. QED
    BY <1>3, <1>4, <2>3 DEF Frames, FrameOK
<1>6. CCalls(L, n) \in Nat /\ CCalls(L, n) = 0 /\ L.nCcalls = L.baseCcalls /\ L.baseCcalls >= 1 /\ n >= 2 /\ L.ci[2].fn = "lua"
      /\ Handlers(L)
  <2>1. /\ CCalls(L, n) \in Nat /\ L.nCcalls >= L.baseCcalls + CCalls(L, n) /\ L.baseCcalls >= 1 /\ n >= 2 /\ L.ci[2].fn = "lua"
        /\ Handlers(L)
    BY <1>1, CCallsNat DEF Live, Settled, Begun
  <2>2. QED
    BY <1>1, <2>1
<1>7. \A i \in 1 .. n : ~L.ci[i].c
  BY <1>1, <1>6, CCallsZero
<1>8. L.errfunc = "none"
  <2>1. ASSUME NEW i \in 2 .. n PROVE L.ci[i].fn \notin PCall
    <3>1. CASE i = n
      BY <1>1, <3>1 DEF PCall
    <3>2. CASE i # n
      <4>1. i \in 1 .. n - 1 /\ i + 1 \in 1 .. n
        BY <1>1, <3>2
      <4>2. Above(L.ci[i], L.ci[i + 1]) /\ ~L.ci[i + 1].c
        BY <1>7, <4>1 DEF Frames
      <4>3. QED
        BY <4>2 DEF Above
    <3>3. QED
      BY <3>1, <3>2
  <2>2. QED
    BY <1>6, <2>1, NoProtected
<1>9. /\ Frames(G) /\ G.jmp = <<>> /\ G.nCcalls = L.baseCcalls - 1 /\ G.status = "yield" /\ G.top = L.top
      /\ G.base = L.base /\ G.ci = L.ci /\ G.errfunc = "none"
  <2>1. 1 <= Y.nCcalls
    BY <1>1, <1>4, <1>6
  <2>2. QED
    BY <1>4, <1>5, <1>6, <1>8, <2>1, SuspendedOK
<1> HIDE DEF G
<1>10. n >= 3
  <2>1. n # 2
    BY <1>1, <1>6
  <2>2. QED
    BY <1>1, <1>6, <2>1
<1>11. L.top <= L.ci[n].top
  <2>1. L.top + LUA_MINSTACK <= L.ci[n].top /\ LUA_MINSTACK \in Nat
    BY <1>1, LimitsAssumption DEF Settled, CallNames
  <2>2. QED
    BY <1>1, <2>1
<1>12. Dormant(G)
  BY <1>1, <1>6, <1>7, <1>9, <1>10, <1>11 DEF Dormant, Begun
<1>13. QED
  BY <1>9, <1>12 DEF G, Y, b

(* The coroutine of the host counts from 1. *)
LEMMA CoroBase ==
  ASSUME ThreadInv, run # <<>>, t = coro
  PROVE  L0.baseCcalls = 1
  BY DEF ThreadInv, Chain, L0

(* coroutine.yield. *)
LEMMA StepYield ==
  ASSUME ThreadInv, lua_yield
  PROVE  ThreadInv'
<1>1. run # <<>> /\ err = "no" /\ Ci(L0).fn = "yield"
  BY DEF lua_yield, In, Running
<1>2. Frames(L0) /\ Live(L0) /\ Settled(L0)
  BY <1>1, RunningThread
<1>3. CASE L0.nCcalls > L0.baseCcalls
  <2>1. Go(luaG_runerror(L0))
    BY <1>3 DEF lua_yield
  <2>2. Guarded(L0) /\ Begun(L0)
    BY <1>1, <1>2, LastCall DEF PCall, Guarded, Settled
  <2>3. QED
    BY <1>1, <1>2, <2>1, <2>2, RunerrorFine, GoInv
<1>4. CASE ~(L0.nCcalls > L0.baseCcalls)
  <2> DEFINE G == Suspended([L0 EXCEPT !.status = "yield", !.base = L0.top - lua_gettop(L0)])
  <2>1. Back(G, TRUE) /\ run' = Front(run) /\ params' = params /\ prog' = prog
    BY <1>4 DEF lua_yield
  <2>2. Frames(G) /\ Dormant(G) /\ G.nCcalls = L0.baseCcalls - 1
    BY <1>1, <1>2, <1>4, YieldedOK
  <2> HIDE DEF G
  <2>3. t = coro => G.nCcalls = 0
    BY <1>1, <2>2, CoroBase
  <2>4. TRUE \in BOOLEAN
    OBVIOUS
  <2>5. QED
    BY <1>1, <2>1, <2>2, <2>3, <2>4, BackAlone, BackFrom
<1>5. QED
  BY <1>3, <1>4

(* The function of a coroutine has returned. *)
LEMMA EndedOK ==
  ASSUME NEW L, Frames(L), Live(L), Ci(L).fn = "lua", Len(L.ci) = 2, NEW nres \in Nat
  PROVE  LET B == Ready(L, nres)
             G == Suspended(luaD_poscall(B, nres))
         IN  /\ Frames(G) /\ Dormant(G) /\ G.status = "ok" /\ Len(G.ci) = 1 /\ G.ci[1] = L.ci[1]
             /\ G.top = L.ci[2].func + nres /\ G.base = L.ci[1].base
<1> DEFINE B == Ready(L, nres)
           P == luaD_poscall(B, nres)
           G == Suspended(P)
<1>1. /\ L \in ThreadType /\ Ci(L) = L.ci[2] /\ L.nCcalls \in Nat /\ L.baseCcalls \in Nat
      /\ L.ci[2].fn = "lua" /\ L.ci[2].func \in Nat /\ L.ci[2].c \in BOOLEAN
  BY LastCall, FieldTypes DEF Frames
<1>2. Resized(L, B) /\ Frames(B) /\ L.ci[2].func + nres + 1 <= Limit(B)
  BY ReturnRoom
<1> HIDE DEF B
<1>3. Limit(B) \in Int
  BY <1>2, LimitOK DEF Frames
<1>4. B.ci = L.ci /\ B.nCcalls = L.nCcalls /\ Len(B.ci) = 2 /\ B.status = L.status /\ B.errfunc = L.errfunc
  BY <1>2 DEF Resized
<1>5. Level(L.ci[2].c) \in 0 .. 1 /\ Level(L.ci[2].c) + 1 <= L.nCcalls
  <2>1. CCalls(L, 1) \in Nat /\ L.nCcalls >= L.baseCcalls + CCalls(L, 2) /\ L.baseCcalls >= 1
    BY CCallsNat DEF Live
  <2>2. 1 \in Nat /\ 1 + 1 = 2
    OBVIOUS
  <2>3. CCalls(L, 2) = IF L.ci[2].c THEN CCalls(L, 1) + 1 ELSE CCalls(L, 1)
    BY <1>1, <2>2, CCallsNext
  <2>4. CASE L.ci[2].c
    BY <1>1, <2>1, <2>3, <2>4 DEF Level
  <2>5. CASE ~L.ci[2].c
    BY <1>1, <2>1, <2>3, <2>5 DEF Level
  <2>6. QED
    BY <2>4, <2>5
<1>6. Popped(B, P) /\ P.top = IF B.ci[1].fn \in LuaFn /\ B.ci[2].fn # "errfn" THEN B.ci[1].top ELSE B.ci[2].func + nres
  <2>1. Level(B.ci[2].c) <= B.nCcalls
    BY <1>1, <1>4, <1>5
  <2>2. 2 <= Len(B.ci) /\ Len(B.ci) - 1 = 1
    <3> DEFINE m == Len(B.ci)
    <3>1. m = 2
      BY <1>4
    <3> HIDE DEF m
    <3>2. 2 <= m /\ m - 1 = 1
      BY <3>1
    <3>3. QED
      BY <3>2 DEF m
  <2>3. B.ci[Len(B.ci)].func + nres <= Limit(B) /\ Level(B.ci[Len(B.ci)].c) <= B.nCcalls
    <3>1. L.ci[2].func + nres <= Limit(B)
      BY <1>1, <1>2, <1>3
    <3>2. QED
      BY <1>4, <2>1, <3>1
  <2>4. LET n == Len(B.ci)
        IN  /\ Popped(B, P)
            /\ P.top = IF B.ci[n - 1].fn \in LuaFn /\ B.ci[n].fn # "errfn" THEN B.ci[n - 1].top ELSE B.ci[n].func + nres
    BY <1>2, <2>2, <2>3, PoscallOK
  <2>5. QED
    BY <1>4, <2>2, <2>4
<1> HIDE DEF P
<1>7. /\ Frames(P) /\ Len(P.ci) = 1 /\ P.ci[1] = L.ci[1] /\ P.nCcalls = L.nCcalls - Level(L.ci[2].c)
      /\ P.status = L.status /\ P.errfunc = L.errfunc
  BY <1>4, <1>6 DEF Popped
<1>8. L.ci[1].fn = "base" /\ P.top = L.ci[2].func + nres
  <2>1. L.ci[1].fn = "base"
    BY DEF Frames
  <2>2. QED
    BY <1>4, <1>6, <2>1 DEF LuaFn
<1>9. L.errfunc = "none" /\ L.status = "ok"
  <2>1. \A i \in 2 .. Len(L.ci) : L.ci[i].fn \notin PCall
    BY <1>1 DEF PCall
  <2>2. Handlers(L) /\ L.status = "ok"
    BY DEF Live
  <2>3. QED
    BY <2>1, <2>2, NoProtected
<1>10. /\ Frames(G) /\ G.jmp = <<>> /\ G.status = "ok" /\ G.errfunc = "none" /\ G.ci = P.ci /\ G.top = P.top /\ G.base = P.base
  <2>1. 1 <= P.nCcalls
    BY <1>1, <1>5, <1>7
  <2>2. QED
    BY <1>7, <1>9, <2>1, SuspendedOK
<1> HIDE DEF G
<1>11. Dormant(G)
  <2>1. G.ci[Len(G.ci)].fn = "base" /\ Len(G.ci) = 1
    BY <1>7, <1>8, <1>10
  <2>2. QED
    BY <1>10, <2>1 DEF Dormant
<1>12. G.base = L.ci[1].base
  BY <1>7, <1>10 DEF Frames
<1>13. QED
  BY <1>7, <1>8, <1>10, <1>11, <1>12 DEF G, P, B

(* The function of a coroutine returns. *)
LEMMA StepEnd ==
  ASSUME ThreadInv, NEW n \in 0 .. prog.values, EndThread(n)
  PROVE  ThreadInv'
<1> DEFINE B == Ready(L0, n)
           G == Suspended(luaD_poscall(B, n))
<1>1. /\ run # <<>> /\ err = "no" /\ Ci(L0).fn = "lua" /\ Len(L0.ci) = 2 /\ Back(G, TRUE)
      /\ run' = Front(run) /\ params' = params /\ prog' = prog
  BY DEF EndThread, In, Running, Returned, Ready
<1>2. Frames(L0) /\ Live(L0) /\ n \in Nat /\ TRUE \in BOOLEAN
  <2>1. prog.values \in 0 .. MaxValues /\ MaxValues \in Nat
    BY LimitsAssumption DEF ThreadInv, Types, Programs
  <2>2. n \in Nat
    BY <2>1
  <2>3. QED
    BY <1>1, <2>2, RunningThread
<1>3. Frames(G) /\ Dormant(G) /\ G.status = "ok"
  BY <1>1, <1>2, EndedOK
<1> HIDE DEF G
<1>4. G.status # "yield"
  BY <1>3
<1>5. QED
  BY <1>1, <1>2, <1>3, <1>4, BackAlone, BackFrom

-----------------------------------------------------------------------------
(* Threads, events and the host.                                           *)

(* C may stand for the thread A that waits for the one it resumed. *)
Waits(A, C) ==
  /\ Settled(C) /\ C.ci[Len(C.ci)].fn \in {"resume", "wrap"} /\ C.top <= C.base + 1
  /\ C.nCcalls = A.nCcalls

(* A step after which the same threads run. *)
LEMMA KeptInv ==
  ASSUME ThreadInv, run' = run, prog' = prog, Types', run # <<>>, Outside(err'),
         \A co \in Thread : Frames(th'[co]),
         \A co \in Thread : ~InRun(co) => Dormant(th'[co]),
         \A co \in Thread : InRun(co) => Live(th'[co]) /\ th'[co].baseCcalls = th[co].baseCcalls,
         \A co \in Thread : InRun(co) /\ co # t => Waits(th[co], th'[co]),
         IF err' = "no" THEN Settled(th'[t]) ELSE Troubled(th'[t], err')
  PROVE  ThreadInv'
<1>1. /\ Len(run) \in Nat \ {0} /\ t = run[Len(run)] /\ t \in Thread
      /\ coro \in Thread /\ run[1] = coro /\ \A k \in 1 .. Len(run) : run[k] \in Thread
  BY RunningThread
<1>2. Chain
  BY DEF ThreadInv
<1>3. \A k \in 1 .. Len(run) : InRun(run[k])
  BY DEF InRun
<1>4. ASSUME NEW k \in 1 .. Len(run) - 1 PROVE Waits(th[run[k]], th'[run[k]])
  <2>1. k \in 1 .. Len(run) /\ run[k] # t
    BY <1>1, WaitingThread
  <2>2. QED
    BY <1>1, <1>3, <2>1
<1>5. Chain'
  <2>1. th'[coro].baseCcalls = 1
    <3>1. 1 \in 1 .. Len(run)
      BY <1>1
    <3>2. InRun(coro)
      BY <1>1, <1>3, <3>1
    <3>3. th[coro].baseCcalls = 1
      BY <1>2 DEF Chain
    <3>4. QED
      BY <1>1, <3>2, <3>3
  <2>2. ASSUME NEW k \in 1 .. Len(run) - 1
        PROVE  /\ th'[run[k]].ci[Len(th'[run[k]].ci)].fn \in {"resume", "wrap"}
               /\ th'[run[k]].top <= th'[run[k]].base + 1
               /\ th'[run[k + 1]].baseCcalls = th'[run[k]].nCcalls + 1
    <3>1. k + 1 \in 1 .. Len(run)
      BY <1>1
    <3>2. th'[run[k + 1]].baseCcalls = th[run[k + 1]].baseCcalls
      BY <1>1, <1>3, <3>1
    <3>3. th[run[k + 1]].baseCcalls = th[run[k]].nCcalls + 1
      BY <1>2 DEF Chain
    <3>4. QED
      BY <1>4, <3>2, <3>3 DEF Waits
  <2>3. QED
    BY <1>2, <2>1, <2>2 DEF Chain
<1>6. ASSUME NEW k \in 1 .. Len(run)
      PROVE  /\ Live(th'[run[k]])
             /\ IF k < Len(run) \/ err' = "no" THEN Settled(th'[run[k]]) ELSE Troubled(th'[run[k]], err')
  <2>1. Live(th'[run[k]])
    BY <1>1, <1>3
  <2>2. CASE k = Len(run)
    <3>1. ~(k < Len(run)) /\ run[k] = t
      BY <1>1, <2>2
    <3>2. QED
      BY <2>1, <3>1
  <2>3. CASE k # Len(run)
    <3>1. k \in 1 .. Len(run) - 1 /\ k < Len(run)
      BY <1>1, <2>3
    <3>2. QED
      BY <1>4, <2>1, <3>1 DEF Waits
  <2>4. QED
    BY <2>2, <2>3
<1>7. ASSUME NEW co \in Thread, ~InRun(co)' PROVE Dormant(th'[co])
  <2>1. ~InRun(co)
    BY <1>7 DEF InRun
  <2>2. QED
    BY <2>1
<1>8. (\A co \in Thread : Frames(th[co]))' /\ Outside(err)'
  BY FramesKept
<1>9. QED
  BY <1>5, <1>6, <1>7, <1>8 DEF ThreadInv

(* The threads that run, and those that do not. *)
LEMMA RunThreads ==
  ASSUME ThreadInv, run # <<>>, NEW co \in Thread
  PROVE  /\ InRun(t)
         /\ InRun(co) => Live(th[co])
         /\ InRun(co) /\ co # t => Waits(th[co], th[co])
         /\ ~InRun(co) => Dormant(th[co])
<1>1. /\ Len(run) \in Nat \ {0} /\ t = run[Len(run)] /\ t \in Thread
  BY RunningThread
<1>2. InRun(t)
  <2>1. Len(run) \in 1 .. Len(run)
    BY <1>1
  <2>2. QED
    BY <1>1, <2>1 DEF InRun
<1>3. InRun(co) => Live(th[co])
  BY DEF InRun, ThreadInv
<1>4. ASSUME InRun(co), co # t PROVE Waits(th[co], th[co])
  <2>1. PICK k \in 1 .. Len(run) : run[k] = co
    BY <1>4 DEF InRun
  <2>2. k \in 1 .. Len(run) - 1
    BY <1>1, <1>4, <2>1
  <2>3. QED
    BY <2>1, <2>2, WaitingThread DEF Waits
<1>5. ~InRun(co) => Dormant(th[co])
  BY DEF ThreadInv
<1>6. QED
  BY <1>2, <1>3, <1>4, <1>5

(* One or two threads change, the same ones run. *)
LEMMA ChangedInv ==
  ASSUME ThreadInv, run # <<>>, run' = run, prog' = prog, params' \in Seq(0 .. MaxValues),
         NEW co \in Thread, NEW C, NEW r, th' = [th EXCEPT ![co] = C, ![t] = r.L], err' = r.err, Fine(L0, r),
         co # t => Frames(C),
         ~InRun(co) => Dormant(C),
         InRun(co) /\ co # t => Live(C) /\ C.baseCcalls = th[co].baseCcalls /\ Waits(th[co], C)
  PROVE  ThreadInv'
<1>1. t \in Thread /\ L0 = th[t] /\ InRun(t)
  BY RunningThread, RunThreads
<1>2. th \in [Thread -> ThreadType] /\ run \in Seq(Thread) /\ prog \in Program
  BY DEF ThreadInv, Types
<1>3. th'[t] = r.L /\ (co # t => th'[co] = C) /\ \A x \in Thread : x # t /\ x # co => th'[x] = th[x]
  BY <1>1, <1>2
<1>4. /\ Frames(r.L) /\ Live(r.L) /\ r.L.baseCcalls = th[t].baseCcalls
      /\ r.err \in {"no", "msg", "errrun", "errerr", "outside"} /\ Outside(r.err)
      /\ IF r.err = "no" THEN Settled(r.L) ELSE Troubled(r.L, r.err)
  BY <1>1 DEF Fine
<1>5. \A x \in Thread : Frames(th'[x])
  BY <1>3, <1>4 DEF ThreadInv
<1>6. Types'
  <2>1. \A x \in Thread : th'[x] \in ThreadType
    BY <1>5 DEF Frames
  <2>2. th' \in [Thread -> ThreadType]
    BY <1>2, <2>1
  <2>3. QED
    BY <1>2, <1>4, <2>2 DEF Types
<1>7. ASSUME NEW x \in Thread
      PROVE  /\ ~InRun(x) => Dormant(th'[x])
             /\ InRun(x) => Live(th'[x]) /\ th'[x].baseCcalls = th[x].baseCcalls
             /\ InRun(x) /\ x # t => Waits(th[x], th'[x])
  <2>1. CASE x = t
    BY <1>1, <1>3, <1>4, <2>1
  <2>2. CASE x # t /\ x = co
    BY <1>3, <2>2
  <2>3. CASE x # t /\ x # co
    BY <1>3, <2>3, RunThreads
  <2>4. QED
    BY <2>1, <2>2, <2>3
<1>8. QED
  BY <1>3, <1>4, <1>5, <1>6, <1>7, KeptInv

(* coroutine.create. *)
LEMMA StepCreate ==
  ASSUME ThreadInv, NEW co \in Thread, luaB_cocreate(co)
  PROVE  ThreadInv'
<1> DEFINE C == [NewThread EXCEPT !.top = 2]
           r == Step(Done(L0), "no")
<1>1. /\ run # <<>> /\ err = "no" /\ Ci(L0).fn = "create" /\ th[co].status = "free"
      /\ th' = [th EXCEPT ![t] = Done(@), ![co] = C]
      /\ run' = run /\ err' = err /\ params' = params /\ prog' = prog
  BY DEF luaB_cocreate, In, Running
<1>2. Frames(L0) /\ Live(L0) /\ Settled(L0) /\ L0 = th[t] /\ t \in Thread
  BY <1>1, RunningThread
<1>3. Frames(C) /\ Dormant(C)
  BY CreatedOK
<1> HIDE DEF C
<1>4. co # t /\ ~InRun(co)
  <2>1. ~Live(th[co])
    BY <1>1 DEF Live
  <2>2. QED
    BY <1>1, <1>2, <2>1, RunThreads
<1>5. th \in [Thread -> ThreadType] /\ params \in Seq(0 .. MaxValues)
  BY DEF ThreadInv, Types
<1>6. th' = [th EXCEPT ![co] = C, ![t] = r.L] /\ err' = r.err
  BY <1>1, <1>2, <1>4, <1>5 DEF Step
<1>7. Fine(L0, r)
  <2>1. L0.ci[Len(L0.ci)].fn \in CallNames \ {"c"} /\ L0.top \in Nat /\ L0.ci[Len(L0.ci)].top \in Nat
    BY <1>1, <1>2, LastCall DEF CallNames
  <2>2. L0.top + LUA_MINSTACK <= L0.ci[Len(L0.ci)].top /\ LUA_MINSTACK \in Nat
    BY <1>2, <2>1, LimitsAssumption DEF Settled
  <2>3. L0.top <= L0.ci[Len(L0.ci)].top + 1
    BY <2>1, <2>2
  <2>4. QED
    BY <1>2, <2>1, <2>3, DoneFine DEF Settled
<1> HIDE DEF r
<1>8. QED
  BY <1>1, <1>3, <1>4, <1>5, <1>6, <1>7, ChangedInv

(* os.queueEvent. *)
LEMMA StepQueue ==
  ASSUME ThreadInv, os_queueEvent
  PROVE  ThreadInv'
<1> DEFINE n == L0.base + 1
           r == Step(Done([L0 EXCEPT !.top = n]), "no")
<1>1. /\ run # <<>> /\ err = "no" /\ Ci(L0).fn = "queueEvent"
      /\ params' = Append(params, lua_gettop(L0) - 1)
      /\ th' = [th EXCEPT ![t] = Done([@ EXCEPT !.top = n])]
      /\ run' = run /\ err' = err /\ prog' = prog
  BY DEF os_queueEvent, In, Running
<1>2. Frames(L0) /\ Live(L0) /\ Settled(L0) /\ L0 = th[t] /\ t \in Thread
  BY <1>1, RunningThread
<1>3. /\ L0.ci[Len(L0.ci)].fn = "queueEvent" /\ L0.top \in Nat /\ L0.base \in Nat /\ L0.ci[Len(L0.ci)].top \in Nat
  BY <1>1, <1>2, LastCall
<1>4. /\ L0.top + LUA_MINSTACK <= L0.ci[Len(L0.ci)].top /\ LUA_MINSTACK \in Nat /\ MaxValues \in Nat
      /\ L0.base + 1 <= L0.top /\ L0.top <= L0.base + MaxValues + 1
  BY <1>2, <1>3, LimitsAssumption DEF Settled, CallNames
<1>5. n \in Nat /\ L0.base <= n /\ n <= L0.ci[Len(L0.ci)].top
  BY <1>3, <1>4, SMTT(30)
<1>6. lua_gettop(L0) - 1 \in 0 .. MaxValues
  BY <1>3, <1>4 DEF lua_gettop
<1> HIDE DEF n
<1>7. Fine(L0, r)
  BY <1>2, <1>3, <1>5, PushedFine DEF CallNames
<1>8. th \in [Thread -> ThreadType] /\ params \in Seq(0 .. MaxValues)
  BY DEF ThreadInv, Types
<1>9. th' = [th EXCEPT ![t] = r.L, ![t] = r.L] /\ err' = r.err
  BY <1>1, <1>2, <1>8 DEF Step
<1>10. params' \in Seq(0 .. MaxValues)
  BY <1>1, <1>6, <1>8
<1>11. InRun(t)
  BY <1>1, <1>2, RunThreads
<1> HIDE DEF r
<1>12. QED
  BY <1>1, <1>2, <1>7, <1>9, <1>10, <1>11, ChangedInv

(* A thread nobody refers to is collected. *)
LEMMA StepCollect ==
  ASSUME ThreadInv, NEW co \in Thread, Collect(co)
  PROVE  ThreadInv'
<1> DEFINE r == Step(L0, "no")
<1>1. /\ run # <<>> /\ err = "no" /\ co \notin Range(run) /\ th' = [th EXCEPT ![co] = Free]
      /\ run' = run /\ err' = err /\ params' = params /\ prog' = prog
  BY DEF Collect, Running
<1>2. Frames(L0) /\ Live(L0) /\ Settled(L0) /\ L0 = th[t] /\ t \in Thread /\ InRun(t)
  BY <1>1, RunningThread, RunThreads
<1>3. Frames(Free) /\ Dormant(Free)
  BY FreeOK
<1>4. ~InRun(co) /\ co # t
  <2>1. run \in Seq(Thread)
    BY DEF ThreadInv, Types
  <2>2. DOMAIN run = 1 .. Len(run)
    BY <2>1
  <2>3. ~InRun(co)
    BY <1>1, <2>2 DEF InRun, Range
  <2>4. QED
    BY <1>2, <2>3
<1>5. th \in [Thread -> ThreadType] /\ params \in Seq(0 .. MaxValues)
  BY DEF ThreadInv, Types
<1>6. th' = [th EXCEPT ![co] = Free, ![t] = r.L] /\ err' = r.err
  <2>1. [th EXCEPT ![co] = Free, ![t] = L0] = [th EXCEPT ![co] = Free]
    BY <1>2, <1>4, <1>5
  <2>2. QED
    BY <1>1, <2>1 DEF Step
<1>7. Fine(L0, r)
  BY <1>2 DEF Fine, Step, Outside
<1> HIDE DEF r
<1>8. QED
  BY <1>1, <1>3, <1>4, <1>5, <1>6, <1>7, ChangedInv

(* A frame that ends behind the stack takes a function with parameters for *)
(* it.                                                                     *)
LEMMA UsedBeyond ==
  ASSUME NEW L, Frames(L), s_used(L) >= L.stacksize
  PROVE  EXTRA_STACK <= Slack
<1>1. /\ StackLast(L) \in Int /\ Limit(L) = StackLast(L) + Over(L.status) /\ Limit(L) \in Int
      /\ StackLast(L) + EXTRA_STACK + 1 = L.stacksize /\ L.stacksize \in Nat
  BY LimitOK, FieldTypes DEF Frames
<1>2. s_used(L) \in Nat /\ s_used(L) <= Limit(L)
  BY UsedOK
<1>3. Over(L.status) \in Int /\ EXTRA_STACK \in Nat /\ Slack \in Nat
  BY OverOK, SlackOK
<1>4. EXTRA_STACK + 1 <= Over(L.status)
  BY <1>1, <1>2, <1>3
<1>5. Over(L.status) = Slack - 1 \/ Over(L.status) = Slack \/ ~(Slack <= EXTRA_STACK)
  BY DEF Over
<1>6. QED
  BY <1>3, <1>4, <1>5

(* The collector clears what is above the top of a thread it visits. *)
LEMMA StepClear ==
  ASSUME ThreadInv, NEW co \in Thread, traversestack(co), s_used(th[co]) >= th[co].stacksize
  PROVE  ThreadInv'
<1> DEFINE e == "outside"
           r == Step(L0, e)
<1>1. /\ run # <<>> /\ err = "no" /\ th' = th
      /\ run' = run /\ err' = e /\ params' = params /\ prog' = prog
  BY DEF traversestack, Running
<1>2. Frames(L0) /\ Live(L0) /\ L0 = th[t] /\ t \in Thread /\ InRun(t)
  BY <1>1, RunningThread, RunThreads
<1>3. Frames(th[co])
  BY DEF ThreadInv
<1>4. Outside(e)
  BY <1>3, UsedBeyond DEF Outside
<1>5. Fine(L0, r)
  BY <1>2, <1>4 DEF Fine, Step, Troubled
<1>6. th \in [Thread -> ThreadType] /\ params \in Seq(0 .. MaxValues)
  BY DEF ThreadInv, Types
<1>7. th' = [th EXCEPT ![t] = L0, ![t] = r.L] /\ err' = r.err
  BY <1>1, <1>2, <1>6 DEF Step
<1> HIDE DEF r, e
<1>8. QED
  BY <1>1, <1>2, <1>5, <1>6, <1>7, ChangedInv

(* ... and shrinks its stack. *)
LEMMA StepTraverse ==
  ASSUME ThreadInv, NEW co \in Thread, traversestack(co), ~(s_used(th[co]) >= th[co].stacksize)
  PROVE  ThreadInv'
<1> DEFINE C == checkstacksizes(th[co])
           r == Step(IF co = t THEN C ELSE L0, "no")
<1>1. /\ run # <<>> /\ err = "no" /\ th' = [th EXCEPT ![co] = C]
      /\ run' = run /\ err' = err /\ params' = params /\ prog' = prog
  <2>1. th \in [Thread -> ThreadType]
    BY DEF ThreadInv, Types
  <2>2. QED
    BY <2>1 DEF traversestack, Running
<1>2. Frames(L0) /\ Live(L0) /\ Settled(L0) /\ L0 = th[t] /\ t \in Thread /\ InRun(t)
  BY <1>1, RunningThread, RunThreads
<1>3. Frames(th[co])
  BY DEF ThreadInv
<1>4. Resized(th[co], C) /\ Frames(C)
  BY <1>3, ShrunkOK
<1> HIDE DEF C
<1>5. /\ Live(th[co]) => Live(C)
      /\ Settled(th[co]) => Settled(C)
      /\ Dormant(th[co]) => Dormant(C)
  BY <1>3, <1>4, LiveResized
<1>6. th \in [Thread -> ThreadType] /\ params \in Seq(0 .. MaxValues)
  BY DEF ThreadInv, Types
<1>7. th' = [th EXCEPT ![co] = C, ![t] = r.L] /\ err' = r.err
  <2>1. CASE co = t
    BY <1>1, <1>2, <1>6, <2>1 DEF Step
  <2>2. CASE co # t
    <3>1. [th EXCEPT ![co] = C, ![t] = L0] = [th EXCEPT ![co] = C]
      BY <1>2, <1>6, <2>2
    <3>2. QED
      BY <1>1, <2>2, <3>1 DEF Step
  <2>3. QED
    BY <2>1, <2>2
<1>8. Fine(L0, r)
  <2>1. CASE co = t
    BY <1>2, <1>4, <1>5, <2>1 DEF Fine, Step, Resized, Outside
  <2>2. CASE co # t
    BY <1>2, <2>2 DEF Fine, Step, Outside
  <2>3. QED
    BY <2>1, <2>2
<1>9. InRun(co) /\ co # t => Live(C) /\ C.baseCcalls = th[co].baseCcalls /\ Waits(th[co], C)
  BY <1>1, <1>4, <1>5, RunThreads DEF Waits, Resized
<1>10. ~InRun(co) => Dormant(C)
  BY <1>1, <1>5, RunThreads
<1> HIDE DEF r
<1>11. QED
  BY <1>1, <1>4, <1>6, <1>7, <1>8, <1>9, <1>10, ChangedInv

(* A stopped thread with another count of C calls, and with k more values on its stack. *)
LEMMA CountDormant ==
  ASSUME NEW L, Frames(L), Dormant(L), NEW m \in Nat
  PROVE  LET G == [L EXCEPT !.nCcalls = m]
         IN  /\ Frames(G) /\ Dormant(G) /\ G.nCcalls = m /\ G.top = L.top
             /\ G.status = L.status /\ G.base = L.base /\ G.ci = L.ci
<1> DEFINE G == [L EXCEPT !.nCcalls = m]
<1>1. /\ Frames(G) /\ G.nCcalls = m /\ G.top = L.top /\ G.status = L.status /\ G.base = L.base /\ G.ci = L.ci
      /\ G.errfunc = L.errfunc /\ G.jmp = L.jmp
  BY CountSet
<1> HIDE DEF G
<1>2. Dormant(G)
  BY <1>1 DEF Dormant, Begun
<1>3. QED
  BY <1>1, <1>2 DEF G

(* Arguments are moved onto the stack of a thread that does not run. *)
LEMMA ArgumentsOK ==
  ASSUME NEW L, Frames(L), Dormant(L), NEW k \in Nat
  PROVE  LET G == lua_checkstack(L, k)
             H == [G EXCEPT !.top = G.top + k]
         IN  /\ Frames(H) /\ Dormant(H) /\ H.top = L.top + k /\ H.base = L.base /\ H.status = L.status
             /\ Len(H.ci) = Len(L.ci) /\ H.ci[1].func = L.ci[1].func
             /\ 2 <= Len(L.ci) => H.ci[2].func = L.ci[2].func
             /\ H.nCcalls = L.nCcalls
<1> DEFINE G == lua_checkstack(L, k)
           p == G.top + k
           H == [G EXCEPT !.top = p]
           n == Len(L.ci)
<1>1. /\ n \in Nat \ {0} /\ L.top \in Nat /\ L.base \in Nat /\ L.base <= L.top /\ L.stacksize \in Nat
  BY LastCall, FieldTypes DEF Frames
<1>2. Roomier(L, G) /\ L.top + k <= Limit(G) /\ (L.top <= L.ci[n].top => L.top + k <= G.ci[n].top)
  BY RoomMade
<1> HIDE DEF G
<1>3. /\ Frames(G) /\ Len(G.ci) = n /\ (\A i \in 1 .. n : i # n => G.ci[i] = L.ci[i])
      /\ G.ci[n].fn = L.ci[n].fn /\ G.ci[n].func = L.ci[n].func
      /\ G.top = L.top /\ G.base = L.base /\ G.nCcalls = L.nCcalls /\ G.status = L.status
  BY <1>2 DEF Roomier
<1>4. Dormant(G)
  BY <1>2, LiveRoomier
<1>5. p \in Nat /\ G.base <= p /\ p <= Limit(G) /\ p = L.top + k
  BY <1>1, <1>2, <1>3
<1> HIDE DEF p
<1>6. Frames(H) /\ Alike(G, H) /\ H.top = p /\ H.nCcalls = G.nCcalls
  BY <1>3, <1>5, TopSet
<1> HIDE DEF H
<1>7. Dormant(H)
  <2>1. G.ci[Len(G.ci)].fn \notin LuaFn \cup {"base"} => p <= G.ci[Len(G.ci)].top
    <3>1. L.ci[n].fn \notin LuaFn \cup {"base"} => L.top <= L.ci[n].top
      BY DEF Dormant
    <3>2. QED
      BY <1>2, <1>3, <1>5, <3>1
  <2>2. QED
    BY <1>4, <1>6, <2>1 DEF Dormant, Alike, Begun
<1>8. H.ci = G.ci /\ H.base = G.base /\ H.status = G.status
  BY <1>6 DEF Alike
<1>11. \A i \in 1 .. n : G.ci[i].func = L.ci[i].func
  BY <1>3
<1>12. 1 \in 1 .. n /\ (2 <= n => 2 \in 1 .. n)
  BY <1>1
<1>13. G.ci[1].func = L.ci[1].func /\ (2 <= n => G.ci[2].func = L.ci[2].func)
  BY <1>11, <1>12
<1>14. QED
  BY <1>3, <1>5, <1>6, <1>7, <1>8, <1>13 DEF H, p, G

(* auxresume sets a thread going that can be resumed. *)
LEMMA SetGoing ==
  ASSUME NEW L, Frames(L), Dormant(L), L.status = "yield" \/ (L.status = "ok" /\ L.base + 1 <= L.top),
         NEW k \in Nat, NEW m \in Nat, m < LUAI_MAXCCALLS, NEW p, ProtoOK(p),
         NEW C, Frames(C), Dormant(C), C.top = L.top + k, C.base = L.base, C.status = L.status,
         Len(C.ci) = Len(L.ci), C.nCcalls = m
  PROVE  LET r == lua_resume(C, k, p)
         IN  /\ Resumed(C, r) /\ r.L.ci[1] = C.ci[1]
             /\ L.status = "ok" /\ 2 <= Len(r.L.ci) => r.L.ci[2].func = L.top - 1
             /\ L.status = "yield" => r.L.ci[2] = C.ci[2]
<1>1. L.top \in Nat /\ L.base \in Nat /\ L.base <= L.top
  BY LastCall
<1>2. C.nCcalls + 1 <= CLimit
  BY LimitsAssumption DEF CLimit
<1>3. CASE L.status = "yield"
  <2>1. C.base + k <= C.top
    BY <1>1
  <2>2. QED
    BY <1>2, <1>3, <2>1, ResumeAgain
<1>4. CASE L.status = "ok" /\ L.base + 1 <= L.top
  <2>1. C.base + k + 1 <= C.top /\ (C.top - k) - 1 = L.top - 1
    BY <1>1, <1>4
  <2>2. QED
    BY <1>2, <1>4, <2>1, ResumeFirst
<1>5. QED
  BY <1>3, <1>4

(* A thread said to be suspended is not one of those that run. *)
LEMMA SuspendedThread ==
  ASSUME ThreadInv, run # <<>>, NEW co \in Thread, costatus(t, co) = "suspended"
  PROVE  /\ co # t /\ ~InRun(co) /\ co # coro /\ Frames(th[co]) /\ Dormant(th[co])
         /\ th[co].status = "yield" \/ (th[co].status = "ok" /\ th[co].base + 1 <= th[co].top)
<1>1. co # t /\ (th[co].status = "yield" \/ (th[co].status = "ok" /\ ~(Len(th[co].ci) > 1) /\ lua_gettop(th[co]) # 0))
  BY DEF costatus
<1>2. Frames(th[co])
  BY DEF ThreadInv
<1>3. th[co].base \in Nat /\ th[co].top \in Nat /\ th[co].base <= th[co].top /\ Len(th[co].ci) \in Nat
  BY <1>2, LastCall
<1>4. lua_gettop(th[co]) # 0 => th[co].base + 1 <= th[co].top
  BY <1>3 DEF lua_gettop
<1>5. InRun(co) => th[co].status = "ok" /\ Len(th[co].ci) >= 2
  BY <1>1, RunThreads DEF Waits, Live, Settled, Begun
<1>6. ~InRun(co) /\ Dormant(th[co])
  BY <1>1, <1>3, <1>5, RunThreads
<1>7. InRun(coro)
  <2>1. 1 \in 1 .. Len(run) /\ run[1] = coro
    BY RunningThread
  <2>2. QED
    BY <2>1 DEF InRun
<1>8. QED
  BY <1>1, <1>2, <1>4, <1>6, <1>7

(* auxresume moves the arguments of resume or wrap to the other thread. *)
LEMMA ArgsTaken ==
  ASSUME NEW L, Frames(L), Live(L), Settled(L), Ci(L).fn \in {"resume", "wrap"}
  PROVE  LET narg == lua_gettop(L) - (IF Ci(L).fn = "resume" THEN 1 ELSE 0)
             G == [L EXCEPT !.top = L.top - narg]
         IN  /\ narg \in Nat
             /\ Frames(G) /\ Live(G) /\ Settled(G) /\ G.baseCcalls = L.baseCcalls /\ Waits(L, G)
<1> DEFINE one == IF Ci(L).fn = "resume" THEN 1 ELSE 0
           narg == lua_gettop(L) - one
           p == L.top - narg
           G == [L EXCEPT !.top = p]
           n == Len(L.ci)
<1>1. /\ n \in Nat \ {0} /\ Ci(L) = L.ci[n] /\ L.top \in Nat /\ L.base \in Nat /\ L.base <= L.top /\ L.ci[n].top \in Nat
      /\ L \in ThreadType /\ L.top <= Limit(L) /\ L.ci[n].fn \in {"resume", "wrap"}
  BY LastCall DEF Frames
<1>2. Limit(L) \in Int /\ LUA_MINSTACK \in Nat /\ MaxValues \in Nat
  BY <1>1, LimitOK, LimitsAssumption
<1>3. /\ L.top + LUA_MINSTACK <= L.ci[n].top /\ ~Handled(L, n)
      /\ L.ci[n].fn = "resume" => L.base + 1 <= L.top
      /\ NoErrfn(L, n) => L.nCcalls = L.baseCcalls + CCalls(L, n)
  BY <1>1 DEF Settled, CallNames
<1>4. one \in 0 .. 1 /\ L.base + one <= L.top /\ (L.ci[n].fn = "resume" => one = 1) /\ (L.ci[n].fn = "wrap" => one = 0)
  BY <1>1, <1>3
<1> HIDE DEF one
<1>5. narg \in Nat /\ p = L.base + one
  BY <1>1, <1>4 DEF lua_gettop
<1> HIDE DEF narg
<1>6. p \in Nat /\ L.base <= p /\ p <= Limit(L) /\ p + LUA_MINSTACK <= L.ci[n].top /\ p <= L.base + 1
  <2> DEFINE c == L.ci[n].top
  <2>1. c \in Nat /\ L.top + LUA_MINSTACK <= c
    BY <1>1, <1>3
  <2> HIDE DEF c, p
  <2>2. p + LUA_MINSTACK <= c /\ p \in Nat /\ L.base <= p /\ p <= Limit(L) /\ p <= L.base + 1
    BY <1>1, <1>2, <1>4, <1>5, <2>1
  <2>3. QED
    BY <2>2 DEF c
<1>7. /\ L.ci[n].fn = "resume" => L.base + 1 <= p /\ p <= L.base + MaxValues + 1
      /\ L.ci[n].fn = "wrap" => p <= L.base + MaxValues
  <2> HIDE DEF p
  <2>1. QED
    BY <1>1, <1>2, <1>4, <1>5
<1> HIDE DEF p
<1>8. Frames(G) /\ Alike(L, G) /\ G.top = p /\ G.nCcalls = L.nCcalls
  BY <1>6, TopSet
<1> HIDE DEF G
<1>9. G.ci = L.ci /\ G.base = L.base /\ G.baseCcalls = L.baseCcalls /\ G.jmp = L.jmp
  BY <1>8 DEF Alike
<1>10. Live(G)
  BY <1>1, <1>8, LiveAlike DEF Frames
<1>11. /\ G.ci[Len(G.ci)] = L.ci[n] /\ ~Handled(G, Len(G.ci))
       /\ NoErrfn(G, Len(G.ci)) => G.nCcalls = G.baseCcalls + CCalls(G, Len(G.ci))
  BY <1>3, <1>8, <1>9 DEF Handled, CCalls, NoErrfn
<1>12. L.ci[n].fn \notin LuaFn \cup {"c", "ret", "queueEvent", "yield"} \cup PCall
  BY <1>1 DEF LuaFn, PCall
<1>13. Settled(G)
  <2>1. Begun(G)
    BY <1>9 DEF Settled, Begun
  <2>2. QED
    BY <1>6, <1>7, <1>8, <1>9, <1>11, <1>12, <2>1 DEF Settled
<1>14. Waits(L, G)
  BY <1>1, <1>6, <1>8, <1>9, <1>11, <1>13 DEF Waits
<1>15. QED
  BY <1>5, <1>8, <1>9, <1>10, <1>13, <1>14 DEF G, p, narg, one

(* ... and that thread runs on top of the ones that did. *)
LEMMA RunOn ==
  ASSUME ThreadInv, run # <<>>, NEW co \in Thread, co # t, ~InRun(co), NEW G, NEW C, NEW r,
         th' = [th EXCEPT ![co] = r.L, ![t] = G], err' = r.err, run' = Append(run, co), params' = params, prog' = prog,
         Frames(G), Live(G), Settled(G), G.baseCcalls = L0.baseCcalls, Waits(L0, G),
         Resumed(C, r), C.nCcalls = L0.nCcalls
  PROVE  ThreadInv'
<1> DEFINE n == Len(run)
<1>1. /\ n \in Nat \ {0} /\ t = run[n] /\ t \in Thread /\ L0 = th[t]
      /\ coro \in Thread /\ run[1] = coro /\ \A k \in 1 .. n : run[k] \in Thread
  BY RunningThread
<1>2. th \in [Thread -> ThreadType] /\ Types /\ Chain /\ run \in Seq(Thread)
  BY DEF ThreadInv, Types
<1>3. /\ Len(run') = n + 1 /\ run'[n + 1] = co /\ (\A k \in 1 .. n : run'[k] = run[k]) /\ run' \in Seq(Thread)
  BY <1>1, <1>2
<1>4. /\ th'[t] = G /\ th'[co] = r.L /\ \A x \in Thread : x # t /\ x # co => th'[x] = th[x]
  BY <1>1, <1>2
<1>5. /\ Frames(r.L) /\ Live(r.L) /\ r.L.baseCcalls = L0.nCcalls + 1
      /\ r.err \in {"no", "outside"} /\ Outside(r.err)
      /\ IF r.err = "no" THEN Settled(r.L) ELSE Troubled(r.L, r.err)
  BY DEF Resumed
<1>6. \A x \in Thread : Frames(th'[x])
  BY <1>4, <1>5 DEF ThreadInv
<1>7. Types'
  <2>1. \A x \in Thread : th'[x] \in ThreadType
    BY <1>6 DEF Frames
  <2>2. th' \in [Thread -> ThreadType]
    BY <1>2, <2>1
  <2>3. QED
    BY <1>2, <1>3, <1>5, <2>2 DEF Types
<1> HIDE DEF n
<1>8. ASSUME NEW k \in 1 .. n
      PROVE  /\ run'[k] = run[k] /\ run[k] \in Thread /\ run[k] # co /\ (run[k] = t <=> k = n)
             /\ k # n => th'[run[k]] = th[run[k]]
             /\ th'[run[k]].baseCcalls = th[run[k]].baseCcalls
  <2>1. run[k] # co
    BY DEF InRun, n
  <2>2. run[k] = t <=> k = n
    <3>1. n \in 1 .. n
      BY <1>1
    <3>2. QED
      BY <1>1, <1>2, <3>1 DEF Chain, n
  <2>3. QED
    BY <1>1, <1>3, <1>4, <2>1, <2>2
<1>9. ASSUME NEW k \in 1 .. n
      PROVE  /\ Live(th'[run'[k]]) /\ Settled(th'[run'[k]])
             /\ th'[run'[k]].ci[Len(th'[run'[k]].ci)].fn \in {"resume", "wrap"}
             /\ th'[run'[k]].top <= th'[run'[k]].base + 1
             /\ th'[run'[k]].nCcalls = th[run[k]].nCcalls
  <2>1. CASE k = n
    BY <1>1, <1>4, <1>8, <2>1 DEF Waits
  <2>2. CASE k # n
    <3>1. k \in 1 .. Len(run) - 1
      BY <1>1, <2>2 DEF n
    <3>2. QED
      BY <1>8, <2>2, <3>1, WaitingThread
  <2>3. QED
    BY <2>1, <2>2
<1>10. Chain'
  <2>1. ASSUME NEW k \in 1 .. n + 1, NEW i \in 1 .. n + 1, run'[k] = run'[i] PROVE k = i
    <3>1. (k \in 1 .. n \/ k = n + 1) /\ (i \in 1 .. n \/ i = n + 1)
      BY <1>1
    <3>2. CASE k \in 1 .. n /\ i \in 1 .. n
      BY <1>2, <1>8, <2>1, <3>2 DEF Chain, n
    <3>3. CASE k = n + 1 /\ i \in 1 .. n
      BY <1>3, <1>8, <2>1, <3>3
    <3>4. CASE i = n + 1 /\ k \in 1 .. n
      BY <1>3, <1>8, <2>1, <3>4
    <3>5. QED
      BY <3>1, <3>2, <3>3, <3>4
  <2>2. run'[1] = coro /\ th'[coro].baseCcalls = 1 /\ run' # <<>>
    <3>1. 1 \in 1 .. n
      BY <1>1
    <3>2. th[coro].baseCcalls = 1
      BY <1>2 DEF Chain
    <3>3. run'[1] = coro /\ th'[coro].baseCcalls = 1
      BY <1>1, <1>8, <3>1, <3>2
    <3>4. QED
      BY <1>1, <1>3, <3>3
  <2>3. ASSUME NEW k \in 1 .. (n + 1) - 1
        PROVE  /\ th'[run'[k]].ci[Len(th'[run'[k]].ci)].fn \in {"resume", "wrap"}
               /\ th'[run'[k]].top <= th'[run'[k]].base + 1
               /\ th'[run'[k + 1]].baseCcalls = th'[run'[k]].nCcalls + 1
    <3>1. k \in 1 .. n
      BY <1>1
    <3>2. CASE k = n
      <4>1. run'[k + 1] = co /\ run[k] = t
        BY <1>1, <1>3, <3>2
      <4>2. QED
        BY <1>1, <1>4, <1>5, <1>9, <3>1, <4>1
    <3>3. CASE k # n
      <4>1. k + 1 \in 1 .. n /\ k \in 1 .. Len(run) - 1
        BY <1>1, <3>1, <3>3 DEF n
      <4>2. th[run[k + 1]].baseCcalls = th[run[k]].nCcalls + 1
        BY <1>2, <4>1 DEF Chain
      <4>3. QED
        BY <1>8, <1>9, <3>1, <4>1, <4>2
    <3>4. QED
      BY <3>2, <3>3
  <2>4. QED
    BY <1>3, <2>1, <2>2, <2>3 DEF Chain
<1>11. ASSUME NEW k \in 1 .. n + 1
       PROVE  /\ Live(th'[run'[k]])
              /\ IF k < n + 1 \/ err' = "no" THEN Settled(th'[run'[k]]) ELSE Troubled(th'[run'[k]], err')
  <2>1. CASE k = n + 1
    <3>1. ~(k < n + 1)
      BY <1>1, <2>1
    <3>2. QED
      BY <1>3, <1>4, <1>5, <2>1, <3>1
  <2>2. CASE k # n + 1
    <3>1. k \in 1 .. n /\ k < n + 1
      BY <1>1, <2>2
    <3>2. QED
      BY <1>9, <3>1
  <2>3. QED
    BY <2>1, <2>2
<1>12. ASSUME NEW x \in Thread, ~InRun(x)' PROVE Dormant(th'[x])
  <2>1. x # co /\ ~InRun(x)
    <3>1. \A k \in 1 .. n : k \in 1 .. n + 1
      BY <1>1
    <3>2. n + 1 \in 1 .. n + 1
      BY <1>1
    <3>3. QED
      BY <1>3, <1>8, <1>12, <3>1, <3>2 DEF InRun, n
  <2>2. x # t
    BY <2>1, RunThreads
  <2>3. QED
    BY <1>4, <2>1, <2>2, RunThreads
<1>13. (\A x \in Thread : Frames(th[x]))' /\ Outside(err)'
  BY <1>5, <1>6, FramesKept
<1>14. QED
  BY <1>3, <1>7, <1>10, <1>11, <1>12, <1>13 DEF ThreadInv

(* coroutine.resume, and the function wrap returned. *)
LEMMA StepResume ==
  ASSUME ThreadInv, NEW p \in prog.protos, NEW co \in Thread, auxresume(co, p)
  PROVE  ThreadInv'
<1> DEFINE narg == lua_gettop(L0) - (IF Ci(L0).fn = "resume" THEN 1 ELSE 0)
           G == lua_checkstack(th[co], narg)
           L1 == [L0 EXCEPT !.top = L0.top - narg]
           C1 == [[G EXCEPT !.top = G.top + narg] EXCEPT !.nCcalls = L0.nCcalls]
           r == lua_resume(C1, narg, p)
           E == [C1 EXCEPT !.top = Ci(C1).base]
           f == Refused(IF co = t THEN G ELSE L0)
           f1 == Refused(L1)
<1>1. run # <<>> /\ err = "no" /\ Ci(L0).fn \in {"resume", "wrap"}
  BY DEF auxresume, In, Running
<1>2. \/ Go(luaG_runerror(L0))
      \/ /\ costatus(t, co) # "suspended"
         /\ th' = [th EXCEPT ![co] = G, ![t] = f.L] /\ err' = f.err
         /\ run' = run /\ params' = params /\ prog' = prog
      \/ /\ costatus(t, co) = "suspended"
         /\ th' = [th EXCEPT ![co] = E, ![t] = f1.L] /\ err' = f1.err
         /\ run' = run /\ params' = params /\ prog' = prog
      \/ /\ costatus(t, co) = "suspended" /\ C1.nCcalls < LUAI_MAXCCALLS
         /\ th' = [th EXCEPT ![co] = r.L, ![t] = L1] /\ err' = r.err
         /\ run' = Append(run, co) /\ params' = params /\ prog' = prog
  BY DEF auxresume, lua_setlevel, resume_error
<1>3. Frames(L0) /\ Live(L0) /\ Settled(L0) /\ L0 = th[t] /\ t \in Thread
  BY <1>1, RunningThread
<1>4. /\ narg \in Nat /\ Frames(L1) /\ Live(L1) /\ Settled(L1) /\ L1.baseCcalls = L0.baseCcalls /\ Waits(L0, L1)
  BY <1>1, <1>3, ArgsTaken
<1>5. /\ L0.ci[Len(L0.ci)].fn \in {"resume", "wrap"} /\ L0.ci[Len(L0.ci)].fn \notin PCall \cup LuaFn /\ L0.nCcalls \in Nat
      /\ Guarded(L0) /\ Begun(L0)
  BY <1>1, <1>3, LastCall, FieldTypes DEF PCall, LuaFn, Frames, Guarded, Settled
<1>6. L1.ci[Len(L1.ci)].fn \in {"resume", "wrap"}
  BY <1>4 DEF Waits
<1>7. Frames(th[co]) /\ params \in Seq(0 .. MaxValues)
  BY DEF ThreadInv, Types
<1> HIDE DEF narg
<1>8. CASE Go(luaG_runerror(L0))
  BY <1>1, <1>3, <1>5, <1>8, RunerrorFine, GoInv
<1>9. CASE /\ th' = [th EXCEPT ![co] = G, ![t] = f.L] /\ err' = f.err
           /\ run' = run /\ params' = params /\ prog' = prog
  <2>1. Roomier(th[co], G)
    BY <1>4, <1>7, RoomMade
  <2> HIDE DEF G
  <2>2. /\ Frames(G) /\ G.ci[Len(G.ci)].fn = th[co].ci[Len(th[co].ci)].fn /\ G.top = th[co].top /\ G.base = th[co].base
        /\ G.nCcalls = th[co].nCcalls /\ G.baseCcalls = th[co].baseCcalls
    BY <2>1 DEF Roomier
  <2>3. /\ Live(th[co]) => Live(G)
        /\ Settled(th[co]) /\ th[co].ci[Len(th[co].ci)].fn \notin LuaFn => Settled(G)
        /\ Dormant(th[co]) => Dormant(G)
    BY <1>7, <2>1, LiveRoomier
  <2>4. InRun(co) /\ co # t => Live(G) /\ G.baseCcalls = th[co].baseCcalls /\ Waits(th[co], G)
    <3>1. InRun(co) /\ co # t => Live(th[co]) /\ Waits(th[co], th[co])
      BY <1>1, RunThreads
    <3>2. Waits(th[co], th[co]) => th[co].ci[Len(th[co].ci)].fn \notin LuaFn
      BY DEF Waits, LuaFn
    <3>3. QED
      BY <2>2, <2>3, <3>1, <3>2 DEF Waits
  <2>5. ~InRun(co) => Dormant(G)
    BY <1>1, <2>3, RunThreads
  <2>6. Fine(L0, f)
    <3>1. CASE co = t
      <4>1. f = Refused(G) /\ Live(G) /\ Settled(G) /\ G.ci[Len(G.ci)].fn \in {"resume", "wrap"}
        BY <1>3, <1>5, <2>2, <2>3, <3>1
      <4>2. Fine(G, Refused(G))
        BY <2>2, <4>1, RefusedFine
      <4>3. G.baseCcalls = L0.baseCcalls
        BY <1>3, <2>2, <3>1
      <4> HIDE DEF f
      <4>4. QED
        BY <4>1, <4>2, <4>3 DEF Fine
    <3>2. CASE co # t
      <4>1. f = Refused(L0)
        BY <3>2
      <4> HIDE DEF f
      <4>2. QED
        BY <1>3, <1>5, <4>1, RefusedFine
    <3>3. QED
      BY <3>1, <3>2
  <2> HIDE DEF f
  <2>7. QED
    BY <1>1, <1>7, <1>9, <2>2, <2>4, <2>5, <2>6, ChangedInv
<1>10. ASSUME costatus(t, co) = "suspended"
       PROVE  /\ co # t /\ ~InRun(co) /\ Frames(C1) /\ Dormant(C1) /\ Frames(th[co]) /\ Dormant(th[co])
              /\ C1.top = th[co].top + narg /\ C1.base = th[co].base /\ C1.status = th[co].status
              /\ Len(C1.ci) = Len(th[co].ci) /\ C1.nCcalls = L0.nCcalls
              /\ th[co].status = "yield" \/ (th[co].status = "ok" /\ th[co].base + 1 <= th[co].top)
  <2>1. /\ co # t /\ ~InRun(co) /\ Frames(th[co]) /\ Dormant(th[co])
        /\ th[co].status = "yield" \/ (th[co].status = "ok" /\ th[co].base + 1 <= th[co].top)
    BY <1>1, <1>10, SuspendedThread
  <2> DEFINE M == th[co]
             m == L0.nCcalls
             B == [lua_checkstack(M, narg) EXCEPT !.top = lua_checkstack(M, narg).top + narg]
             D == [B EXCEPT !.nCcalls = m]
  <2>2. m \in Nat /\ Frames(M) /\ Dormant(M) /\ narg \in Nat /\ D = C1
    BY <1>4, <1>5, <2>1
  <2> HIDE DEF M, m, C1
  <2>3. /\ Frames(B) /\ Dormant(B) /\ B.top = M.top + narg /\ B.base = M.base /\ B.status = M.status
        /\ Len(B.ci) = Len(M.ci)
    BY <2>2, ArgumentsOK
  <2> HIDE DEF B
  <2>4. /\ Frames(D) /\ Dormant(D) /\ D.nCcalls = m /\ D.top = B.top /\ D.status = B.status /\ D.base = B.base
        /\ D.ci = B.ci
    BY <2>2, <2>3, CountDormant
  <2> HIDE DEF D
  <2>5. QED
    BY <2>1, <2>2, <2>3, <2>4 DEF M, m
<1> HIDE DEF C1
<1>11. CASE /\ costatus(t, co) = "suspended"
            /\ th' = [th EXCEPT ![co] = E, ![t] = f1.L] /\ err' = f1.err
            /\ run' = run /\ params' = params /\ prog' = prog
  <2>1. co # t /\ ~InRun(co) /\ Frames(C1) /\ Dormant(C1)
    BY <1>10, <1>11
  <2> DEFINE k == C1.top - C1.base
  <2>2. k \in Nat /\ C1.base + k <= C1.top /\ Ci(C1).base = C1.top - k
    <3>1. C1.top \in Nat /\ C1.base \in Nat /\ C1.base <= C1.top /\ C1.base = Ci(C1).base
      BY <2>1, LastCall
    <3>2. QED
      BY <3>1
  <2> HIDE DEF k
  <2>3. Frames(E) /\ Dormant(E)
    <3>1. E = [C1 EXCEPT !.top = C1.top - k]
      BY <2>2
    <3> HIDE DEF E
    <3>2. QED
      BY <2>1, <2>2, <3>1, LessOnStack
  <2>4. Fine(L1, f1)
    BY <1>4, <1>6, RefusedFine
  <2> HIDE DEF E, f1, L1
  <2>5. Fine(L0, f1)
    BY <1>4, <2>4 DEF Fine
  <2>6. QED
    BY <1>1, <1>7, <1>11, <2>1, <2>3, <2>5, ChangedInv
<1>12. CASE /\ costatus(t, co) = "suspended" /\ C1.nCcalls < LUAI_MAXCCALLS
            /\ th' = [th EXCEPT ![co] = r.L, ![t] = L1] /\ err' = r.err
            /\ run' = Append(run, co) /\ params' = params /\ prog' = prog
  <2>1. /\ co # t /\ ~InRun(co) /\ Frames(C1) /\ Dormant(C1) /\ Frames(th[co]) /\ Dormant(th[co])
        /\ C1.top = th[co].top + narg /\ C1.base = th[co].base /\ C1.status = th[co].status
        /\ Len(C1.ci) = Len(th[co].ci) /\ C1.nCcalls = L0.nCcalls
        /\ th[co].status = "yield" \/ (th[co].status = "ok" /\ th[co].base + 1 <= th[co].top)
    BY <1>10, <1>12
  <2>2. ProtoOK(p) /\ L0.nCcalls < LUAI_MAXCCALLS
    BY <1>12, <2>1, ProtosOK
  <2>3. Resumed(C1, r)
    BY <1>4, <1>5, <2>1, <2>2, SetGoing
  <2> HIDE DEF r, L1
  <2>4. QED
    BY <1>1, <1>4, <1>12, <2>1, <2>3, RunOn
<1>13. QED
  BY <1>2, <1>8, <1>9, <1>11, <1>12

(* main2 resumes coro. *)
LEMMA BeginInv ==
  ASSUME ThreadInv, run = <<>>, NEW L, L.nCcalls = 0, NEW r, Resumed(L, r),
         th' = [th EXCEPT ![coro] = r.L], err' = r.err, run' = <<coro>>, params' \in Seq(0 .. MaxValues), prog' = prog
  PROVE  ThreadInv'
<1>1. th \in [Thread -> ThreadType] /\ prog \in Program /\ coro \in Thread
  BY LimitsAssumption DEF ThreadInv, Types
<1>2. /\ Frames(r.L) /\ Live(r.L) /\ r.L.baseCcalls = 1 /\ r.err \in {"no", "outside"} /\ Outside(r.err)
      /\ IF r.err = "no" THEN Settled(r.L) ELSE Troubled(r.L, r.err)
  BY DEF Resumed
<1>3. th'[coro] = r.L /\ \A co \in Thread : co # coro => th'[co] = th[co]
  BY <1>1
<1>4. Len(run') = 1 /\ run'[1] = coro /\ run' # <<>> /\ run' \in Seq(Thread) /\ \A k \in 1 .. Len(run') : k = 1
  BY <1>1
<1>5. \A co \in Thread : Frames(th'[co])
  BY <1>2, <1>3 DEF ThreadInv
<1>6. Types'
  <2>1. \A x \in Thread : th'[x] \in ThreadType
    BY <1>5 DEF Frames
  <2>2. th' \in [Thread -> ThreadType]
    BY <1>1, <2>1
  <2>3. QED
    BY <1>1, <1>2, <1>4, <2>2 DEF Types
<1>7. Chain'
  <2>1. \A k \in 1 .. Len(run') - 1 : FALSE
    BY <1>4
  <2>2. QED
    BY <1>2, <1>3, <1>4, <2>1 DEF Chain
<1>8. ASSUME NEW co \in Thread, ~InRun(co)' PROVE Dormant(th'[co])
  <2>1. co # coro
    <3>1. 1 \in 1 .. Len(run')
      BY <1>4
    <3>2. QED
      BY <1>4, <1>8, <3>1 DEF InRun
  <2>2. ~InRun(co)
    BY DEF InRun
  <2>3. QED
    BY <1>3, <2>1, <2>2 DEF ThreadInv
<1>9. ASSUME NEW k \in 1 .. Len(run')
      PROVE  /\ Live(th'[run'[k]])
             /\ IF k < Len(run') \/ err' = "no" THEN Settled(th'[run'[k]]) ELSE Troubled(th'[run'[k]], err')
  <2>1. k = 1 /\ ~(k < Len(run'))
    BY <1>4
  <2>2. QED
    BY <1>2, <1>3, <1>4, <2>1
<1>10. (\A co \in Thread : Frames(th[co]))' /\ Outside(err)'
  BY <1>2, <1>5, FramesKept
<1>11. QED
  BY <1>6, <1>7, <1>8, <1>9, <1>10 DEF ThreadInv

(* coro while nothing runs. *)
LEMMA IdleCoro ==
  ASSUME ThreadInv, run = <<>>
  PROVE  /\ coro \in Thread /\ Frames(th[coro]) /\ Dormant(th[coro])
         /\ th[coro].status = "yield" => th[coro].nCcalls = 0
<1>1. ~InRun(coro)
  BY DEF InRun
<1>2. QED
  BY <1>1, LimitsAssumption DEF ThreadInv, Chain

(* The host starts its coroutine. *)
LEMMA StepStart ==
  ASSUME ThreadInv, NEW p \in prog.protos, StartBios(p)
  PROVE  ThreadInv'
<1> DEFINE L == th[coro]
           r == lua_resume(L, 0, p)
<1>1. /\ run = <<>> /\ L = [NewThread EXCEPT !.top = 2] /\ th' = [th EXCEPT ![coro] = r.L] /\ err' = r.err
      /\ run' = <<coro>> /\ params' = params /\ prog' = prog
  BY DEF StartBios
<1>2. Frames(L) /\ Dormant(L) /\ L.status = "ok" /\ L.top = 2 /\ L.base = 1 /\ L.nCcalls = 0
  BY <1>1, CreatedOK
<1> HIDE DEF L
<1>3. L.base + 0 + 1 <= L.top /\ L.nCcalls + 1 <= CLimit /\ ProtoOK(p) /\ 0 \in Nat
  <2>1. 1 <= CLimit
    BY LimitsAssumption DEF CLimit
  <2>2. QED
    BY <1>2, <2>1, ProtosOK
<1>4. Resumed(L, r)
  BY <1>2, <1>3, ResumeFirst
<1> HIDE DEF r
<1>5. params \in Seq(0 .. MaxValues)
  BY DEF ThreadInv, Types
<1>6. QED
  BY <1>1, <1>2, <1>4, <1>5, BeginInv

(* The host resumes its coroutine with an event. *)
LEMMA StepNextEvent ==
  ASSUME ThreadInv, NEW n \in 0 .. MaxValues, NEW p \in prog.protos, NextEvent(n, p)
  PROVE  ThreadInv'
<1> DEFINE L == th[coro]
           k == n + 1
           G == lua_checkstack(L, k)
           H == [G EXCEPT !.top = G.top + k]
           C == IF MayPush(L, k) THEN H ELSE L
           a == IF MayPush(L, k) THEN k ELSE 0
           r == lua_resume(C, a, p)
<1>1. n \in Nat /\ k \in Nat /\ 0 \in Nat /\ L.nCcalls \in Nat /\ Frames(L) /\ Dormant(L) /\ run = <<>>
      /\ L.status = "yield" /\ L.nCcalls = 0
  BY IdleCoro, LimitsAssumption, FieldTypes, SMTT(30) DEF NextEvent, Frames
<1>2. G.top \in Nat
  <2>1. Frames(G)
    BY <1>1, RoomMade DEF Roomier
  <2>2. QED
    BY <2>1, LastCall
<1>3. th' = [th EXCEPT ![coro] = r.L] /\ err' = r.err /\ run' = <<coro>> /\ prog' = prog
  <2>1. G.top + n + 1 = G.top + k
    BY <1>1, <1>2
  <2>2. r = IF MayPush(L, k) THEN lua_resume([G EXCEPT !.top = @ + n + 1], n + 1, p) ELSE lua_resume(L, 0, p)
    BY <2>1
  <2> HIDE DEF r
  <2>3. QED
    BY <2>2 DEF NextEvent
<1>4. params' \in Seq(0 .. MaxValues)
  <2>1. params \in Seq(0 .. MaxValues)
    BY DEF ThreadInv, Types
  <2>2. params # <<>> => Tail(params) \in Seq(0 .. MaxValues)
    BY <2>1
  <2>3. params' = params \/ (params # <<>> /\ params' = Tail(params))
    BY DEF NextEvent
  <2>4. QED
    BY <2>1, <2>2, <2>3
<1>5. /\ Frames(C) /\ Dormant(C) /\ C.top = L.top + a /\ C.base = L.base /\ C.status = L.status
      /\ Len(C.ci) = Len(L.ci) /\ C.nCcalls = 0 /\ a \in Nat
  <2>1. CASE MayPush(L, k)
    <3>1. C = H /\ a = k
      BY <2>1
    <3> HIDE DEF k, L
    <3>2. /\ Frames(H) /\ Dormant(H) /\ H.top = L.top + k /\ H.base = L.base /\ H.status = L.status
          /\ Len(H.ci) = Len(L.ci) /\ H.nCcalls = L.nCcalls
      BY <1>1, ArgumentsOK
    <3> HIDE DEF C, a, H
    <3>3. QED
      BY <1>1, <3>1, <3>2
  <2>2. CASE ~MayPush(L, k)
    <3>1. C = L /\ a = 0 /\ L.top \in Nat
      BY <1>1, <2>2, LastCall
    <3> HIDE DEF C, a, L
    <3>2. QED
      BY <1>1, <3>1
  <2>3. QED
    BY <2>1, <2>2
<1>0. ProtoOK(p)
  BY ProtosOK
<1> HIDE DEF C, a, L
<1>6. Resumed(C, r)
  <2>1. 0 < LUAI_MAXCCALLS
    BY LimitsAssumption
  <2>2. L.status # "ok"
    BY <1>1
  <2>3. QED
    BY <1>0, <1>1, <1>5, <2>1, <2>2, SetGoing
<1> HIDE DEF r
<1>7. QED
  BY <1>1, <1>3, <1>4, <1>5, <1>6, BeginInv

(* An event the program does not wait for is dropped. *)
LEMMA StepFilter ==
  ASSUME ThreadInv, FilterEvent
  PROVE  ThreadInv'
<1>1. th' = th /\ run' = run /\ err' = err /\ prog' = prog /\ params' = Tail(params) /\ params # <<>>
  BY DEF FilterEvent
<1>2. params' \in Seq(0 .. MaxValues)
  BY <1>1 DEF ThreadInv, Types
<1>3. (\A co \in Thread : Frames(th[co]))' /\ Outside(err)'
  BY <1>1, FramesKept DEF ThreadInv
<1>4. QED
  BY <1>1, <1>2, <1>3 DEF ThreadInv, Types, Chain, InRun

(* Stuttering. *)
LEMMA StepNone ==
  ASSUME ThreadInv, UNCHANGED vars
  PROVE  ThreadInv'
<1>1. th' = th /\ run' = run /\ err' = err /\ prog' = prog /\ params' = params
  BY DEF vars
<1>2. (\A co \in Thread : Frames(th[co]))' /\ Outside(err)'
  BY <1>1, FramesKept DEF ThreadInv
<1>3. QED
  BY <1>1, <1>2 DEF ThreadInv, Types, Chain, InRun

(* The new state holds one coroutine that has not begun. *)
LEMMA InitInv ==
  ASSUME Init
  PROVE  ThreadInv
<1> DEFINE C == [NewThread EXCEPT !.top = 2]
<1>1. /\ th = [co \in Thread |-> IF co = coro THEN C ELSE Free] /\ run = <<>> /\ err = "no" /\ params = <<>>
      /\ prog \in Program /\ coro \in Thread
  BY LimitsAssumption DEF Init
<1>2. Frames(C) /\ Dormant(C) /\ C.status = "ok" /\ Frames(Free) /\ Dormant(Free)
  BY CreatedOK, FreeOK
<1> HIDE DEF C
<1>3. \A co \in Thread : th[co] \in {C, Free}
  BY <1>1
<1>4. \A co \in Thread : Frames(th[co]) /\ Dormant(th[co])
  BY <1>2, <1>3
<1>5. th \in [Thread -> ThreadType]
  BY <1>1, <1>2 DEF Frames
<1>6. Types
  BY <1>1, <1>5 DEF Types
<1>7. Chain
  <2>1. th[coro].status # "yield"
    BY <1>1, <1>2
  <2>2. QED
    BY <1>1, <2>1 DEF Chain
<1>8. QED
  BY <1>1, <1>4, <1>6, <1>7 DEF ThreadInv, Outside

(* While an error is raised, a thread runs. *)
LEMMA ErrRuns ==
  ASSUME ThreadInv, err # "no"
  PROVE  run # <<>>
  BY DEF ThreadInv, Chain

(* Every step keeps the invariant. *)
LEMMA NextInv ==
  ASSUME ThreadInv, [Next]_vars
  PROVE  ThreadInv'
<1>1. CASE UNCHANGED vars
  BY <1>1, StepNone
<1>2. ASSUME NEW p \in prog.protos, NEW f \in Callee, OP_CALL(f, p) PROVE ThreadInv'
  BY <1>2, StepOpCall
<1>3. ASSUME NEW p \in prog.protos, NEW f \in Callee, lua_call(f, p) PROVE ThreadInv'
  BY <1>3, StepLuaCall
<1>4. ASSUME NEW p \in prog.protos, NEW f \in Callee, NEW ef \in {"none", "fn", "bad"}, luaB_pcall(f, p, ef)
      PROVE  ThreadInv'
  BY <1>4, StepPcall
<1>5. ASSUME NEW p \in prog.protos, callTMres(p) PROVE ThreadInv'
  BY <1>5, StepTM
<1>6. ASSUME NEW p \in prog.protos, luaG_errormsg(p) PROVE ThreadInv'
  <2>1. err # "no"
    BY <1>6 DEF luaG_errormsg
  <2>2. QED
    BY <1>6, <2>1, ErrRuns, StepErrormsg
<1>7. ASSUME NEW p \in prog.protos, NEW co \in Thread, auxresume(co, p) PROVE ThreadInv'
  BY <1>7, StepResume
<1>8. ASSUME NEW p \in prog.protos, StartBios(p) PROVE ThreadInv'
  BY <1>8, StepStart
<1>9. ASSUME NEW p \in prog.protos, NEW n \in 0 .. MaxValues, NextEvent(n, p) PROVE ThreadInv'
  BY <1>9, StepNextEvent
<1>10. CASE luaD_throw
  <2>1. err # "no"
    BY <1>10 DEF luaD_throw
  <2>2. QED
    BY <1>10, <2>1, ErrRuns, StepThrow
<1>11. CASE lua_yield \/ luaB_error \/ os_queueEvent \/ FilterEvent
  BY <1>11, StepYield, StepError, StepQueue, StepFilter
<1>12. ASSUME NEW co \in Thread, luaB_cocreate(co) \/ Collect(co) \/ traversestack(co) PROVE ThreadInv'
  <2>1. CASE traversestack(co)
    BY <2>1, StepClear, StepTraverse
  <2>2. QED
    BY <1>12, <2>1, StepCreate, StepCollect
<1>13. ASSUME NEW n \in 0 .. prog.values, Return(n) \/ EndThread(n) PROVE ThreadInv'
  BY <1>13, StepReturn, StepEnd
<1>14. QED
  BY <1>1, <1>2, <1>3, <1>4, <1>5, <1>6, <1>7, <1>8, <1>9, <1>10, <1>11, <1>12, <1>13 DEF Next

(***************************************************************************)
(* The calls, handlers and counts of every thread belong together, for any *)
(* number of threads, any program and any limits: the invariant the other  *)
(* theorems rest on.                                                       *)
(***************************************************************************)
THEOREM ThreadsSound == Spec => []ThreadInv
<1>1. Init => ThreadInv
  BY InitInv
<1>2. ThreadInv /\ [Next]_vars => ThreadInv'
  BY NextInv
<1>3. QED
  BY <1>1, <1>2, PTL DEF Spec

-----------------------------------------------------------------------------
(* What follows from the invariant.                                        *)

(* While an error is raised nothing else happens.                          *)
LEMMA ThrowsOnly ==
  ASSUME ThreadInv, Next, err \in {"errrun", "errerr"}
  PROVE  luaD_throw
<1>1. run # <<>> /\ err # "no" /\ err # "msg"
  BY ErrRuns
<1>2. \A names : ~In(names)
  BY <1>1 DEF In, Running
<1>3. ~Running
  BY <1>1 DEF Running
<1>4. ~lua_yield /\ ~luaB_error /\ ~os_queueEvent /\ ~FilterEvent
  BY <1>1, <1>2 DEF lua_yield, luaB_error, os_queueEvent, FilterEvent
<1>5. ASSUME NEW co PROVE ~luaB_cocreate(co) /\ ~Collect(co) /\ ~traversestack(co)
  BY <1>2, <1>3 DEF luaB_cocreate, Collect, traversestack
<1>6. ASSUME NEW n PROVE ~Return(n) /\ ~EndThread(n) /\ \A p : ~NextEvent(n, p)
  BY <1>1, <1>2 DEF Return, EndThread, NextEvent
<1>7. ASSUME NEW p
      PROVE  /\ ~callTMres(p) /\ ~luaG_errormsg(p) /\ ~StartBios(p) /\ \A co : ~auxresume(co, p)
             /\ \A f : ~OP_CALL(f, p) /\ ~lua_call(f, p) /\ \A ef : ~luaB_pcall(f, p, ef)
  BY <1>1, <1>2 DEF callTMres, luaG_errormsg, StartBios, auxresume, OP_CALL, lua_call, luaB_pcall
<1>8. QED
  BY <1>4, <1>5, <1>6, <1>7 DEF Next

(***************************************************************************)
(* An error is caught by the innermost protected call around it, which     *)
(* finds the calls outside it, their handler and its count of C calls as   *)
(* they were (luaD_throw, luaD_pcall).                                     *)
(***************************************************************************)
THEOREM ErrorsAreContained == Spec => ErrorsContained
<1>1. ThreadInv /\ [Next]_vars => [err = "errrun" \/ err = "errerr" => Contained]_vars
  <2> SUFFICES ASSUME ThreadInv, Next, err = "errrun" \/ err = "errerr", Last(L0.jmp).by = "pcall"
               PROVE  LET j == Last(L0.jmp)
                          G == th'[t]
                      IN  /\ run' = run
                          /\ SubSeq(G.ci, 1, j.ci - 1) = SubSeq(L0.ci, 1, j.ci - 1)
                          /\ Len(G.ci) = j.ci
                          /\ G.errfunc = j.errfunc
                          /\ G.nCcalls = j.nCcalls
    BY DEF Contained
  <2>1. luaD_throw /\ run # <<>>
    BY ThrowsOnly, ErrRuns
  <2>2. th' = [th EXCEPT ![t] = CatchError(L0)] /\ run' = run
    BY <2>1 DEF luaD_throw, Go, Step
  <2>3. Frames(L0) /\ Live(L0) /\ Begun(L0) /\ t \in Thread
    BY <2>1, RunningThread DEF Troubled
  <2>4. th'[t] = CatchError(L0)
    BY <2>2, <2>3 DEF ThreadInv, Types
  <2>5. QED
    BY <2>2, <2>3, <2>4, CatchFine
<1>2. QED
  BY <1>1, ThreadsSound, PTL DEF Spec, ErrorsContained

(* As many handlers as protected calls that are under way. *)
LEMMA HandlersCounted ==
  ASSUME NEW L, Frames(L), Handlers(L), ~Handled(L, Len(L.ci))
  PROVE  Len(L.jmp) - 1 = Cardinality({i \in 1 .. Len(L.ci) - 1 : L.ci[i].fn \in PCall})
<1> DEFINE n == Len(L.ci)
           m == Len(L.jmp) - 1
           T == {i \in 1 .. n - 1 : L.ci[i].fn \in PCall}
           f == [k \in 1 .. m |-> L.jmp[k + 1].ci]
<1>1. Len(L.jmp) \in Nat /\ L.jmp \in Seq(Handler) /\ n \in Nat /\ L.jmp # <<>>
  BY FieldTypes DEF Frames, Handlers
<1>2. m \in Nat /\ Len(L.jmp) = m + 1
  BY <1>1
<1> HIDE DEF m
<1>3. ASSUME NEW k \in 1 .. m
      PROVE  /\ k + 1 \in 2 .. Len(L.jmp) /\ HandlerOK(L, k + 1) /\ L.jmp[k + 1].ci \in T /\ f[k] = L.jmp[k + 1].ci
  <2>1. k + 1 \in 2 .. Len(L.jmp)
    BY <1>2
  <2>2. HandlerOK(L, k + 1)
    BY <2>1 DEF Handlers
  <2>3. L.jmp[k + 1].ci \in 2 .. n /\ L.ci[L.jmp[k + 1].ci].fn \in PCall /\ L.jmp[k + 1].ci # n
    BY <2>1, <2>2 DEF HandlerOK, Handled
  <2>4. L.jmp[k + 1].ci \in 1 .. n - 1
    BY <1>1, <2>3
  <2>5. QED
    BY <2>1, <2>2, <2>3, <2>4
<1>4. f \in [1 .. m -> T]
  BY <1>3
<1>5. ASSUME NEW a \in 1 .. m, NEW b \in 1 .. m, a < b PROVE f[a] # f[b]
  <2>1. a + 1 \in 2 .. (b + 1) - 1
    BY <1>5
  <2>2. L.jmp[a + 1].ci < L.jmp[b + 1].ci
    BY <1>3, <2>1 DEF HandlerOK
  <2>3. L.jmp[a + 1].ci \in Int /\ L.jmp[b + 1].ci \in Int
    BY <1>3
  <2>4. QED
    BY <1>3, <2>2, <2>3
<1>6. \A a, b \in 1 .. m : f[a] = f[b] => a = b
  <2> HIDE DEF f
  <2>1. \A a, b \in 1 .. m : a = b \/ a < b \/ b < a
    OBVIOUS
  <2>2. QED
    BY <1>5, <2>1
<1>7. ASSUME NEW i \in T PROVE \E k \in 1 .. m : f[k] = i
  <2>1. Handled(L, i)
    BY DEF Handlers
  <2>2. PICK x \in 2 .. Len(L.jmp) : L.jmp[x].ci = i
    BY <2>1 DEF Handled
  <2>3. x - 1 \in 1 .. m /\ (x - 1) + 1 = x
    BY <1>2
  <2>4. f[x - 1] = i
    BY <2>2, <2>3
  <2>5. QED
    BY <2>3, <2>4
<1> HIDE DEF f
<1>8. f \in Bijection(1 .. m, T)
  BY <1>4, <1>6, <1>7 DEF Bijection, Injection, Surjection, IsInjective
<1>9. ExistsBijection(1 .. m, T)
  BY <1>8 DEF ExistsBijection
<1>10. Cardinality(T) = m
  BY <1>2, <1>9, FS_CountingElements
<1>11. QED
  BY <1>10 DEF m

(***************************************************************************)
(* What an error or a yield leads back to is there: the handlers of a      *)
(* running thread are those of its protected calls, innermost last, and a  *)
(* suspended thread has left nothing on the C stack.                       *)
(***************************************************************************)
THEOREM HandlersAreLive == Spec => []HandlersLive
<1>1. ThreadInv => HandlersLive
  <2> SUFFICES ASSUME ThreadInv PROVE RunningHandlers /\ NothingLeftInC
    BY DEF HandlersLive
  <2>1. run \in Seq(Thread) /\ DOMAIN run = 1 .. Len(run)
    BY DEF ThreadInv, Types
  <2>2. \A co : co \in Range(run) <=> InRun(co)
    BY <2>1 DEF Range, InRun
  <2>3. NothingLeftInC
    <3> SUFFICES ASSUME NEW co \in Thread \ Range(run)
                 PROVE  /\ th[co].jmp = <<>>
                        /\ th[co].status = "yield" =>
                             /\ \A i \in DOMAIN th[co].ci : ~th[co].ci[i].c
                             /\ th[co].errfunc = "none"
      BY DEF NothingLeftInC
    <3>1. Dormant(th[co]) /\ Frames(th[co])
      BY <2>2 DEF ThreadInv
    <3>2. th[co].ci \in Seq(Call)
      BY <3>1, FieldTypes DEF Frames
    <3>3. DOMAIN th[co].ci = 1 .. Len(th[co].ci)
      BY <3>2
    <3>4. QED
      BY <3>1, <3>3 DEF Dormant
  <2>4. RunningHandlers
    <3> SUFFICES ASSUME NEW co \in Range(run)
                 PROVE  LET L == th[co]
                        IN /\ L.jmp # <<>> /\ Head(L.jmp).by = "resume"
                           /\ \A i \in 2 .. Len(L.jmp) :
                                /\ L.jmp[i].ci <= Len(L.ci) /\ L.ci[L.jmp[i].ci].fn \in {"pcall", "xpcall"}
                                /\ i > 2 => L.jmp[i - 1].ci < L.jmp[i].ci
                           /\ err = "no" => Len(L.jmp) - 1 = Cardinality({i \in 1 .. Len(L.ci) - 1 : L.ci[i].fn \in {"pcall", "xpcall"}})
      BY DEF RunningHandlers
    <3> DEFINE L == th[co]
    <3>1. PICK k \in 1 .. Len(run) : run[k] = co
      BY <2>2 DEF InRun
    <3>2. Live(L) /\ co \in Thread /\ (err = "no" => Settled(L))
      BY <2>1, <3>1 DEF ThreadInv
    <3>3. Frames(L) /\ Handlers(L)
      BY <3>2 DEF ThreadInv, Live
    <3>4. L.jmp \in Seq(Handler) /\ L.jmp # <<>> /\ L.jmp[1].by = "resume"
      BY <3>3, FieldTypes DEF Frames, Handlers
    <3> HIDE DEF L
    <3>5. Head(L.jmp).by = "resume"
      BY <3>4
    <3>6. ASSUME NEW i \in 2 .. Len(L.jmp)
          PROVE  /\ L.jmp[i].ci <= Len(L.ci) /\ L.ci[L.jmp[i].ci].fn \in {"pcall", "xpcall"}
                 /\ i > 2 => L.jmp[i - 1].ci < L.jmp[i].ci
      <4>1. HandlerOK(L, i) /\ (i > 2 => i - 1 \in 2 .. i - 1)
        BY <3>3 DEF Handlers
      <4>2. QED
        BY <4>1 DEF HandlerOK, PCall
    <3>7. err = "no" => Len(L.jmp) - 1 = Cardinality({i \in 1 .. Len(L.ci) - 1 : L.ci[i].fn \in {"pcall", "xpcall"}})
      <4>1. err = "no" => ~Handled(L, Len(L.ci))
        BY <3>2 DEF Settled
      <4>2. QED
        BY <3>3, <4>1, HandlersCounted DEF PCall
    <3>8. QED
      BY <3>4, <3>5, <3>6, <3>7 DEF L
  <2>5. QED
    BY <2>3, <2>4
<1>2. QED
  BY <1>1, ThreadsSound, PTL


-----------------------------------------------------------------------------
(* The room on the stacks.                                                 *)

(* There are functions as those Depth is defined with, of any length. *)
LEMMA SumsExist ==
  ASSUME NEW lev, NEW n \in Nat
  PROVE  \E f : f = [k \in 0 .. n |-> IF k = 0 THEN 0 ELSE f[k - 1] + lev[k]]
<1> DEFINE Sum(f, m) == f = [k \in 0 .. m |-> IF k = 0 THEN 0 ELSE f[k - 1] + lev[k]]
           Wrong == {m \in Nat : ~\E f : Sum(f, m)}
<1> SUFFICES ASSUME Wrong # {} PROVE FALSE
  OBVIOUS
<1>1. PICK m \in Wrong : \A k \in Wrong : m <= k
  BY LeastNumber
<1>2. m \in Nat /\ ~\E f : Sum(f, m)
  BY <1>1
<1>3. m # 0
  <2> SUFFICES ASSUME m = 0 PROVE FALSE
    OBVIOUS
  <2> DEFINE g == [k \in 0 .. 0 |-> 0]
  <2>1. \A k \in 0 .. 0 : k = 0
    OBVIOUS
  <2>2. g = [k \in 0 .. 0 |-> IF k = 0 THEN 0 ELSE g[k - 1] + lev[k]]
    BY <2>1
  <2>3. Sum(g, m)
    BY <2>2
  <2>4. QED
    BY <1>2, <2>3
<1>4. m - 1 \in Nat /\ ~(m <= m - 1)
  BY <1>2, <1>3
<1>5. m - 1 \notin Wrong
  BY <1>1, <1>4
<1>6. PICK f : Sum(f, m - 1)
  BY <1>4, <1>5
<1> DEFINE g == [k \in 0 .. m |-> IF k = m THEN f[m - 1] + lev[m] ELSE f[k]]
<1>7. ASSUME NEW k \in 0 .. m PROVE g[k] = IF k = 0 THEN 0 ELSE g[k - 1] + lev[k]
  <2>1. CASE k = m
    <3>1. m - 1 \in 0 .. m /\ m - 1 # m
      BY <1>2, <1>3
    <3>2. QED
      BY <1>3, <2>1, <3>1
  <2>2. CASE k # m
    <3>1. k \in 0 .. m - 1 /\ (k # 0 => k - 1 \in 0 .. m /\ k - 1 # m)
      BY <1>2, <2>2
    <3>2. f[k] = IF k = 0 THEN 0 ELSE f[k - 1] + lev[k]
      BY <1>6, <3>1
    <3>3. QED
      BY <2>2, <3>1, <3>2
  <2>3. QED
    BY <2>1, <2>2
<1>8. Sum(g, m)
  BY <1>7
<1>9. QED
  BY <1>2, <1>8

(* n threads, each with own calls made by C, counting on from one another: *)
(* from is what each starts with, count what it has come to.               *)
CountsOn(n, lev, d, from, own, count) ==
  /\ n \in Nat
  /\ \A k \in 1 .. n : from[k] \in Nat /\ own[k] \in Nat /\ count[k] \in Nat
  /\ \A k \in 1 .. n : lev[k] = 1 + own[k] /\ from[k] + own[k] <= count[k]
  /\ n >= 1 => from[1] = 1
  /\ \A k \in 1 .. n - 1 : from[k + 1] = count[k] + 1
  /\ \A k \in 0 .. n : d[k] = IF k = 0 THEN 0 ELSE d[k - 1] + lev[k]

(* They count at least what they use. *)
LEMMA SumsBounded ==
  ASSUME NEW n, NEW lev, NEW d, NEW from, NEW own, NEW count, CountsOn(n, lev, d, from, own, count)
  PROVE  \A k \in 1 .. n : d[k] \in Nat /\ d[k] <= from[k] + own[k]
<1> USE DEF CountsOn
<1> DEFINE Wrong == {k \in 1 .. n : ~(d[k] \in Nat /\ d[k] <= from[k] + own[k])}
<1> SUFFICES ASSUME Wrong # {} PROVE FALSE
  OBVIOUS
<1>1. PICK k \in Wrong : \A m \in Wrong : k <= m
  <2>1. Wrong \subseteq Nat
    OBVIOUS
  <2>2. QED
    BY <2>1, LeastNumber, Zenon
<1>2. k \in 1 .. n /\ k \in 0 .. n /\ ~(d[k] \in Nat /\ d[k] <= from[k] + own[k])
  BY <1>1
<1>3. d[k] = d[k - 1] + (1 + own[k]) /\ own[k] \in Nat /\ from[k] \in Nat
  BY <1>2
<1>4. CASE k = 1
  <2>1. d[0] = 0 /\ from[1] = 1 /\ n >= 1
    BY <1>2, <1>4
  <2>2. d[k - 1] = 0
    BY <1>4, <2>1
  <2>3. QED
    BY <1>2, <1>3, <1>4, <2>1, <2>2
<1>5. CASE k # 1
  <2>1. k - 1 \in 1 .. n /\ k - 1 \in 1 .. n - 1 /\ ~(k <= k - 1) /\ (k - 1) + 1 = k
    BY <1>2, <1>5
  <2>2. d[k - 1] \in Nat /\ d[k - 1] <= from[k - 1] + own[k - 1]
    BY <1>1, <2>1
  <2>3. from[k] = count[k - 1] + 1
    BY <2>1
  <2>4. from[k - 1] \in Nat /\ own[k - 1] \in Nat /\ count[k - 1] \in Nat /\ from[k - 1] + own[k - 1] <= count[k - 1]
    BY <2>1
  <2> DEFINE x == d[k - 1]
             y == own[k]
  <2>5. x \in Nat /\ x <= count[k - 1] /\ y \in Nat /\ d[k] = x + (1 + y)
    BY <1>3, <2>2, <2>4
  <2> HIDE DEF x, y
  <2>6. d[k] \in Nat /\ d[k] <= (count[k - 1] + 1) + y
    BY <2>4, <2>5
  <2>7. QED
    BY <1>2, <2>3, <2>6 DEF y
<1>6. QED
  BY <1>4, <1>5

(* ... and exactly that when nothing is counted twice. *)
LEMMA SumsExact ==
  ASSUME NEW n, NEW lev, NEW d, NEW from, NEW own, NEW count, CountsOn(n, lev, d, from, own, count),
         \A k \in 1 .. n : from[k] + own[k] = count[k]
  PROVE  \A k \in 1 .. n : d[k] = count[k]
<1> USE DEF CountsOn
<1> DEFINE Wrong == {k \in 1 .. n : d[k] # count[k]}
<1> SUFFICES ASSUME Wrong # {} PROVE FALSE
  OBVIOUS
<1>1. PICK k \in Wrong : \A m \in Wrong : k <= m
  <2>1. Wrong \subseteq Nat
    OBVIOUS
  <2>2. QED
    BY <2>1, LeastNumber, Zenon
<1>2. k \in 1 .. n /\ k \in 0 .. n /\ d[k] # count[k]
  BY <1>1
<1>3. d[k] = d[k - 1] + (1 + own[k]) /\ own[k] \in Nat /\ from[k] \in Nat /\ from[k] + own[k] = count[k]
  BY <1>2
<1>4. CASE k = 1
  <2>1. d[0] = 0 /\ from[1] = 1 /\ n >= 1
    BY <1>2, <1>4
  <2>2. d[k - 1] = 0
    BY <1>4, <2>1
  <2>3. QED
    BY <1>2, <1>3, <1>4, <2>1, <2>2
<1>5. CASE k # 1
  <2>1. k - 1 \in 1 .. n /\ k - 1 \in 1 .. n - 1 /\ ~(k <= k - 1) /\ (k - 1) + 1 = k
    BY <1>2, <1>5
  <2>2. d[k - 1] = count[k - 1]
    BY <1>1, <2>1
  <2>3. from[k] = count[k - 1] + 1 /\ count[k - 1] \in Nat
    BY <2>1
  <2> DEFINE x == count[k - 1]
             y == own[k]
  <2>4. x \in Nat /\ y \in Nat /\ d[k] = x + (1 + y) /\ (x + 1) + y = count[k]
    BY <1>3, <2>2, <2>3
  <2> HIDE DEF x, y
  <2>5. QED
    BY <1>2, <2>4
<1>6. QED
  BY <1>4, <1>5


(* nCcalls of the running thread bounds the levels in use on the C stack,  *)
(* and counts them when no error is under way or being handled.            *)
LEMMA DepthCounted ==
  ASSUME ThreadInv, run # <<>>
  PROVE  CStackBounded
<1> DEFINE n == Len(run)
           lev == [k \in 1 .. n |-> Levels(run[k])]
           from == [k \in 1 .. n |-> th[run[k]].baseCcalls]
           own == [k \in 1 .. n |-> CCalls(th[run[k]], Len(th[run[k]].ci))]
           count == [k \in 1 .. n |-> th[run[k]].nCcalls]
<1>1. n \in Nat /\ n >= 1 /\ DOMAIN run = 1 .. n /\ \A k \in 1 .. n : run[k] \in Thread
  BY DEF ThreadInv, Types
<1>2. ASSUME NEW k \in 1 .. n
      PROVE  /\ from[k] \in Nat /\ own[k] \in Nat /\ count[k] \in Nat
             /\ lev[k] = 1 + own[k] /\ from[k] + own[k] <= count[k] /\ from[k] + own[k] <= CLimit
  <2> DEFINE L == th[run[k]]
  <2>1. Live(L) /\ Frames(L)
    BY <1>1 DEF ThreadInv
  <2>2. L.baseCcalls \in Nat /\ L.nCcalls \in Nat /\ L.ci \in Seq(Call) /\ Len(L.ci) \in Nat
    BY <2>1, FieldTypes DEF Frames
  <2>3. CCalls(L, Len(L.ci)) \in Nat
    BY <2>2, CCallsNat
  <2>4. DOMAIN L.ci = 1 .. Len(L.ci)
    BY <2>2
  <2>5. Levels(run[k]) = 1 + CCalls(L, Len(L.ci))
    BY <2>4, Zenon DEF Levels, CCalls
  <2>6. QED
    BY <2>1, <2>2, <2>3, <2>5 DEF Live
<1>3. from[1] = 1 /\ \A k \in 1 .. n - 1 : from[k + 1] = count[k] + 1
  <2>1. run[1] = coro /\ th[coro].baseCcalls = 1 /\ 1 \in 1 .. n
    BY <1>1 DEF ThreadInv, Chain
  <2>2. ASSUME NEW k \in 1 .. n - 1 PROVE from[k + 1] = count[k] + 1
    <3>1. k \in 1 .. n /\ k + 1 \in 1 .. n
      BY <1>1
    <3>2. th[run[k + 1]].baseCcalls = th[run[k]].nCcalls + 1
      BY DEF ThreadInv, Chain
    <3>3. QED
      BY <3>1, <3>2
  <2>3. QED
    BY <2>1, <2>2
<1>4. ~Handling => \A k \in 1 .. n : from[k] + own[k] = count[k]
  <2> SUFFICES ASSUME ~Handling, NEW k \in 1 .. n PROVE from[k] + own[k] = count[k]
    OBVIOUS
  <2> DEFINE L == th[run[k]]
  <2>1. err = "no" /\ run[k] \in Range(run)
    BY <1>1 DEF Handling, Range
  <2>2. Settled(L) /\ Frames(L)
    BY <1>1, <2>1 DEF ThreadInv
  <2>3. L.ci \in Seq(Call)
    BY <2>2, FieldTypes DEF Frames
  <2>4. DOMAIN L.ci = 1 .. Len(L.ci)
    BY <2>3
  <2>5. NoErrfn(L, Len(L.ci))
    BY <2>1, <2>4 DEF Handling, NoErrfn
  <2>6. QED
    BY <2>2, <2>5 DEF Settled
<1> DEFINE Sum(f) == [k \in 0 .. n |-> IF k = 0 THEN 0 ELSE f[k - 1] + Levels(run[k])]
           d == CHOOSE f : f = Sum(f)
<1>5. \E f : f = Sum(f)
  <2>1. PICK f : f = [k \in 0 .. n |-> IF k = 0 THEN 0 ELSE f[k - 1] + lev[k]]
    BY <1>1, SumsExist
  <2>2. \A k \in 0 .. n : k # 0 => lev[k] = Levels(run[k])
    OBVIOUS
  <2>3. f = Sum(f)
    BY <2>1, <2>2
  <2>4. QED
    BY <2>3
<1>6. d = Sum(d)
  BY <1>5
<1>7. Depth = d[n]
  BY DEF Depth
<1>8. \A k \in 0 .. n : d[k] = IF k = 0 THEN 0 ELSE d[k - 1] + lev[k]
  <2>1. ASSUME NEW k \in 0 .. n PROVE d[k] = IF k = 0 THEN 0 ELSE d[k - 1] + Levels(run[k])
    BY <1>6
  <2>2. \A k \in 0 .. n : k # 0 => lev[k] = Levels(run[k])
    OBVIOUS
  <2> HIDE DEF d, lev
  <2>3. QED
    BY <2>1, <2>2
<1>9. L0 = th[run[n]] /\ n \in 1 .. n /\ count[n] = L0.nCcalls
  BY <1>1 DEF L0, t, Last
<1> HIDE DEF d, lev, from, own, count, n
<1>10. CountsOn(n, lev, d, from, own, count)
  BY <1>1, <1>2, <1>3, <1>8 DEF CountsOn
<1>11. d[n] \in Nat /\ d[n] <= from[n] + own[n] /\ (~Handling => d[n] = count[n])
  BY <1>4, <1>9, <1>10, SumsBounded, SumsExact
<1>12. CLimit \in Nat
  BY LimitsAssumption DEF CLimit
<1>13. d[n] <= count[n] /\ d[n] <= CLimit
  BY <1>2, <1>9, <1>11, <1>12
<1>14. QED
  BY <1>7, <1>9, <1>11, <1>13 DEF CStackBounded, CLimit

(* A slot up to the limit lies in the stack, and behind stack_last only if *)
(* a vararg function of the program has parameters for it.                 *)
LEMMA LimitWithin ==
  ASSUME ThreadInv, NEW L \in ThreadType, NEW x \in Nat, x <= Limit(L)
  PROVE  x <= L.stacksize /\ Within(L, x)
<1>1. /\ StackLast(L) \in Int /\ L.stacksize \in Nat /\ Limit(L) \in Int /\ Limit(L) <= L.stacksize
      /\ Limit(L) = StackLast(L) + Over(L.status)
  BY LimitOK, FieldTypes
<1>2. Slack \in Nat /\ EXTRA_STACK \in Nat
  BY SlackOK
<1>3. Over(L.status) \in Int /\ Over(L.status) <= Slack
  BY <1>2, OverOK DEF Over
<1> DEFINE z == x - StackLast(L)
<1>4. z \in Int /\ z <= Slack /\ (z <= 0 => x <= StackLast(L)) /\ x <= L.stacksize
  BY <1>1, <1>2, <1>3
<1>5. CASE Slack = 0
  BY <1>4, <1>5 DEF Within
<1>6. CASE Slack # 0
  <2>1. PICK p \in prog.protos : p.is_vararg = "dots" /\ ~(p.numparams <= Slack - 1)
    BY <1>6, SlackOK
  <2>2. p.numparams \in Nat
    BY ProtosOK DEF ProtoOK
  <2> HIDE DEF z
  <2>3. z <= p.numparams
    BY <1>2, <1>4, <2>1, <2>2
  <2>4. QED
    BY <1>4, <2>1, <2>3 DEF Within, z
<1>7. QED
  BY <1>5, <1>6

(***************************************************************************)
(* No thread runs out of the room it was given, whatever is called, in C   *)
(* or in Lua, with any prototype: the slots of every call lie in the       *)
(* stack, and behind stack_last only as far as a vararg function has       *)
(* parameters; C functions push within their slots, but for the status     *)
(* pcall pushes; nothing is written behind the end of the stack unless a   *)
(* vararg function has EXTRA_STACK parameters; and the levels of the C     *)
(* stack in use by all threads together stay within the limit.             *)
(***************************************************************************)
THEOREM StacksAreBounded == Spec => []StacksBounded
<1>1. ThreadInv => StacksBounded
  <2> SUFFICES ASSUME ThreadInv PROVE TypeOK /\ StackFits /\ RoomToPush /\ CStackBounded
    BY DEF StacksBounded
  <2>1. TypeOK
    BY DEF ThreadInv, Types, TypeOK, ThreadType, Call, Handler, Name
  <2>2. StackFits
    <3>1. ASSUME NEW co \in Thread
          PROVE  /\ Len(th[co].ci) <= th[co].size_ci
                 /\ \A x \in {th[co].top} \cup {th[co].ci[i].top : i \in DOMAIN th[co].ci} :
                      x <= th[co].stacksize /\ Within(th[co], x)
      <4> DEFINE L == th[co]
      <4>1. Frames(L)
        BY DEF ThreadInv
      <4> HIDE DEF L
      <4>2. L \in ThreadType /\ L.top \in Nat /\ L.top <= Limit(L) /\ L.ci \in Seq(Call)
        BY <4>1, FieldTypes DEF Frames
      <4>3. DOMAIN L.ci = 1 .. Len(L.ci)
        BY <4>2
      <4>4. ASSUME NEW i \in DOMAIN L.ci PROVE L.ci[i].top \in Nat /\ L.ci[i].top <= Limit(L)
        BY <4>1, <4>2, <4>3, CallTypes DEF Frames, FrameOK
      <4>5. \A x \in {L.top} \cup {L.ci[i].top : i \in DOMAIN L.ci} : x <= L.stacksize /\ Within(L, x)
        BY <4>2, <4>4, LimitWithin
      <4>6. QED
        BY <4>1, <4>5 DEF Frames, L
    <3>2. ASSUME err = "outside" PROVE \E p \in prog.protos : p.is_vararg = "dots" /\ p.numparams >= EXTRA_STACK
      <4>1. EXTRA_STACK <= Slack /\ EXTRA_STACK \in Nat \ {0} /\ Slack \in Nat
        BY <3>2, SlackOK DEF ThreadInv, Outside
      <4>2. PICK p \in prog.protos : p.is_vararg = "dots" /\ ~(p.numparams <= Slack - 1)
        BY <4>1, SlackOK
      <4>3. p.numparams \in Nat
        BY ProtosOK DEF ProtoOK
      <4>4. QED
        BY <4>1, <4>2, <4>3
    <3>3. QED
      BY <3>1, <3>2 DEF StackFits
  <2>3. RoomToPush
    <3> SUFFICES ASSUME NEW co \in Thread, Ci(th[co]).fn \notin {"lua", "errfn", "base"}, err = "no"
                 PROVE  th[co].top <= Ci(th[co]).top + (IF Ci(th[co]).fn = "ret" THEN 1 ELSE 0)
      BY DEF RoomToPush
    <3> DEFINE L == th[co]
    <3>1. Frames(L)
      BY DEF ThreadInv
    <3>2. /\ Ci(L) = L.ci[Len(L.ci)] /\ Ci(L).fn \in Name /\ Ci(L).top \in Nat /\ L.top \in Nat
          /\ LUA_MINSTACK \in Nat
      BY <3>1, LastCall, LimitsAssumption
    <3>3. CASE InRun(co)
      <4>1. PICK k \in 1 .. Len(run) : run[k] = co
        BY <3>3 DEF InRun
      <4>2. Settled(L)
        BY <4>1 DEF ThreadInv
      <4> HIDE DEF L
      <4>3. Ci(L).fn = "c" \/ Ci(L).fn = "ret" \/ Ci(L).fn \in CallNames \ {"c"}
        BY <3>2 DEF Name, L
      <4>4. L.top <= Ci(L).top \/ L.top + LUA_MINSTACK <= Ci(L).top \/ (Ci(L).fn = "ret" /\ L.top <= Ci(L).top + 1)
        BY <3>2, <4>2, <4>3 DEF Settled
      <4>5. QED
        BY <3>2, <4>4 DEF L
    <3>4. CASE ~InRun(co)
      <4>1. Dormant(L)
        BY <3>4 DEF ThreadInv
      <4> HIDE DEF L
      <4>2. QED
        BY <3>2, <4>1 DEF Dormant, LuaFn, L
    <3>5. QED
      BY <3>3, <3>4
  <2>4. CStackBounded
    <3>1. CASE run = <<>>
      BY <3>1 DEF CStackBounded
    <3>2. CASE run # <<>>
      BY <3>2, DepthCounted
    <3>3. QED
      BY <3>1, <3>2
  <2>5. QED
    BY <2>1, <2>2, <2>3, <2>4
<1>2. QED
  BY <1>1, ThreadsSound, PTL


-----------------------------------------------------------------------------
(* The first two calls of a thread.                                        *)

(* G has the calls of L, and perhaps one more. *)
OneMore(L, G) == G.ci = L.ci \/ \E f : G.ci = Append(L.ci, f)

(* Pushing changes no call. *)
LEMMA PushKeeps ==
  ASSUME NEW L, "ci" \in DOMAIN L, NEW n
  PROVE  /\ luaD_checkstack(L, n).ci = L.ci /\ "ci" \in DOMAIN luaD_checkstack(L, n)
         /\ Push(L, n).ci = L.ci /\ "ci" \in DOMAIN Push(L, n)
         /\ luaG_runerror(L).L.ci = L.ci /\ "ci" \in DOMAIN luaG_runerror(L).L
<1>1. ASSUME NEW k PROVE luaD_checkstack(L, k).ci = L.ci /\ "ci" \in DOMAIN luaD_checkstack(L, k)
  BY DEF luaD_checkstack, luaD_growstack, luaD_reallocstack
<1>2. ASSUME NEW k PROVE Push(L, k).ci = L.ci /\ "ci" \in DOMAIN Push(L, k)
  <2> DEFINE G == luaD_checkstack(L, k)
  <2>1. G.ci = L.ci /\ "ci" \in DOMAIN G
    BY <1>1
  <2>2. Push(L, k) = [G EXCEPT !.top = G.top + k]
    BY DEF Push
  <2> HIDE DEF G
  <2>3. QED
    BY <2>1, <2>2
<1>3. luaG_runerror(L).L = Push(L, 1) \/ luaG_runerror(L).L = L
  BY DEF luaG_runerror, Step
<1>4. QED
  BY <1>1, <1>2, <1>3

(* inc_ci adds one call or none. *)
LEMMA IncKeeps ==
  ASSUME NEW L, "ci" \in DOMAIN L, NEW f
  PROVE  OneMore(L, inc_ci(L, f).L) /\ "ci" \in DOMAIN inc_ci(L, f).L
<1> DEFINE A == Step([L EXCEPT !.ci = Append(@, f)], "no")
           G == [L EXCEPT !.size_ci = 2 * @]
           B == Step([G EXCEPT !.ci = Append(@, f)], "no")
<1>1. A.L.ci = Append(L.ci, f) /\ "ci" \in DOMAIN A.L
  BY DEF Step
<1>2. G.ci = L.ci /\ "ci" \in DOMAIN G
  OBVIOUS
<1>3. B.L.ci = Append(L.ci, f) /\ "ci" \in DOMAIN B.L
  <2> HIDE DEF G
  <2>1. QED
    BY <1>2 DEF Step
<1>4. luaG_runerror(G).L.ci = L.ci /\ "ci" \in DOMAIN luaG_runerror(G).L
  <2> HIDE DEF G
  <2>1. QED
    BY <1>2, PushKeeps
<1>5. Step(L, "errerr").L = L
  BY DEF Step
<1>6. inc_ci(L, f) \in {A, B, luaG_runerror(G), Step(L, "errerr")}
  <2> DEFINE p == Len(L.ci) < L.size_ci
             q == Len(L.ci) = L.size_ci /\ L.size_ci > LUAI_MAXCALLS
             C == IF G.size_ci > LUAI_MAXCALLS THEN luaG_runerror(G) ELSE B
  <2>1. inc_ci(L, f) = CASE p -> A [] q -> Step(L, "errerr") [] OTHER -> C
    BY DEF inc_ci
  <2>2. C \in {B, luaG_runerror(G)}
    OBVIOUS
  <2> HIDE DEF p, q, A, B, C, G
  <2>3. (CASE p -> A [] q -> Step(L, "errerr") [] OTHER -> C) \in {A, Step(L, "errerr"), C}
    OBVIOUS
  <2>4. QED
    BY <2>1, <2>2, <2>3
<1> HIDE DEF A, B, G
<1>7. QED
  BY <1>1, <1>3, <1>4, <1>5, <1>6 DEF OneMore

(* So do the two ways to enter a function. *)
LEMMA LuaKeeps ==
  ASSUME NEW L, "ci" \in DOMAIN L, NEW fn, NEW c, NEW p, NEW nargs
  PROVE  OneMore(L, CallLua(L, fn, c, p, nargs).L)
<1> DEFINE func == L.top - nargs - 1
           miss == IF p.is_vararg # "no" /\ nargs < p.numparams THEN p.numparams - nargs ELSE 0
           base == IF p.is_vararg = "no" THEN func + 1 ELSE L.top + miss
           ctop == base + p.maxstacksize
           last == base + Params(p)
           G == luaD_checkstack(L, p.maxstacksize)
           M == [G EXCEPT !.top = @ + miss]
           H == IF p.is_vararg = "arg" THEN luaD_checkstack(M, p.maxstacksize) ELSE G
           A == [H EXCEPT !.top = IF p.is_vararg = "no" /\ L.top <= last THEN L.top ELSE last]
           f == [fn |-> fn, c |-> c, func |-> func, base |-> base, top |-> ctop]
           r == inc_ci(A, f)
           o == Step(G, "outside")
           B == [r.L EXCEPT !.base = base, !.top = ctop]
           b == Step(B, "no")
<1>1. CallLua(L, fn, c, p, nargs) =
        IF Beyond(A, 0) THEN o ELSE IF r.err # "no" THEN r ELSE IF ctop > A.stacksize THEN o ELSE b
  BY Zenon DEF CallLua
<1>2. G.ci = L.ci /\ "ci" \in DOMAIN G
  BY PushKeeps
<1> HIDE DEF miss, base, ctop, last, func, f, G
<1>3. M.ci = L.ci /\ "ci" \in DOMAIN M
  BY <1>2
<1> HIDE DEF M
<1>4. H.ci = L.ci /\ "ci" \in DOMAIN H
  BY <1>2, <1>3, PushKeeps
<1> HIDE DEF H
<1>5. A.ci = L.ci /\ "ci" \in DOMAIN A
  BY <1>4
<1> HIDE DEF A
<1>6. OneMore(L, r.L) /\ "ci" \in DOMAIN r.L
  <2>1. OneMore(A, r.L) /\ "ci" \in DOMAIN r.L
    BY <1>5, IncKeeps
  <2> HIDE DEF r
  <2>2. QED
    BY <1>5, <2>1 DEF OneMore
<1> HIDE DEF r
<1>7. B.ci = r.L.ci
  BY <1>6
<1>8. b.L = B /\ o.L = G
  BY DEF Step
<1> HIDE DEF B, b, o
<1>9. OneMore(L, b.L) /\ OneMore(L, o.L)
  BY <1>2, <1>6, <1>7, <1>8 DEF OneMore
<1>10. CallLua(L, fn, c, p, nargs) \in {o, r, b}
  BY <1>1
<1>11. QED
  BY <1>6, <1>9, <1>10

(* ... one in C. *)
LEMMA CKeeps ==
  ASSUME NEW L, "ci" \in DOMAIN L, NEW fn, NEW c, NEW nargs
  PROVE  OneMore(L, CallC(L, fn, c, nargs).L)
<1> DEFINE func == L.top - nargs - 1
           G == luaD_checkstack(L, LUA_MINSTACK)
           f == [fn |-> fn, c |-> c, func |-> func, base |-> func + 1, top |-> L.top + LUA_MINSTACK]
           r == inc_ci(G, f)
           B == [r.L EXCEPT !.base = func + 1]
           b == Step(B, "no")
<1>1. CallC(L, fn, c, nargs) = IF r.err # "no" THEN r ELSE b
  BY Zenon DEF CallC
<1>2. G.ci = L.ci /\ "ci" \in DOMAIN G
  BY PushKeeps
<1> HIDE DEF func, f, G
<1>3. OneMore(L, r.L) /\ "ci" \in DOMAIN r.L
  <2>1. OneMore(G, r.L) /\ "ci" \in DOMAIN r.L
    BY <1>2, IncKeeps
  <2> HIDE DEF r
  <2>2. QED
    BY <1>2, <2>1 DEF OneMore
<1> HIDE DEF r
<1>4. B.ci = r.L.ci
  BY <1>3
<1>5. b.L = B
  BY DEF Step
<1> HIDE DEF B, b
<1>6. OneMore(L, b.L)
  BY <1>3, <1>4, <1>5 DEF OneMore
<1>7. QED
  BY <1>1, <1>3, <1>6

(* luaD_precall adds one call or none. *)
LEMMA PrecallKeeps ==
  ASSUME NEW L, "ci" \in DOMAIN L, NEW fn, NEW c, NEW p, NEW nargs
  PROVE  OneMore(L, luaD_precall(L, fn, c, p, nargs).L)
<1> DEFINE G == Push(L, 1)
           u == fn \in {"lua", "errfn"}
           v == fn = "object"
           w == fn = "value"
           o == Step(L, "outside")
           lua == "lua"
           m == nargs + 1
           a == CallLua(L, fn, c, p, nargs)
           b == CallLua(G, lua, c, p, m)
           d == luaG_runerror(L)
           e == CallC(L, fn, c, nargs)
           y == IF Beyond(L, 1) THEN o ELSE b
<1>1. luaD_precall(L, fn, c, p, nargs) = CASE u -> a [] v -> y [] w -> d [] OTHER -> e
  BY DEF luaD_precall
<1>2. G.ci = L.ci /\ "ci" \in DOMAIN G
  BY PushKeeps
<1> HIDE DEF G, lua, m
<1>3. OneMore(L, a.L) /\ OneMore(L, e.L)
  BY LuaKeeps, CKeeps
<1>4. OneMore(L, b.L)
  <2>1. OneMore(G, b.L)
    BY <1>2, LuaKeeps
  <2> HIDE DEF b
  <2>2. QED
    BY <1>2, <2>1 DEF OneMore
<1>5. OneMore(L, d.L) /\ OneMore(L, o.L)
  BY PushKeeps DEF OneMore, Step
<1>6. y \in {o, b}
  OBVIOUS
<1> HIDE DEF u, v, w, a, b, d, e, o, y
<1>7. luaD_precall(L, fn, c, p, nargs) \in {a, y, d, e}
  BY <1>1
<1>8. QED
  BY <1>3, <1>4, <1>5, <1>6, <1>7

(* luaD_call adds one call or none. *)
LEMMA CallKeeps ==
  ASSUME NEW L, "ci" \in DOMAIN L, NEW fn, NEW pr, NEW nargs
  PROVE  OneMore(L, luaD_call(L, fn, pr, nargs).L)
<1> DEFINE G == [L EXCEPT !.nCcalls = @ + 1]
           p == G.nCcalls = LUAI_MAXCCALLS
           q == G.nCcalls > LUAI_MAXCCALLS /\ G.nCcalls >= LUAI_MAXCCALLS + (LUAI_MAXCCALLS \div 8)
           a == luaG_runerror(G)
           b == Step(G, "errerr")
           e == luaD_precall(G, fn, TRUE, pr, nargs)
<1>1. luaD_call(L, fn, pr, nargs) = CASE p -> a [] q -> b [] OTHER -> e
  BY DEF luaD_call
<1>2. G.ci = L.ci /\ "ci" \in DOMAIN G
  OBVIOUS
<1> HIDE DEF G
<1>3. OneMore(L, a.L) /\ OneMore(L, b.L) /\ OneMore(L, e.L)
  <2>1. a.L.ci = L.ci
    BY <1>2, PushKeeps
  <2>2. b.L.ci = L.ci
    BY <1>2 DEF Step
  <2>3. OneMore(G, e.L)
    BY <1>2, PrecallKeeps
  <2>4. QED
    BY <1>2, <2>1, <2>2, <2>3 DEF OneMore
<1> HIDE DEF a, b, e, p, q
<1>4. luaD_call(L, fn, pr, nargs) \in {a, b, e}
  BY <1>1
<1>5. QED
  BY <1>3, <1>4

(* A further call leaves the function of the coroutine where it is. *)
LEMMA BasedOneMore ==
  ASSUME NEW L, L \in ThreadType, 2 <= Len(L.ci), Based(L), NEW G, OneMore(L, G)
  PROVE  Based(G)
<1>1. L.ci \in Seq(Call) /\ Len(L.ci) \in Nat
  BY FieldTypes
<1>2. CASE G.ci = L.ci
  BY <1>2 DEF Based
<1>3. CASE \E f : G.ci = Append(L.ci, f)
  <2>1. PICK f : G.ci = Append(L.ci, f)
    BY <1>3
  <2>2. 1 \in 1 .. Len(L.ci) /\ 2 \in 1 .. Len(L.ci)
    BY <1>1
  <2>3. Append(L.ci, f)[1] = L.ci[1] /\ Append(L.ci, f)[2] = L.ci[2]
    BY <1>1, <2>2
  <2>4. QED
    BY <2>1, <2>3 DEF Based
<1>4. QED
  BY <1>2, <1>3 DEF OneMore


(* G has calls as L has, where L has them. *)
SameFuncs(L, G) ==
  Len(G.ci) = Len(L.ci) /\ \A i \in 1 .. Len(L.ci) : G.ci[i].func = L.ci[i].func /\ G.ci[i].base = L.ci[i].base

(* So does everything that moves no function. *)
LEMMA BasedSame ==
  ASSUME NEW L, NEW G, Based(L), SameFuncs(L, G), Len(L.ci) \in Nat
  PROVE  Based(G)
<1>1. 2 <= Len(L.ci) => 1 \in 1 .. Len(L.ci) /\ 2 \in 1 .. Len(L.ci)
  OBVIOUS
<1>2. QED
  BY <1>1 DEF Based, SameFuncs

(* A C function that is done moves no function. *)
LEMMA DoneKeeps ==
  ASSUME NEW L, "ci" \in DOMAIN L, L.ci \in Seq(Call), L.ci # <<>>
  PROVE  SameFuncs(L, Done(L))
<1> DEFINE n == Len(L.ci)
           s == [L.ci EXCEPT ![n].fn = "ret"]
<1>1. n \in Nat /\ 1 <= n /\ L.ci[n] \in Call /\ DOMAIN L.ci = 1 .. n
  OBVIOUS
<1>2. Done(L).ci = s
  BY DEF Done
<1> DEFINE c == [L.ci[n] EXCEPT !.fn = "ret"]
<1>3. c.func = L.ci[n].func /\ c.base = L.ci[n].base /\ c \in Call
  BY <1>1 DEF Call, Name
<1>4. s = [L.ci EXCEPT ![n] = c]
  OBVIOUS
<1> HIDE DEF c, n
<1>5. s \in Seq(Call) /\ Len(s) = n
  BY <1>1, <1>3, <1>4 DEF n
<1>6. \A i \in 1 .. n : s[i] = IF i = n THEN c ELSE L.ci[i]
  BY <1>1, <1>4
<1> HIDE DEF s
<1>7. \A i \in 1 .. n : s[i].func = L.ci[i].func /\ s[i].base = L.ci[i].base
  BY <1>3, <1>6
<1>8. QED
  BY <1>2, <1>5, <1>7 DEF SameFuncs, n

(* More room moves no function. *)
LEMMA RoomierKeeps ==
  ASSUME NEW L, NEW G, Frames(L), Roomier(L, G)
  PROVE  SameFuncs(L, G)
  BY DEF Roomier, SameFuncs

(* A resume that is refused moves no function. *)
LEMMA RefusedKeeps ==
  ASSUME NEW L, Frames(L)
  PROVE  SameFuncs(L, Refused(L).L)
<1>1. L \in ThreadType /\ L.ci \in Seq(Call) /\ L.ci # <<>> /\ "ci" \in DOMAIN L
  BY FieldTypes DEF Frames, ThreadType
<1> DEFINE A == [L EXCEPT !.top = L.top + 1]
           B == [L EXCEPT !.top = L.top + 2]
<1>2. A.ci = L.ci /\ B.ci = L.ci /\ "ci" \in DOMAIN B
  BY <1>1
<1>3. Refused(L) = IF Ci(L).fn = "wrap" THEN Step(A, "msg") ELSE Step(Done(B), "no")
  BY DEF Refused
<1> HIDE DEF A, B
<1>4. SameFuncs(L, A) /\ SameFuncs(B, Done(B))
  BY <1>1, <1>2, DoneKeeps DEF SameFuncs
<1>5. SameFuncs(L, Done(B))
  BY <1>2, <1>4 DEF SameFuncs
<1>6. Step(A, "msg").L = A /\ Step(Done(B), "no").L = Done(B)
  BY DEF Step
<1>7. Refused(L).L = A \/ Refused(L).L = Done(B)
  BY <1>3, <1>6
<1>8. QED
  BY <1>4, <1>5, <1>7

(* Results received move no function. *)
LEMMA ReceivedKeeps ==
  ASSUME NEW L, Frames(L), NEW nres \in Nat
  PROVE  SameFuncs(L, Received(L, nres).L)
<1> DEFINE G == lua_checkstack(L, nres + 1)
           x == nres + (IF Ci(L).fn = "wrap" THEN 0 ELSE 1)
           H == [G EXCEPT !.top = @ + nres + (IF Ci(L).fn = "wrap" THEN 0 ELSE 1)]
<1>1. L \in ThreadType /\ "ci" \in DOMAIN L
  BY DEF Frames, ThreadType
<1>2. Roomier(L, G)
  BY RoomMade
<1>3. Frames(G) /\ SameFuncs(L, G)
  BY <1>2, RoomierKeeps DEF Roomier
<1>4. G \in ThreadType /\ G.ci \in Seq(Call) /\ G.ci # <<>> /\ "ci" \in DOMAIN G
  BY <1>3, FieldTypes DEF Frames, ThreadType
<1>5. Received(L, nres) = IF ~MayPush(L, nres + 1) THEN luaG_runerror(L) ELSE Step(Done(H), "no")
  BY DEF Received
<1> HIDE DEF G
<1>6. H.ci = G.ci /\ "ci" \in DOMAIN H
  BY <1>4
<1> HIDE DEF H
<1>7. SameFuncs(H, Done(H))
  BY <1>4, <1>6, DoneKeeps
<1>8. SameFuncs(L, Done(H))
  BY <1>3, <1>6, <1>7 DEF SameFuncs
<1>9. luaG_runerror(L).L.ci = L.ci
  BY <1>1, PushKeeps
<1>10. SameFuncs(L, luaG_runerror(L).L)
  BY <1>9 DEF SameFuncs
<1>11. Step(Done(H), "no").L = Done(H)
  BY DEF Step
<1>12. Received(L, nres).L = luaG_runerror(L).L \/ Received(L, nres).L = Done(H)
  BY <1>5, <1>11
<1>13. QED
  BY <1>8, <1>10, <1>12


(* A step of the running thread concerns that thread. *)
LEMMA GoBased ==
  ASSUME ThreadInv, Startable, run # <<>>, NEW r, Go(r), Based(r.L)
  PROVE  Startable'
<1>1. t \in Thread /\ t = run[Len(run)] /\ Len(run) \in Nat \ {0} /\ th \in [Thread -> ThreadType]
  BY RunningThread DEF ThreadInv, Types
<1>2. th'[t] = r.L /\ run' = run /\ \A co \in Thread : co # t => th'[co] = th[co]
  BY <1>1 DEF Go
<1>3. InRun(t) /\ \A co : InRun(co)' <=> InRun(co)
  BY <1>1, <1>2 DEF InRun
<1>4. QED
  BY <1>2, <1>3 DEF Startable

(* A call, or no call, in the running thread. *)
LEMMA GoStartable ==
  ASSUME ThreadInv, Startable, run # <<>>, err # "outside", NEW r, Go(r), OneMore(L0, r.L) \/ SameFuncs(L0, r.L)
  PROVE  Startable'
<1>1. t \in Thread /\ L0 = th[t] /\ Frames(L0) /\ Begun(L0)
  BY RunningThread DEF Settled, Troubled
<1>2. L0 \in ThreadType /\ 2 <= Len(L0.ci) /\ Based(L0) /\ Len(L0.ci) \in Nat
  BY <1>1, FieldTypes DEF Startable, Begun, Frames
<1>3. Based(r.L)
  BY <1>2, BasedOneMore, BasedSame
<1>4. QED
  BY <1>3, GoBased

(* The steps that call or fail. *)
LEMMA CallsStartable ==
  ASSUME ThreadInv, Startable,
         \/ \E pr \in prog.protos :
              \/ \E f \in Callee : OP_CALL(f, pr) \/ lua_call(f, pr)
              \/ \E f \in Callee, ef \in {"none", "fn", "bad"} : luaB_pcall(f, pr, ef)
              \/ callTMres(pr)
              \/ luaG_errormsg(pr)
         \/ luaB_error
  PROVE  Startable'
<1>1. run # <<>> /\ err # "outside"
  BY ErrRuns DEF OP_CALL, lua_call, luaB_pcall, callTMres, luaG_errormsg, luaB_error, In, Running
<1>2. L0 \in ThreadType
  BY <1>1, RunningThread DEF Frames
<1>3. "ci" \in DOMAIN L0
  BY <1>2 DEF ThreadType
<1>4. ASSUME NEW pr, NEW f, OP_CALL(f, pr) PROVE Startable'
  <2> DEFINE r == luaD_precall(L0, f[1], FALSE, pr, OnStack(f))
  <2>1. Go(r)
    BY <1>4 DEF OP_CALL
  <2>2. OneMore(L0, r.L)
    BY <1>3, PrecallKeeps
  <2> HIDE DEF r
  <2>3. QED
    BY <1>1, <2>1, <2>2, GoStartable
<1>5. ASSUME NEW L, L.ci = L0.ci, "ci" \in DOMAIN L, NEW fn, NEW pr, NEW n, Go(luaD_call(L, fn, pr, n))
      PROVE  Startable'
  <2> DEFINE r == luaD_call(L, fn, pr, n)
  <2>1. OneMore(L, r.L)
    BY <1>5, CallKeeps
  <2> HIDE DEF r
  <2>2. OneMore(L0, r.L)
    BY <1>5, <2>1 DEF OneMore
  <2>3. Go(r)
    BY <1>5 DEF r
  <2>4. QED
    BY <1>1, <2>2, <2>3, GoStartable
<1>6. ASSUME NEW pr, NEW f, lua_call(f, pr) PROVE Startable'
  <2> DEFINE L == [L0 EXCEPT !.top = @ + 1 + OnStack(f)]
  <2>1. L.ci = L0.ci /\ "ci" \in DOMAIN L
    BY <1>3
  <2>2. Go(luaD_call(L, f[1], pr, OnStack(f)))
    BY <1>6 DEF lua_call
  <2> HIDE DEF L
  <2>3. QED
    BY <1>5, <2>1, <2>2
<1>7. ASSUME NEW pr, NEW f, NEW ef, luaB_pcall(f, pr, ef) PROVE Startable'
  <2> DEFINE L == [L0 EXCEPT !.jmp = Append(@, Protected(L0)), !.errfunc = ef]
  <2>1. L.ci = L0.ci /\ "ci" \in DOMAIN L
    BY <1>3
  <2>2. Go(luaD_call(L, f[1], pr, 0))
    BY <1>7 DEF luaB_pcall
  <2> HIDE DEF L
  <2>3. QED
    BY <1>5, <2>1, <2>2
<1>8. ASSUME NEW pr, callTMres(pr) PROVE Startable'
  <2> DEFINE L == Push(L0, 3)
  <2>1. L.ci = L0.ci /\ "ci" \in DOMAIN L
    BY <1>3, PushKeeps
  <2>2. Go(luaD_call(L, "lua", pr, 2)) \/ Go(Step(L0, "outside"))
    BY <1>8 DEF callTMres
  <2> HIDE DEF L
  <2>3. CASE Go(luaD_call(L, "lua", pr, 2))
    BY <1>5, <2>1, <2>3
  <2>4. CASE Go(Step(L0, "outside"))
    <3>1. Step(L0, "outside").L = L0
      BY DEF Step
    <3>2. QED
      BY <1>1, <2>4, <3>1, GoStartable DEF OneMore
  <2>5. QED
    BY <2>2, <2>3, <2>4
<1>9. ASSUME NEW pr, luaG_errormsg(pr) PROVE Startable'
  <2> DEFINE L == Push(L0, 1)
             p == L0.errfunc = "none"
             q == L0.errfunc = "bad"
             a == Step(L0, "errrun")
             b == Step(L0, "errerr")
             c == luaD_call(L, "errfn", pr, 1)
             o == Step(L0, "outside")
             d == IF Beyond(L0, 1) THEN o ELSE c
  <2>1. L.ci = L0.ci /\ "ci" \in DOMAIN L
    BY <1>3, PushKeeps
  <2>2. a.L = L0 /\ b.L = L0 /\ o.L = L0
    BY DEF Step
  <2>3. Go(CASE p -> a [] q -> b [] OTHER -> d)
    BY <1>9 DEF luaG_errormsg
  <2> HIDE DEF L, p, q, a, b, c, o
  <2>4. (CASE p -> a [] q -> b [] OTHER -> d) \in {a, b, c, o}
    OBVIOUS
  <2>5. Go(a) \/ Go(b) \/ Go(o) \/ Go(c)
    BY <2>3, <2>4
  <2>6. CASE Go(a) \/ Go(b) \/ Go(o)
    BY <1>1, <2>2, <2>6, GoStartable DEF OneMore
  <2>7. CASE Go(c)
    BY <1>5, <2>1, <2>7 DEF c
  <2>8. QED
    BY <2>5, <2>6, <2>7
<1>10. CASE luaB_error
  <2> DEFINE r == luaG_runerror(L0)
  <2>1. Go(r) /\ OneMore(L0, r.L)
    BY <1>3, <1>10, PushKeeps DEF luaB_error, OneMore
  <2> HIDE DEF r
  <2>2. QED
    BY <1>1, <2>1, GoStartable
<1>11. QED
  BY <1>4, <1>6, <1>7, <1>8, <1>9, <1>10

(* A return in the running thread. *)
LEMMA ReturnStartable ==
  ASSUME ThreadInv, Startable, NEW nres \in 0 .. prog.values, Return(nres)
  PROVE  Startable'
<1> DEFINE H == Ready(L0, nres)
           G == luaD_poscall(H, nres)
           A == adjustresults(G)
           V == [A EXCEPT !.errfunc = Last(A.jmp).errfunc, !.jmp = Front(@)]
           U == [V EXCEPT !.top = IF Ci(V).fn = "pcall" THEN @ + 1 ELSE @]
           x == Step(G, "errrun")
           y == Step(Unprotect(A), "no")
           w == Step(A, "no")
           z == Step(G, "no")
           n == Len(L0.ci)
<1>1. run # <<>> /\ err = "no" /\ n > 2 /\ (Go(x) \/ Go(y) \/ Go(w) \/ Go(z))
  BY DEF Return, In, Running, Returned, Ready
<1>2. t \in Thread /\ L0 = th[t] /\ Frames(L0) /\ L0 \in ThreadType /\ Live(L0) /\ Based(L0)
  BY <1>1, RunningThread DEF Frames, Startable
<1>3. /\ n \in Nat /\ n \in 1 .. n /\ L0.nCcalls \in Nat /\ L0.baseCcalls \in Nat /\ L0.ci[n].func \in Nat
      /\ CCalls(L0, n) \in Nat
  <2>1. n \in Nat /\ L0.nCcalls \in Nat /\ L0.baseCcalls \in Nat
    BY <1>2, FieldTypes
  <2>2. n \in 1 .. n
    BY <1>1, <2>1
  <2>3. QED
    BY <1>2, <2>1, <2>2, CallTypes, CCallsNat
<1>4. nres \in Nat
  <2>1. prog.values \in 0 .. MaxValues /\ MaxValues \in Nat
    BY LimitsAssumption DEF ThreadInv, Types, Programs
  <2>2. QED
    BY <2>1
<1>5. Resized(L0, H) /\ Frames(H) /\ L0.ci[n].func + nres + 1 <= Limit(H) /\ Limit(H) \in Int
  BY <1>2, <1>4, ReturnRoom, LimitOK DEF Frames
<1>6. H.ci = L0.ci /\ H.nCcalls = L0.nCcalls
  BY <1>5 DEF Resized
<1> HIDE DEF H
<1>7. Popped(H, G)
  <2>1. Level(L0.ci[n].c) <= L0.nCcalls
    BY <1>2, <1>3 DEF Live, Level
  <2> DEFINE a == L0.ci[n].func
  <2>2. a \in Nat /\ a + nres + 1 <= Limit(H)
    BY <1>3, <1>5
  <2> HIDE DEF a
  <2>3. a + nres <= Limit(H) /\ 2 <= n
    BY <1>1, <1>3, <1>4, <1>5, <2>2
  <2>4. QED
    BY <1>4, <1>5, <1>6, <2>1, <2>3, PoscallOK DEF a
<1>8. /\ Frames(G) /\ Len(G.ci) = n - 1 /\ G.ci[1] = L0.ci[1] /\ G.ci[2] = L0.ci[2] /\ 2 <= n
  <2>1. 1 \in 1 .. n - 1 /\ 2 \in 1 .. n - 1 /\ 2 <= n
    BY <1>1, <1>3
  <2>2. QED
    BY <1>6, <1>7, <2>1 DEF Popped
<1> HIDE DEF G
<1>9. Based(G)
  BY <1>2, <1>8 DEF Based
<1>10. Roomier(G, A)
  BY <1>8, AdjustOK
<1>11. Frames(A) /\ SameFuncs(G, A) /\ Len(G.ci) \in Nat
  BY <1>8, <1>10, RoomierKeeps, FieldTypes DEF Roomier, Frames
<1>12. A.ci \in Seq(Call) /\ A.ci # <<>> /\ "ci" \in DOMAIN A /\ Len(A.ci) \in Nat
  BY <1>11, FieldTypes DEF Frames, ThreadType
<1> HIDE DEF A
<1>13. Based(A)
  BY <1>9, <1>11, BasedSame
<1>14. Based(Unprotect(A))
  <2>1. V.ci = A.ci /\ "ci" \in DOMAIN V
    BY <1>12
  <2>2. Unprotect(A) = Done(U)
    BY DEF Unprotect, WithStatus
  <2> HIDE DEF V
  <2>3. U.ci = A.ci /\ "ci" \in DOMAIN U
    BY <2>1
  <2> HIDE DEF U
  <2>4. SameFuncs(U, Done(U))
    BY <1>12, <2>3, DoneKeeps
  <2>5. SameFuncs(A, Done(U))
    BY <2>3, <2>4 DEF SameFuncs
  <2>6. QED
    BY <1>12, <1>13, <2>2, <2>5, BasedSame
<1>15. x.L = G /\ y.L = Unprotect(A) /\ w.L = A /\ z.L = G
  BY DEF Step
<1> HIDE DEF x, y, z, w
<1>16. PICK r \in {x, y, z, w} : Go(r)
  BY <1>1
<1>17. Based(r.L)
  BY <1>9, <1>13, <1>14, <1>15
<1>18. QED
  BY <1>1, <1>16, <1>17, GoBased

(* A thread stops as G: its results fit in the thread that goes on.        *)
LEMMA BackStartable ==
  ASSUME RoomForResults, ThreadInv, Startable, run # <<>>, NEW G, NEW ok \in BOOLEAN, Back(G, ok),
         run' = Front(run), Frames(G), Based(G),
         G.status = "ok" => ok /\ lua_gettop(G) <= MaxValues
  PROVE  Startable'
<1>1. /\ Len(run) \in Nat \ {0} /\ t = run[Len(run)] /\ t \in Thread /\ L0 = th[t]
      /\ coro \in Thread /\ run[1] = coro
  BY RunningThread
<1>2. th \in [Thread -> ThreadType] /\ Chain /\ run \in Seq(Thread)
  BY DEF ThreadInv, Types
<1> DEFINE m == Len(run) - 1
<1>3. m \in Nat /\ Len(run) = m + 1
  BY <1>1
<1>4. Len(Front(run)) = m /\ \A i \in 1 .. m : Front(run)[i] = run[i]
  BY <1>1, <1>2, FrontOf
<1> HIDE DEF m
<1>5. ASSUME NEW co \in Thread, co # t, ~InRun(co)' PROVE ~InRun(co)
  <2>1. \A k \in 1 .. Len(run) : k \in 1 .. m \/ k = Len(run)
    BY <1>1, <1>3
  <2>2. QED
    BY <1>1, <1>4, <1>5, <2>1 DEF InRun
<1>6. CASE t = coro
  <2>1. th' = [th EXCEPT ![t] = G]
    BY <1>6 DEF Back
  <2>2. th'[t] = G /\ \A co \in Thread : co # t => th'[co] = th[co]
    BY <1>1, <1>2, <2>1
  <2>3. QED
    BY <1>5, <1>6, <2>2 DEF Startable
<1>7. CASE t # coro
  <2> DEFINE from == run[Len(run) - 1]
             nres == lua_gettop(G)
             r == IF ok THEN Received(th[from], nres) ELSE Refused(th[from])
             moved == IF ~ok THEN 1 ELSE IF r.err = "no" THEN nres ELSE 0
             H == [G EXCEPT !.top = G.top - moved]
  <2>1. th' = [th EXCEPT ![t] = H, ![from] = r.L]
    BY <1>7 DEF Back
  <2>2. m \in 1 .. Len(run) - 1 /\ m \in 1 .. m /\ from = run[m]
    BY <1>1, <1>3, <1>7
  <2>3. /\ from \in Thread /\ from # t /\ Frames(th[from]) /\ Live(th[from]) /\ Settled(th[from])
        /\ th[from].ci[Len(th[from].ci)].fn \in {"resume", "wrap"} /\ th[from].top <= th[from].base + 1
    BY <2>2, WaitingThread
  <2>4. nres \in Nat /\ G.base + nres = G.top /\ G.top \in Nat /\ G.base \in Nat
    <3>1. G.top \in Nat /\ G.base \in Nat /\ G.base <= G.top
      BY LastCall
    <3>2. QED
      BY <3>1 DEF lua_gettop
  <2>5. G.status = "ok" => ok /\ nres <= MaxValues
    OBVIOUS
  <2> HIDE DEF nres
  <2>6. SameFuncs(th[from], r.L)
    BY <2>3, <2>4, ReceivedKeeps, RefusedKeeps
  <2>7. Based(r.L)
    <3>1. Len(th[from].ci) \in Nat /\ Based(th[from])
      BY <2>3, FieldTypes DEF Frames, Startable
    <3> HIDE DEF r, from
    <3>2. QED
      BY <2>6, <3>1, BasedSame
  <2>8. G.status = "ok" => moved = nres
    <3> SUFFICES ASSUME G.status = "ok" PROVE moved = nres
      OBVIOUS
    <3> DEFINE F == th[from]
    <3>1. F.top \in Nat /\ F.base \in Nat /\ F.top <= F.base + 1 /\ LUAI_MAXCSTACK \in Nat /\ MaxValues \in Nat
      BY <2>3, LastCall, LimitsAssumption
    <3> HIDE DEF F
    <3>2. MayPush(F, nres + 1)
      BY <2>4, <2>5, <3>1 DEF MayPush, RoomForResults
    <3>3. Received(F, nres).err = "no"
      BY <2>3, <2>4, <3>2, ReceivedFine DEF F
    <3>4. r = Received(F, nres)
      BY <2>5 DEF F
    <3> HIDE DEF r
    <3>5. r.err = "no"
      BY <3>3, <3>4
    <3>6. QED
      BY <2>5, <3>5
  <2> HIDE DEF moved, r, from
  <2>9. H.status = G.status /\ H.base = G.base /\ H.ci = G.ci /\ H.top = G.top - moved
    BY DEF Frames, ThreadType
  <2>10. Based(H) /\ (H.status = "ok" => H.top <= H.base + 1)
    <3>1. Based(H)
      BY <2>9 DEF Based
    <3>2. H.status = "ok" => H.top = H.base
      BY <2>4, <2>8, <2>9
    <3>3. QED
      BY <2>4, <2>9, <3>1, <3>2
  <2> HIDE DEF H
  <2>11. th'[t] = H /\ th'[from] = r.L /\ \A co \in Thread : co # t /\ co # from => th'[co] = th[co]
    BY <1>1, <1>2, <2>1, <2>3
  <2>12. PICK x \in Thread : x = from
    BY <2>3
  <2>13. InRun(x)'
    <3>1. Len(run') = m /\ run'[m] = x
      BY <1>4, <2>2, <2>12 DEF from
    <3>2. QED
      BY <2>2, <3>1 DEF InRun
  <2>14. \A co \in Thread : Based(th'[co])
    BY <2>7, <2>10, <2>11 DEF Startable
  <2>15. ASSUME NEW co \in Thread \ {coro}, ~InRun(co)', th'[co].status = "ok"
         PROVE  th'[co].top <= th'[co].base + 1
    <3>1. co # from
      BY <2>12, <2>13, <2>15
    <3>2. CASE co = t
      BY <2>10, <2>11, <2>15, <3>2
    <3>3. CASE co # t
      BY <1>5, <2>11, <2>15, <3>1, <3>3 DEF Startable
    <3>4. QED
      BY <3>2, <3>3
  <2>16. QED
    BY <2>14, <2>15 DEF Startable
<1>8. QED
  BY <1>6, <1>7

(* The running thread stops: by an error, a yield or its end. *)
LEMMA StopsStartable ==
  ASSUME RoomForResults, ThreadInv, Startable,
         luaD_throw \/ lua_yield \/ \E n \in 0 .. prog.values : EndThread(n)
  PROVE  Startable'
<1>1. run # <<>> /\ err # "outside"
  BY ErrRuns DEF luaD_throw, lua_yield, EndThread, In, Running
<1>2. /\ t \in Thread /\ L0 = th[t] /\ Frames(L0) /\ Live(L0) /\ Begun(L0) /\ (err = "no" => Settled(L0))
      /\ L0 \in ThreadType /\ Based(L0)
  BY <1>1, RunningThread DEF Frames, Startable, Settled, Troubled
<1>3. "ci" \in DOMAIN L0 /\ L0.ci \in Seq(Call) /\ Len(L0.ci) \in Nat /\ 2 <= Len(L0.ci)
  BY <1>2, FieldTypes DEF ThreadType, Begun
<1>4. CASE luaD_throw
  <2>1. err \in {"errrun", "errerr"}
    BY <1>4 DEF luaD_throw
  <2>2. CASE Last(L0.jmp).by = "pcall"
    <3> DEFINE G == CatchError(L0)
               j == Last(L0.jmp)
    <3>1. SubSeq(G.ci, 1, j.ci - 1) = SubSeq(L0.ci, 1, j.ci - 1) /\ Len(G.ci) = j.ci /\ Frames(G)
      BY <1>2, <2>2, CatchFine DEF Fine, Step
    <3>2. G.ci \in Seq(Call) /\ Len(G.ci) \in Nat
      BY <3>1, FieldTypes DEF Frames
    <3>3. Go(Step(G, "no"))
      BY <1>4, <2>2 DEF luaD_throw
    <3>4. Handlers(L0) /\ L0.ci[2].fn = "lua" /\ L0.jmp \in Seq(Handler) /\ L0.jmp # <<>>
      BY <1>2, FieldTypes DEF Live, Handlers, Begun
    <3> DEFINE k == Len(L0.jmp)
    <3>5. k \in Nat /\ k >= 1 /\ j = L0.jmp[k]
      BY <3>4 DEF Last
    <3>6. k # 1
      BY <2>2, <3>4, <3>5 DEF Handlers
    <3>7. k \in 2 .. k
      <4> HIDE DEF k
      <4>1. QED
        BY <3>5, <3>6
    <3>8. j.ci \in 2 .. Len(L0.ci) /\ L0.ci[j.ci].fn \in PCall
      BY <3>4, <3>5, <3>7 DEF Handlers, HandlerOK
    <3> HIDE DEF G, j, k
    <3>9. j.ci # 2
      BY <3>4, <3>8 DEF PCall
    <3>10. j.ci \in Nat /\ 2 <= j.ci - 1 /\ j.ci - 1 \in Nat /\ j.ci - 1 <= Len(L0.ci) /\ j.ci - 1 <= Len(G.ci)
      BY <1>3, <3>1, <3>8, <3>9
    <3>11. G.ci[1] = L0.ci[1] /\ G.ci[2] = L0.ci[2]
      <4> DEFINE e == j.ci - 1
      <4>1. e \in Nat /\ 2 <= e /\ e <= Len(L0.ci) /\ e <= Len(G.ci) /\ SubSeq(G.ci, 1, e) = SubSeq(L0.ci, 1, e)
        BY <3>1, <3>10
      <4> HIDE DEF e
      <4>2. 1 \in 1 .. e /\ 2 \in 1 .. e
        BY <4>1
      <4>3. \A i \in 1 .. e : SubSeq(G.ci, 1, e)[i] = G.ci[i] /\ SubSeq(L0.ci, 1, e)[i] = L0.ci[i]
        BY <1>3, <3>2, <4>1, PrefixOf
      <4>4. QED
        BY <4>1, <4>2, <4>3
    <3>12. Based(G)
      BY <1>2, <1>3, <3>11 DEF Based
    <3>13. Step(G, "no").L = G
      BY DEF Step
    <3>14. QED
      BY <1>1, <3>3, <3>12, <3>13, GoBased
  <2>3. CASE Last(L0.jmp).by # "pcall" /\ Beyond(L0, 1)
    <3> DEFINE r == Step(L0, "outside")
    <3>1. Go(r) /\ r.L = L0
      BY <1>4, <2>3 DEF luaD_throw, Step
    <3> HIDE DEF r
    <3>2. QED
      BY <1>1, <1>2, <3>1, GoBased
  <2>4. CASE Last(L0.jmp).by # "pcall" /\ ~Beyond(L0, 1)
    <3> DEFINE G == Killed(L0, err)
               no == FALSE
    <3>1. Back(G, no) /\ run' = Front(run)
      BY <1>4, <2>4 DEF luaD_throw
    <3>2. L0.status = "ok" /\ 1 <= L0.nCcalls
      <4>1. /\ L0.status = "ok" /\ L0.nCcalls \in Nat /\ L0.baseCcalls \in Nat
            /\ L0.baseCcalls >= 1 /\ L0.nCcalls >= L0.baseCcalls + CCalls(L0, Len(L0.ci))
        BY <1>2, FieldTypes DEF Live
      <4>2. QED
        BY <1>3, <4>1, CCallsNat
    <3>3. Frames(G) /\ G.status = err /\ SameFuncs(L0, G)
      BY <1>2, <2>1, <2>4, <3>2, KilledOK DEF SameFuncs
    <3> HIDE DEF G
    <3>4. Based(G) /\ G.status # "ok" /\ no \in BOOLEAN
      BY <1>2, <1>3, <2>1, <3>3, BasedSame
    <3> HIDE DEF no
    <3>5. QED
      BY <1>1, <3>1, <3>3, <3>4, BackStartable
  <2>5. QED
    BY <2>2, <2>3, <2>4
<1>5. CASE lua_yield
  <2>1. err = "no" /\ Ci(L0).fn = "yield"
    BY <1>5 DEF lua_yield, In, Running
  <2>2. CASE L0.nCcalls > L0.baseCcalls
    <3> DEFINE r == luaG_runerror(L0)
    <3>1. Go(r) /\ OneMore(L0, r.L)
      BY <1>3, <1>5, <2>2, PushKeeps DEF lua_yield, OneMore
    <3> HIDE DEF r
    <3>2. QED
      BY <1>1, <3>1, GoStartable
  <2>3. CASE ~(L0.nCcalls > L0.baseCcalls)
    <3> DEFINE G == Suspended([L0 EXCEPT !.status = "yield", !.base = L0.top - lua_gettop(L0)])
    <3>1. Back(G, TRUE) /\ run' = Front(run)
      BY <1>5, <2>3 DEF lua_yield
    <3>2. Frames(G) /\ G.status = "yield" /\ G.ci = L0.ci
      BY <1>2, <2>1, <2>3, YieldedOK
    <3> HIDE DEF G
    <3>3. Based(G) /\ G.status # "ok"
      BY <1>2, <3>2 DEF Based
    <3>4. QED
      BY <1>1, <3>1, <3>2, <3>3, BackStartable
  <2>4. QED
    BY <2>2, <2>3
<1>6. ASSUME NEW nres \in 0 .. prog.values, EndThread(nres) PROVE Startable'
  <2> DEFINE B == Ready(L0, nres)
             G == Suspended(luaD_poscall(B, nres))
  <2>1. Ci(L0).fn = "lua" /\ Len(L0.ci) = 2 /\ nres \in Nat /\ nres <= MaxValues
    <3>1. prog.values \in 0 .. MaxValues /\ MaxValues \in Nat
      BY LimitsAssumption DEF ThreadInv, Types, Programs
    <3>2. nres \in Nat /\ nres <= MaxValues
      BY <3>1
    <3>3. QED
      BY <1>6, <3>2 DEF EndThread, In
  <2>2. Back(G, TRUE) /\ run' = Front(run)
    BY <1>6 DEF EndThread, Returned, Ready
  <2>3. /\ Frames(G) /\ G.status = "ok" /\ Len(G.ci) = 1 /\ G.top = L0.ci[2].func + nres
        /\ G.base = L0.ci[1].base
    BY <1>2, <2>1, EndedOK
  <2> HIDE DEF G
  <2>4. Based(G)
    BY <2>3 DEF Based
  <2>5. lua_gettop(G) <= MaxValues
    <3>1. L0.ci[2].func = L0.ci[1].base /\ L0.ci[1].base \in Nat
      BY <1>2, <1>3, CallTypes DEF Based
    <3> DEFINE b == L0.ci[1].base
    <3>2. b \in Nat /\ G.top = b + nres /\ G.base = b /\ MaxValues \in Nat
      BY <2>3, <3>1, LimitsAssumption
    <3> HIDE DEF b
    <3>3. QED
      BY <2>1, <3>2 DEF lua_gettop
  <2>6. QED
    BY <1>1, <2>2, <2>3, <2>4, <2>5, BackStartable
<1>7. QED
  BY <1>4, <1>5, <1>6

(* The same threads run, and those that do not hold no more than before.   *)
LEMMA KeptStartable ==
  ASSUME Startable, run' = run,
         \A co \in Thread : Based(th'[co]),
         \A co \in Thread \ {coro} : ~InRun(co) /\ th'[co].status = "ok" =>
           \/ th'[co].top <= th'[co].base + 1
           \/ th[co].status = "ok" /\ th'[co].top = th[co].top /\ th'[co].base = th[co].base
  PROVE  Startable'
<1>1. \A co : InRun(co)' <=> InRun(co)
  BY DEF InRun
<1>2. QED
  BY <1>1 DEF Startable

(* The end of a C function leaves the coroutine its function. *)
LEMMA DoneBased ==
  ASSUME NEW L, Frames(L), Based(L)
  PROVE  Based(Done(L))
<1>1. L.ci \in Seq(Call) /\ Len(L.ci) \in Nat /\ L.ci # <<>> /\ "ci" \in DOMAIN L
  BY FieldTypes DEF Frames, ThreadType
<1>2. QED
  BY <1>1, DoneKeeps, BasedSame

(* What is done to other threads, but for resuming them. *)
LEMMA OthersStartable ==
  ASSUME ThreadInv, Startable,
         os_queueEvent \/ \E co \in Thread : luaB_cocreate(co) \/ Collect(co) \/ traversestack(co)
  PROVE  Startable'
<1>1. run # <<>> /\ run' = run /\ th \in [Thread -> ThreadType]
  BY DEF os_queueEvent, luaB_cocreate, Collect, traversestack, In, Running, ThreadInv, Types
<1>2. Frames(L0) /\ Live(L0) /\ L0 = th[t] /\ t \in Thread /\ InRun(t) /\ Based(L0)
  BY <1>1, RunningThread, RunThreads DEF Startable
<1>3. CASE os_queueEvent
  <2> DEFINE G == [L0 EXCEPT !.top = L0.base + 1]
  <2>1. th' = [th EXCEPT ![t] = Done(G)]
    BY <1>1, <1>2, <1>3 DEF os_queueEvent
  <2>2. L0.ci \in Seq(Call) /\ Len(L0.ci) \in Nat /\ L0.ci # <<>> /\ "ci" \in DOMAIN L0
    BY <1>2, FieldTypes DEF Frames, ThreadType
  <2>3. G.ci = L0.ci /\ "ci" \in DOMAIN G
    BY <2>2
  <2> HIDE DEF G
  <2>4. Based(Done(G))
    <3>1. Based(G) /\ SameFuncs(G, Done(G))
      BY <1>2, <2>2, <2>3, DoneKeeps DEF Based
    <3>2. QED
      BY <2>2, <2>3, <3>1, BasedSame
  <2>5. th'[t] = Done(G) /\ \A x \in Thread : x # t => th'[x] = th[x]
    BY <1>1, <1>2, <2>1
  <2>6. QED
    BY <1>1, <1>2, <2>4, <2>5, KeptStartable DEF Startable
<1>4. ASSUME NEW co \in Thread, luaB_cocreate(co) PROVE Startable'
  <2> DEFINE C == [NewThread EXCEPT !.top = 2]
  <2>1. th' = [th EXCEPT ![t] = Done(L0), ![co] = C]
    BY <1>1, <1>2, <1>4 DEF luaB_cocreate
  <2>2. Len(C.ci) = 1 /\ C.top = 2 /\ C.base = 1
    BY CreatedOK
  <2> HIDE DEF C
  <2>3. Based(C) /\ C.top <= C.base + 1
    BY <2>2 DEF Based
  <2>4. Based(Done(L0))
    BY <1>2, DoneBased
  <2>5. /\ th'[co] = C
        /\ \A x \in Thread : x # co => th'[x] = th[x] \/ (x = t /\ th'[x] = Done(L0))
    BY <1>1, <1>2, <2>1
  <2>6. QED
    BY <1>1, <1>2, <2>3, <2>4, <2>5, KeptStartable DEF Startable
<1>5. ASSUME NEW co \in Thread, Collect(co) PROVE Startable'
  <2>1. th' = [th EXCEPT ![co] = Free]
    BY <1>5 DEF Collect
  <2>2. Based(Free) /\ Free.status # "ok"
    BY FreeOK DEF Based
  <2>3. th'[co] = Free /\ \A x \in Thread : x # co => th'[x] = th[x]
    BY <1>1, <2>1
  <2>4. QED
    BY <1>1, <2>2, <2>3, KeptStartable DEF Startable
<1>6. ASSUME NEW co \in Thread, traversestack(co), ~(s_used(th[co]) >= th[co].stacksize) PROVE Startable'
  <2> DEFINE C == checkstacksizes(th[co])
  <2>1. th' = [th EXCEPT ![co] = C]
    BY <1>1, <1>6 DEF traversestack
  <2>2. Resized(th[co], C)
    BY ShrunkOK DEF ThreadInv
  <2>3. Based(C) /\ C.status = th[co].status /\ C.top = th[co].top /\ C.base = th[co].base
    BY <2>2 DEF Resized, Based, Startable
  <2> HIDE DEF C
  <2>4. th'[co] = C /\ \A x \in Thread : x # co => th'[x] = th[x]
    BY <1>1, <2>1
  <2>5. QED
    BY <1>1, <2>3, <2>4, KeptStartable DEF Startable
<1>7. ASSUME NEW co \in Thread, traversestack(co), s_used(th[co]) >= th[co].stacksize PROVE Startable'
  <2>1. th' = th
    BY <1>7 DEF traversestack
  <2>2. QED
    BY <1>1, <2>1, KeptStartable DEF Startable
<1>8. QED
  BY <1>3, <1>4, <1>5, <1>6, <1>7

(* A stopped thread set going begins with its function, or goes on.        *)
LEMMA GoingBased ==
  ASSUME NEW L, Frames(L), Dormant(L), Based(L),
         L.status = "yield" \/ (L.status = "ok" /\ L.top = L.base + 1),
         NEW k \in Nat, NEW m \in Nat, m < LUAI_MAXCCALLS, NEW p, ProtoOK(p),
         NEW C, Frames(C), Dormant(C), C.top = L.top + k, C.base = L.base, C.status = L.status,
         SameFuncs(L, C), C.nCcalls = m
  PROVE  Based(lua_resume(C, k, p).L)
<1> DEFINE r == lua_resume(C, k, p)
<1>1. L.top \in Nat /\ L.base \in Nat /\ Len(L.ci) \in Nat /\ 1 <= Len(L.ci) /\ Len(C.ci) = Len(L.ci)
  BY LastCall, FieldTypes DEF Frames, SameFuncs
<1>2. /\ r.L.ci[1] = C.ci[1]
      /\ L.status = "ok" /\ 2 <= Len(r.L.ci) => r.L.ci[2].func = L.top - 1
      /\ L.status = "yield" => r.L.ci[2] = C.ci[2]
  <2>1. L.status = "ok" => L.base + 1 <= L.top
    BY <1>1
  <2>2. QED
    BY <1>1, <2>1, SetGoing
<1> HIDE DEF r
<1>3. C.ci[1].base = L.ci[1].base /\ (2 <= Len(L.ci) => C.ci[2].func = L.ci[2].func)
  <2>1. 1 \in 1 .. Len(L.ci) /\ (2 <= Len(L.ci) => 2 \in 1 .. Len(L.ci))
    BY <1>1
  <2>2. QED
    BY <2>1 DEF SameFuncs
<1>4. CASE L.status = "ok"
  <2>1. Len(L.ci) = 1
    BY <1>4 DEF Dormant
  <2>2. L.base = L.ci[1].base
    BY <2>1 DEF Frames
  <2>3. L.top - 1 = L.base
    BY <1>1, <1>4
  <2>4. QED
    BY <1>2, <1>3, <1>4, <2>2, <2>3 DEF Based, r
<1>5. CASE L.status = "yield"
  <2>1. Len(L.ci) >= 3
    BY <1>5 DEF Dormant
  <2>2. L.ci[2].func = L.ci[1].base /\ 2 <= Len(L.ci)
    BY <1>1, <2>1 DEF Based
  <2>3. QED
    BY <1>2, <1>3, <1>5, <2>2 DEF Based, r
<1>6. QED
  BY <1>4, <1>5


(* The arguments a thread is resumed with. *)
LEMMA ArgsGiven ==
  ASSUME NEW L, Frames(L), Dormant(L), NEW k \in Nat
  PROVE  LET G == lua_checkstack(L, k)
             H == [G EXCEPT !.top = G.top + k]
         IN  /\ Frames(H) /\ Dormant(H) /\ H.top = L.top + k /\ H.base = L.base /\ H.status = L.status
             /\ SameFuncs(L, H) /\ H.nCcalls = L.nCcalls
<1> DEFINE G == lua_checkstack(L, k)
           H == [G EXCEPT !.top = G.top + k]
<1>1. /\ Frames(H) /\ Dormant(H) /\ H.top = L.top + k /\ H.base = L.base /\ H.status = L.status /\ H.nCcalls = L.nCcalls
  BY ArgumentsOK
<1>2. Roomier(L, G)
  BY RoomMade
<1>3. SameFuncs(L, G) /\ "ci" \in DOMAIN G
  BY <1>2, RoomierKeeps DEF Roomier, Frames, ThreadType
<1> HIDE DEF G
<1>4. H.ci = G.ci
  BY <1>3
<1> HIDE DEF H
<1>5. SameFuncs(L, H)
  BY <1>3, <1>4 DEF SameFuncs
<1>6. QED
  BY <1>1, <1>5 DEF H, G

(* A resume. *)
LEMMA ResumeStartable ==
  ASSUME ThreadInv, Startable, NEW p \in prog.protos, NEW co \in Thread, auxresume(co, p)
  PROVE  Startable'
<1> DEFINE narg == lua_gettop(L0) - (IF Ci(L0).fn = "resume" THEN 1 ELSE 0)
           M == th[co]
           G == lua_checkstack(M, narg)
           L1 == [L0 EXCEPT !.top = L0.top - narg]
           C1 == [[G EXCEPT !.top = G.top + narg] EXCEPT !.nCcalls = L0.nCcalls]
           r == lua_resume(C1, narg, p)
           E == [C1 EXCEPT !.top = Ci(C1).base]
           f == Refused(IF co = t THEN G ELSE L0)
           f1 == Refused(L1)
<1>1. run # <<>> /\ err = "no" /\ Ci(L0).fn \in {"resume", "wrap"}
  BY DEF auxresume, In, Running
<1>2. \/ Go(luaG_runerror(L0))
      \/ th' = [th EXCEPT ![co] = G, ![t] = f.L] /\ run' = run
      \/ costatus(t, co) = "suspended" /\ th' = [th EXCEPT ![co] = E, ![t] = f1.L] /\ run' = run
      \/ /\ costatus(t, co) = "suspended" /\ C1.nCcalls < LUAI_MAXCCALLS
         /\ th' = [th EXCEPT ![co] = r.L, ![t] = L1] /\ run' = Append(run, co)
  BY DEF auxresume, lua_setlevel, resume_error
<1>3. /\ Frames(L0) /\ Live(L0) /\ Settled(L0) /\ L0 = th[t] /\ t \in Thread /\ InRun(t) /\ Based(L0)
      /\ L0 \in ThreadType /\ th \in [Thread -> ThreadType] /\ run \in Seq(Thread)
  BY <1>1, RunningThread, RunThreads DEF Startable, Frames, ThreadInv, Types
<1>4. narg \in Nat /\ Frames(L1)
  BY <1>1, <1>3, ArgsTaken
<1>5. "ci" \in DOMAIN L0 /\ Len(L0.ci) \in Nat /\ L0.nCcalls \in Nat
  BY <1>3, FieldTypes DEF ThreadType
<1> HIDE DEF narg
<1>6. Frames(M) /\ Based(M) /\ Len(M.ci) \in Nat
  BY FieldTypes DEF ThreadInv, Startable, Frames
<1>7. CASE Go(luaG_runerror(L0))
  <2> DEFINE x == luaG_runerror(L0)
  <2>1. Go(x) /\ OneMore(L0, x.L)
    BY <1>5, <1>7, PushKeeps DEF OneMore
  <2> HIDE DEF x
  <2>2. QED
    BY <1>1, <2>1, GoStartable
<1>8. CASE th' = [th EXCEPT ![co] = G, ![t] = f.L] /\ run' = run
  <2>1. Roomier(M, G)
    BY <1>4, <1>6, RoomMade
  <2>2. /\ Frames(G) /\ SameFuncs(M, G) /\ G.status = M.status /\ G.top = M.top /\ G.base = M.base
        /\ Len(G.ci) \in Nat
    BY <1>6, <2>1, RoomierKeeps DEF Roomier, SameFuncs
  <2>3. Based(G)
    BY <1>6, <2>2, BasedSame
  <2>4. Based(f.L)
    <3> DEFINE x == IF co = t THEN G ELSE L0
    <3>1. Frames(x) /\ Based(x) /\ Len(x.ci) \in Nat
      BY <1>3, <1>5, <2>2, <2>3
    <3> HIDE DEF x
    <3>2. SameFuncs(x, Refused(x).L)
      BY <3>1, RefusedKeeps
    <3>3. Based(Refused(x).L)
      BY <3>1, <3>2, BasedSame
    <3>4. QED
      BY <3>3 DEF x
  <2> HIDE DEF f, G
  <2>5. th'[t] = f.L /\ \A x \in Thread : x # t => th'[x] = IF x = co THEN G ELSE th[x]
    BY <1>3, <1>8
  <2>6. QED
    BY <1>3, <1>8, <2>2, <2>3, <2>4, <2>5, KeptStartable DEF Startable
<1>9. ASSUME costatus(t, co) = "suspended"
      PROVE  /\ co # t /\ ~InRun(co) /\ co # coro /\ Dormant(M) /\ Frames(C1) /\ Dormant(C1)
             /\ C1.top = M.top + narg /\ C1.base = M.base /\ C1.status = M.status
             /\ SameFuncs(M, C1) /\ C1.nCcalls = L0.nCcalls
             /\ M.status = "yield" \/ (M.status = "ok" /\ M.top = M.base + 1)
  <2>1. /\ co # t /\ ~InRun(co) /\ co # coro /\ Dormant(M)
        /\ M.status = "yield" \/ (M.status = "ok" /\ M.base + 1 <= M.top)
    BY <1>1, <1>9, SuspendedThread
  <2>2. M.status = "ok" => M.top <= M.base + 1
    BY <2>1 DEF Startable
  <2> DEFINE m == L0.nCcalls
             B == [lua_checkstack(M, narg) EXCEPT !.top = lua_checkstack(M, narg).top + narg]
             D == [B EXCEPT !.nCcalls = m]
  <2>3. m \in Nat /\ D = C1 /\ M.top \in Nat /\ M.base \in Nat
    BY <1>5, <1>6, LastCall
  <2> HIDE DEF M, m, C1
  <2>4. /\ Frames(B) /\ Dormant(B) /\ B.top = M.top + narg /\ B.base = M.base /\ B.status = M.status
        /\ SameFuncs(M, B)
    BY <1>4, <1>6, <2>1, ArgsGiven
  <2> HIDE DEF B
  <2>5. /\ Frames(D) /\ Dormant(D) /\ D.nCcalls = m /\ D.top = B.top /\ D.status = B.status /\ D.base = B.base
        /\ D.ci = B.ci
    BY <2>3, <2>4, CountDormant
  <2> HIDE DEF D
  <2>6. SameFuncs(M, D)
    BY <2>4, <2>5 DEF SameFuncs
  <2>7. QED
    BY <2>1, <2>2, <2>3, <2>4, <2>5, <2>6 DEF m
<1> HIDE DEF C1
<1>10. L1.ci = L0.ci /\ SameFuncs(L0, L1) /\ Based(L1)
  <2>1. L1.ci = L0.ci
    BY <1>5
  <2>2. QED
    BY <1>3, <2>1 DEF SameFuncs, Based
<1>11. CASE costatus(t, co) = "suspended" /\ th' = [th EXCEPT ![co] = E, ![t] = f1.L] /\ run' = run
  <2>1. Based(C1) /\ C1 \in ThreadType /\ C1.base = Ci(C1).base /\ C1.base \in Nat
    BY <1>6, <1>9, <1>11, BasedSame, LastCall DEF Frames
  <2>2. E.ci = C1.ci /\ E.top = C1.base /\ E.base = C1.base
    BY <2>1 DEF ThreadType
  <2>3. Based(E) /\ E.top <= E.base + 1
    BY <2>1, <2>2 DEF Based
  <2>4. Based(f1.L)
    <3>1. SameFuncs(L1, f1.L) /\ Len(L1.ci) \in Nat
      BY <1>4, <1>5, <1>10, RefusedKeeps
    <3> HIDE DEF f1, L1
    <3>2. QED
      BY <1>10, <3>1, BasedSame
  <2> HIDE DEF E, f1, L1
  <2>5. th'[t] = f1.L /\ \A x \in Thread : x # t => th'[x] = IF x = co THEN E ELSE th[x]
    BY <1>3, <1>11
  <2>6. QED
    BY <1>3, <1>11, <2>3, <2>4, <2>5, KeptStartable DEF Startable
<1>12. CASE /\ costatus(t, co) = "suspended" /\ C1.nCcalls < LUAI_MAXCCALLS
            /\ th' = [th EXCEPT ![co] = r.L, ![t] = L1] /\ run' = Append(run, co)
  <2>1. Based(r.L)
    <3>1. ProtoOK(p) /\ L0.nCcalls < LUAI_MAXCCALLS
      BY <1>9, <1>12, ProtosOK
    <3> HIDE DEF M
    <3>2. QED
      BY <1>4, <1>5, <1>6, <1>9, <1>12, <3>1, GoingBased
  <2> HIDE DEF r, L1
  <2>2. co # t
    BY <1>9, <1>12
  <2>3. th'[co] = r.L /\ th'[t] = L1 /\ \A x \in Thread : x # t /\ x # co => th'[x] = th[x]
    BY <1>3, <1>12, <2>2
  <2>4. Len(run') = Len(run) + 1 /\ run'[Len(run) + 1] = co /\ \A k \in 1 .. Len(run) : run'[k] = run[k]
    BY <1>3, <1>12
  <2>5. InRun(co)' /\ \A x : InRun(x) => InRun(x)'
    <3>1. Len(run) \in Nat
      BY <1>3
    <3> DEFINE n == Len(run)
    <3>2. n \in Nat /\ n + 1 \in 1 .. n + 1 /\ \A k \in 1 .. n : k \in 1 .. n + 1
      BY <3>1
    <3>3. QED
      BY <2>4, <3>2 DEF InRun
  <2>6. QED
    BY <1>3, <1>10, <2>1, <2>3, <2>5 DEF Startable
<1>13. QED
  BY <1>2, <1>7, <1>8, <1>11, <1>12


(* main2 resumes coro: nothing else changes. *)
LEMMA HostStartable ==
  ASSUME ThreadInv, Startable,
         \/ \E p \in prog.protos : StartBios(p) \/ \E n \in 0 .. MaxValues : NextEvent(n, p)
         \/ FilterEvent
         \/ UNCHANGED vars
  PROVE  Startable'
<1>1. th \in [Thread -> ThreadType] /\ coro \in Thread
  BY LimitsAssumption DEF ThreadInv, Types
<1>2. ASSUME run = <<>>, NEW r, Based(r), th' = [th EXCEPT ![coro] = r], run' = <<coro>> PROVE Startable'
  <2>1. th'[coro] = r /\ \A co \in Thread : co # coro => th'[co] = th[co]
    BY <1>1, <1>2
  <2>2. \A co : ~InRun(co)
    BY <1>2 DEF InRun
  <2>3. QED
    BY <1>2, <2>1, <2>2 DEF Startable
<1>3. ASSUME NEW p \in prog.protos, StartBios(p) PROVE Startable'
  <2> DEFINE L == th[coro]
             r == lua_resume(L, 0, p)
  <2>1. run = <<>> /\ L = [NewThread EXCEPT !.top = 2] /\ th' = [th EXCEPT ![coro] = r.L] /\ run' = <<coro>>
    BY <1>3 DEF StartBios
  <2>2. /\ Frames(L) /\ Dormant(L) /\ L.status = "ok" /\ L.top = 2 /\ L.base = 1 /\ L.nCcalls = 0 /\ Len(L.ci) = 1
        /\ L.ci[1].base = 1
    BY <2>1, CreatedOK DEF Frames
  <2> HIDE DEF L
  <2>3. L.base + 0 + 1 <= L.top /\ L.nCcalls + 1 <= CLimit /\ ProtoOK(p) /\ 0 \in Nat
    <3>1. 1 <= CLimit
      BY LimitsAssumption DEF CLimit
    <3>2. QED
      BY <2>2, <3>1, ProtosOK
  <2>4. r.L.ci[1] = L.ci[1] /\ (2 <= Len(r.L.ci) => r.L.ci[2].func = (L.top - 0) - 1)
    BY <2>2, <2>3, ResumeFirst
  <2> HIDE DEF r
  <2>5. Based(r.L)
    BY <2>2, <2>4 DEF Based
  <2>6. QED
    BY <1>2, <2>1, <2>5 DEF L
<1>4. ASSUME NEW p \in prog.protos, NEW n \in 0 .. MaxValues, NextEvent(n, p) PROVE Startable'
  <2> DEFINE L == th[coro]
             k == n + 1
             G == lua_checkstack(L, k)
             H == [G EXCEPT !.top = G.top + k]
             may == MayPush(L, k)
             a == lua_resume(H, k, p)
             b == lua_resume(L, 0, p)
             r == IF may THEN a ELSE b
  <2>1. n \in Nat /\ k \in Nat /\ Frames(L) /\ Dormant(L) /\ run = <<>> /\ L.status = "yield" /\ L.nCcalls = 0 /\ Based(L)
    BY <1>1, <1>4, IdleCoro, LimitsAssumption DEF NextEvent, Startable
  <2>2. G.top \in Nat
    <3>1. Frames(G)
      BY <2>1, RoomMade DEF Roomier
    <3>2. QED
      BY <3>1, LastCall
  <2>3. th' = [th EXCEPT ![coro] = r.L] /\ run' = <<coro>>
    <3>1. G.top + n + 1 = G.top + k
      BY <2>1, <2>2
    <3>2. r = IF MayPush(L, k) THEN lua_resume([G EXCEPT !.top = @ + n + 1], n + 1, p) ELSE lua_resume(L, 0, p)
      BY <3>1
    <3> HIDE DEF r
    <3>3. QED
      BY <1>4, <3>2 DEF NextEvent
  <2>4. 0 \in Nat /\ 0 < LUAI_MAXCCALLS /\ L.status # "ok" /\ L.top \in Nat /\ L.top + 0 = L.top /\ ProtoOK(p)
    BY <2>1, LimitsAssumption, LastCall, ProtosOK
  <2> HIDE DEF L, k
  <2>5. Based(a.L)
    <3>1. /\ Frames(H) /\ Dormant(H) /\ H.top = L.top + k /\ H.base = L.base /\ H.status = L.status
          /\ SameFuncs(L, H) /\ H.nCcalls = L.nCcalls
      BY <2>1, ArgsGiven
    <3> HIDE DEF H
    <3>2. QED
      BY <2>1, <2>4, <3>1, GoingBased
  <2>6. Based(b.L)
    <3>1. SameFuncs(L, L)
      BY DEF SameFuncs
    <3>2. QED
      BY <2>1, <2>4, <3>1, GoingBased
  <2> HIDE DEF a, b, may
  <2>7. Based(r.L)
    BY <2>5, <2>6
  <2> HIDE DEF r
  <2>8. QED
    BY <1>2, <2>1, <2>3, <2>7
<1>5. CASE FilterEvent \/ UNCHANGED vars
  <2>1. th' = th /\ run' = run
    BY <1>5 DEF FilterEvent, vars
  <2>2. QED
    BY <2>1 DEF Startable, InRun
<1>6. QED
  BY <1>3, <1>4, <1>5

(* Nothing has begun. *)
LEMMA InitStartable ==
  ASSUME Init
  PROVE  Startable
<1>1. \A co \in Thread : th[co] = IF co = coro THEN [NewThread EXCEPT !.top = 2] ELSE Free
  BY DEF Init
<1>2. \A co \in Thread : Len(th[co].ci) = 1 /\ (co # coro => th[co].status = "free")
  BY <1>1, CreatedOK, FreeOK
<1>3. QED
  BY <1>2 DEF Startable, Based

(* Every step keeps what has not begun startable. *)
LEMMA NextStartable ==
  ASSUME RoomForResults, ThreadInv, Startable, [Next]_vars
  PROVE  Startable'
<1>1. CASE UNCHANGED vars
  BY <1>1, HostStartable
<1>2. CASE \E p \in prog.protos :
             \/ \E f \in Callee : OP_CALL(f, p) \/ lua_call(f, p)
             \/ \E f \in Callee, ef \in {"none", "fn", "bad"} : luaB_pcall(f, p, ef)
             \/ callTMres(p)
             \/ luaG_errormsg(p)
  BY <1>2, CallsStartable
<1>3. CASE luaB_error
  BY <1>3, CallsStartable
<1>4. CASE \E p \in prog.protos, co \in Thread : auxresume(co, p)
  BY <1>4, ResumeStartable
<1>5. CASE (\E p \in prog.protos : StartBios(p) \/ \E n \in 0 .. MaxValues : NextEvent(n, p)) \/ FilterEvent
  BY <1>5, HostStartable
<1>6. CASE luaD_throw \/ lua_yield \/ \E n \in 0 .. prog.values : EndThread(n)
  BY <1>6, StopsStartable
<1>7. CASE \E n \in 0 .. prog.values : Return(n)
  BY <1>7, ReturnStartable
<1>8. CASE os_queueEvent \/ \E co \in Thread : luaB_cocreate(co) \/ Collect(co) \/ traversestack(co)
  BY <1>8, OthersStartable
<1>9. QED
  BY <1>1, <1>2, <1>3, <1>4, <1>5, <1>6, <1>7, <1>8, Zenon DEF Next

(***************************************************************************)
(* coroutine.status tells the truth, as long as no coroutine returns more  *)
(* values than the thread that resumed it may take (see RoomForResults):   *)
(* a thread is "normal" exactly when it waits for one it resumed, and one  *)
(* that is "suspended" can be continued.                                   *)
(***************************************************************************)
THEOREM StatusIsHonest ==
  ASSUME RoomForResults
  PROVE  Spec => []StatusHonest
<1>1. Init => Startable
  BY InitStartable
<1>2. ThreadInv /\ Startable /\ [Next]_vars => Startable'
  BY NextStartable
<1>3. ThreadInv /\ Startable => StatusHonest
  <2> SUFFICES ASSUME ThreadInv, Startable, run # <<>>, NEW co \in Thread \ {t}, th[co].status # "free"
               PROVE  /\ costatus(t, co) = "normal" <=> co \in Range(run)
                      /\ costatus(t, co) = "suspended" =>
                           \/ Ci(th[co]).fn = "yield"
                           \/ Len(th[co].ci) = 1 /\ lua_gettop(th[co]) = 1
    BY DEF StatusHonest
  <2> DEFINE M == th[co]
  <2>1. run \in Seq(Thread) /\ DOMAIN run = 1 .. Len(run) /\ Frames(M) /\ run[1] = coro /\ Len(run) \in Nat \ {0}
    BY RunningThread DEF ThreadInv, Types
  <2>2. co \in Range(run) <=> InRun(co)
    BY <2>1 DEF Range, InRun
  <2>3. InRun(coro)
    <3>1. 1 \in 1 .. Len(run)
      BY <2>1
    <3>2. QED
      BY <2>1, <3>1 DEF InRun
  <2>4. /\ M.status = "yield" => costatus(t, co) = "suspended"
        /\ M.status = "ok" => costatus(t, co) = IF Len(M.ci) > 1 THEN "normal"
                                               ELSE IF lua_gettop(M) = 0 THEN "dead" ELSE "suspended"
        /\ M.status \notin {"yield", "ok"} => costatus(t, co) = "dead"
    BY DEF costatus
  <2>5. CASE InRun(co)
    <3>1. M.status = "ok" /\ Len(M.ci) >= 2 /\ Len(M.ci) \in Nat
      BY <2>1, <2>5, RunThreads, FieldTypes DEF Live, Frames, Waits, Settled, Begun
    <3>2. costatus(t, co) = "normal"
      BY <2>4, <3>1
    <3>3. QED
      BY <2>2, <2>5, <3>2
  <2>6. CASE ~InRun(co)
    <3>1. Dormant(M) /\ co # coro
      BY <2>3, <2>6 DEF ThreadInv
    <3>2. M.status = "yield" => Ci(M).fn = "yield"
      BY <2>1, <3>1, LastCall DEF Dormant
    <3>3. M.status = "ok" => /\ Len(M.ci) = 1 /\ ~(Len(M.ci) > 1)
                             /\ lua_gettop(M) = 0 \/ lua_gettop(M) = 1
      <4>1. M.status = "ok" => Len(M.ci) = 1 /\ M.top <= M.base + 1
        BY <2>6, <3>1 DEF Dormant, Startable
      <4>2. M.top \in Nat /\ M.base \in Nat /\ M.base <= M.top
        BY <2>1, LastCall
      <4> DEFINE x == M.top
                 y == M.base
      <4>3. x \in Nat /\ y \in Nat /\ y <= x /\ (M.status = "ok" => x <= y + 1) /\ lua_gettop(M) = x - y
        BY <4>1, <4>2 DEF lua_gettop
      <4> HIDE DEF x, y
      <4>4. M.status = "ok" => x - y = 0 \/ x - y = 1
        BY <4>3
      <4>5. M.status = "ok" => lua_gettop(M) = 0 \/ lua_gettop(M) = 1
        BY <4>3, <4>4, Zenon
      <4>6. M.status = "ok" => ~(Len(M.ci) > 1)
        <5> DEFINE c == Len(M.ci)
        <5>1. M.status = "ok" => c = 1
          BY <4>1
        <5> HIDE DEF c
        <5>2. M.status = "ok" => ~(c > 1)
          BY <5>1
        <5>3. QED
          BY <5>2 DEF c
      <4>7. QED
        BY <4>1, <4>5, <4>6, Zenon
    <3> HIDE DEF M
    <3>4. costatus(t, co) # "normal"
      BY <2>4, <3>3
    <3>5. costatus(t, co) = "suspended" => M.status = "yield" \/ (M.status = "ok" /\ lua_gettop(M) # 0)
      BY <2>4, <3>3
    <3>6. QED
      BY <2>2, <2>6, <3>2, <3>3, <3>4, <3>5 DEF M
  <2>7. QED
    BY <2>5, <2>6
<1>4. QED
  BY <1>1, <1>2, <1>3, ThreadsSound, PTL DEF Spec
=============================================================================

----------------------------- MODULE LuaThread -----------------------------
(***************************************************************************)
(* Calls, errors and coroutines of the Lua machine (lua/ldo.c, the         *)
(* coroutine library of lua/lbaselib.c, the stack functions of lua/lapi.c  *)
(* and lua/lstate.c) together with the host that resumes the main          *)
(* coroutine with events (main2 and getNextEvent).                         *)
(*                                                                         *)
(* A thread has a stack of values, of which only the sizes and positions   *)
(* are kept, and a stack of calls (ci).  A call's "c" says whether it was  *)
(* entered through luaD_call, that is, on a new level of the C stack, and  *)
(* its "fn" what runs in it:                                               *)
(*   base    the bottom of a thread       lua      a Lua function          *)
(*   c       a C function that may call back                               *)
(*   pcall, xpcall, create, resume, wrap, yield, queueEvent                *)
(*           a library function just entered                               *)
(*   ret     a C function that has only to return                          *)
(*   errfn   an error handler called by luaG_errormsg                      *)
(* An error is raised in steps, so that what runs in between is seen:      *)
(*   err = msg     luaG_errormsg is due                                    *)
(*   err = errrun, errerr    luaD_throw is due, with that code             *)
(*   err = outside    a value was written behind the end of the stack,     *)
(*                    after which nothing is said of the program.          *)
(* The code writes some values above the top before it makes room for      *)
(* them, which is what EXTRA_STACK is for.                                 *)
(***************************************************************************)
EXTENDS Integers, FiniteSets, Sequences, SequencesExt, FiniteSetsExt

CONSTANTS Thread,          \* the coroutines
          coro,            \* the one main2 runs bios.lua in
          LUAI_MAXCALLS, LUAI_MAXCCALLS, LUAI_MAXCSTACK,
          LUA_MINSTACK, BASIC_CI_SIZE, EXTRA_STACK,
          Proto,           \* the prototypes of Lua functions
          MaxValues,       \* bound on what one call, return, resume or yield passes
          MaxEvents,       \* bound on the events a program leaves waiting
          Program          \* what a program does, see Callee

VARIABLES th,       \* the state of every thread
          run,      \* the threads resumed in one another, the running one last
          err,      \* the error being raised in the running thread
          params,   \* how many arguments each event in paramQueue has
          prog      \* the program at hand (never changes)

vars == <<th, run, err, params, prog>>

BASIC_STACK_SIZE == 2 * LUA_MINSTACK

CallNames == {"c", "pcall", "xpcall", "create", "resume", "wrap", "yield", "queueEvent"}
Programs == [uses : SUBSET (CallNames \cup {"object", "value", "tm", "gc"}), protos : SUBSET Proto,
             threads : SUBSET Thread, values : 0 .. MaxValues]

\* Slots and parameters; "dots" is a vararg function, "arg" one that gets the
\* table arg as a parameter as well (VARARG_NEEDSARG)
Params(p) == IF p.is_vararg = "arg" THEN p.numparams + 1 ELSE p.numparams
Protos == [maxstacksize : Nat \ {0, 1}, numparams : Nat, is_vararg : {"no", "dots", "arg"}]

ASSUME LimitsAssumption ==
  /\ coro \in Thread
  /\ LUAI_MAXCALLS \in Nat /\ LUAI_MAXCCALLS \in Nat \ {0} /\ LUAI_MAXCSTACK \in Nat
  /\ LUA_MINSTACK \in Nat \ {0, 1, 2} /\ EXTRA_STACK \in Nat \ {0}
  /\ BASIC_CI_SIZE \in Nat \ {0, 1}
  /\ Program \subseteq Programs
  /\ Proto \subseteq {p \in Protos : Params(p) <= p.maxstacksize}
  /\ MaxValues \in Nat /\ MaxEvents \in Nat
-----------------------------------------------------------------------------
(* The two stacks of a thread *)

\* stack_init and preinit_state: a new thread
NewThread ==
  [status |-> "ok", top |-> 1, base |-> 1,
   ci |-> <<[fn |-> "base", c |-> FALSE, func |-> 0, base |-> 1, top |-> 1 + LUA_MINSTACK]>>,
   stacksize |-> BASIC_STACK_SIZE + EXTRA_STACK, size_ci |-> BASIC_CI_SIZE,
   nCcalls |-> 0, baseCcalls |-> 0, errfunc |-> "none", jmp |-> <<>>]

\* A thread that does not exist
Free == [NewThread EXCEPT !.status = "free"]

StackLast(L) == L.stacksize - EXTRA_STACK - 1

Ci(L) == Last(L.ci)

luaD_reallocstack(L, newsize) == [L EXCEPT !.stacksize = newsize + 1 + EXTRA_STACK]

luaD_growstack(L, n) ==
  IF n <= L.stacksize THEN luaD_reallocstack(L, 2 * L.stacksize)
                      ELSE luaD_reallocstack(L, L.stacksize + n)

luaD_checkstack(L, n) ==
  IF StackLast(L) - L.top <= n THEN luaD_growstack(L, n) ELSE L

Push(L, n) == [luaD_checkstack(L, n) EXCEPT !.top = @ + n]

\* n values above the top do not fit the stack
Beyond(L, n) == L.top + n > L.stacksize

\* lua_checkstack: the thread with room for size values in the current call
lua_checkstack(L, size) ==
  IF size = 0 THEN L
  ELSE [luaD_checkstack(L, size) EXCEPT !.ci[Len(L.ci)].top = Max({@, L.top + size})]

MayPush(L, size) == L.top - L.base + size <= LUAI_MAXCSTACK

lua_gettop(L) == L.top - L.base

restore_stack_limit(L) ==
  IF L.size_ci > LUAI_MAXCALLS /\ Len(L.ci) < LUAI_MAXCALLS
  THEN [L EXCEPT !.size_ci = LUAI_MAXCALLS]
  ELSE L

\* The highest slot any call of a thread may use (lim in traversestack)
s_used(L) == Max({L.top} \cup {L.ci[i].top : i \in DOMAIN L.ci})

\* checkstacksizes, as the collector calls it for a thread
checkstacksizes(L) ==
  LET ci_used == Len(L.ci) - 1
      small == IF 4 * ci_used < L.size_ci /\ 2 * BASIC_CI_SIZE < L.size_ci
               THEN [L EXCEPT !.size_ci = @ \div 2] ELSE L
  IN IF L.size_ci > LUAI_MAXCALLS THEN L
     ELSE IF /\ 4 * s_used(L) < L.stacksize
             /\ 2 * (BASIC_STACK_SIZE + EXTRA_STACK) < L.stacksize
          THEN luaD_reallocstack(small, L.stacksize \div 2)
          ELSE small
-----------------------------------------------------------------------------
(* Calls.  A step of a call gives the thread and the error it ends with.   *)

Step(L, e) == [L |-> L, err |-> e]

\* luaG_runerror pushes the message
luaG_runerror(L) == IF Beyond(L, 1) THEN Step(L, "outside") ELSE Step(Push(L, 1), "msg")

\* growCI and the rest of inc_ci: a new entry for the call f
inc_ci(L, f) ==
  CASE Len(L.ci) < L.size_ci -> Step([L EXCEPT !.ci = Append(@, f)], "no")
    [] Len(L.ci) = L.size_ci /\ L.size_ci > LUAI_MAXCALLS -> Step(L, "errerr")
    [] OTHER -> LET G == [L EXCEPT !.size_ci = 2 * @]
                IN IF G.size_ci > LUAI_MAXCALLS THEN luaG_runerror(G)
                   ELSE Step([G EXCEPT !.ci = Append(@, f)], "no")

\* luaD_precall of a Lua function fn with the prototype p, already on the stack
\* with nargs arguments.  A vararg function (adjust_varargs) gets its parameters
\* above them, after a nil for each that is missing: only with a table arg is
\* there a second luaD_checkstack that knows of those.
CallLua(L, fn, c, p, nargs) ==
  LET func == L.top - nargs - 1
      miss == IF p.is_vararg # "no" /\ nargs < p.numparams THEN p.numparams - nargs ELSE 0
      base == IF p.is_vararg = "no" THEN func + 1 ELSE L.top + miss
      ctop == base + p.maxstacksize
      last == base + Params(p)
      G == luaD_checkstack(L, p.maxstacksize)
      H == IF p.is_vararg = "arg" THEN luaD_checkstack([G EXCEPT !.top = @ + miss], p.maxstacksize) ELSE G
      A == [H EXCEPT !.top = IF p.is_vararg = "no" /\ L.top <= last THEN L.top ELSE last]
      r == inc_ci(A, [fn |-> fn, c |-> c, func |-> func, base |-> base, top |-> ctop])
  IN IF Beyond(A, 0) THEN Step(G, "outside")
     ELSE IF r.err # "no" THEN r
     ELSE IF ctop > A.stacksize THEN Step(G, "outside")
     ELSE Step([r.L EXCEPT !.base = base, !.top = ctop], "no")

\* ... and of a C function, which gets LUA_MINSTACK slots above its arguments
CallC(L, fn, c, nargs) ==
  LET func == L.top - nargs - 1
      r == inc_ci(luaD_checkstack(L, LUA_MINSTACK),
                  [fn |-> fn, c |-> c, func |-> func, base |-> func + 1, top |-> L.top + LUA_MINSTACK])
  IN IF r.err # "no" THEN r ELSE Step([r.L EXCEPT !.base = func + 1], "no")

\* What is called may be no function: tryfuncTM finds an object's method (a Lua
\* function), which gets the object as first argument, or raises an error
luaD_precall(L, fn, c, p, nargs) ==
  CASE fn \in {"lua", "errfn"} -> CallLua(L, fn, c, p, nargs)
    [] fn = "object" -> IF Beyond(L, 1) THEN Step(L, "outside") ELSE CallLua(Push(L, 1), "lua", c, p, nargs + 1)
    [] fn = "value" -> luaG_runerror(L)
    [] OTHER -> CallC(L, fn, c, nargs)

\* luaD_call: one level of the C stack more
luaD_call(L, fn, p, nargs) ==
  LET G == [L EXCEPT !.nCcalls = @ + 1]
  IN CASE G.nCcalls = LUAI_MAXCCALLS -> luaG_runerror(G)
       [] G.nCcalls > LUAI_MAXCCALLS
          /\ G.nCcalls >= LUAI_MAXCCALLS + (LUAI_MAXCCALLS \div 8) -> Step(G, "errerr")
       [] OTHER -> luaD_precall(G, fn, TRUE, p, nargs)

\* luaD_poscall with nres results, all of them wanted, and the decrement of
\* nCcalls when luaD_call made the call.  A Lua caller has its own top again,
\* unless it is luaG_errormsg that called a handler for it.
luaD_poscall(L, nres) ==
  LET ci == Ci(L)
      below == Front(L.ci)
      caller == Last(below)
  IN [L EXCEPT !.ci = below,
               !.base = caller.base,
               !.top = IF caller.fn \in {"lua", "errfn"} /\ ci.fn # "errfn"
                       THEN caller.top ELSE ci.func + nres,
               !.nCcalls = IF ci.c THEN @ - 1 ELSE @]

\* adjustresults: a C function has room for all results of what it called
adjustresults(L) == [L EXCEPT !.ci[Len(L.ci)].top = Max({@, L.top})]

\* What luaD_rawrunprotected leaves on the chain of error handlers for
\* luaD_pcall, and for lua_resume
Protected(L) == [by |-> "pcall", ci |-> Len(L.ci), nCcalls |-> L.nCcalls,
                 old_top |-> L.top - 1, errfunc |-> L.errfunc]
InResume == [by |-> "resume", ci |-> 1, nCcalls |-> 0, old_top |-> 1, errfunc |-> "none"]

\* The current C function has only to return
Done(L) == [L EXCEPT !.ci[Len(L.ci)].fn = "ret"]

\* ... and so have luaB_pcall and luaB_xpcall, once they have pushed the status,
\* which xpcall moves to where the handler was
WithStatus(L) == Done([L EXCEPT !.top = IF Ci(L).fn = "pcall" THEN @ + 1 ELSE @])

KeepHandler(L) == WithStatus([L EXCEPT !.errfunc = Last(L.jmp).errfunc])

\* The end of luaD_pcall without an error
Unprotect(L) ==
  WithStatus([L EXCEPT !.errfunc = Last(L.jmp).errfunc, !.jmp = Front(@)])

NoRestore(L) ==
  LET j == Last(L.jmp)
      G == [L EXCEPT !.ci = SubSeq(@, 1, j.ci), !.top = j.old_top + 1,
                     !.base = L.ci[j.ci].base, !.nCcalls = j.nCcalls,
                     !.jmp = Front(@)]
  IN WithStatus(restore_stack_limit(G))

\* The end of luaD_pcall with an error: luaD_seterrorobj, the thread as it was
\* before the call, and restore_stack_limit
CatchError(L) ==
  LET j == Last(L.jmp)
      G == [L EXCEPT !.ci = SubSeq(@, 1, j.ci), !.top = j.old_top + 1,
                     !.base = L.ci[j.ci].base, !.nCcalls = j.nCcalls,
                     !.errfunc = j.errfunc, !.jmp = Front(@)]
  IN WithStatus(restore_stack_limit(G))
-----------------------------------------------------------------------------
(* Coroutines *)

\* costatus: what thread L is told of thread co
costatus(L, co) ==
  CASE L = co -> "running"
    [] L # co /\ th[co].status = "yield" -> "suspended"
    [] L # co /\ th[co].status = "ok" ->
         IF Len(th[co].ci) > 1 THEN "normal"
         ELSE IF lua_gettop(th[co]) = 0 THEN "dead" ELSE "suspended"
    [] OTHER -> "dead"

\* resume, the protected part of lua_resume: a first call, or the end of the
\* call to yield
resume(L, nargs, p) ==
  IF L.status = "ok" THEN luaD_precall(L, "lua", FALSE, p, nargs)
  ELSE Step(luaD_poscall([L EXCEPT !.status = "ok"], nargs), "no")

KeepArguments(L) == L

\* resume_error, once its message is moved to the resuming thread
resume_error(L) == [L EXCEPT !.top = Ci(L).base]

\* lua_resume up to the point where the coroutine runs
lua_resume(L, nargs, p) ==
  LET n == L.nCcalls + 1
  IN resume([L EXCEPT !.nCcalls = n, !.baseCcalls = n, !.jmp = <<InResume>>], nargs, p)

\* lua_resume after the coroutine returned or yielded
Suspended(L) == [L EXCEPT !.nCcalls = @ - 1, !.jmp = <<>>]

\* ... and after an error nothing in it caught: the message is put on the top
\* (luaD_seterrorobj), and calls and sizes stay as they are
Killed(L, e) == [L EXCEPT !.status = e, !.top = @ + 1, !.ci[Len(L.ci)].top = L.top + 1,
                          !.nCcalls = @ - 1, !.jmp = <<>>]

\* auxresume and luaB_coresume when the resumed thread failed: false and a
\* message; luaB_auxwrap raises the message instead
Refused(L) ==
  IF Ci(L).fn = "wrap" THEN Step([L EXCEPT !.top = @ + 1], "msg")
  ELSE Step(Done([L EXCEPT !.top = @ + 2]), "no")

\* ... and when it yielded or ended with nres values
Received(L, nres) ==
  LET G == lua_checkstack(L, nres + 1)
  IN IF ~MayPush(L, nres + 1) THEN luaG_runerror(L)
     ELSE Step(Done([G EXCEPT !.top = @ + nres + (IF Ci(L).fn = "wrap" THEN 0 ELSE 1)]), "no")

NoLevel(from, to) == to

lua_setlevel(from, to) == [to EXCEPT !.nCcalls = from.nCcalls]
-----------------------------------------------------------------------------
(* The running program *)

t == Last(run)
L0 == th[t]
Running == run # <<>> /\ err = "no"
In(names) == Running /\ Ci(L0).fn \in names

\* The running thread goes on as r
Go(r) ==
  /\ th' = [th EXCEPT ![t] = r.L]
  /\ err' = r.err
  /\ UNCHANGED <<run, params, prog>>

\* The functions a program calls, with how many arguments it passes.  What a
\* program may do is bounded by the library functions and features it uses, the
\* prototypes of its functions, the threads it creates and the number of values
\* it passes at once.
Callee ==
  ({"lua"} \X (0 .. prog.values)) \cup
  {f \in {<<"c", 0>>, <<"object", 0>>, <<"value", 0>>, <<"pcall", 1>>, <<"xpcall", 2>>, <<"create", 1>>}
           \cup ({"resume", "wrap", "yield", "queueEvent"} \X (0 .. prog.values)) : f[1] \in prog.uses}

\* The number of arguments on the stack: resume has the thread there as well,
\* queueEvent the name
OnStack(f) == IF f[1] \in {"resume", "queueEvent"} THEN f[2] + 1 ELSE f[2]

\* OP_CALL: a Lua function calls f; function and arguments are its last
\* registers
OP_CALL(f, p) ==
  /\ In({"lua", "errfn"})
  /\ OnStack(f) + 1 <= Ci(L0).top - L0.base
  /\ Go(luaD_precall(L0, f[1], FALSE, p, OnStack(f)))

\* callTMres: a Lua function causes the call of a metamethod with two operands
callTMres(p) ==
  /\ In({"lua"}) /\ "tm" \in prog.uses
  /\ Go(IF Beyond(L0, 3) THEN Step(L0, "outside") ELSE luaD_call(Push(L0, 3), "lua", p, 2))

\* lua_call: a C function calls back
lua_call(f, p) ==
  /\ In({"c"})
  /\ L0.top + 1 + OnStack(f) <= Ci(L0).top
  /\ Go(luaD_call([L0 EXCEPT !.top = @ + 1 + OnStack(f)], f[1], p, OnStack(f)))

\* luaB_pcall and luaB_xpcall up to the protected call; ef is what an xpcall
\* has for a handler, and the function gets no arguments
luaB_pcall(f, p, ef) ==
  /\ In({"pcall", "xpcall"})
  /\ OnStack(f) = 0
  /\ ef = "none" <=> Ci(L0).fn = "pcall"
  /\ Go(luaD_call([L0 EXCEPT !.jmp = Append(@, Protected(L0)), !.errfunc = ef],
                  f[1], p, 0))

\* A function returns nres values.  More of them than it has registers come
\* from OP_VARARG, which makes room.
Returned(L, nres) ==
  luaD_poscall(IF nres <= lua_gettop(L) THEN L ELSE luaD_checkstack(L, nres), nres)

\* The end of a call: of a handler, which has one result, or another one, whose
\* caller may be a C function, in lua_call or in a protected call
Return(nres) ==
  /\ In({"lua", "c", "ret", "errfn"})
  /\ Len(L0.ci) > 2
  /\ Ci(L0).fn = "errfn" => nres = 1
  /\ Ci(L0).fn \in {"c", "ret"} => nres <= lua_gettop(L0)
  /\ LET G == Returned(L0, nres)
     IN Go(IF Ci(L0).fn = "errfn" THEN Step(G, "errrun")
           ELSE IF Ci(G).fn \in {"pcall", "xpcall"} THEN Step(Unprotect(adjustresults(G)), "no")
           ELSE IF Ci(G).fn = "c" THEN Step(adjustresults(G), "no")
           ELSE Step(G, "no"))

\* What happens to the thread that resumed t when t stops as G, with nres
\* values or with an error
Back(G, ok) ==
  LET from == run[Len(run) - 1]
      nres == lua_gettop(G)
      r == IF ok THEN Received(th[from], nres) ELSE Refused(th[from])
      moved == IF ~ok THEN 1 ELSE IF r.err = "no" THEN nres ELSE 0
  IN IF t = coro
     THEN th' = [th EXCEPT ![t] = G] /\ err' = "no"
     ELSE th' = [th EXCEPT ![t] = [G EXCEPT !.top = @ - moved], ![from] = r.L] /\ err' = r.err

\* The function of a coroutine returns: the end of lua_resume and of auxresume.
EndThread(nres) ==
  /\ In({"lua"})
  /\ Len(L0.ci) = 2
  /\ Back(Suspended(Returned(L0, nres)), TRUE)
  /\ run' = Front(run)
  /\ UNCHANGED <<params, prog>>

\* luaB_yield and lua_yield
lua_yield ==
  /\ In({"yield"})
  /\ IF L0.nCcalls > L0.baseCcalls THEN Go(luaG_runerror(L0))
     ELSE /\ Back(Suspended([L0 EXCEPT !.status = "yield",
                                       !.base = L0.top - lua_gettop(L0)]), TRUE)
          /\ run' = Front(run)
          /\ UNCHANGED <<params, prog>>
-----------------------------------------------------------------------------
(* Errors *)

\* error, and every other way to luaG_runerror or lua_error
luaB_error == In({"lua", "c"}) /\ Go(luaG_runerror(L0))

\* luaG_errormsg: the handler, if there is one, is called with the message
luaG_errormsg(p) ==
  /\ err = "msg"
  /\ Go(CASE L0.errfunc = "none" -> Step(L0, "errrun")
          [] L0.errfunc = "bad" -> Step(L0, "errerr")
          [] OTHER -> IF Beyond(L0, 1) THEN Step(L0, "outside")
                      ELSE luaD_call(Push(L0, 1), "errfn", p, 1))

\* luaD_throw to the innermost luaD_rawrunprotected of the thread
luaD_throw ==
  /\ err \in {"errrun", "errerr"}
  /\ IF Last(L0.jmp).by = "pcall" \/ Beyond(L0, 1)
     THEN Go(IF Last(L0.jmp).by = "pcall" THEN Step(CatchError(L0), "no") ELSE Step(L0, "outside"))
     ELSE /\ Back(Killed(L0, err), FALSE)
          /\ run' = Front(run)
          /\ UNCHANGED <<params, prog>>
-----------------------------------------------------------------------------
(* Threads, events and the host *)

\* luaB_cocreate: lua_newthread and the function moved to it
luaB_cocreate(co) ==
  /\ In({"create"}) /\ co \in prog.threads
  /\ th[co].status = "free"
  /\ th' = [th EXCEPT ![t] = Done(@), ![co] = [NewThread EXCEPT !.top = 2]]
  /\ UNCHANGED <<run, err, params, prog>>

\* auxresume of co, up to the point where it runs
auxresume(co, p) ==
  LET narg == lua_gettop(L0) - (IF Ci(L0).fn = "resume" THEN 1 ELSE 0)
      G == lua_checkstack(th[co], narg)
      L1 == [L0 EXCEPT !.top = @ - narg]
      C1 == lua_setlevel(L0, [G EXCEPT !.top = @ + narg])
      r == lua_resume(C1, narg, p)
  IN
  /\ In({"resume", "wrap"})
  /\ th[co].status # "free"
  /\ \/ /\ ~MayPush(th[co], narg)
        /\ Go(luaG_runerror(L0))
     \/ /\ MayPush(th[co], narg)
        /\ costatus(t, co) # "suspended"
        /\ LET f == Refused(IF co = t THEN G ELSE L0)
           IN th' = [th EXCEPT ![co] = G, ![t] = f.L] /\ err' = f.err
        /\ UNCHANGED <<run, params, prog>>
     \/ /\ MayPush(th[co], narg)
        /\ costatus(t, co) = "suspended"
        /\ C1.nCcalls >= LUAI_MAXCCALLS
        /\ LET f == Refused(L1)
           IN th' = [th EXCEPT ![co] = resume_error(C1), ![t] = f.L] /\ err' = f.err
        /\ UNCHANGED <<run, params, prog>>
     \/ /\ MayPush(th[co], narg)
        /\ costatus(t, co) = "suspended"
        /\ C1.nCcalls < LUAI_MAXCCALLS
        /\ th' = [th EXCEPT ![co] = r.L, ![t] = L1]
        /\ err' = r.err
        /\ run' = Append(run, co)
        /\ UNCHANGED <<params, prog>>

\* The collector: a thread nothing refers to is freed, and the stacks of a
\* thread that is traversed may be shrunk
Collect(co) ==
  /\ Running
  /\ co # coro /\ co \notin Range(run) /\ th[co].status # "free"
  /\ th' = [th EXCEPT ![co] = Free]
  /\ UNCHANGED <<run, err, params, prog>>

\* (the slots from the top up to lim, which is included, become nil)
traversestack(co) ==
  /\ Running /\ "gc" \in prog.uses
  /\ th[co].status # "free"
  /\ IF s_used(th[co]) >= th[co].stacksize
     THEN err' = "outside" /\ UNCHANGED th
     ELSE th' = [th EXCEPT ![co] = checkstacksizes(@)] /\ UNCHANGED err
  /\ UNCHANGED <<run, params, prog>>

\* os_queueEvent: a thread pushed on paramQueue takes the arguments
os_queueEvent ==
  /\ In({"queueEvent"})
  /\ Len(params) < MaxEvents
  /\ params' = Append(params, lua_gettop(L0) - 1)
  /\ th' = [th EXCEPT ![t] = Done([@ EXCEPT !.top = L0.base + 1])]
  /\ UNCHANGED <<run, err, prog>>

\* main2: the first lua_resume of coro
StartBios(p) ==
  /\ run = <<>>
  /\ th[coro] = [NewThread EXCEPT !.top = 2]
  /\ LET r == lua_resume(th[coro], 0, p)
     IN th' = [th EXCEPT ![coro] = r.L] /\ err' = r.err
  /\ run' = <<coro>>
  /\ UNCHANGED <<params, prog>>

\* An event that does not match the filter is removed from paramQueue
FilterEvent ==
  /\ run = <<>> /\ th[coro].status = "yield" /\ params # <<>>
  /\ params' = Tail(params)
  /\ UNCHANGED <<th, run, err, prog>>

\* The end of getNextEvent: the name and the n arguments of the first event,
\* queued or from the devices, are pushed, and main2 resumes coro with them
NextEvent(n, p) ==
  /\ run = <<>> /\ th[coro].status = "yield"
  /\ n = IF params = <<>> THEN 1 ELSE Head(params)
  /\ LET G == lua_checkstack(th[coro], n + 1)
         r == IF MayPush(th[coro], n + 1)
              THEN lua_resume([G EXCEPT !.top = @ + n + 1], n + 1, p)
              ELSE lua_resume(th[coro], 0, p)
     IN th' = [th EXCEPT ![coro] = r.L] /\ err' = r.err
  /\ params' = IF params = <<>> \/ ~MayPush(th[coro], n + 1) THEN params ELSE Tail(params)
  /\ run' = <<coro>>
  /\ UNCHANGED prog
-----------------------------------------------------------------------------
Init ==
  /\ th = [co \in Thread |-> IF co = coro THEN [NewThread EXCEPT !.top = 2] ELSE Free]
  /\ run = <<>>
  /\ err = "no"
  /\ params = <<>>
  /\ prog \in Program

Next ==
  \/ \E p \in prog.protos :
       \/ \E f \in Callee : OP_CALL(f, p) \/ lua_call(f, p)
       \/ \E f \in Callee, ef \in {"none", "fn", "bad"} : luaB_pcall(f, p, ef)
       \/ callTMres(p)
       \/ luaG_errormsg(p)
       \/ \E co \in Thread : auxresume(co, p)
       \/ StartBios(p)
       \/ \E n \in 0 .. MaxValues : NextEvent(n, p)
  \/ \E n \in 0 .. prog.values : Return(n) \/ EndThread(n)
  \/ lua_yield
  \/ luaB_error
  \/ luaD_throw
  \/ os_queueEvent
  \/ FilterEvent
  \/ \E co \in Thread : luaB_cocreate(co) \/ Collect(co) \/ traversestack(co)

Spec == Init /\ [][Next]_vars
-----------------------------------------------------------------------------
(* Properties *)

TypeOK ==
  /\ th \in [Thread -> [status : {"free", "ok", "yield", "errrun", "errerr"},
                        top : Nat, base : Nat,
                        ci : Seq([fn : {"base", "lua", "ret", "errfn"} \cup CallNames,
                                  c : BOOLEAN, func : Nat, base : Nat, top : Nat]),
                        stacksize : Nat, size_ci : Nat, nCcalls : Nat, baseCcalls : Nat,
                        errfunc : {"none", "fn", "bad"},
                        jmp : Seq([by : {"pcall", "resume"}, ci : Nat, nCcalls : Nat,
                                   old_top : Nat, errfunc : {"none", "fn", "bad"}])]]
  /\ run \in Seq(Thread)
  /\ err \in {"no", "msg", "errrun", "errerr", "outside"}
  /\ params \in Seq(0 .. MaxValues)
  /\ prog \in Program

\* The assert ci->top <= L->stack_last of luaD_precall and traversestack.  It
\* holds in every program but those with a vararg function ("dots"): such a
\* function, called with arguments missing, gets a frame that passes stack_last
\* by up to as many slots as it has parameters.
Within(L, x) ==
  x <= StackLast(L) \/ \E p \in prog.protos : p.is_vararg = "dots" /\ x - StackLast(L) <= p.numparams

\* Whatever grows, shrinks or fails, the slots every call of a thread may use
\* lie in its stack and its calls in the array of calls, and stack_last is only
\* passed as Within says.  What is written above the top before there is room
\* for it (metamethod calls, missing parameters) stays in the EXTRA_STACK slots
\* behind stack_last, unless the program has a vararg function with EXTRA_STACK
\* parameters or more.
StackFits ==
  /\ \A co \in Thread : LET L == th[co] IN
       /\ Len(L.ci) <= L.size_ci
       /\ \A x \in {L.top} \cup {L.ci[i].top : i \in DOMAIN L.ci} : x <= L.stacksize /\ Within(L, x)
  /\ err = "outside" => \E p \in prog.protos : p.is_vararg = "dots" /\ p.numparams >= EXTRA_STACK

\* A C function never has more values on the stack than it may: the check
\* L->top <= L->ci->top of api_incr_top and that of lua_xmove.  The one value
\* that may be too many is the status that luaB_pcall pushes on all the results
\* of the function it called.
RoomToPush ==
  \A co \in Thread : LET L == th[co] IN
    Ci(L).fn \notin {"lua", "errfn", "base"} /\ err = "no" =>
      L.top <= Ci(L).top + (IF Ci(L).fn = "ret" THEN 1 ELSE 0)

\* nCcalls of the running thread counts the levels of the C stack that all the
\* threads resumed in one another use (and more while a handler runs, for the
\* call that failed), so the limits of luaD_call and lua_resume bound the C
\* stack of the whole program, errors and handlers included.
Levels(co) == 1 + Cardinality({i \in DOMAIN th[co].ci : th[co].ci[i].c})

Depth == LET d[k \in 0 .. Len(run)] == IF k = 0 THEN 0 ELSE d[k - 1] + Levels(run[k])
         IN d[Len(run)]

Handling == err # "no" \/ \E co \in Range(run) : \E i \in DOMAIN th[co].ci : th[co].ci[i].fn = "errfn"

CStackBounded ==
  run # <<>> => /\ L0.nCcalls >= Depth
                /\ ~Handling => L0.nCcalls = Depth
                /\ Depth <= LUAI_MAXCCALLS + (LUAI_MAXCCALLS \div 8)

\* No thread runs out of the room it was given, on its stack, in its array of
\* calls or on the C stack.
StacksBounded == TypeOK /\ StackFits /\ RoomToPush /\ CStackBounded

\* A suspended coroutine has left nothing on the C stack: no call made by C,
\* no error handler.  Otherwise its next error would jump into a frame that is
\* gone.
NothingLeftInC ==
  \A co \in Thread \ Range(run) :
    /\ th[co].jmp = <<>>
    /\ th[co].status = "yield" =>
         /\ \A i \in DOMAIN th[co].ci : ~th[co].ci[i].c
         /\ th[co].errfunc = "none"

\* The handlers of a running thread are those of its protected calls, innermost
\* last: what luaD_throw jumps to is still there.
RunningHandlers ==
  \A co \in Range(run) : LET L == th[co] IN
    /\ L.jmp # <<>> /\ Head(L.jmp).by = "resume"
    /\ \A i \in 2 .. Len(L.jmp) :
         /\ L.jmp[i].ci <= Len(L.ci) /\ L.ci[L.jmp[i].ci].fn \in {"pcall", "xpcall"}
         /\ i > 2 => L.jmp[i - 1].ci < L.jmp[i].ci
    /\ err = "no" => Len(L.jmp) - 1 = Cardinality({i \in 1 .. Len(L.ci) - 1 : L.ci[i].fn \in {"pcall", "xpcall"}})

\* What an error or a yield leads back to is there.
HandlersLive == RunningHandlers /\ NothingLeftInC

\* coroutine.status tells the truth: a thread is said to be normal exactly when
\* it waits for one it resumed, and one said to be suspended can be continued:
\* it stopped in yield, or holds just the function it is to run.
StatusHonest ==
  run # <<>> => \A co \in Thread \ {t} : th[co].status # "free" =>
    /\ costatus(t, co) = "normal" <=> co \in Range(run)
    /\ costatus(t, co) = "suspended" =>
         \/ Ci(th[co]).fn = "yield"
         \/ Len(th[co].ci) = 1 /\ lua_gettop(th[co]) = 1

\* The check L->top < L->ci->top of api_incr_top (lapi.c) for lua_newthread on
\* paramQueue, whose stack os_queueEvent never grows, and that of lua_xmove for
\* the thread that takes the arguments: the values pushed are within the
\* LUA_MINSTACK slots the thread has.
ParamsFit == Len(params) <= LUA_MINSTACK /\ \A i \in DOMAIN params : params[i] <= LUA_MINSTACK

\* What a step does to the calls outside the innermost protected call
Contained ==
  LET j == Last(L0.jmp)
      G == th'[t]
  IN j.by = "pcall" =>
       /\ run' = run
       /\ SubSeq(G.ci, 1, j.ci - 1) = SubSeq(L0.ci, 1, j.ci - 1)
       /\ Len(G.ci) = j.ci
       /\ G.errfunc = j.errfunc
       /\ G.nCcalls = j.nCcalls

\* An error is caught by the innermost protected call around it: the calls
\* outside it, and their handlers, are as they were.
ErrorsContained == [][err = "errrun" \/ err = "errerr" => Contained]_vars
=============================================================================

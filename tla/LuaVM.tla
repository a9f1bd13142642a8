------------------------------- MODULE LuaVM -------------------------------
(***************************************************************************)
(* The virtual machine (lua/lvm.c) with the calls of ldo.c, the upvalues   *)
(* of lfunc.c and the tag methods of ltm.c: it runs what the compiler made *)
(* of a program, one instruction per step.                                 *)
(*                                                                         *)
(* s is a lua_State: its stack and top, its CallInfos, its open upvalues   *)
(* (highest first) and, as growing sequences, the closures, upvalues and   *)
(* tables there are.  A CallInfo keeps in `then' what goes on when its     *)
(* function returns: "call" and "tail" for the loop of luaV_execute, any   *)
(* other for C code that is waiting in luaD_call.  A value is its type     *)
(* and, but for nil, its content.                                          *)
(***************************************************************************)
EXTENDS LuaParser, FiniteSets

CONSTANTS STACKSIZE,           \* slots of the stack, which does not grow here
          MAXTAGLOOP,          \* length of a chain of tag methods
          Collation            \* strings in the order of strcoll

ASSUME MachineAssumption == STACKSIZE \in Nat /\ MAXTAGLOOP \in Nat /\ Collation \in Seq(STRING)

Nil == <<"nil">>
Num(n) == <<"num", n>>
Str(x) == <<"str", x>>
Bool(b) == <<"bool", b>>
Type(v) == v[1]
l_isfalse(v) == v = Nil \/ v = Bool(FALSE)
isfunction(v) == Type(v) \in {"fun", "cfun"}

ci(s) == Last(s.ci)
R(s, x) == s.stack[ci(s).base + x]
SetR(s, x, v) == [s EXCEPT !.stack[ci(s).base + x] = v]
LClosure(s) == s.cl[s.stack[ci(s).func][2]]
KBx(s, x) == LClosure(s).p.k[x + 1]
RK(s, x) == IF ISK(x) THEN KBx(s, x - BITRK) ELSE R(s, x)
Inst(s) == LClosure(s).p.code[ci(s).pc + 1]
dojump(s, n) == [s EXCEPT !.ci[Len(s.ci)].pc = @ + n]
\* a comparison is followed by the jump it skips or takes
Branch(s, taken) == dojump(s, IF taken THEN Inst(s).b + 1 ELSE 1)
Put(s, from, vs) ==
  [s EXCEPT !.stack = [q \in DOMAIN @ |-> IF q - from \in 0..Len(vs) - 1 THEN vs[q - from + 1] ELSE @[q]]]
Slots(s, from, n) == [j \in 1..n |-> s.stack[from + j - 1]]
-----------------------------------------------------------------------------
(* Upvalues.                                                               *)

FreshUpval(s, level) ==             \* an upvalue that is there already is not found
  [s EXCEPT !.uv = Append(@, [at |-> level, v |-> Nil]), !.openupval = <<Len(s.uv) + 1>> \o @, !.r = Len(s.uv) + 1]

luaF_findupval(s, level) ==         \* s.r: the upvalue
  LET same == {u \in Range(s.openupval) : s.uv[u].at = level}
      above == SelectSeq(s.openupval, LAMBDA u : s.uv[u].at > level)
      below == SelectSeq(s.openupval, LAMBDA u : s.uv[u].at < level)
      new == Len(s.uv) + 1
  IN IF same # {} THEN [s EXCEPT !.r = CHOOSE u \in same : TRUE]
     ELSE [s EXCEPT !.uv = Append(@, [at |-> level, v |-> Nil]),
                    !.openupval = above \o <<new>> \o below, !.r = new]

luaF_close(s, level) ==
  LET closing == {u \in Range(s.openupval) : s.uv[u].at >= level}
  IN [s EXCEPT !.openupval = SelectSeq(@, LAMBDA u : u \notin closing),
               !.uv = [u \in DOMAIN @ |-> IF u \in closing THEN [at |-> -1, v |-> s.stack[@[u].at]] ELSE @[u]]]

UpVal(s, u) == IF s.uv[u].at >= 0 THEN s.stack[s.uv[u].at] ELSE s.uv[u].v
SetUpVal(s, u, v) ==
  IF s.uv[u].at >= 0 THEN [s EXCEPT !.stack[s.uv[u].at] = v] ELSE [s EXCEPT !.uv[u].v = v]
-----------------------------------------------------------------------------
(* Tables and tag methods.  What luaH_get and luaH_set do inside is in     *)
(* LuaTable; here a table is its map, its metatable and its flags.         *)

luaH_get(tab, t, key) == IF key \in DOMAIN tab[t].map THEN tab[t].map[key] ELSE Nil
Entry(map, key, v) ==
  IF v = Nil THEN [k \in DOMAIN map \ {key} |-> map[k]]
  ELSE [k \in DOMAIN map \cup {key} |-> IF k = key THEN v ELSE map[k]]
luaH_set(tab, t, key, v) == [tab EXCEPT ![t].map = Entry(@, key, v), ![t].flags = {}]
luaH_getn(tab, t) ==
  CHOOSE n \in 0..Cardinality(DOMAIN tab[t].map) :
    (\A j \in 1..n : Num(j) \in DOMAIN tab[t].map) /\ Num(n + 1) \notin DOMAIN tab[t].map
luaH_new(s) == [s EXCEPT !.tab = Append(@, [map |-> <<>>, meta |-> 0, flags |-> {}]), !.r = <<"tab", Len(s.tab) + 1>>]

metatable(tab, v) == IF Type(v) = "tab" THEN tab[v[2]].meta ELSE 0
luaT_gettmbyobj(tab, v, event) ==
  IF metatable(tab, v) = 0 THEN Nil ELSE luaH_get(tab, metatable(tab, v), Str(event))

\* only the absence of index, newindex and eq is remembered; s.r: the method
luaT_gettm(s, mt, event) ==
  IF luaH_get(s.tab, mt, Str(event)) = Nil
  THEN [s EXCEPT !.tab[mt].flags = @ \cup {event}, !.r = Nil]
  ELSE [s EXCEPT !.r = luaH_get(s.tab, mt, Str(event))]
fasttm(s, mt, event) ==
  IF mt = 0 \/ (mt # 0 /\ event \in s.tab[mt].flags) THEN [s EXCEPT !.r = Nil] ELSE luaT_gettm(s, mt, event)
-----------------------------------------------------------------------------
(* Calls.  They nest through Do: "call" is luaD_precall for the function   *)
(* and arguments from x.func to the top, "return" what happens when the    *)
(* function of CallInfo x is gone, "throw" an error with the value x.      *)

RECURSIVE Do(_, _, _)

\* errors of the machine carry a message, which is not looked at
Message == Str("message")
luaG_runerror(s) == Do("throw", s, Message)

luaD_call(s, func, nresults, then) ==
  IF s.nCcalls + 1 = LUAI_MAXCCALLS THEN luaG_runerror([s EXCEPT !.nCcalls = @ + 1])
  ELSE Do("call", [s EXCEPT !.nCcalls = @ + 1], [func |-> func, nresults |-> nresults, then |-> then])

callTMres(s, f, p1, p2, then) ==
  luaD_call([Put(s, s.top, <<f, p1, p2>>) EXCEPT !.top = @ + 3], s.top, 1, then)
callTM(s, f, p1, p2, p3) ==
  luaD_call([Put(s, s.top, <<f, p1, p2, p3>>) EXCEPT !.top = @ + 4], s.top, 0, <<"drop">>)

Min2(x, y) == IF x < y THEN x ELSE y
Max2(x, y) == IF x > y THEN x ELSE y
Nils(n) == [j \in 1..Max2(n, 0) |-> Nil]

\* `arg', for a function that is declared with ... and does not use it
ArgTable(vs) ==
  [map |-> [k \in {Num(j) : j \in {i \in 1..Len(vs) : vs[i] # Nil}} \cup {Str("n")} |->
              IF k = Str("n") THEN Num(Len(vs)) ELSE vs[k[2]]],
   meta |-> 0, flags |-> {}]
\* where the function will find its variables: above all its arguments
adjust_varargs(s, p, func) ==       \* s.r: the new base
  LET nargs == s.top - func - 1
      actual == Max2(nargs, p.numparams)
      fixed == Slots(s, func + 1, Min2(nargs, p.numparams)) \o Nils(p.numparams - nargs)
      base == func + 1 + actual
      old == "NEEDSARG" \in p.is_vararg
      extra == Slots(s, func + 1 + p.numparams, actual - p.numparams)
      arg == IF old THEN <<<<"tab", Len(s.tab) + 1>>>> ELSE <<>>
  IN [Put(Put(s, func + 1, Nils(p.numparams)), base, fixed \o arg)
      EXCEPT !.tab = IF old THEN Append(@, ArgTable(extra)) ELSE @,
             !.top = base + p.numparams + Len(arg), !.r = base]
plain_args(s, p, func) == [s EXCEPT !.top = Min2(@, func + 1 + p.numparams), !.r = func + 1]

EnterLua(s, p, x) ==                \* s.r: the base
  [Put(s, s.top, Nils(s.r + p.maxstacksize - s.top))
   EXCEPT !.top = s.r + p.maxstacksize,
          !.ci = Append(@, [func |-> x.func, base |-> s.r, top |-> s.r + p.maxstacksize, pc |-> 0,
                            nresults |-> x.nresults, then |-> x.then])]
CallLua(s, p, x) ==
  EnterLua(IF p.is_vararg = {} THEN plain_args(s, p, x.func) ELSE adjust_varargs(s, p, x.func), p, x)

tryfuncTM(s, x) ==
  LET tm == luaT_gettmbyobj(s.tab, s.stack[x.func], "__call")
  IN IF ~isfunction(tm) THEN luaG_runerror(s)
     ELSE Do("call", [Put(s, x.func, <<tm>> \o Slots(s, x.func, s.top - x.func)) EXCEPT !.top = @ + 1], x)

MoveResults(s, c, first) ==
  LET n == IF c.nresults = LUA_MULTRET THEN s.top - first ELSE c.nresults
  IN [Put(s, c.func, [j \in 1..n |-> IF first + j - 1 < s.top THEN s.stack[first + j - 1] ELSE Nil])
      EXCEPT !.ci = Front(@), !.top = c.func + n]
luaD_poscall(s, first) == Do("return", MoveResults(s, ci(s), first), ci(s))

\* C functions of the base library; s.r: what they return
Args(s) == Slots(s, ci(s).base, s.top - ci(s).base)
ReturnC(s, vs) == luaD_poscall([Put(s, s.top, vs) EXCEPT !.top = @ + Len(vs)], s.top)
IsInt(args, n) == Len(args) >= n /\ Type(args[n]) = "num"
IsTable(args) == Len(args) >= 1 /\ Type(args[1]) = "tab"

luaB_error(s, args) ==
  Do("throw", s, IF Len(args) = 0 THEN Nil
                 ELSE IF Type(args[1]) = "str" THEN Str("where: " \o args[1][2]) ELSE args[1])
luaB_getmetatable(s, args) ==
  CASE args = <<>> -> luaG_runerror(s)
    [] args # <<>> /\ metatable(s.tab, args[1]) = 0 -> ReturnC(s, <<Nil>>)
    [] args # <<>> /\ luaT_gettmbyobj(s.tab, args[1], "__metatable") # Nil ->
         ReturnC(s, <<luaT_gettmbyobj(s.tab, args[1], "__metatable")>>)
    [] OTHER -> ReturnC(s, <<<<"tab", metatable(s.tab, args[1])>>>>)
luaB_setmetatable(s, args) ==
  IF ~IsTable(args) \/ Len(args) < 2 \/ (Len(args) >= 2 /\ Type(args[2]) \notin {"nil", "tab"}) THEN luaG_runerror(s)
  ELSE IF luaT_gettmbyobj(s.tab, args[1], "__metatable") # Nil THEN luaG_runerror(s)
  ELSE ReturnC([s EXCEPT !.tab[args[1][2]].meta = IF args[2] = Nil THEN 0 ELSE args[2][2]], <<args[1]>>)
luaB_rawequal(s, args) == IF Len(args) < 2 THEN luaG_runerror(s) ELSE ReturnC(s, <<Bool(args[1] = args[2])>>)
luaB_rawget(s, args) ==
  IF ~IsTable(args) \/ Len(args) < 2 THEN luaG_runerror(s) ELSE ReturnC(s, <<luaH_get(s.tab, args[1][2], args[2])>>)
luaB_rawset(s, args) ==
  IF ~IsTable(args) \/ Len(args) < 3 \/ (Len(args) > 1 /\ args[2] = Nil) THEN luaG_runerror(s)
  ELSE ReturnC([s EXCEPT !.tab = luaH_set(@, args[1][2], args[2], args[3])], <<args[1]>>)
ipairsaux(s, args) ==
  LET v == luaH_get(s.tab, args[1][2], Num(args[2][2] + 1))
  IN ReturnC(s, IF v = Nil THEN <<>> ELSE <<Num(args[2][2] + 1), v>>)
luaB_ipairs(s, args) ==
  IF IsTable(args) THEN ReturnC(s, <<<<"cfun", "ipairsaux">>, args[1], Num(0)>>) ELSE luaG_runerror(s)
luaB_assert(s, args) ==
  IF args = <<>> \/ (args # <<>> /\ l_isfalse(args[1])) THEN luaG_runerror(s) ELSE ReturnC(s, args)
luaB_unpack(s, args) ==
  LET i == IF IsInt(args, 2) THEN args[2][2] ELSE 1
      e == IF IsInt(args, 3) THEN args[3][2] ELSE luaH_getn(s.tab, args[1][2])
  IN IF ~IsTable(args) THEN luaG_runerror(s)
     ELSE ReturnC(s, [j \in 1..Max2(e - i + 1, 0) |-> luaH_get(s.tab, args[1][2], Num(i + j - 1))])
luaB_select(s, args) ==
  LET i == IF args[1][2] < 0 THEN Len(args) + args[1][2] ELSE Min2(args[1][2], Len(args))
  IN CASE Len(args) > 0 /\ args[1] = Str("#") -> ReturnC(s, <<Num(Len(args) - 1)>>)
       [] IsInt(args, 1) /\ i >= 1 -> ReturnC(s, SubSeq(args, i + 1, Len(args)))
       [] OTHER -> luaG_runerror(s)
luaB_type(s, args) ==
  IF args = <<>> THEN luaG_runerror(s)
  ELSE ReturnC(s, <<Str(IF isfunction(args[1]) THEN "fun" ELSE Type(args[1]))>>)
\* pcall calls from its own first argument on
luaB_pcall(s, args) ==
  IF args = <<>> THEN luaG_runerror(s) ELSE luaD_call(s, ci(s).base, LUA_MULTRET, <<"pcall", s.nCcalls>>)
PcallDone(s, status) ==
  luaD_poscall([Put(s, ci(s).base, <<Bool(status)>> \o Args(s)) EXCEPT !.top = @ + 1], ci(s).base)
\* a function of the test programs: it logs its arguments and returns them
Shown(v) == IF Type(v) \in {"tab", "fun", "cfun"} THEN Type(v) ELSE v
host_f(s, args) == ReturnC([s EXCEPT !.out = Append(@, [j \in DOMAIN args |-> Shown(args[j])])], args)

CFunctions == {"f", "error", "getmetatable", "setmetatable", "rawequal", "rawget", "rawset", "ipairs", "assert",
               "unpack", "select", "type", "pcall"}
CallC(s, name, args) ==
  CASE name = "f" -> host_f(s, args)
    [] name = "error" -> luaB_error(s, args)
    [] name = "getmetatable" -> luaB_getmetatable(s, args)
    [] name = "setmetatable" -> luaB_setmetatable(s, args)
    [] name = "rawequal" -> luaB_rawequal(s, args)
    [] name = "rawget" -> luaB_rawget(s, args)
    [] name = "rawset" -> luaB_rawset(s, args)
    [] name = "ipairs" -> luaB_ipairs(s, args)
    [] name = "ipairsaux" -> ipairsaux(s, args)
    [] name = "assert" -> luaB_assert(s, args)
    [] name = "unpack" -> luaB_unpack(s, args)
    [] name = "select" -> luaB_select(s, args)
    [] name = "type" -> luaB_type(s, args)
    [] name = "pcall" -> luaB_pcall(s, args)
EnterC(s, x) ==
  [s EXCEPT !.ci = Append(@, [func |-> x.func, base |-> x.func + 1, top |-> s.top, pc |-> 0,
                              nresults |-> x.nresults, then |-> x.then])]
RunC(s, name) == CallC(s, name, Args(s))

luaD_precall(s, x) ==
  LET f == s.stack[x.func]
  IN CASE Type(f) = "fun" -> CallLua(s, s.cl[f[2]].p, x)
       [] Type(f) = "cfun" -> RunC(EnterC(s, x), f[2])
       [] OTHER -> tryfuncTM(s, x)
-----------------------------------------------------------------------------
(* What C code does with the result of a call it was waiting for.          *)

TForResult(s) ==
  LET cb == Inst(dojump(s, -1)).a + 3
  IN IF R(s, cb) = Nil THEN dojump(s, 1) ELSE Branch(SetR(s, cb - 1, R(s, cb)), TRUE)

\* operands b..last of CONCAT, the last ones first; strings only
tostring(v) == IF Type(v) = "num" THEN ToString(v[2]) ELSE v[2]
Concatable(v) == Type(v) \in {"num", "str"}
ConcatPair(s, b, last) ==
  LET x == R(s, last - 1)
      y == R(s, last)
      tm == IF luaT_gettmbyobj(s.tab, x, "__concat") # Nil THEN luaT_gettmbyobj(s.tab, x, "__concat")
            ELSE luaT_gettmbyobj(s.tab, y, "__concat")
  IN CASE Concatable(x) /\ Concatable(y) -> Do("concat", SetR(s, last - 1, Str(tostring(x) \o tostring(y))), <<b, last - 1>>)
       [] ~(Concatable(x) /\ Concatable(y)) /\ tm # Nil ->
            callTMres(s, tm, x, y, <<"concat", b, last - 1>>)
       [] OTHER -> luaG_runerror(s)
luaV_concat(s, b, last) ==
  IF last > b THEN ConcatPair(s, b, last) ELSE SetR(s, Inst(dojump(s, -1)).a, R(s, b))

PopResult(s, at) == [s EXCEPT !.stack[at] = s.stack[s.top - 1], !.top = @ - 1]
Waiting(s, then) ==
  CASE then[1] = "res" -> PopResult(s, then[2])
    [] then[1] = "test" -> Branch([s EXCEPT !.top = @ - 1], l_isfalse(s.stack[s.top - 1]) # then[2])
    [] then[1] = "drop" -> s
    [] then[1] = "concat" -> luaV_concat(PopResult(s, ci(s).base + then[3]), then[2], then[3])
    [] then[1] = "for" -> TForResult([s EXCEPT !.top = ci(s).top])
    [] then[1] = "pcall" -> PcallDone(s, TRUE)
    [] then[1] = "host" -> [s EXCEPT !.status = "done"]

AfterReturn(s, c) ==                  \* c: the CallInfo that is gone
  CASE c.then[1] = "call" -> IF c.nresults = LUA_MULTRET THEN s ELSE [s EXCEPT !.top = ci(s).top]
    [] c.then[1] = "tail" -> s
    [] OTHER -> Waiting([s EXCEPT !.nCcalls = @ - 1], c.then)

\* luaD_pcall: everything above the protected call goes
Caught(s, v, j) ==
  PcallDone([Put(luaF_close(s, s.ci[j].base), s.ci[j].base, <<v>>)
             EXCEPT !.ci = SubSeq(@, 1, j), !.top = s.ci[j].base + 1, !.nCcalls = s.ci[j + 1].then[2]], FALSE)

luaD_throw(s, v) ==
  LET handlers == {j \in 1..Len(s.ci) - 1 : s.ci[j + 1].then[1] = "pcall"}
  IN IF handlers = {} THEN [s EXCEPT !.status = "error", !.out = Append(@, <<Shown(v)>>)]
     ELSE Caught(s, v, Max(handlers))


Do(what, s, x) ==
  CASE what = "call" -> luaD_precall(s, x)
    [] what = "return" -> AfterReturn(s, x)
    [] what = "throw" -> luaD_throw(s, x)
    [] what = "concat" -> luaV_concat(s, x[1], x[2])
-----------------------------------------------------------------------------
(* Access to tables, arithmetic and comparison, with their tag methods.    *)

RECURSIVE GetLoop(_, _, _, _, _)
GetNext(s, t, key, at, loop) ==     \* s.r: the tag method
  IF isfunction(s.r) THEN callTMres(s, s.r, t, key, <<"res", at>>) ELSE GetLoop(s, s.r, key, at, loop + 1)
GetMiss(s, t, key, at, loop) ==     \* s.r: the tag method, or nil
  IF s.r = Nil THEN [s EXCEPT !.stack[at] = Nil] ELSE GetNext(s, t, key, at, loop)
GetLoop(s, t, key, at, loop) ==
  IF loop = MAXTAGLOOP THEN luaG_runerror(s)
  ELSE IF Type(t) = "tab"
  THEN IF luaH_get(s.tab, t[2], key) # Nil THEN [s EXCEPT !.stack[at] = luaH_get(s.tab, t[2], key)]
       ELSE GetMiss(fasttm(s, metatable(s.tab, t), "__index"), t, key, at, loop)
  ELSE luaG_runerror(s)
luaV_gettable(s, t, key, x) == GetLoop(s, t, key, ci(s).base + x, 0)

\* a key that is not there is entered, with nil, before the tag method is
\* looked for; a nil entry is no entry here, but the flags are cleared
RECURSIVE SetLoop(_, _, _, _, _)
SetNext(s, t, key, v, loop) ==
  IF isfunction(s.r) THEN callTM(s, s.r, t, key, v) ELSE SetLoop(s, s.r, key, v, loop + 1)
SetMiss(s, t, key, v, loop) ==
  IF s.r = Nil THEN [s EXCEPT !.tab = luaH_set(@, t[2], key, v)] ELSE SetNext(s, t, key, v, loop)
SetLoop(s, t, key, v, loop) ==
  IF loop = MAXTAGLOOP THEN luaG_runerror(s)
  ELSE IF Type(t) = "tab" /\ key # Nil
  THEN IF luaH_get(s.tab, t[2], key) # Nil THEN [s EXCEPT !.tab = luaH_set(@, t[2], key, v)]
       ELSE SetMiss(fasttm([s EXCEPT !.tab[t[2]].flags = {}], metatable(s.tab, t), "__newindex"), t, key, v, loop)
  ELSE luaG_runerror(s)
luaV_settable(s, t, key, v) == SetLoop(s, t, key, v, 0)

\* the numerals that strings may hold
Numerals == -9..99
luaV_tonumber(v) ==
  IF Type(v) = "str" /\ \E n \in Numerals : ToString(n) = v[2] THEN Num(CHOOSE n \in Numerals : ToString(n) = v[2])
  ELSE IF Type(v) = "num" THEN v ELSE Nil
BinTM(s, x, y, event) ==
  IF luaT_gettmbyobj(s.tab, x, event) # Nil THEN luaT_gettmbyobj(s.tab, x, event) ELSE luaT_gettmbyobj(s.tab, y, event)
call_binTM(s, x, y, res, event) ==
  IF BinTM(s, x, y, event) = Nil THEN luaG_runerror(s)
  ELSE callTMres(s, BinTM(s, x, y, event), x, y, <<"res", ci(s).base + res>>)
EventOf == [o \in {"ADD", "SUB", "MUL", "DIV", "MOD", "POW", "UNM"} |->
              CASE o = "ADD" -> "__add" [] o = "SUB" -> "__sub" [] o = "MUL" -> "__mul" [] o = "DIV" -> "__div"
                [] o = "MOD" -> "__mod" [] o = "POW" -> "__pow" [] o = "UNM" -> "__unm"]
Arith(s, res, op, x, y) ==
  IF luaV_tonumber(x) # Nil /\ luaV_tonumber(y) # Nil
  THEN SetR(s, res, Num(NumOp(op, luaV_tonumber(x)[2], luaV_tonumber(y)[2])))
  ELSE call_binTM(s, x, y, res, EventOf[op])

EqMethod(s, mt1, mt2, m1) ==        \* s.r: the method of the second
  [s EXCEPT !.r = IF m1 = Nil THEN Nil ELSE IF mt1 = mt2 \/ m1 = s.r THEN m1 ELSE Nil]
EqFirst(s, mt1, mt2) ==             \* s.r: the method of the first
  IF s.r = Nil \/ mt1 = mt2 THEN s ELSE EqMethod(fasttm(s, mt2, "__eq"), mt1, mt2, s.r)
get_compTM(s, mt1, mt2) == EqFirst(fasttm(s, mt1, "__eq"), mt1, mt2)
EqCall(s, x, y, want) ==
  IF s.r = Nil THEN Branch(s, ~want) ELSE callTMres(s, s.r, x, y, <<"test", want>>)
equalobj(s, x, y, want) ==
  IF x = y \/ Type(x) # "tab" \/ Type(y) # "tab" THEN Branch(s, (x = y) = want)
  ELSE EqCall(get_compTM(s, metatable(s.tab, x), metatable(s.tab, y)), x, y, want)

strcoll(x, y) == CHOOSE d \in -Len(Collation)..Len(Collation) :
                   \E i, j \in DOMAIN Collation : Collation[i] = x /\ Collation[j] = y /\ d = i - j
Ordered(x, y) == Type(x) = Type(y) /\ Type(x) \in {"num", "str"}
l_order(x, y) == IF Type(x) = "num" THEN x[2] - y[2] ELSE strcoll(x[2], y[2])
OrderTM(s, x, y, event) ==          \* the method both have
  LET m == luaT_gettmbyobj(s.tab, x, event)
  IN IF Type(x) = Type(y) /\ m = luaT_gettmbyobj(s.tab, y, event) THEN m ELSE Nil
luaV_lessthan(s, x, y, want) ==
  CASE Ordered(x, y) -> Branch(s, (l_order(x, y) < 0) = want)
    [] ~Ordered(x, y) /\ OrderTM(s, x, y, "__lt") # Nil ->
         callTMres(s, OrderTM(s, x, y, "__lt"), x, y, <<"test", want>>)
    [] OTHER -> luaG_runerror(s)
lessequal(s, x, y, want) ==
  CASE Ordered(x, y) -> Branch(s, (l_order(x, y) <= 0) = want)
    [] ~Ordered(x, y) /\ OrderTM(s, x, y, "__le") # Nil ->
         callTMres(s, OrderTM(s, x, y, "__le"), x, y, <<"test", want>>)
    [] ~Ordered(x, y) /\ OrderTM(s, x, y, "__le") = Nil /\ OrderTM(s, y, x, "__lt") # Nil ->
         callTMres(s, OrderTM(s, y, x, "__lt"), y, x, <<"test", ~want>>)
    [] OTHER -> luaG_runerror(s)
-----------------------------------------------------------------------------
(* The instructions.                                                       *)

VARIABLES prog,                \* the program
          main,                \* what the compiler made of it
          L                    \* the machine

vars == <<prog, main, L>>

I == Inst(L)
Next1 == dojump(L, 1)               \* the instruction is fetched
Op(o) == L.status = "run" /\ I.op = o /\ UNCHANGED <<prog, main>>

OP_MOVE == Op("MOVE") /\ L' = SetR(Next1, I.a, R(L, I.b))
OP_LOADK == Op("LOADK") /\ L' = SetR(Next1, I.a, KBx(L, I.b))
OP_LOADBOOL == Op("LOADBOOL") /\ L' = SetR(dojump(L, IF I.c = 0 THEN 1 ELSE 2), I.a, Bool(I.b = 1))
OP_LOADNIL == Op("LOADNIL") /\ L' = Put(Next1, ci(L).base + I.a, Nils(I.b - I.a + 1))
OP_GETUPVAL == Op("GETUPVAL") /\ L' = SetR(Next1, I.a, UpVal(L, LClosure(L).upvals[I.b + 1]))
OP_SETUPVAL == Op("SETUPVAL") /\ L' = SetUpVal(Next1, LClosure(L).upvals[I.b + 1], R(L, I.a))

\* the table of globals is the first there is
OP_GETGLOBAL == Op("GETGLOBAL") /\ L' = luaV_gettable(Next1, <<"tab", 1>>, KBx(L, I.b), I.a)
OP_SETGLOBAL == Op("SETGLOBAL") /\ L' = luaV_settable(Next1, <<"tab", 1>>, KBx(L, I.b), R(L, I.a))
OP_GETTABLE == Op("GETTABLE") /\ L' = luaV_gettable(Next1, R(L, I.b), RK(L, I.c), I.a)
OP_SETTABLE == Op("SETTABLE") /\ L' = luaV_settable(Next1, R(L, I.a), RK(L, I.b), RK(L, I.c))
OP_SELF == Op("SELF") /\ L' = luaV_gettable(SetR(Next1, I.a + 1, R(L, I.b)), R(L, I.b), RK(L, I.c), I.a)
NewTableAt(s, a) == SetR(s, a, s.r)
OP_NEWTABLE == Op("NEWTABLE") /\ L' = NewTableAt(luaH_new(Next1), I.a)

OP_ARITH == /\ L.status = "run" /\ I.op \in {"ADD", "SUB", "MUL", "DIV", "MOD", "POW"}
            /\ L' = Arith(Next1, I.a, I.op, RK(L, I.b), RK(L, I.c))
            /\ UNCHANGED <<prog, main>>
OP_UNM == Op("UNM") /\ L' = Arith(Next1, I.a, "UNM", R(L, I.b), R(L, I.b))
OP_NOT == Op("NOT") /\ L' = SetR(Next1, I.a, Bool(l_isfalse(R(L, I.b))))
OP_LEN ==
  /\ Op("LEN")
  /\ L' = CASE Type(R(L, I.b)) = "tab" -> SetR(Next1, I.a, Num(luaH_getn(L.tab, R(L, I.b)[2])))
            [] Type(R(L, I.b)) = "str" -> SetR(Next1, I.a, Num(Len(R(L, I.b)[2])))
            [] OTHER -> call_binTM(Next1, R(L, I.b), Nil, I.a, "__len")
OP_CONCAT == Op("CONCAT") /\ L' = luaV_concat(Next1, I.b, I.c)

OP_JMP == Op("JMP") /\ L' = dojump(L, I.b + 1)
OP_EQ == Op("EQ") /\ L' = equalobj(Next1, RK(L, I.b), RK(L, I.c), I.a = 1)
OP_LT == Op("LT") /\ L' = luaV_lessthan(Next1, RK(L, I.b), RK(L, I.c), I.a = 1)
OP_LE == Op("LE") /\ L' = lessequal(Next1, RK(L, I.b), RK(L, I.c), I.a = 1)
OP_TEST == Op("TEST") /\ L' = Branch(Next1, l_isfalse(R(L, I.a)) # (I.c = 1))
OP_TESTSET ==
  /\ Op("TESTSET")
  /\ L' = IF l_isfalse(R(L, I.b)) # (I.c = 1) THEN Branch(SetR(Next1, I.a, R(L, I.b)), TRUE)
          ELSE Branch(Next1, FALSE)

WithTop(s, a, b) == IF b = 0 THEN s ELSE [s EXCEPT !.top = ci(s).base + a + b]
OP_CALL ==
  Op("CALL") /\ L' = Do("call", WithTop(Next1, I.a, I.b),
                        [func |-> ci(L).base + I.a, nresults |-> I.c - 1, then |-> <<"call">>])

\* a tail call: the new frame takes the place of the one that calls
Replace(s) ==
  LET old == s.ci[Len(s.ci) - 1]
      new == ci(s)
      down == old.func - new.func
  IN [Put(luaF_close(s, old.base), old.func, Slots(s, new.func, s.top - new.func))
      EXCEPT !.ci = Append(Front(Front(@)), [old EXCEPT !.base = new.base + down, !.top = s.top + down, !.pc = 0]),
             !.top = s.top + down]
TailCalled(s, depth) == IF Len(s.ci) > depth /\ ci(s).then = <<"tail">> THEN Replace(s) ELSE s
OP_TAILCALL ==
  Op("TAILCALL") /\ L' = TailCalled(Do("call", WithTop(Next1, I.a, I.b),
                                       [func |-> ci(L).base + I.a, nresults |-> LUA_MULTRET, then |-> <<"tail">>]),
                                    Len(L.ci))
OP_RETURN ==
  Op("RETURN") /\ L' = luaD_poscall(luaF_close(IF I.b = 0 THEN Next1 ELSE [Next1 EXCEPT !.top = ci(L).base + I.a + I.b - 1], ci(L).base),
                                    ci(L).base + I.a)

ForRuns(idx, limit, step) == IF step > 0 THEN idx <= limit ELSE limit <= idx
OP_FORLOOP ==
  LET idx == R(L, I.a)[2] + R(L, I.a + 2)[2]
  IN /\ Op("FORLOOP")
     /\ L' = IF ForRuns(idx, R(L, I.a + 1)[2], R(L, I.a + 2)[2])
             THEN SetR(SetR(dojump(Next1, I.b), I.a, Num(idx)), I.a + 3, Num(idx))
             ELSE Next1
OP_FORPREP ==
  LET init == [j \in 0..2 |-> luaV_tonumber(R(L, I.a + j))]
  IN /\ Op("FORPREP")
     /\ L' = IF \E j \in 0..2 : init[j] = Nil THEN luaG_runerror(Next1)
             ELSE Put(dojump(Next1, I.b), ci(L).base + I.a, <<Num(init[0][2] - init[2][2]), init[1], init[2]>>)
OP_TFORLOOP ==
  LET cb == ci(L).base + I.a + 3
  IN Op("TFORLOOP") /\ L' = luaD_call([Put(Next1, cb, Slots(L, cb - 3, 3)) EXCEPT !.top = cb + 3], cb, I.c, <<"for">>)

OP_SETLIST ==
  LET n == IF I.b = 0 THEN L.top - (ci(L).base + I.a) - 1 ELSE I.b
      first == (I.c - 1) * LFIELDS_PER_FLUSH
      t == R(L, I.a)[2]
      item(k) == R(L, I.a + k[2] - first)
      items == {k \in {Num(first + j) : j \in 1..n} : item(k) # Nil}
  IN /\ Op("SETLIST")
     /\ L' = [Next1 EXCEPT !.top = ci(L).top,
                !.tab[t].map = [k \in (DOMAIN @ \ {Num(first + j) : j \in 1..n}) \cup items |->
                                  IF k \in items THEN item(k) ELSE @[k]]]
OP_CLOSE == Op("CLOSE") /\ L' = luaF_close(Next1, ci(L).base + I.a)

RECURSIVE Capture(_, _, _)
AddUpval(s, upvals) == <<s, Append(upvals, s.r)>>
Capture(s, upvals, n) ==            \* the n pseudo-instructions after CLOSURE
  IF n = 0 THEN <<s, upvals>>
  ELSE LET got == IF Inst(s).op = "GETUPVAL" THEN AddUpval([s EXCEPT !.r = LClosure(s).upvals[Inst(s).b + 1]], upvals)
                  ELSE AddUpval(luaF_findupval(s, ci(s).base + Inst(s).b), upvals)
       IN Capture(dojump(got[1], 1), got[2], n - 1)
NewClosure(got, p, a) ==
  SetR([got[1] EXCEPT !.cl = Append(@, [p |-> p, upvals |-> got[2]])], a, <<"fun", Len(got[1].cl) + 1>>)
OP_CLOSURE ==
  LET p == LClosure(L).p.p[I.b + 1]
  IN Op("CLOSURE") /\ L' = NewClosure(Capture(Next1, <<>>, p.nups), p, I.a)

OP_VARARG ==
  LET n == ci(L).base - ci(L).func - LClosure(L).p.numparams - 1
      b == IF I.b = 0 THEN n ELSE I.b - 1
      ra == ci(L).base + I.a
      vs == Slots(L, ci(L).base - n, Min2(n, b)) \o Nils(b - n)
  IN Op("VARARG") /\ L' = [Put(Next1, ra, vs) EXCEPT !.top = IF I.b = 0 THEN ra + n ELSE @]

Execute ==
  \/ OP_MOVE \/ OP_LOADK \/ OP_LOADBOOL \/ OP_LOADNIL \/ OP_GETUPVAL \/ OP_SETUPVAL \/ OP_GETGLOBAL \/ OP_SETGLOBAL
  \/ OP_GETTABLE \/ OP_SETTABLE \/ OP_SELF \/ OP_NEWTABLE \/ OP_ARITH \/ OP_UNM \/ OP_NOT \/ OP_LEN \/ OP_CONCAT
  \/ OP_JMP \/ OP_EQ \/ OP_LT \/ OP_LE \/ OP_TEST \/ OP_TESTSET \/ OP_CALL \/ OP_TAILCALL \/ OP_RETURN
  \/ OP_FORLOOP \/ OP_FORPREP \/ OP_TFORLOOP \/ OP_SETLIST \/ OP_CLOSE \/ OP_CLOSURE \/ OP_VARARG
-----------------------------------------------------------------------------
\* a new state: the globals are the C functions, the only CallInfo is the host's
lua_open ==
  [stack |-> [q \in 0..STACKSIZE - 1 |-> Nil], top |-> 1, nCcalls |-> 0, openupval |-> <<>>, uv |-> <<>>, cl |-> <<>>,
   ci |-> <<[func |-> 0, base |-> 1, top |-> 1, pc |-> 0, nresults |-> 0, then |-> <<"host">>]>>,
   tab |-> <<[map |-> [k \in {Str(n) : n \in CFunctions} |-> <<"cfun", k[2]>>], meta |-> 0, flags |-> {}]>>,
   out |-> <<>>, status |-> "run", r |-> 0]
\* luaD_protectedparser, and the call of what it pushed
f_parser(s, p) == [s EXCEPT !.cl = Append(@, [p |-> p, upvals |-> <<>>]), !.stack[s.top] = <<"fun", Len(s.cl) + 1>>,
                            !.top = @ + 1]
=============================================================================

------------------------------ MODULE LuaCode ------------------------------
(***************************************************************************)
(* The code generator of the Lua compiler (lua/lcode.c).                   *)
(*                                                                         *)
(* s is the state of a compilation: s.fs the FuncState of the function     *)
(* being compiled, s.e the expdescs that are alive (an `expdesc *e' is a   *)
(* place in it), s.r what the last call returned, s.ok that no lua_assert  *)
(* has failed, s.err that a syntax error was raised.  A place in the code  *)
(* counts from 0 as in the source.  Line numbers and names for debugging   *)
(* are left out.                                                           *)
(***************************************************************************)
EXTENDS Integers, Sequences, SequencesExt

CONSTANTS MAXINDEXRK,          \* constants above it do not fit an operand
          LFIELDS_PER_FLUSH,   \* items of a constructor stored at once
          MAXSTACK             \* registers a function may have

ASSUME LimitsAssumption == MAXINDEXRK \in Nat /\ LFIELDS_PER_FLUSH \in Nat \ {0} /\ MAXSTACK \in Nat

NO_JUMP == -1
NO_REG == 255
LUA_MULTRET == -1
BITRK == 256
ISK(x) == x >= BITRK
RKASK(x) == x + BITRK

CREATE_ABC(o, a, b, c) == [op |-> o, a |-> a, b |-> b, c |-> c]
testTMode(op) == op \in {"EQ", "LT", "LE", "TEST", "TESTSET", "TFORLOOP"}

pc(s) == Len(s.fs.code)
getcode(s, e) == s.fs.code[s.e[e].info + 1]
hasjumps(x) == x.t # x.f
isnumeral(x) == x.k = "VKNUM" /\ x.t = NO_JUMP /\ x.f = NO_JUMP
SetExp(s, e, k, info) == [s EXCEPT !.e[e].k = k, !.e[e].info = info]
lua_assert(s, c) == [s EXCEPT !.ok = @ /\ c]
\* longjmp: the rest of the source is not read and the result is not used
luaX_syntaxerror(s) == [s EXCEPT !.err = TRUE, !.t = <<<<"eos">>>>]

\* sizes in NEWTABLE are "floating point bytes", rounded up
RECURSIVE Int2fb(_, _)
Int2fb(x, e) == IF x >= 16 THEN Int2fb((x + 1) \div 2, e + 1) ELSE IF x < 8 THEN x ELSE (e + 1) * 8 + x - 8
luaO_int2fb(x) == Int2fb(x, 0)
luaO_fb2int(x) == IF x < 8 THEN x ELSE ((x % 8) + 8) * 2 ^ ((x \div 8) - 1)
-----------------------------------------------------------------------------
(* Lists of jumps, chained through their offsets.                          *)

getjump(code, p) == IF code[p + 1].b = NO_JUMP THEN NO_JUMP ELSE p + 1 + code[p + 1].b

RECURSIVE Jumps(_, _)
Jumps(code, list) ==
  IF list = NO_JUMP THEN <<>> ELSE <<list>> \o Jumps(code, getjump(code, list))

getjumpcontrol(code, p) == IF p >= 1 /\ testTMode(code[p].op) THEN p - 1 ELSE p
IsTestset(code, p) == code[getjumpcontrol(code, p) + 1].op = "TESTSET"

need_value(code, list) == \E j \in Range(Jumps(code, list)) : ~IsTestset(code, j)

patchtestreg(i, reg) ==
  IF i.op # "TESTSET" THEN i
  ELSE IF reg # NO_REG /\ reg # i.b THEN [i EXCEPT !.a = reg]
  ELSE CREATE_ABC("TEST", i.b, 0, i.c)

fixjump(s, p, dest) ==
  lua_assert([s EXCEPT !.fs.code[p + 1].b = dest - (p + 1)], dest # NO_JUMP)

\* the instructions that control a list of jumps get the register reg
PatchControls(code, js, reg) ==
  [q \in DOMAIN code |-> IF \E j \in js : getjumpcontrol(code, j) = q - 1
                         THEN patchtestreg(code[q], reg) ELSE code[q]]
removevalues(s, list) ==
  [s EXCEPT !.fs.code = PatchControls(@, Range(Jumps(@, list)), NO_REG)]

\* jumps that produce a value go to vtarget, the others to dtarget
PatchJumps(code, js, vtarget, dtarget) ==
  [q \in DOMAIN code |-> IF q - 1 \notin js THEN code[q]
                         ELSE [code[q] EXCEPT !.b = (IF IsTestset(code, q - 1) THEN vtarget ELSE dtarget) - q]]
PatchAll(s, js, vtarget, reg, dtarget) ==
  [s EXCEPT !.fs.code = PatchControls(PatchJumps(@, js, vtarget, dtarget), js, reg)]
patchlistaux(s, list, vtarget, reg, dtarget) ==
  PatchAll(s, Range(Jumps(s.fs.code, list)), vtarget, reg, dtarget)

ConcatDrops(s, l1, l2) ==           \* the second list replaces the first
  [s EXCEPT !.r = IF l2 = NO_JUMP THEN l1 ELSE l2]

luaK_concat(s, l1, l2) ==
  IF l2 = NO_JUMP THEN [s EXCEPT !.r = l1]
  ELSE IF l1 = NO_JUMP THEN [s EXCEPT !.r = l2]
  ELSE [fixjump(s, Last(Jumps(s.fs.code, l1)), l2) EXCEPT !.r = l1]

luaK_getlabel(s) == [s EXCEPT !.fs.lasttarget = pc(s), !.r = pc(s)]

ToHere(s) == [s EXCEPT !.fs.jpc = s.r]
luaK_patchtohere(s, list) == ToHere(luaK_concat(luaK_getlabel(s), s.fs.jpc, list))

luaK_patchlist(s, list, target) ==
  IF target = pc(s) THEN luaK_patchtohere(s, list)
  ELSE lua_assert(patchlistaux(s, list, target, NO_REG, target), target < pc(s))
-----------------------------------------------------------------------------
(* Instructions.                                                           *)

dischargejpc(s) ==
  [patchlistaux(s, s.fs.jpc, pc(s), NO_REG, pc(s)) EXCEPT !.fs.jpc = NO_JUMP]
luaK_code(s, i) ==
  [dischargejpc(s) EXCEPT !.fs.code = Append(@, i), !.r = pc(s)]
luaK_codeABC(s, o, a, b, c) == luaK_code(s, CREATE_ABC(o, a, b, c))
luaK_codeABx(s, o, a, bx) == luaK_code(s, CREATE_ABC(o, a, bx, 0))

HoldJumps(s, jpc) == luaK_concat(s, s.r, jpc)
luaK_jump(s) ==
  HoldJumps(luaK_codeABx([s EXCEPT !.fs.jpc = NO_JUMP], "JMP", 0, NO_JUMP), s.fs.jpc)
luaK_ret(s, first, nret) == luaK_codeABC(s, "RETURN", first, nret + 1, 0)
condjump(s, op, a, b, c) == luaK_jump(luaK_codeABC(s, op, a, b, c))

luaK_nil(s, from, n) ==
  LET i == s.fs.code[pc(s)]
      free == pc(s) > s.fs.lasttarget                  \* no jumps to here
      joins == i.op = "LOADNIL" /\ i.a <= from /\ from <= i.b + 1
  IN CASE free /\ pc(s) = 0 /\ from >= s.fs.nactvar -> s
       [] free /\ pc(s) > 0 /\ joins ->
            [s EXCEPT !.fs.code[pc(s)].b = IF from + n - 1 > @ THEN from + n - 1 ELSE @]
       [] OTHER -> luaK_codeABC(s, "LOADNIL", from, from + n - 1, 0)

\* items beyond the last full flush start at (c - 1) * LFIELDS_PER_FLUSH
luaK_setlist(s, base, nelems, tostore) ==
  [luaK_codeABC(lua_assert(s, tostore # 0), "SETLIST", base, IF tostore = LUA_MULTRET THEN 0 ELSE tostore,
                ((nelems - 1) \div LFIELDS_PER_FLUSH) + 1)
   EXCEPT !.fs.freereg = base + 1]
-----------------------------------------------------------------------------
(* Registers and constants.                                                *)

luaK_checkstack(s, n) ==
  IF s.fs.freereg + n <= s.fs.maxstacksize THEN s
  ELSE IF s.fs.freereg + n >= MAXSTACK THEN luaX_syntaxerror(s)
  ELSE [s EXCEPT !.fs.maxstacksize = s.fs.freereg + n]

luaK_reserveregs(s, n) == [luaK_checkstack(s, n) EXCEPT !.fs.freereg = @ + n]
freereg(s, reg) ==
  IF ISK(reg) \/ reg < s.fs.nactvar THEN s
  ELSE lua_assert([s EXCEPT !.fs.freereg = @ - 1], reg = s.fs.freereg - 1)
freeexp(s, e) == IF s.e[e].k = "VNONRELOC" THEN freereg(s, s.e[e].info) ELSE s

addk(s, v) ==
  IF v \in Range(s.fs.k) THEN [s EXCEPT !.r = (CHOOSE i \in DOMAIN s.fs.k : s.fs.k[i] = v) - 1]
  ELSE [s EXCEPT !.fs.k = Append(@, v), !.r = Len(s.fs.k)]
luaK_stringK(s, str) == addk(s, <<"str", str>>)
luaK_numberK(s, n) == addk(s, <<"num", n>>)
boolK(s, b) == addk(s, <<"bool", b>>)
nilK(s) == addk(s, <<"nil">>)
-----------------------------------------------------------------------------
(* Expressions.                                                            *)

luaK_setreturns(s, e, nresults) ==
  CASE s.e[e].k = "VCALL" -> [s EXCEPT !.fs.code[s.e[e].info + 1].c = nresults + 1]
    [] s.e[e].k = "VVARARG" ->
         luaK_reserveregs([s EXCEPT !.fs.code[s.e[e].info + 1].b = nresults + 1,
                                    !.fs.code[s.e[e].info + 1].a = s.fs.freereg], 1)
    [] OTHER -> s
luaK_setmultret(s, e) == luaK_setreturns(s, e, LUA_MULTRET)
luaK_setoneret(s, e) ==
  CASE s.e[e].k = "VCALL" -> SetExp(s, e, "VNONRELOC", getcode(s, e).a)
    [] s.e[e].k = "VVARARG" -> [s EXCEPT !.fs.code[s.e[e].info + 1].b = 2, !.e[e].k = "VRELOCABLE"]
    [] OTHER -> s

Relocable(s, e) == SetExp(s, e, "VRELOCABLE", s.r)
Getter(x) ==
  CASE x.k = "VUPVAL" -> CREATE_ABC("GETUPVAL", 0, x.info, 0)
    [] x.k = "VGLOBAL" -> CREATE_ABC("GETGLOBAL", 0, x.info, 0)
    [] x.k = "VINDEXED" -> CREATE_ABC("GETTABLE", 0, x.info, x.aux)
luaK_dischargevars(s, e) ==
  LET x == s.e[e] IN
  CASE x.k = "VLOCAL" -> [s EXCEPT !.e[e].k = "VNONRELOC"]
    [] x.k \in {"VUPVAL", "VGLOBAL", "VINDEXED"} ->
         Relocable(luaK_code(IF x.k = "VINDEXED" THEN freereg(freereg(s, x.aux), x.info) ELSE s, Getter(x)), e)
    [] OTHER -> luaK_setoneret(s, e)

code_label(s, a, b, jump) == luaK_codeABC(luaK_getlabel(s), "LOADBOOL", a, b, jump)

LoadK(s, reg) == luaK_codeABx(s, "LOADK", reg, s.r)
Load(s, e, reg) ==
  LET x == s.e[e] IN
  CASE x.k = "VNIL" -> luaK_nil(s, reg, 1)
    [] x.k \in {"VFALSE", "VTRUE"} -> luaK_codeABC(s, "LOADBOOL", reg, IF x.k = "VTRUE" THEN 1 ELSE 0, 0)
    [] x.k \in {"VK", "VKNUM"} -> LoadK(IF x.k = "VK" THEN [s EXCEPT !.r = x.info] ELSE luaK_numberK(s, x.info), reg)
    [] x.k = "VRELOCABLE" -> [s EXCEPT !.fs.code[x.info + 1].a = reg]
    [] x.k = "VNONRELOC" /\ reg # x.info -> luaK_codeABC(s, "MOVE", reg, x.info, 0)
    [] OTHER -> s
Loaded(s, e, reg) ==
  IF s.e[e].k \in {"VVOID", "VJMP"} THEN s ELSE SetExp(Load(s, e, reg), e, "VNONRELOC", reg)
discharge2reg(s, e, reg) == Loaded(luaK_dischargevars(s, e), e, reg)
discharge2anyreg(s, e) ==
  IF s.e[e].k = "VNONRELOC" THEN s ELSE discharge2reg(luaK_reserveregs(s, 1), e, s.fs.freereg)

\* exp2reg puts the value into reg: first the jump of a comparison joins the
\* list of the true exits, then exits that bring no value get one loaded
PutT(s, e) == [s EXCEPT !.e[e].t = s.r]
JoinJump(s, e) ==
  IF s.e[e].k = "VJMP" THEN PutT(luaK_concat(s, s.e[e].t, s.e[e].info), e) ELSE s
PatchExits(s, e, reg, p_f, p_t) ==
  patchlistaux(patchlistaux(luaK_getlabel(s), s.e[e].f, pc(s), reg, p_f), s.e[e].t, pc(s), reg, p_t)
LoadExits(s, e, reg, fj) ==         \* s.r: where LOADBOOL true is
  PatchExits(luaK_patchtohere(s, fj), e, reg, s.r - 1, s.r)
LoadBools(s, e, reg, fj) ==
  LoadExits(code_label(code_label(s, reg, 0, 1), reg, 1, 0), e, reg, fj)
SkipBools(s, e, reg) == LoadBools(s, e, reg, s.r)   \* s.r: the jump over them
CloseExits(s, e, reg) ==
  CASE ~hasjumps(s.e[e]) -> s
    [] ~need_value(s.fs.code, s.e[e].t) /\ ~need_value(s.fs.code, s.e[e].f) ->
         PatchExits(s, e, reg, NO_JUMP, NO_JUMP)
    [] OTHER -> SkipBools(IF s.e[e].k = "VJMP" THEN [s EXCEPT !.r = NO_JUMP] ELSE luaK_jump(s), e, reg)
InReg(s, e, reg) == [s EXCEPT !.e[e] = [k |-> "VNONRELOC", info |-> reg, aux |-> 0, t |-> NO_JUMP, f |-> NO_JUMP],
                              !.r = reg]
exp2reg(s, e, reg) == InReg(CloseExits(JoinJump(discharge2reg(s, e, reg), e), e, reg), e, reg)

NextReg(s, e) == luaK_reserveregs(freeexp(s, e), 1)
ToLast(s, e) == exp2reg(s, e, s.fs.freereg - 1)
luaK_exp2nextreg(s, e) == ToLast(NextReg(luaK_dischargevars(s, e), e), e)

\* a value with jumps stays in its register unless a local variable has it
Settle(s, e, own) == exp2reg(s, e, IF own THEN s.e[e].info ELSE s.fs.freereg - 1)
InOwn(s, e, own) == Settle(IF own THEN s ELSE NextReg(s, e), e, own)
ToAny(s, e) ==
  IF s.e[e].k = "VNONRELOC" /\ ~hasjumps(s.e[e]) THEN [s EXCEPT !.r = s.e[e].info]
  ELSE InOwn(s, e, s.e[e].k = "VNONRELOC" /\ s.e[e].info >= s.fs.nactvar)
luaK_exp2anyreg(s, e) == ToAny(luaK_dischargevars(s, e), e)
ToVal(s, e, jumps) == IF jumps THEN ToAny(s, e) ELSE s
luaK_exp2val(s, e) == ToVal(luaK_dischargevars(s, e), e, hasjumps(s.e[e]))

ConstantK(s, e) ==
  LET x == s.e[e] IN
  CASE x.k = "VNIL" -> nilK(s)
    [] x.k = "VKNUM" -> luaK_numberK(s, x.info)
    [] x.k = "VK" -> [s EXCEPT !.r = x.info]
    [] OTHER -> boolK(s, x.k = "VTRUE")
AsK(s, e) == [SetExp(s, e, "VK", s.r) EXCEPT !.r = RKASK(s.r)]

FitsRK(s, e) ==
  \/ s.e[e].k \in {"VNIL", "VKNUM", "VTRUE", "VFALSE"} /\ Len(s.fs.k) <= MAXINDEXRK
  \/ s.e[e].k = "VK" /\ s.e[e].info <= MAXINDEXRK

ToRK(s, e) == IF FitsRK(s, e) THEN AsK(ConstantK(s, e), e) ELSE ToAny(luaK_dischargevars(s, e), e)
luaK_exp2RK(s, e) == ToRK(luaK_exp2val(s, e), e)

StoreInto(s, var, ex) ==            \* s.r: where the value of ex is
  freeexp(CASE s.e[var].k = "VUPVAL" -> luaK_codeABC(s, "SETUPVAL", s.r, s.e[var].info, 0)
            [] s.e[var].k = "VGLOBAL" -> luaK_codeABx(s, "SETGLOBAL", s.r, s.e[var].info)
            [] OTHER -> luaK_codeABC(s, "SETTABLE", s.e[var].info, s.e[var].aux, s.r), ex)
luaK_storevar(s, var, ex) ==
  CASE s.e[var].k = "VLOCAL" -> exp2reg(freeexp(s, ex), ex, s.e[var].info)
    [] OTHER -> StoreInto(IF s.e[var].k = "VINDEXED" THEN luaK_exp2RK(s, ex) ELSE luaK_exp2anyreg(s, ex), var, ex)

CodeSelf(s, e, key, func) ==
  SetExp(freeexp(luaK_codeABC(s, "SELF", func, s.e[e].info, s.r), key), e, "VNONRELOC", func)
SelfKey(s, e, key) ==
  CodeSelf(luaK_exp2RK(luaK_reserveregs(s, 2), key), e, key, s.fs.freereg)
luaK_self(s, e, key) == SelfKey(freeexp(luaK_exp2anyreg(s, e), e), e, key)

Indexed(s, t) == [s EXCEPT !.e[t].aux = s.r, !.e[t].k = "VINDEXED"]
luaK_indexed(s, t, k) == Indexed(luaK_exp2RK(s, k), t)
-----------------------------------------------------------------------------
(* Conditions.                                                             *)

invertjump(s, e) ==
  LET i == getjumpcontrol(s.fs.code, s.e[e].info) + 1
  IN lua_assert([s EXCEPT !.fs.code[i].a = 1 - @], testTMode(s.fs.code[i].op) /\ s.fs.code[i].op \notin {"TESTSET", "TEST"})

TestValue(s, e, cond) == condjump(freeexp(s, e), "TESTSET", NO_REG, s.e[e].info, cond)
jumponcond(s, e, cond) ==
  IF s.e[e].k = "VRELOCABLE" /\ getcode(s, e).op = "NOT"
  THEN condjump([s EXCEPT !.fs.code = Front(@)], "TEST", getcode(s, e).b, 0, 1 - cond)
  ELSE TestValue(discharge2anyreg(s, e), e, cond)

PutF(s, e) == [s EXCEPT !.e[e].f = s.r]
IsTrue(s, e) == PutF(luaK_concat(s, s.e[e].f, s.r), e)
TrueHere(s, e) == [luaK_patchtohere(s, s.e[e].t) EXCEPT !.e[e].t = NO_JUMP]
ExitIfFalse(s, e) ==
  CASE s.e[e].k \in {"VK", "VKNUM", "VTRUE"} -> [s EXCEPT !.r = NO_JUMP]
    [] s.e[e].k = "VJMP" -> [invertjump(s, e) EXCEPT !.r = s.e[e].info]
    [] OTHER -> jumponcond(s, e, 0)
luaK_goiftrue(s, e) == TrueHere(IsTrue(ExitIfFalse(luaK_dischargevars(s, e), e), e), e)

IsFalse(s, e) == PutT(luaK_concat(s, s.e[e].t, s.r), e)
FalseHere(s, e) == [luaK_patchtohere(s, s.e[e].f) EXCEPT !.e[e].f = NO_JUMP]
ExitIfTrue(s, e) ==
  CASE s.e[e].k \in {"VNIL", "VFALSE"} -> [s EXCEPT !.r = NO_JUMP]
    [] s.e[e].k = "VJMP" -> [s EXCEPT !.r = s.e[e].info]
    [] OTHER -> jumponcond(s, e, 1)
luaK_goiffalse(s, e) == FalseHere(IsFalse(ExitIfTrue(luaK_dischargevars(s, e), e), e), e)

CodeNot(s, e) == Relocable(luaK_codeABC(freeexp(s, e), "NOT", 0, s.e[e].info, 0), e)
Negated(s, e) ==
  CASE s.e[e].k \in {"VNIL", "VFALSE"} -> [s EXCEPT !.e[e].k = "VTRUE"]
    [] s.e[e].k \in {"VK", "VKNUM", "VTRUE"} -> [s EXCEPT !.e[e].k = "VFALSE"]
    [] s.e[e].k = "VJMP" -> invertjump(s, e)
    [] OTHER -> CodeNot(discharge2anyreg(s, e), e)
SwapExits(s, e) ==
  removevalues(removevalues([s EXCEPT !.e[e].t = s.e[e].f, !.e[e].f = s.e[e].t], s.e[e].t), s.e[e].f)

codenot(s, e) == SwapExits(Negated(luaK_dischargevars(s, e), e), e)
-----------------------------------------------------------------------------
(* Operators.                                                              *)

\* a number that stands for the infinity a division by zero gives
Inf == 9999
NumOp(op, x, y) ==
  CASE op = "ADD" -> x + y
    [] op = "SUB" -> x - y
    [] op = "MUL" -> x * y
    [] op = "DIV" -> IF y = 0 THEN Inf ELSE x \div y
    [] op = "MOD" -> IF y = 0 THEN Inf ELSE x - (x \div y) * y
    [] op = "POW" -> x ^ y
    [] op = "UNM" -> -x

Folds(op, x, y) == /\ isnumeral(x) /\ isnumeral(y)
                   /\ op \notin {"LEN", "CONCAT"}
                   /\ op \in {"DIV", "MOD"} => y.info # 0
constfolding(s, op, e1, e2) == [s EXCEPT !.e[e1].info = NumOp(op, @, s.e[e2].info)]

FreeBoth(s, e1, e2, o1, o2) ==
  IF o1 > o2 THEN freeexp(freeexp(s, e1), e2) ELSE freeexp(freeexp(s, e2), e1)
EmitArith(s, op, e1, e2, o2) ==     \* s.r: o1
  Relocable(luaK_codeABC(FreeBoth(s, e1, e2, s.r, o2), op, 0, s.r, o2), e1)
ArithFirst(s, op, e1, e2) == EmitArith(luaK_exp2RK(s, e1), op, e1, e2, s.r)
codearith(s, op, e1, e2) ==
  IF Folds(op, s.e[e1], s.e[e2]) THEN constfolding(s, op, e1, e2)
  ELSE ArithFirst(IF op \in {"UNM", "LEN"} THEN [s EXCEPT !.r = 0] ELSE luaK_exp2RK(s, e2), op, e1, e2)

IsJump(s, e1) == SetExp(s, e1, "VJMP", s.r)
EmitComp(s, op, cond, e1, e2, o1) ==    \* s.r: o2
  IsJump(IF cond = 0 /\ op # "EQ"
         THEN condjump(freeexp(freeexp(s, e2), e1), op, 1, s.r, o1)
         ELSE condjump(freeexp(freeexp(s, e2), e1), op, cond, o1, s.r), e1)
CompSecond(s, op, cond, e1, e2) == EmitComp(luaK_exp2RK(s, e2), op, cond, e1, e2, s.r)
codecomp(s, op, cond, e1, e2) == CompSecond(luaK_exp2RK(s, e1), op, cond, e1, e2)

\* the expdesc e2 of luaK_prefix is the one after e
WithZero(s) == [s EXCEPT !.e = Append(@, [k |-> "VKNUM", info |-> 0, aux |-> 0, t |-> NO_JUMP, f |-> NO_JUMP])]
Drop(s) == [s EXCEPT !.e = Front(@)]
luaK_prefix(s, op, e) ==
  IF op = "not" THEN codenot(s, e)
  ELSE Drop(codearith(WithZero(IF op = "-" /\ isnumeral(s.e[e]) THEN s ELSE luaK_exp2anyreg(s, e)),
                      IF op = "-" THEN "UNM" ELSE "LEN", e, e + 1))

ArithOps == [x \in {"+", "-", "*", "/", "%", "^"} |->
               CASE x = "+" -> "ADD" [] x = "-" -> "SUB" [] x = "*" -> "MUL"
                 [] x = "/" -> "DIV" [] x = "%" -> "MOD" [] x = "^" -> "POW"]
CompOps == [x \in {"==", "~=", "<", "<=", ">", ">="} |->
              CASE x = "==" -> <<"EQ", 1>> [] x = "~=" -> <<"EQ", 0>> [] x = "<" -> <<"LT", 1>>
                [] x = "<=" -> <<"LE", 1>> [] x = ">" -> <<"LT", 0>> [] x = ">=" -> <<"LE", 0>>]

luaK_infix(s, op, v) ==
  CASE op = "and" -> luaK_goiftrue(s, v)
    [] op = "or" -> luaK_goiffalse(s, v)
    [] op = ".." -> luaK_exp2nextreg(s, v)
    [] op \in DOMAIN ArithOps /\ isnumeral(s.e[v]) -> s
    [] OTHER -> luaK_exp2RK(s, v)

Copy(s, e1, e2) == [s EXCEPT !.e[e1] = s.e[e2]]
AndExits(s, e1, e2) == Copy(PutF(luaK_concat(lua_assert(s, s.e[e1].t = NO_JUMP), s.e[e2].f, s.e[e1].f), e2), e1, e2)
OrExits(s, e1, e2) == Copy(PutT(luaK_concat(lua_assert(s, s.e[e1].f = NO_JUMP), s.e[e2].t, s.e[e1].t), e2), e1, e2)
\* a .. (b .. c) is one instruction over a range of registers
Extend(s, e1, e2) ==
  SetExp([freeexp(lua_assert(s, s.e[e1].info = getcode(s, e2).b - 1), e1)
          EXCEPT !.fs.code[s.e[e2].info + 1].b = s.e[e1].info], e1, "VRELOCABLE", s.e[e2].info)
Concat(s, e1, e2) ==
  IF s.e[e2].k = "VRELOCABLE" /\ getcode(s, e2).op = "CONCAT" THEN Extend(s, e1, e2)
  ELSE codearith(luaK_exp2nextreg(s, e2), "CONCAT", e1, e2)
luaK_posfix(s, op, e1, e2) ==
  CASE op = "and" -> AndExits(luaK_dischargevars(s, e2), e1, e2)
    [] op = "or" -> OrExits(luaK_dischargevars(s, e2), e1, e2)
    [] op = ".." -> Concat(luaK_exp2val(s, e2), e1, e2)
    [] op \in DOMAIN ArithOps -> codearith(s, ArithOps[op], e1, e2)
    [] OTHER -> codecomp(s, CompOps[op][1], CompOps[op][2], e1, e2)
=============================================================================

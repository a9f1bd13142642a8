----------------------------- MODULE LuaParser -----------------------------
(***************************************************************************)
(* The parser of the Lua compiler (lua/lparser.c): one pass over the       *)
(* tokens, generating code as it goes.                                     *)
(*                                                                         *)
(* s is the state of LuaCode, with s.t the tokens not yet read (a token is *)
(* its kind and, for names, strings and numbers, its value), s.prev the    *)
(* FuncStates of the enclosing functions and s.nCcalls the depth of        *)
(* recursion.  The expdesc a function of the parser works on is always the *)
(* last of s.e.  Functions that call each other go through Parse.          *)
(***************************************************************************)
EXTENDS LuaCode

CONSTANTS LUAI_MAXVARS, LUAI_MAXUPVALUES, LUAI_MAXCCALLS

Tok(s) == s.t[1][1]
Info(s) == s.t[1][2]
luaX_next(s) == IF Tok(s) = "eos" THEN s ELSE [s EXCEPT !.t = Tail(@)]
check(s, c) == IF Tok(s) = c THEN s ELSE luaX_syntaxerror(s)
checknext(s, c) == luaX_next(check(s, c))
testnext(s, c) == IF Tok(s) = c THEN luaX_next(s) ELSE s
luaY_checklimit(s, v, l) == IF v > l THEN luaX_syntaxerror(s) ELSE s
enterlevel(s) == luaY_checklimit([s EXCEPT !.nCcalls = @ + 1], s.nCcalls + 1, LUAI_MAXCCALLS)
leavelevel(s) == [s EXCEPT !.nCcalls = @ - 1]

E(s) == Len(s.e)
Void == [k |-> "VVOID", info |-> 0, aux |-> 0, t |-> NO_JUMP, f |-> NO_JUMP]
NewExp(s) == [s EXCEPT !.e = Append(@, Void)]
init_exp(s, k, i) == [s EXCEPT !.e[E(s)] = [Void EXCEPT !.k = k, !.info = i]]
Kind(s) == s.e[E(s)].k
hasmultret(k) == k \in {"VCALL", "VVARARG"}
Returned(s, k) == init_exp(s, k, s.r)
codestring(s, str) == Returned(luaK_stringK(s, str), "VK")
checkname(s) == IF Tok(s) = "name" THEN luaX_next(codestring(s, Info(s))) ELSE luaX_syntaxerror(s)
-----------------------------------------------------------------------------
(* Variables and blocks.                                                   *)

\* actvar holds the names of the variables by register; those from nactvar on
\* are declared and not yet visible
new_localvar(s, name, n) ==
  luaY_checklimit([s EXCEPT !.fs.actvar = SubSeq(@, 1, s.fs.nactvar + n) \o <<name>>],
                  s.fs.nactvar + n + 1, LUAI_MAXVARS)
\* new_localvar(str_checkname)
NewName(s, n) == IF Tok(s) = "name" THEN luaX_next(new_localvar(s, Info(s), n)) ELSE luaX_syntaxerror(s)
adjustlocalvars(s, nvars) == [s EXCEPT !.fs.nactvar = @ + nvars]
removevars(s, tolevel) == [s EXCEPT !.fs.nactvar = tolevel, !.fs.actvar = SubSeq(@, 1, tolevel)]

Level(s, l) == IF l > Len(s.prev) THEN s.fs ELSE s.prev[l]
SetLevel(s, l, fs) == IF l > Len(s.prev) THEN [s EXCEPT !.fs = fs] ELSE [s EXCEPT !.prev[l] = fs]

NewUpvalue(fs, u) == [fs EXCEPT !.upvalues = Append(@, u)]
indexupvalue(s, l, u) ==
  IF u \in Range(Level(s, l).upvalues)
  THEN init_exp(s, "VUPVAL", (CHOOSE i \in DOMAIN Level(s, l).upvalues : Level(s, l).upvalues[i] = u) - 1)
  ELSE luaY_checklimit(init_exp(SetLevel(s, l, NewUpvalue(Level(s, l), u)), "VUPVAL", Len(Level(s, l).upvalues)),
                       Len(Level(s, l).upvalues) + 1, LUAI_MAXUPVALUES)

\* the registers of variables with this name; the last one is meant
searchvar(fs, n) == {i \in 0..fs.nactvar - 1 : fs.actvar[i + 1] = n}

markupval(fs, level) ==
  LET bs == {b \in DOMAIN fs.bl : fs.bl[b].nactvar <= level}
  IN IF bs = {} THEN fs ELSE [fs EXCEPT !.bl[Max(bs)].upval = TRUE]

RECURSIVE singlevaraux(_, _, _, _)
AsUpvalue(s, l) ==
  IF Kind(s) = "VGLOBAL" THEN s ELSE indexupvalue(s, l, <<Kind(s), s.e[E(s)].info>>)
singlevaraux(s, l, n, base) ==
  IF l = 0 THEN init_exp(s, "VGLOBAL", NO_REG)
  ELSE LET vs == searchvar(Level(s, l), n)
       IN IF vs = {} THEN AsUpvalue(singlevaraux(s, l - 1, n, FALSE), l)
          ELSE IF base THEN init_exp(s, "VLOCAL", Max(vs))
          ELSE init_exp(SetLevel(s, l, markupval(Level(s, l), Max(vs))), "VLOCAL", Max(vs))

GlobalName(s, n) == IF Kind(s) = "VGLOBAL" THEN Returned(luaK_stringK(s, n), "VGLOBAL") ELSE s
singlevar(s) ==
  IF Tok(s) # "name" THEN luaX_syntaxerror(s)
  ELSE GlobalName(singlevaraux(luaX_next(s), Len(s.prev) + 1, Info(s), TRUE), Info(s))

NilRest(s, extra) == luaK_nil(luaK_reserveregs(s, extra), s.fs.freereg, extra)
AdjustCall(s, extra) ==
  IF extra > 1 THEN luaK_reserveregs(luaK_setreturns(s, E(s), extra), extra - 1)
  ELSE luaK_setreturns(s, E(s), IF extra < 0 THEN 0 ELSE extra)
CloseLast(s) == IF Kind(s) = "VVOID" THEN s ELSE luaK_exp2nextreg(s, E(s))
AdjustNil(s, extra) == IF extra > 0 THEN NilRest(CloseLast(s), extra) ELSE CloseLast(s)
adjust_assign(s, nvars, nexps) ==
  IF hasmultret(Kind(s)) THEN AdjustCall(s, nvars - nexps + 1) ELSE AdjustNil(s, nvars - nexps)

enterblock(s, isbreakable) ==
  lua_assert([s EXCEPT !.fs.bl = Append(@, [breaklist |-> NO_JUMP, isbreakable |-> isbreakable,
                                        nactvar |-> s.fs.nactvar, upval |-> FALSE])],
         s.fs.freereg = s.fs.nactvar)
FreeBlock(s, bl) == luaK_patchtohere([s EXCEPT !.fs.freereg = s.fs.nactvar], bl.breaklist)
CloseBlock(s, bl) ==
  FreeBlock(IF bl.upval THEN luaK_codeABC(s, "CLOSE", bl.nactvar, 0, 0) ELSE s, bl)
leaveblock(s) ==
  CloseBlock([removevars(lua_assert(s, ~Last(s.fs.bl).isbreakable \/ ~Last(s.fs.bl).upval), Last(s.fs.bl).nactvar)
              EXCEPT !.fs.bl = Front(@)], Last(s.fs.bl))
-----------------------------------------------------------------------------
(* Functions.                                                              *)

NewFunc == [code |-> <<>>, k |-> <<>>, p |-> <<>>, lasttarget |-> -1, jpc |-> NO_JUMP, freereg |-> 0,
            nactvar |-> 0, actvar |-> <<>>, bl |-> <<>>, upvalues |-> <<>>, maxstacksize |-> 2,
            numparams |-> 0, is_vararg |-> {}]
open_func(s) == [s EXCEPT !.prev = Append(@, s.fs), !.fs = NewFunc]

\* the Proto a finished function leaves
Proto(fs) == [code |-> fs.code, k |-> fs.k, p |-> fs.p, nups |-> Len(fs.upvalues), numparams |-> fs.numparams,
              is_vararg |-> fs.is_vararg, maxstacksize |-> fs.maxstacksize]
PopFunc(s) == lua_assert([s EXCEPT !.fs = Last(s.prev), !.prev = Front(@), !.r = s.fs], s.fs.bl = <<>>)
close_func(s) == PopFunc(luaK_ret(removevars(s, 0), 0, 0))

RECURSIVE Captures(_, _)
Captures(s, us) ==
  IF us = <<>> THEN s
  ELSE Captures(luaK_codeABC(s, IF us[1][1] = "VLOCAL" THEN "MOVE" ELSE "GETUPVAL", 0, us[1][2], 0), Tail(us))
pushclosure(s) ==                   \* s.r: the FuncState that was closed
  Captures(Returned(luaK_codeABx([s EXCEPT !.fs.p = Append(@, Proto(s.r))], "CLOSURE", 0, Len(s.fs.p)),
                    "VRELOCABLE"), s.r.upvalues)

RECURSIVE Params(_, _)
Params(s, n) ==                     \* s.r: how many there are
  CASE Tok(s) = "name" -> IF Tok(luaX_next(s)) = "," THEN Params(luaX_next(NewName(s, n)), n + 1)
                          ELSE [NewName(s, n) EXCEPT !.r = n + 1]
    [] Tok(s) = "..." -> [luaX_next(new_localvar(s, "arg", n))
                          EXCEPT !.fs.is_vararg = {"HASARG", "NEEDSARG", "ISVARARG"}, !.r = n + 1]
    [] OTHER -> luaX_syntaxerror([s EXCEPT !.r = n])
HaveParams(s) ==
  luaK_reserveregs([s EXCEPT !.fs.numparams = s.fs.nactvar - (IF s.fs.is_vararg = {} THEN 0 ELSE 1)],
                   s.fs.nactvar)
Adjusted(s) == HaveParams(adjustlocalvars(s, s.r))
parlist(s) == Adjusted(IF Tok(s) = ")" THEN [s EXCEPT !.r = 0] ELSE Params(s, 0))
WithSelf(s, needself) == IF needself THEN adjustlocalvars(new_localvar(s, "self", 0), 1) ELSE s
-----------------------------------------------------------------------------
RECURSIVE Parse(_, _, _)
expr(s) == Parse("subexpr", NewExp(s), 0)         \* into an expdesc of its own
chunk(s) == Parse("chunk", s, FALSE)

body(s, needself) ==
  pushclosure(close_func(checknext(chunk(checknext(parlist(
    WithSelf(checknext(open_func(s), "("), needself)), ")")), "end")))

field(s) == Drop(luaK_indexed(checkname(NewExp(luaX_next(luaK_exp2anyreg(s, E(s))))), E(s), E(s) + 1))
ValueKey(s) == checknext(luaK_exp2val(s, E(s)), "]")
yindex(s) == ValueKey(expr(luaX_next(s)))

\* explist1; s.r: how many there are
explist1(s) == Parse("more", expr(s), 1)
MoreExps(s, n) ==
  IF Tok(s) = "," THEN Parse("more", Parse("subexpr", luaX_next(luaK_exp2nextreg(s, E(s))), 0), n + 1)
  ELSE [s EXCEPT !.r = n]
-----------------------------------------------------------------------------
(* Constructors.  cc counts; the table is the last expdesc but one, the    *)
(* item read last is the last.                                             *)

SetField(s, rkkey, reg) ==          \* s.r: the value
  Drop(Drop([luaK_codeABC(s, "SETTABLE", s.e[E(s) - 3].info, rkkey, s.r) EXCEPT !.fs.freereg = reg]))
FieldValue(s, rkkey, reg) == SetField(luaK_exp2RK(s, E(s)), rkkey, reg)
FieldKey(s, reg) == FieldValue(expr(s), s.r, reg)
recfield(s) ==
  FieldKey(luaK_exp2RK(checknext(IF Tok(s) = "name" THEN checkname(NewExp(s)) ELSE yindex(s), "="), E(s) + 1),
           s.fs.freereg)

Flush(s, cc) ==
  IF cc.tostore = LFIELDS_PER_FLUSH THEN luaK_setlist(s, s.e[E(s) - 1].info, cc.na, cc.tostore) ELSE s
Closed(s) == [s EXCEPT !.e[E(s)].k = "VVOID"]
closelistfield(s, cc) == IF Kind(s) = "VVOID" THEN s ELSE Flush(Closed(luaK_exp2nextreg(s, E(s))), cc)
Flushed(s, cc) == IF Kind(s) # "VVOID" /\ cc.tostore = LFIELDS_PER_FLUSH THEN [cc EXCEPT !.tostore = 0] ELSE cc

lastlistfield(s, cc) ==
  CASE cc.tostore = 0 -> s
    [] cc.tostore # 0 /\ hasmultret(Kind(s)) ->
         luaK_setlist(luaK_setmultret(s, E(s)), s.e[E(s) - 1].info, cc.na, LUA_MULTRET)
    [] OTHER -> luaK_setlist(CloseLast(s), s.e[E(s) - 1].info, cc.na, cc.tostore)
FinishTable(s, cc, more) ==
  Drop([s EXCEPT !.fs.code[cc.pc + 1].b = luaO_int2fb(IF more THEN cc.na - 1 ELSE cc.na),
                 !.fs.code[cc.pc + 1].c = luaO_int2fb(cc.nh)])

Separator(s, cc) ==
  IF Tok(s) \in {",", ";"} THEN Parse("fields", luaX_next(s), cc)
  ELSE FinishTable(lastlistfield(checknext(s, "}"), cc), cc, cc.tostore # 0 /\ hasmultret(Kind(s)))
IsRecord(s) == Tok(s) = "[" \/ (Tok(s) = "name" /\ Tok(luaX_next(s)) = "=")
Field(s, cc) ==
  IF IsRecord(s) THEN Separator(recfield(s), [cc EXCEPT !.nh = @ + 1])
  ELSE Separator(Parse("subexpr", s, 0), [cc EXCEPT !.na = @ + 1, !.tostore = @ + 1])
Fields(s, cc) ==
  IF Tok(s) = "}" THEN Separator(s, cc) ELSE Field(closelistfield(s, cc), Flushed(s, cc))

TableAt(s, at) ==
  Parse("fields", NewExp(checknext(luaK_exp2nextreg(s, E(s)), "{")),
        [pc |-> at, na |-> 0, nh |-> 0, tostore |-> 0])
NewTable(s) == TableAt(Returned(s, "VRELOCABLE"), s.r)
constructor(s) == NewTable(luaK_codeABC(s, "NEWTABLE", 0, 0, 0))
-----------------------------------------------------------------------------
(* Expressions.                                                            *)

\* the arguments are the last expdesc, the function the one before it
Called(s, base) == [Returned(s, "VCALL") EXCEPT !.fs.freereg = base + 1]
EmitCall(s, nparams, base) == Called(Drop(luaK_codeABC(s, "CALL", base, nparams + 1, 2)), base)
ClosedCall(s, base) == EmitCall(s, s.fs.freereg - (base + 1), base)
Arguments(s, base) ==
  IF hasmultret(Kind(s)) THEN EmitCall(s, LUA_MULTRET, base) ELSE ClosedCall(CloseLast(s), base)
ArgList(s) == checknext(luaK_setmultret(s, E(s)), ")")
ReadArgs(s) ==
  CASE Tok(s) = "(" /\ Tok(luaX_next(s)) = ")" -> luaX_next(luaX_next(NewExp(s)))
    [] Tok(s) = "(" -> ArgList(explist1(luaX_next(s)))
    [] Tok(s) = "{" -> Parse("constructor", NewExp(s), 0)
    [] Tok(s) = "string" -> luaX_next(codestring(NewExp(s), Info(s)))
    [] OTHER -> luaX_syntaxerror(NewExp(s))
funcargs(s) == Arguments(ReadArgs(lua_assert(s, Kind(s) = "VNONRELOC")), s.e[E(s)].info)

prefixexp(s) ==
  IF Tok(s) = "(" THEN luaK_dischargevars(checknext(Parse("subexpr", luaX_next(s), 0), ")"), E(s))
  ELSE singlevar(s)
IndexBy(s) == Drop(luaK_indexed(s, E(s) - 1, E(s)))
Method(s) == Drop(luaK_self(s, E(s) - 1, E(s)))
Suffix(s) ==
  CASE Tok(s) = "." -> field(s)
    [] Tok(s) = "[" -> IndexBy(yindex(luaK_exp2anyreg(s, E(s))))
    [] Tok(s) = ":" -> funcargs(Method(checkname(NewExp(luaX_next(s)))))
    [] OTHER -> funcargs(luaK_exp2nextreg(s, E(s)))
SuffixLoop(s) ==
  IF Tok(s) \in {".", "[", ":", "(", "string", "{"} THEN Parse("suffixes", Suffix(s), 0) ELSE s
primaryexp(s) == Parse("suffixes", prefixexp(s), 0)

Dots(s) ==
  IF s.fs.is_vararg = {} THEN luaX_syntaxerror(s)
  ELSE Returned(luaK_codeABC([s EXCEPT !.fs.is_vararg = @ \ {"NEEDSARG"}], "VARARG", 0, 1, 0), "VVARARG")
simpleexp(s) ==
  CASE Tok(s) = "number" -> luaX_next(init_exp(s, "VKNUM", Info(s)))
    [] Tok(s) = "string" -> luaX_next(codestring(s, Info(s)))
    [] Tok(s) = "nil" -> luaX_next(init_exp(s, "VNIL", 0))
    [] Tok(s) = "true" -> luaX_next(init_exp(s, "VTRUE", 0))
    [] Tok(s) = "false" -> luaX_next(init_exp(s, "VFALSE", 0))
    [] Tok(s) = "..." -> luaX_next(Dots(s))
    [] Tok(s) = "{" -> Parse("constructor", s, 0)
    [] Tok(s) = "function" -> Parse("body", luaX_next(s), FALSE)
    [] OTHER -> Parse("primary", s, 0)

priority == [o \in {"+", "-", "*", "/", "%", "^", "..", "==", "~=", "<", "<=", ">", ">=", "and", "or"} |->
               CASE o \in {"+", "-"} -> <<6, 6>>
                 [] o \in {"*", "/", "%"} -> <<7, 7>>
                 [] o = "^" -> <<10, 9>>
                 [] o = ".." -> <<5, 4>>
                 [] o = "and" -> <<2, 2>>
                 [] o = "or" -> <<1, 1>>
                 [] OTHER -> <<3, 3>>]
UNARY_PRIORITY == 8

BinOps(s, limit) ==
  IF Tok(s) \in DOMAIN priority /\ priority[Tok(s)][1] > limit
  THEN Parse("binops",
         Drop(luaK_posfix(Parse("subexpr", NewExp(luaK_infix(luaX_next(s), Tok(s), E(s))), priority[Tok(s)][2]),
                          Tok(s), E(s), E(s) + 1)), limit)
  ELSE leavelevel(s)
subexpr(s, limit) ==
  Parse("binops",
        IF Tok(s) \in {"not", "-", "#"}
        THEN luaK_prefix(Parse("subexpr", luaX_next(enterlevel(s)), UNARY_PRIORITY), Tok(s), E(s))
        ELSE simpleexp(enterlevel(s)), limit)
-----------------------------------------------------------------------------
(* Statements.                                                             *)

block_follow(s) == Tok(s) \in {"else", "elseif", "end", "until", "eos"}
NoBreakHere(s) == lua_assert(s, Last(s.fs.bl).breaklist = NO_JUMP)
block(s) == leaveblock(NoBreakHere(chunk(enterblock(s, FALSE))))

NoConflict(s, n) == s

\* The variables of an assignment are the last expdescs, the local variable
\* that comes next the very last: earlier ones that index with its register,
\* or into it, get a copy.
check_conflict(s, n) ==
  LET v == s.e[E(s)].info
      hit == {i \in E(s) - n..E(s) - 1 : s.e[i].k = "VINDEXED" /\ (s.e[i].info = v \/ s.e[i].aux = v)}
      safe(x) == IF x = v THEN s.fs.freereg ELSE x
  IN IF hit = {} THEN s
     ELSE luaK_reserveregs(luaK_codeABC(
            [s EXCEPT !.e = [i \in DOMAIN @ |-> IF i \in hit THEN [@[i] EXCEPT !.info = safe(@), !.aux = safe(@)]
                                                ELSE @[i]]], "MOVE", s.fs.freereg, v, 0), 1)

StoreTop(s) == Drop(luaK_storevar(init_exp(NewExp(s), "VNONRELOC", s.fs.freereg - 1), E(s), E(s) + 1))
AssignRest(s, nvars, nexps) ==
  StoreTop([Drop(adjust_assign(s, nvars, nexps))
            EXCEPT !.fs.freereg = IF nexps > nvars THEN @ - (nexps - nvars) ELSE @])
AssignExps(s, nvars) ==             \* s.r: how many expressions there are
  IF s.r # nvars THEN AssignRest(s, nvars, s.r)
  ELSE Drop(luaK_storevar(luaK_setoneret(s, E(s)), E(s) - 1, E(s)))
OneMore(s, nvars) ==
  Parse("assignment", luaY_checklimit(IF Kind(s) = "VLOCAL" THEN check_conflict(s, nvars) ELSE s,
                                      nvars, LUAI_MAXCCALLS - s.nCcalls), nvars + 1)
assignment(s, nvars) ==
  CASE Kind(s) \notin {"VLOCAL", "VUPVAL", "VGLOBAL", "VINDEXED"} -> luaX_syntaxerror(s)
    [] Tok(s) = "," -> StoreTop(Drop(OneMore(Parse("primary", NewExp(luaX_next(s)), 0), nvars)))
    [] OTHER -> AssignExps(explist1(checknext(s, "=")), nvars)

FalseExit(s) == [Drop(s) EXCEPT !.r = s.e[E(s)].f]
GoIfTrue(s) ==
  FalseExit(luaK_goiftrue(IF Kind(s) = "VNIL" THEN [s EXCEPT !.e[E(s)].k = "VFALSE"] ELSE s, E(s)))
cond(s) == GoIfTrue(expr(s))

BreakList(s, b) == [s EXCEPT !.fs.bl[b].breaklist = s.r]
JoinBreak(s, b) == BreakList(luaK_concat(s, s.fs.bl[b].breaklist, s.r), b)

breakstat(s) ==
  LET loops == {b \in DOMAIN s.fs.bl : s.fs.bl[b].isbreakable}
      upval == \E b \in Max(loops) + 1..Len(s.fs.bl) : s.fs.bl[b].upval
  IN IF loops = {} THEN luaX_syntaxerror(s)
     ELSE JoinBreak(luaK_jump(IF upval THEN luaK_codeABC(s, "CLOSE", s.fs.bl[Max(loops)].nactvar, 0, 0) ELSE s),
                    Max(loops))

JumpBack(s, target) == luaK_patchlist(s, s.r, target)
WhileBody(s, whileinit, condexit) ==
  luaK_patchtohere(leaveblock(checknext(JumpBack(luaK_jump(block(checknext(enterblock(s, TRUE), "do"))),
                                                 whileinit), "end")), condexit)
WhileCond(s, whileinit) == WhileBody(s, whileinit, s.r)
whilestat(s) == WhileCond(cond(luaK_getlabel(luaX_next(s))), pc(s))

UntilTrue(s, repeat_init, condexit) ==
  IF ~Last(s.fs.bl).upval THEN luaK_patchlist(leaveblock(s), condexit, repeat_init)
  ELSE JumpBack(luaK_jump(leaveblock(luaK_patchtohere(breakstat(s), condexit))), repeat_init)
Until(s, repeat_init) == leaveblock(UntilTrue(s, repeat_init, s.r))
repeatstat(s) ==
  Until(cond(checknext(chunk(luaX_next(enterblock(enterblock(luaK_getlabel(s), TRUE), FALSE))), "until")), pc(s))

exp1(s) == Drop(luaK_exp2nextreg(expr(s), E(s) + 1))

ForEnd(s, base, nvars, isnum, prep) ==
  JumpBack(IF isnum THEN luaK_codeABx(s, "FORLOOP", base, NO_JUMP)
           ELSE luaK_jump(luaK_codeABC(s, "TFORLOOP", base, 0, nvars)), prep + 1)
ForScope(s, base, nvars, isnum) ==  \* s.r: the jump to the loop's test
  ForEnd(luaK_patchtohere(leaveblock(block(luaK_reserveregs(adjustlocalvars(enterblock(s, FALSE), nvars), nvars))),
                          s.r), base, nvars, isnum, s.r)
forbody(s, base, nvars, isnum) ==
  ForScope(IF isnum THEN luaK_codeABx(checknext(adjustlocalvars(s, 3), "do"), "FORPREP", base, NO_JUMP)
           ELSE luaK_jump(checknext(adjustlocalvars(s, 3), "do")), base, nvars, isnum)

ForStep(s) ==
  IF Tok(s) = "," THEN exp1(luaX_next(s)) ELSE luaK_reserveregs(LoadK(luaK_numberK(s, 1), s.fs.freereg), 1)
ForControl(s) == new_localvar(new_localvar(new_localvar(s, "(for 1)", 0), "(for 2)", 1), "(for 3)", 2)
fornum(s, base) ==                  \* the name is still to be read
  forbody(ForStep(exp1(checknext(exp1(checknext(NewName(ForControl(s), 3), "=")), ","))), base, 1, TRUE)

RECURSIVE Names(_, _)
Names(s, n) ==                      \* names from number n on; s.r: how many
  IF Tok(s) = "name" /\ Tok(luaX_next(s)) = "," THEN Names(luaX_next(NewName(s, n)), n + 1)
  ELSE [NewName(s, n) EXCEPT !.r = n + 1]
ForGenerator(s, base, n) ==
  forbody(luaK_checkstack(Drop(adjust_assign(s, 3, s.r)), 3), base, n - 3, FALSE)
ForNames(s, base) == ForGenerator(explist1(checknext(s, "in")), base, s.r)
forlist(s, base) == ForNames(Names(ForControl(s), 3), base)
ForKind(s) == IF Tok(luaX_next(s)) = "=" THEN fornum(s, s.fs.freereg) ELSE forlist(s, s.fs.freereg)
forstat(s) == leaveblock(checknext(ForKind(luaX_next(enterblock(s, TRUE))), "end"))

ThenBlock(s, condexit) == [block(checknext(s, "then")) EXCEPT !.r = condexit]
ThenPart(s) == ThenBlock(s, s.r)
test_then_block(s) == ThenPart(cond(luaX_next(s)))

\* escape: jumps over the rest; flist: where a false condition goes on
Escape(s, escape) == luaK_concat(s, escape, s.r)
NextPart(s, flist) == [luaK_patchtohere(s, flist) EXCEPT !.r = s.r]
IfEnd(s) == checknext(luaK_patchtohere(s, s.r), "end")
ElsePart(s, escape) == [block(luaX_next(s)) EXCEPT !.r = escape]
ElseIf(s, escape) == Parse("ifrest", test_then_block(s), escape)
IfNext(s) == IF Tok(s) = "elseif" THEN ElseIf(s, s.r) ELSE IfEnd(ElsePart(s, s.r))
IfRest(s, escape) ==                \* s.r: flist
  IF Tok(s) \in {"elseif", "else"} THEN IfNext(NextPart(Escape(luaK_jump(s), escape), s.r))
  ELSE IfEnd(luaK_concat(s, escape, s.r))
ifstat(s) == Parse("ifrest", test_then_block(s), NO_JUMP)

StoreBody(s) == Drop(Drop(luaK_storevar(s, E(s) - 1, E(s))))
localfunc(s) ==
  StoreBody(Parse("body", NewExp(adjustlocalvars(luaK_reserveregs(init_exp(NewExp(NewName(s, 0)),
                    "VLOCAL", s.fs.freereg), 1), 1)), FALSE))

LocalExps(s, nvars) == adjustlocalvars(Drop(adjust_assign(s, nvars, s.r)), nvars)
LocalNames(s) ==
  LocalExps(IF Tok(s) = "=" THEN explist1(luaX_next(s)) ELSE [NewExp(s) EXCEPT !.r = 0], s.r)
localstat(s) == LocalNames(Names(s, 0))

RECURSIVE FuncFields(_)
FuncFields(s) == IF Tok(s) = "." THEN FuncFields(field(s)) ELSE s
FuncBody(s) ==
  StoreBody(IF Tok(s) = ":" THEN Parse("body", NewExp(field(s)), TRUE) ELSE Parse("body", NewExp(s), FALSE))
funcstat(s) == FuncBody(FuncFields(singlevar(NewExp(luaX_next(s)))))

CallOrAssign(s) ==
  IF Kind(s) = "VCALL" THEN [s EXCEPT !.fs.code[s.e[E(s)].info + 1].c = 1] ELSE Parse("assignment", s, 1)
exprstat(s) == Drop(CallOrAssign(Parse("primary", NewExp(s), 0)))

RetOpen(s, nret) ==
  luaK_ret(IF Kind(s) = "VCALL" /\ nret = 1
           THEN lua_assert([s EXCEPT !.fs.code[s.e[E(s)].info + 1].op = "TAILCALL"],
                       getcode(s, E(s)).a = s.fs.nactvar)
           ELSE s, s.fs.nactvar, LUA_MULTRET)
RetOne(s) == luaK_ret(s, s.r, 1)
RetMany(s, nret) == luaK_ret(lua_assert(s, nret = s.fs.freereg - s.fs.nactvar), s.fs.nactvar, nret)
RetExps(s) ==
  CASE hasmultret(Kind(s)) -> RetOpen(luaK_setmultret(s, E(s)), s.r)
    [] ~hasmultret(Kind(s)) /\ s.r = 1 -> RetOne(luaK_exp2anyreg(s, E(s)))
    [] OTHER -> RetMany(luaK_exp2nextreg(s, E(s)), s.r)
Return(s) == IF block_follow(s) \/ Tok(s) = ";" THEN luaK_ret(s, 0, 0) ELSE Drop(RetExps(explist1(s)))
retstat(s) == Return(luaX_next(s))

statement(s) ==
  CASE Tok(s) = "if" -> ifstat(s)
    [] Tok(s) = "while" -> whilestat(s)
    [] Tok(s) = "do" -> checknext(block(luaX_next(s)), "end")
    [] Tok(s) = "for" -> forstat(s)
    [] Tok(s) = "repeat" -> repeatstat(s)
    [] Tok(s) = "function" -> funcstat(s)
    [] Tok(s) = "local" -> IF Tok(luaX_next(s)) = "function" THEN localfunc(luaX_next(luaX_next(s)))
                           ELSE localstat(luaX_next(s))
    [] Tok(s) = "return" -> retstat(s)
    [] Tok(s) = "break" -> breakstat(luaX_next(s))
    [] OTHER -> exprstat(s)

FreeRegs(s) ==
  [lua_assert(testnext(s, ";"), s.fs.maxstacksize >= s.fs.freereg /\ s.fs.freereg >= s.fs.nactvar)
   EXCEPT !.fs.freereg = s.fs.nactvar]
Chunk(s, islast) ==
  IF islast \/ block_follow(s) THEN leavelevel(s)
  ELSE Parse("statements", FreeRegs(statement(s)), Tok(s) \in {"return", "break"})

Parse(what, s, x) ==
  CASE what = "subexpr" -> subexpr(s, x)
    [] what = "binops" -> BinOps(s, x)
    [] what = "primary" -> primaryexp(s)
    [] what = "suffixes" -> SuffixLoop(s)
    [] what = "constructor" -> constructor(s)
    [] what = "fields" -> Fields(s, x)
    [] what = "body" -> body(s, x)
    [] what = "more" -> MoreExps(s, x)
    [] what = "assignment" -> assignment(s, x)
    [] what = "ifrest" -> IfRest(s, x)
    [] what = "chunk" -> Parse("statements", enterlevel(s), FALSE)
    [] what = "statements" -> Chunk(s, x)

Start(tokens) ==
  [t |-> tokens, e |-> <<>>, r |-> 0, ok |-> TRUE, err |-> FALSE, prev |-> <<>>, nCcalls |-> 0, fs |-> NewFunc]
CloseMain(s) == [s EXCEPT !.fs = luaK_ret(removevars(s, 0), 0, 0).fs]
luaY_parser(tokens) ==
  CloseMain(check(chunk([Start(tokens) EXCEPT !.fs.is_vararg = {"ISVARARG"}]), "eos"))
=============================================================================

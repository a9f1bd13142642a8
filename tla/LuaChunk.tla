------------------------------ MODULE LuaChunk ------------------------------
(***************************************************************************)
(* Precompiled chunks: how a function is written out (lua/ldump.c) and     *)
(* read back (lua/lundump.c), and the check its code must pass to be run   *)
(* (lua/ldebug.c).                                                         *)
(*                                                                         *)
(* A chunk is a sequence of <<kind, content>>, one for each DumpVar or     *)
(* DumpBlock; the reader fails if the next one is not of the kind it       *)
(* expects or there is none.  Debug information is stripped.               *)
(***************************************************************************)
EXTENDS LuaParser

\* T mode of an instruction is testTMode; here: B, C and format
opmodes(op) ==
  CASE op \in {"MOVE", "LOADNIL", "UNM", "NOT", "LEN"} -> <<"R", "N", "iABC">>
    [] op \in {"LOADK", "GETGLOBAL", "SETGLOBAL"} -> <<"K", "N", "iABx">>
    [] op \in {"LOADBOOL", "NEWTABLE", "CALL", "TAILCALL", "SETLIST"} -> <<"U", "U", "iABC">>
    [] op \in {"GETUPVAL", "SETUPVAL", "RETURN", "VARARG"} -> <<"U", "N", "iABC">>
    [] op \in {"GETTABLE", "SELF"} -> <<"R", "K", "iABC">>
    [] op \in {"SETTABLE", "ADD", "SUB", "MUL", "DIV", "MOD", "POW", "EQ", "LT", "LE"} -> <<"K", "K", "iABC">>
    [] op = "CONCAT" -> <<"R", "R", "iABC">>
    [] op \in {"JMP", "FORLOOP", "FORPREP"} -> <<"R", "N", "iAsBx">>
    [] op \in {"TEST", "TESTSET"} -> <<"R", "U", "iABC">>
    [] op = "TFORLOOP" -> <<"N", "U", "iABC">>
    [] op = "CLOSE" -> <<"N", "N", "iABC">>
    [] op = "CLOSURE" -> <<"U", "N", "iABx">>

checkreg(pt, reg) == reg < pt.maxstacksize
checkArgMode(pt, r, mode) ==
  CASE mode = "N" -> r = 0
    [] mode = "U" -> TRUE
    [] mode = "R" -> checkreg(pt, r)
    [] mode = "K" -> IF ISK(r) THEN r - BITRK < Len(pt.k) ELSE checkreg(pt, r)
checkFormat(pt, at, i) ==           \* at: the place of i, from 0
  LET m == opmodes(i.op) IN
  CASE m[3] = "iABC" -> checkArgMode(pt, i.b, m[1]) /\ checkArgMode(pt, i.c, m[2])
    [] m[3] = "iABx" -> m[1] = "K" => i.b < Len(pt.k)
    [] m[3] = "iAsBx" -> at + 1 + i.b \in 0..Len(pt.code) - 1

precheck(pt) ==
  /\ pt.maxstacksize <= MAXSTACK
  /\ pt.numparams + (IF "HASARG" \in pt.is_vararg THEN 1 ELSE 0) <= pt.maxstacksize
  /\ "NEEDSARG" \in pt.is_vararg => "HASARG" \in pt.is_vararg
  /\ pt.code # <<>> /\ Last(pt.code).op = "RETURN"
luaG_checkopenop(i) == i.op \in {"CALL", "TAILCALL", "RETURN", "SETLIST"} /\ i.b = 0

\* what is asked of one kind of instruction
checkOp(pt, at, i) ==
  LET open == at + 1 < Len(pt.code) /\ luaG_checkopenop(pt.code[at + 2]) IN
  CASE i.op = "LOADBOOL" -> i.c = 1 => at + 2 < Len(pt.code)
    [] i.op \in {"GETUPVAL", "SETUPVAL"} -> i.b < pt.nups
    [] i.op \in {"GETGLOBAL", "SETGLOBAL"} -> pt.k[i.b + 1][1] = "str"
    [] i.op = "SELF" -> checkreg(pt, i.a + 1)
    [] i.op = "CONCAT" -> i.b < i.c
    [] i.op = "TFORLOOP" -> i.c >= 1 /\ checkreg(pt, i.a + 2 + i.c)
    [] i.op \in {"FORLOOP", "FORPREP"} -> checkreg(pt, i.a + 3)
    [] i.op \in {"CALL", "TAILCALL"} ->
         /\ i.b # 0 => checkreg(pt, i.a + i.b - 1)
         /\ i.c = 0 => open
         /\ i.c > 1 => checkreg(pt, i.a + i.c - 2)
    [] i.op = "RETURN" -> i.b > 1 => checkreg(pt, i.a + i.b - 2)
    [] i.op = "SETLIST" -> i.b > 0 => checkreg(pt, i.a + i.b)
    [] i.op = "CLOSURE" ->
         /\ i.b < Len(pt.p)
         /\ at + pt.p[i.b + 1].nups < Len(pt.code)
         /\ \A j \in 1..pt.p[i.b + 1].nups : pt.code[at + j + 1].op \in {"GETUPVAL", "MOVE"}
    [] i.op = "VARARG" ->
         /\ "ISVARARG" \in pt.is_vararg /\ "NEEDSARG" \notin pt.is_vararg
         /\ i.b = 0 => open
         /\ checkreg(pt, i.a + i.b - 2)
    [] OTHER -> TRUE

\* symbexec with NO_REG looks at every instruction once
symbexec(pt) ==
  /\ precheck(pt)
  /\ \A q \in DOMAIN pt.code :
       LET i == pt.code[q] IN
       /\ checkreg(pt, i.a)
       /\ checkFormat(pt, q - 1, i)
       /\ testTMode(i.op) => q + 1 < Len(pt.code) /\ pt.code[q + 1].op = "JMP"
       /\ checkOp(pt, q - 1, i)
luaG_checkcode(pt) == symbexec(pt)
-----------------------------------------------------------------------------
luaU_header == <<"bytes", "Lua 5.1, format, endianness, sizes">>
DumpInt(x) == <<<<"int", x>>>>
DumpChar(x) == <<<<"char", x>>>>
DumpNumber(x) == <<<<"number", x>>>>
DumpString(str) ==                  \* with its final zero
  IF str = <<>> THEN <<<<"size", 0>>>> ELSE <<<<"size", Len(str[1]) + 1>>, <<"bytes", str[1]>>>>
DumpVector(v) == DumpInt(Len(v)) \o <<<<"vector", v>>>>

DumpConstant(o) ==
  DumpChar(o[1]) \o CASE o[1] = "nil" -> <<>>
                      [] o[1] = "bool" -> DumpChar(IF o[2] THEN 1 ELSE 0)
                      [] o[1] = "num" -> DumpNumber(o[2])
                      [] o[1] = "str" -> DumpString(<<o[2]>>)
RECURSIVE DumpFunction(_)
DumpConstants(f) ==
  DumpInt(Len(f.k)) \o FlattenSeq([j \in DOMAIN f.k |-> DumpConstant(f.k[j])])
  \o DumpInt(Len(f.p)) \o FlattenSeq([j \in DOMAIN f.p |-> DumpFunction(f.p[j])])
DumpDebug(f) == DumpVector(<<>>) \o DumpInt(0) \o DumpInt(0)
DumpFunction(f) ==
  DumpString(<<>>) \o DumpInt(0) \o DumpInt(0)
  \o DumpChar(f.nups) \o DumpChar(f.numparams) \o DumpChar(f.is_vararg) \o DumpChar(f.maxstacksize)
  \o DumpVector(f.code) \o DumpConstants(f) \o DumpDebug(f)
luaU_dump(f) == <<luaU_header>> \o DumpFunction(f)

\* A reader is [z: what is left of the chunk, err, v: what was read last].
Broken(S) == [S EXCEPT !.err = TRUE]
LoadBlock(S, kind) ==
  IF S.err \/ S.z = <<>> THEN Broken(S)
  ELSE IF S.z[1][1] # kind THEN Broken(S) ELSE [S EXCEPT !.z = Tail(@), !.v = S.z[1][2]]
LoadString(S) ==
  LET size == LoadBlock(S, "size")
  IN IF size.err THEN size ELSE IF size.v = 0 THEN [size EXCEPT !.v = <<>>] ELSE LoadBlock(size, "bytes")
LoadConstant(S) ==
  LET t == LoadBlock(S, "char")
      is(x) == [x EXCEPT !.v = <<t.v, x.v>>]
  IN CASE t.err -> t
       [] ~t.err /\ t.v = "nil" -> [t EXCEPT !.v = <<"nil">>]
       [] ~t.err /\ t.v = "bool" -> LET b == LoadBlock(t, "char") IN IF b.err THEN b ELSE [b EXCEPT !.v = <<"bool", b.v # 0>>]
       [] ~t.err /\ t.v = "num" -> is(LoadBlock(t, "number"))
       [] ~t.err /\ t.v = "str" -> is(LoadString(t))
       [] OTHER -> Broken(t)
RECURSIVE LoadFunction(_, _)
RECURSIVE LoadMany(_, _, _, _, _)
LoadMany(S, n, what, depth, got) == \* n constants or functions
  IF n = 0 \/ S.err THEN [S EXCEPT !.v = got]
  ELSE LET x == IF what = "constant" THEN LoadConstant(S) ELSE LoadFunction(S, depth)
       IN LoadMany(x, n - 1, what, depth, Append(got, x.v))
LoadVector(S) == LoadBlock(LoadBlock(S, "int"), "vector")
LoadDebug(S) == LoadBlock(LoadBlock(LoadVector(S), "int"), "int")
LoadList(S, what, depth) ==
  LET n == LoadBlock(S, "int") IN IF n.err THEN n ELSE LoadMany(n, n.v, what, depth, <<>>)
LoadFunction(S, depth) ==           \* depth: nCcalls
  LET lines == LoadBlock(LoadBlock(LoadString(S), "int"), "int")
      nups == LoadBlock(lines, "char")
      numparams == LoadBlock(nups, "char")
      is_vararg == LoadBlock(numparams, "char")
      maxstack == LoadBlock(is_vararg, "char")
      code == LoadVector(maxstack)
      k == LoadList(code, "constant", depth)
      p == LoadList(k, "function", depth + 1)
      end == LoadDebug(p)
      f == [code |-> code.v, k |-> k.v, p |-> p.v, nups |-> nups.v, numparams |-> numparams.v,
            is_vararg |-> is_vararg.v, maxstacksize |-> maxstack.v]
  IN IF depth + 1 > LUAI_MAXCCALLS \/ end.err THEN Broken(end)
     ELSE IF ~luaG_checkcode(f) THEN Broken(end) ELSE [end EXCEPT !.v = f]
LoadHeader(S) ==
  LET h == LoadBlock(S, "bytes") IN IF h.err THEN h ELSE IF h.v # luaU_header[2] THEN Broken(h) ELSE h
luaU_undump(dump) == LoadFunction(LoadHeader([z |-> dump, err |-> FALSE, v |-> <<>>]), 0)
=============================================================================

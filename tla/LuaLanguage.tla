---------------------------- MODULE LuaLanguage ----------------------------
(***************************************************************************)
(* What a Lua program means, told without registers, jumps or a stack: a   *)
(* program is a tree, and Run(program) is what it logs.  The compiler and  *)
(* the virtual machine are compared with it.                               *)
(*                                                                         *)
(* An expression or a statement is a tuple that begins with its kind.  The *)
(* state g of an evaluation holds the visible variables (env, cells), the  *)
(* extra arguments, tables, functions, the log, the values of the last     *)
(* expression and how the last statement ended (sig).                      *)
(***************************************************************************)
EXTENDS Integers, Sequences, SequencesExt

CONSTANT Collation             \* strings in their order

-----------------------------------------------------------------------------
(* A program as a sequence of tokens.                                      *)

Precedence(op) ==
  CASE op = "or" -> 1 [] op = "and" -> 2 [] op \in {"<", ">", "<=", ">=", "~=", "=="} -> 3 [] op = ".." -> 4
    [] op \in {"+", "-"} -> 5 [] op \in {"*", "/", "%"} -> 6 [] op = "^" -> 8
RightAssociative(op) == op \in {"..", "^"}
PrecedenceOf(e) == CASE e[1] = "binop" -> Precedence(e[2]) [] e[1] = "unop" -> 7 [] OTHER -> 9

T(word) == <<<<word>>>>
Name(n) == <<<<"name", n>>>>
Between(open, toks, close) == T(open) \o toks \o T(close)

RECURSIVE Tok1(_, _)
Commas(kind, xs) == IF xs = <<>> THEN <<>>
                    ELSE FoldLeft(LAMBDA t, x : t \o T(",") \o Tok1(kind, x), Tok1(kind, xs[1]), Tail(xs))
Block(b) == FoldLeft(LAMBDA t, x : t \o Tok1("stat", x), <<>>, b)
Operand(e, parens) == IF parens THEN Between("(", Tok1("exp", e), ")") ELSE Tok1("exp", e)
Params(ps, dots) == Between("(", Commas("name", IF dots = "no" THEN ps ELSE Append(ps, "...")), ")")
ExpTokens(e) ==
  CASE e[1] \in {"nil", "true", "false", "..."} -> T(e[1])
    [] e[1] \in {"number", "string", "name"} -> <<e>>
    [] e[1] = "index" -> Tok1("exp", e[2]) \o Between("[", Tok1("exp", e[3]), "]")
    [] e[1] = "call" -> Tok1("exp", e[2]) \o Between("(", Commas("exp", e[3]), ")")
    [] e[1] = "method" -> Tok1("exp", e[2]) \o T(":") \o Name(e[3]) \o Between("(", Commas("exp", e[4]), ")")
    [] e[1] = "paren" -> Between("(", Tok1("exp", e[2]), ")")
    [] e[1] = "function" -> T("function") \o Params(e[2], e[3]) \o Block(e[4]) \o T("end")
    [] e[1] = "table" -> Between("{", Commas("field", e[2]), "}")
    [] e[1] = "unop" -> T(e[2]) \o Operand(e[3], PrecedenceOf(e[3]) < 7)
    [] e[1] = "binop" ->
         LET p == Precedence(e[2])
             left == PrecedenceOf(e[3]) < p \/ (PrecedenceOf(e[3]) = p /\ RightAssociative(e[2]))
             right == e[4][1] # "unop" /\ (PrecedenceOf(e[4]) < p \/ (PrecedenceOf(e[4]) = p /\ ~RightAssociative(e[2])))
         IN Operand(e[3], left) \o T(e[2]) \o Operand(e[4], right)
FieldTokens(x) ==
  CASE x[1] = "item" -> Tok1("exp", x[2])
    [] x[1] = "named" -> Name(x[2]) \o T("=") \o Tok1("exp", x[3])
    [] x[1] = "key" -> Between("[", Tok1("exp", x[2]), "]") \o T("=") \o Tok1("exp", x[3])
IfTokens(x) == T("if") \o Tok1("exp", x[1][1]) \o T("then") \o Block(x[1][2])
               \o FoldLeft(LAMBDA t, c : t \o T("elseif") \o Tok1("exp", c[1]) \o T("then") \o Block(c[2]), <<>>, Tail(x))
StatTokens(x) ==
  CASE x[1] = "local" -> T("local") \o Commas("name", x[2])
                         \o (IF x[3] = <<>> THEN <<>> ELSE T("=") \o Commas("exp", x[3]))
    [] x[1] = "assign" -> Commas("exp", x[2]) \o T("=") \o Commas("exp", x[3])
    [] x[1] = "do" -> Between("do", Block(x[2]), "end")
    [] x[1] = "while" -> T("while") \o Tok1("exp", x[2]) \o Between("do", Block(x[3]), "end")
    [] x[1] = "repeat" -> Between("repeat", Block(x[2]), "until") \o Tok1("exp", x[3])
    [] x[1] = "if" -> IfTokens(x[2]) \o (IF x[3] = <<>> THEN <<>> ELSE T("else") \o Block(x[3])) \o T("end")
    [] x[1] = "fornum" -> T("for") \o Name(x[2]) \o T("=") \o Commas("exp", x[3]) \o Between("do", Block(x[4]), "end")
    [] x[1] = "forin" -> T("for") \o Commas("name", x[2]) \o T("in") \o Commas("exp", x[3]) \o Between("do", Block(x[4]), "end")
    [] x[1] = "localfunction" -> T("local") \o T("function") \o Name(x[2]) \o Tail(ExpTokens(x[3]))
    [] x[1] = "return" -> T("return") \o Commas("exp", x[2])
    [] x[1] = "break" -> T("break")
    [] OTHER -> ExpTokens(x)
Tok1(kind, x) ==
  CASE kind = "name" -> IF x = "..." THEN T("...") ELSE Name(x)
    [] kind = "exp" -> ExpTokens(x)
    [] kind = "field" -> FieldTokens(x)
    [] kind = "stat" -> StatTokens(x)
Tokens(program) == Block(program) \o T("eos")
-----------------------------------------------------------------------------
(* Evaluation.                                                             *)

Error(g, v) == [g EXCEPT !.sig = "error", !.val = <<v>>]
Fails(g) == Error(g, <<"str", "message">>)
Values(g, vs) == [g EXCEPT !.val = vs]
First(vs) == IF vs = <<>> THEN <<"nil">> ELSE vs[1]
Nth(vs, n) == IF n > Len(vs) THEN <<"nil">> ELSE vs[n]
IsFalse(v) == v = <<"nil">> \/ v = <<"bool", FALSE>>
Falsity(g) == IsFalse(First(g.val))
Function(v) == v[1] \in {"fun", "cfun"}
Public(v) == IF v[1] \in {"tab", "fun", "cfun"} THEN v[1] ELSE v

Declare(g, names, vs) ==
  [g EXCEPT !.cells = @ \o [j \in 1..Len(names) |-> Nth(vs, j)],
            !.env = [n \in Range(names) |-> Len(g.cells) + CHOOSE j \in 1..Len(names) :
                       names[j] = n /\ \A i \in j + 1..Len(names) : names[i] # n] @@ @]
Raw(g, t, k) == IF k \in DOMAIN g.tab[t[2]].map THEN g.tab[t[2]].map[k] ELSE <<"nil">>
RawSet(g, t, k, v) ==
  [g EXCEPT !.tab[t[2]].map = [x \in (DOMAIN @ \cup {k}) \ (IF v = <<"nil">> THEN {k} ELSE {}) |-> IF x = k THEN v ELSE @[x]]]
Meta(g, v, event) ==
  IF v[1] # "tab" THEN <<"nil">> ELSE IF g.tab[v[2]].meta = 0 THEN <<"nil">>
  ELSE Raw(g, <<"tab", g.tab[v[2]].meta>>, <<"str", event>>)
Border(g, t) == CHOOSE n \in 0..Cardinality(DOMAIN g.tab[t[2]].map) :
                  Raw(g, t, <<"num", n + 1>>) = <<"nil">> /\ \A j \in 1..n : Raw(g, t, <<"num", j>>) # <<"nil">>

RECURSIVE Ev(_, _, _)
Exp(e, g) == Ev("exp", e, g)
Apply(f, args, g) == Ev("apply", <<f, args>>, g)
IfGo(g, vs) == IF g.sig = "go" THEN Values(g, vs) ELSE g
Truth(g) == IfGo(g, <<<<"bool", ~Falsity(g)>>>>)
Untruth(g) == IfGo(g, <<<<"bool", Falsity(g)>>>>)
One(g) == IfGo(g, <<First(g.val)>>)

GetIndex(t, k, g) ==
  LET h == Meta(g, t, "__index")
  IN CASE t[1] # "tab" -> Fails(g)
       [] t[1] = "tab" /\ (h = <<"nil">> \/ Raw(g, t, k) # <<"nil">>) -> Values(g, <<Raw(g, t, k)>>)
       [] OTHER -> IF Function(h) THEN One(Apply(h, <<t, k>>, g)) ELSE Ev("index", <<h, k>>, g)
SetIndex(t, k, v, g) ==
  LET h == Meta(g, t, "__newindex")
  IN CASE t[1] # "tab" \/ k = <<"nil">> -> Fails(g)
       [] t[1] = "tab" /\ (h = <<"nil">> \/ Raw(g, t, k) # <<"nil">>) -> RawSet(g, t, k, v)
       [] OTHER -> IF Function(h) THEN Apply(h, <<t, k, v>>, g) ELSE Ev("setindex", <<h, k, v>>, g)

\* a string that is a numeral counts as a number in arithmetic
Number(v) ==
  IF v[1] = "str" /\ \E n \in -9..99 : ToString(n) = v[2] THEN <<"num", CHOOSE n \in -9..99 : ToString(n) = v[2]>> ELSE v
Calc(op, x, y) ==
  CASE op = "+" -> x + y [] op = "-" -> x - y [] op = "*" -> x * y [] op = "^" -> x ^ y
    [] op = "/" -> IF y = 0 THEN 9999 ELSE x \div y [] op = "%" -> IF y = 0 THEN 9999 ELSE x % y
ArithEvent(op) == CASE op = "+" -> "__add" [] op = "-" -> "__sub" [] op = "*" -> "__mul" [] op = "/" -> "__div"
                    [] op = "%" -> "__mod" [] op = "^" -> "__pow" [] op = ".." -> "__concat"
Handled(g, event, x, y) ==
  LET h == IF Meta(g, x, event) # <<"nil">> THEN Meta(g, x, event) ELSE Meta(g, y, event)
  IN IF h = <<"nil">> THEN Fails(g) ELSE One(Apply(h, <<x, y>>, g))
Text(v) == IF v[1] = "num" THEN ToString(v[2]) ELSE v[2]
Common(g, event, x, y) == IF Meta(g, x, event) = Meta(g, y, event) THEN Meta(g, x, event) ELSE <<"nil">>
Before(x, y) == \E i \in DOMAIN Collation : Collation[i] = x /\ y \in Range(SubSeq(Collation, i + 1, Len(Collation)))
Less(x, y, g) ==
  CASE x[1] = "num" /\ y[1] = "num" -> Values(g, <<<<"bool", x[2] < y[2]>>>>)
    [] x[1] = "str" /\ y[1] = "str" -> Values(g, <<<<"bool", Before(x[2], y[2])>>>>)
    [] x[1] = "tab" /\ y[1] = "tab" /\ Common(g, "__lt", x, y) # <<"nil">> -> Truth(Apply(Common(g, "__lt", x, y), <<x, y>>, g))
    [] OTHER -> Fails(g)
LessEqual(x, y, g) ==
  CASE x[1] = "num" /\ y[1] = "num" -> Values(g, <<<<"bool", x[2] <= y[2]>>>>)
    [] x[1] = "str" /\ y[1] = "str" -> Values(g, <<<<"bool", x = y \/ Before(x[2], y[2])>>>>)
    [] x[1] = "tab" /\ y[1] = "tab" /\ Common(g, "__le", x, y) # <<"nil">> -> Truth(Apply(Common(g, "__le", x, y), <<x, y>>, g))
    [] OTHER -> Untruth(Less(y, x, g))
Equals(x, y, g) ==
  IF x = y \/ x[1] # "tab" \/ y[1] # "tab" THEN Values(g, <<<<"bool", x = y>>>>)
  ELSE IF Common(g, "__eq", x, y) = <<"nil">> THEN Values(g, <<<<"bool", FALSE>>>>)
  ELSE Truth(Apply(Common(g, "__eq", x, y), <<x, y>>, g))
Binary(op, x, y, g) ==
  CASE op \in {"+", "-", "*", "/", "%", "^"} ->
         IF Number(x)[1] = "num" /\ Number(y)[1] = "num" THEN Values(g, <<<<"num", Calc(op, Number(x)[2], Number(y)[2])>>>>)
         ELSE Handled(g, ArithEvent(op), x, y)
    [] op = ".." -> IF {x[1], y[1]} \subseteq {"num", "str"} THEN Values(g, <<<<"str", Text(x) \o Text(y)>>>>)
                    ELSE Handled(g, "__concat", x, y)
    [] op = "==" -> Equals(x, y, g)
    [] op = "~=" -> Untruth(Equals(x, y, g))
    [] op = "<" -> Less(x, y, g)
    [] op = ">" -> Less(y, x, g)
    [] op = "<=" -> LessEqual(x, y, g)
    [] op = ">=" -> LessEqual(y, x, g)
Unary(op, x, g) ==
  CASE op = "not" -> Values(g, <<<<"bool", IsFalse(x)>>>>)
    [] op = "-" -> IF Number(x)[1] = "num" THEN Values(g, <<<<"num", -Number(x)[2]>>>>) ELSE Handled(g, "__unm", x, x)
    [] op = "#" -> CASE x[1] = "tab" -> Values(g, <<<<"num", Border(g, x)>>>>)
                     [] x[1] = "str" -> Values(g, <<<<"num", Len(x[2])>>>>)
                     [] OTHER -> Fails(g)

NewTable(g) == [g EXCEPT !.tab = Append(@, [map |-> <<>>, meta |-> 0]), !.val = <<<<"tab", Len(g.tab) + 1>>>>]
\* items are numbered from n on; the last may bring several values
RECURSIVE Items(_, _, _, _)
PutItems(g, t, n) == FoldLeft(LAMBDA h, j : RawSet(h, t, <<"num", n + j - 1>>, g.val[j]), g, [j \in 1..Len(g.val) |-> j])
PutKeyed(g, t, k) == IF g.sig # "go" THEN g ELSE RawSet(g, t, k, First(g.val))
Keyed(g, t, e) == IF g.sig # "go" THEN g ELSE PutKeyed(Exp(e, g), t, First(g.val))
Items(fields, t, n, g) ==
  CASE fields = <<>> \/ g.sig # "go" -> IF g.sig = "go" THEN Values(g, <<t>>) ELSE g
    [] fields # <<>> /\ fields[1][1] = "item" ->
         LET h == IF Len(fields) = 1 THEN Ev("multi", fields[1][2], g) ELSE Exp(fields[1][2], g)
         IN Items(Tail(fields), t, n + 1, IF h.sig = "go" THEN PutItems(h, t, n) ELSE h)
    [] fields # <<>> /\ fields[1][1] = "named" ->
         Items(Tail(fields), t, n, PutKeyed(Exp(fields[1][3], g), t, <<"str", fields[1][2]>>))
    [] OTHER -> Items(Tail(fields), t, n, Keyed(Exp(fields[1][2], g), t, fields[1][3]))
TableOf(fields, g) == Items(fields, First(g.val), 1, g)

Second(op, x, e, h) == IF h.sig # "go" THEN h ELSE Binary(op, x, First(h.val), h)
Lookup(n, g) == IF n \in DOMAIN g.env THEN Values(g, <<g.cells[g.env[n]]>>) ELSE GetIndex(<<"tab", 1>>, <<"str", n>>, g)
IndexBy2(t, h) == IF h.sig # "go" THEN h ELSE GetIndex(t, First(h.val), h)
EvalExp(e, g) ==
  CASE e[1] = "nil" -> Values(g, <<<<"nil">>>>)
    [] e[1] \in {"true", "false"} -> Values(g, <<<<"bool", e[1] = "true">>>>)
    [] e[1] = "number" -> Values(g, <<<<"num", e[2]>>>>)
    [] e[1] = "string" -> Values(g, <<<<"str", e[2]>>>>)
    [] e[1] = "name" -> Lookup(e[2], g)
    [] e[1] = "paren" -> Exp(e[2], g)
    [] e[1] = "index" -> LET h == Exp(e[2], g) IN IF h.sig # "go" THEN h ELSE IndexBy2(First(h.val), Exp(e[3], h))
    [] e[1] = "function" ->
         [g EXCEPT !.fun = Append(@, [params |-> e[2], dots |-> e[3], body |-> e[4], env |-> g.env]),
                   !.val = <<<<"fun", Len(g.fun) + 1>>>>]
    [] e[1] = "table" -> TableOf(e[2], NewTable(g))
    [] e[1] = "unop" -> LET h == Exp(e[3], g) IN IF h.sig # "go" THEN h ELSE Unary(e[2], First(h.val), h)
    [] e[1] = "binop" ->
         LET h == Exp(e[3], g)
         IN CASE h.sig # "go" \/ (e[2] = "and" /\ Falsity(h)) \/ (e[2] = "or" /\ ~Falsity(h)) -> h
              [] h.sig = "go" /\ e[2] \in {"and", "or"} -> Exp(e[4], h)
              [] OTHER -> Second(e[2], First(h.val), e[4], Exp(e[4], h))
    [] OTHER -> One(Ev("multi", e, g))
EvalMulti(e, g) ==
  CASE e[1] = "..." -> Values(g, g.dots)
    [] e[1] = "call" ->
         LET h == Exp(e[2], g)
             a == Ev("list", e[3], h)
         IN IF h.sig # "go" THEN h ELSE IF a.sig # "go" THEN a ELSE Apply(First(h.val), a.val, a)
    [] e[1] = "method" ->
         LET h == Exp(e[2], g)
             m == GetIndex(First(h.val), <<"str", e[3]>>, h)
             a == Ev("list", e[4], m)
         IN CASE h.sig # "go" -> h [] h.sig = "go" /\ m.sig # "go" -> m [] OTHER ->
              IF a.sig # "go" THEN a ELSE Apply(First(m.val), <<First(h.val)>> \o a.val, a)
    [] OTHER -> Exp(e, g)
EvalList(es, g) ==
  CASE es = <<>> -> Values(g, <<>>)
    [] Len(es) = 1 -> Ev("multi", es[1], g)
    [] OTHER -> LET h == Exp(es[1], g)
                    r == Ev("list", Tail(es), h)
                IN IF h.sig # "go" THEN h ELSE IF r.sig # "go" THEN r ELSE Values(r, <<First(h.val)>> \o r.val)
-----------------------------------------------------------------------------
(* Functions.                                                              *)

OldArg(g, vs) == \* the table `arg' of a function that does not use its ...
  [g EXCEPT !.tab = Append(@, [map |-> [k \in {<<"num", j>> : j \in {i \in 1..Len(vs) : vs[i] # <<"nil">>}} \cup {<<"str", "n">>} |->
                                          IF k = <<"str", "n">> THEN <<"num", Len(vs)>> ELSE vs[k[2]]], meta |-> 0])]
Bind(g, c, args) ==
  LET extra == SubSeq(args, Len(c.params) + 1, Len(args))
      h == Declare([g EXCEPT !.env = c.env, !.dots = extra], c.params, args)
  IN IF c.dots = "arg" THEN Declare(OldArg(h, extra), <<"arg">>, <<<<"tab", Len(h.tab) + 1>>>>) ELSE h
Leave(h, g) ==
  CASE h.sig = "return" -> [h EXCEPT !.sig = "go", !.env = g.env, !.dots = g.dots]
    [] h.sig = "go" -> [h EXCEPT !.val = <<>>, !.env = g.env, !.dots = g.dots]
    [] OTHER -> [h EXCEPT !.env = g.env, !.dots = g.dots]
Caught2(h, g) == IF h.sig = "error" THEN [h EXCEPT !.sig = "go", !.val = <<<<"bool", FALSE>>, First(h.val)>>]
                 ELSE Values(h, <<<<"bool", TRUE>>>> \o h.val)
Library(f, a, g) ==
  LET t == First(a)
      ok == CASE f = "f" -> TRUE
              [] f = "error" -> TRUE
              [] f \in {"type", "pcall", "getmetatable", "select", "assert"} -> a # <<>>
              [] f \in {"ipairs", "unpack"} -> t[1] = "tab"
              [] f = "ipairsaux" -> TRUE
              [] f = "rawequal" -> Len(a) >= 2
              [] f = "rawget" -> t[1] = "tab" /\ Len(a) >= 2
              [] f = "rawset" -> t[1] = "tab" /\ Len(a) >= 3 /\ Nth(a, 2) # <<"nil">>
              [] f = "setmetatable" -> t[1] = "tab" /\ Len(a) >= 2 /\ Nth(a, 2)[1] \in {"nil", "tab"}
                                       /\ Meta(g, t, "__metatable") = <<"nil">>
  IN CASE ~ok -> Fails(g)
       [] ok /\ f = "f" -> Values([g EXCEPT !.out = Append(@, [j \in DOMAIN a |-> Public(a[j])])], a)
       [] ok /\ f = "error" -> Error(g, IF t[1] = "str" THEN <<"str", "where: " \o t[2]>> ELSE t)
       [] ok /\ f = "type" -> Values(g, <<<<"str", IF Function(t) THEN "fun" ELSE t[1]>>>>)
       [] ok /\ f = "pcall" -> Caught2(Apply(t, Tail(a), g), g)
       [] ok /\ f = "getmetatable" ->
            Values(g, <<IF t[1] # "tab" THEN <<"nil">> ELSE IF g.tab[t[2]].meta = 0 THEN <<"nil">>
                        ELSE IF Meta(g, t, "__metatable") # <<"nil">> THEN Meta(g, t, "__metatable")
                        ELSE <<"tab", g.tab[t[2]].meta>>>>)
       [] ok /\ f = "setmetatable" ->
            Values([g EXCEPT !.tab[t[2]].meta = IF a[2] = <<"nil">> THEN 0 ELSE a[2][2]], <<t>>)
       [] ok /\ f = "rawequal" -> Values(g, <<<<"bool", a[1] = a[2]>>>>)
       [] ok /\ f = "rawget" -> Values(g, <<Raw(g, t, a[2])>>)
       [] ok /\ f = "rawset" -> Values(RawSet(g, t, a[2], a[3]), <<t>>)
       [] ok /\ f = "ipairs" -> Values(g, <<<<"cfun", "ipairsaux">>, t, <<"num", 0>>>>)
       [] ok /\ f = "ipairsaux" ->
            Values(g, IF Raw(g, t, <<"num", a[2][2] + 1>>) = <<"nil">> THEN <<>>
                      ELSE <<<<"num", a[2][2] + 1>>, Raw(g, t, <<"num", a[2][2] + 1>>)>>)
       [] ok /\ f = "assert" -> IF IsFalse(t) THEN Fails(g) ELSE Values(g, a)
       [] ok /\ f = "unpack" ->
            LET from == IF Nth(a, 2)[1] = "num" THEN a[2][2] ELSE 1
                to == IF Nth(a, 3)[1] = "num" THEN a[3][2] ELSE Border(g, t)
            IN Values(g, [j \in 1..(IF to < from THEN 0 ELSE to - from + 1) |-> Raw(g, t, <<"num", from + j - 1>>)])
       [] ok /\ f = "select" ->
            CASE t = <<"str", "#">> -> Values(g, <<<<"num", Len(a) - 1>>>>)
              [] t[1] = "num" /\ t[2] > 0 -> Values(g, SubSeq(a, t[2] + 1, Len(a)))
              [] t[1] = "num" /\ t[2] < 0 /\ -t[2] < Len(a) -> Values(g, SubSeq(a, Len(a) + t[2] + 1, Len(a)))
              [] OTHER -> Fails(g)
Call(f, args, g) ==
  CASE f[1] = "fun" -> Leave(Ev("block", g.fun[f[2]].body, Bind(g, g.fun[f[2]], args)), g)
    [] f[1] = "cfun" -> Library(f[2], args, g)
    [] OTHER -> IF Function(Meta(g, f, "__call")) THEN Apply(Meta(g, f, "__call"), <<f>> \o args, g) ELSE Fails(g)
-----------------------------------------------------------------------------
(* Statements.                                                             *)

Scoped(h, g) == [h EXCEPT !.env = g.env]
Looped(h, again) == IF h.sig = "break" THEN [h EXCEPT !.sig = "go"] ELSE IF h.sig = "go" THEN again ELSE h
\* what is assigned to is found out first, then the values, then all is stored
RECURSIVE Targets(_, _, _)
Targets(vs, done, g) ==
  IF vs = <<>> \/ g.sig # "go" THEN Values(g, done)
  ELSE IF vs[1][1] = "name" THEN Targets(Tail(vs), Append(done, <<"name", vs[1][2]>>), g)
  ELSE LET t == Exp(vs[1][2], g)
           k == Exp(vs[1][3], t)
       IN Targets(Tail(vs), Append(done, <<"index", First(t.val), First(k.val)>>), k)
Store(g, target, v) ==
  CASE g.sig # "go" -> g
    [] g.sig = "go" /\ target[1] = "index" -> SetIndex(target[2], target[3], v, g)
    [] g.sig = "go" /\ target[1] = "name" /\ target[2] \in DOMAIN g.env -> [g EXCEPT !.cells[g.env[target[2]]] = v]
    [] OTHER -> SetIndex(<<"tab", 1>>, <<"str", target[2]>>, v, g)
StoreAll(g, ts) == FoldRight(LAMBDA j, h : Store(h, ts[j], Nth(g.val, j)), [j \in 1..Len(ts) |-> j], g)
IfValues(h, F(_)) == IF h.sig = "go" THEN F(h) ELSE h
NumLoop(v, i, to, step, body, g) ==
  IF (step > 0 /\ i > to) \/ (step <= 0 /\ i < to) THEN g
  ELSE LET h == Scoped(Ev("block", body, Declare(g, <<v>>, <<<<"num", i>>>>)), g)
       IN Looped(h, Ev("fornum", <<v, i + step, to, step, body>>, h))
InLoop(x, f, s, c, g) ==
  LET h == Apply(f, <<s, c>>, g)
      b == Scoped(Ev("block", x[4], Declare(h, x[2], h.val)), g)
  IN IF h.sig # "go" \/ First(h.val) = <<"nil">> THEN h ELSE Looped(b, Ev("forin", <<x, f, s, First(h.val)>>, b))
RepeatLoop(x, g) ==
  LET h == Ev("stats", x[2], g)
      c == Exp(x[3], h)
  IN CASE h.sig = "break" -> [Scoped(h, g) EXCEPT !.sig = "go"]
       [] h.sig \notin {"go", "break"} -> Scoped(h, g)
       [] OTHER -> IF c.sig # "go" \/ ~Falsity(c) THEN Scoped(c, g) ELSE Ev("stat", x, Scoped(c, g))
RECURSIVE Choose(_, _, _)
Choose(clauses, other, g) ==
  IF clauses = <<>> THEN Ev("block", other, g)
  ELSE LET h == Exp(clauses[1][1], g)
       IN IF h.sig # "go" THEN h
          ELSE IF Falsity(h) THEN Choose(Tail(clauses), other, h) ELSE Ev("block", clauses[1][2], h)
StartNum(x, h) ==
  LET n == [j \in DOMAIN h.val |-> Number(h.val[j])] IN
  IF \E j \in 1..Len(n) : n[j][1] # "num" THEN Fails(h)
  ELSE NumLoop(x[2], n[1][2], n[2][2], IF Len(n) > 2 THEN n[3][2] ELSE 1, x[4], h)
Statement(x, g) ==
  CASE x[1] = "local" -> IfValues(Ev("list", x[3], g), LAMBDA h : Declare(h, x[2], h.val))
    [] x[1] = "localfunction" ->
         LET d == Declare(g, <<x[2]>>, <<>>)
             h == Exp(x[3], d)
         IN [h EXCEPT !.cells[h.env[x[2]]] = First(h.val)]
    [] x[1] = "assign" ->
         IfValues(Targets(x[2], <<>>, g), LAMBDA h : IfValues(Ev("list", x[3], h), LAMBDA r : StoreAll(r, h.val)))
    [] x[1] = "do" -> Ev("block", x[2], g)
    [] x[1] = "while" ->
         LET c == Exp(x[2], g)
             h == Ev("block", x[3], c)
         IN IF c.sig # "go" \/ Falsity(c) THEN c ELSE Looped(h, Ev("stat", x, h))
    [] x[1] = "repeat" -> RepeatLoop(x, g)
    [] x[1] = "if" -> Choose(x[2], x[3], g)
    [] x[1] = "fornum" -> IfValues(Ev("list", x[3], g), LAMBDA h : StartNum(x, h))
    [] x[1] = "forin" -> IfValues(Ev("list", x[3], g), LAMBDA h : InLoop(x, Nth(h.val, 1), Nth(h.val, 2), Nth(h.val, 3), h))
    [] x[1] = "return" -> IfValues(Ev("list", x[2], g), LAMBDA h : [h EXCEPT !.sig = "return"])
    [] x[1] = "break" -> [g EXCEPT !.sig = "break"]
    [] OTHER -> Ev("multi", x, g)

Ev(what, x, g) ==
  CASE g.sig # "go" -> g
    [] g.sig = "go" /\ what = "exp" -> EvalExp(x, g)
    [] g.sig = "go" /\ what = "multi" -> EvalMulti(x, g)
    [] g.sig = "go" /\ what = "list" -> EvalList(x, g)
    [] g.sig = "go" /\ what = "apply" -> Call(x[1], x[2], g)
    [] g.sig = "go" /\ what = "index" -> GetIndex(x[1], x[2], g)
    [] g.sig = "go" /\ what = "setindex" -> SetIndex(x[1], x[2], x[3], g)
    [] g.sig = "go" /\ what = "stat" -> Statement(x, g)
    [] g.sig = "go" /\ what = "stats" -> FoldLeft(LAMBDA h, st : Ev("stat", st, h), g, x)
    [] g.sig = "go" /\ what = "block" -> Scoped(Ev("stats", x, g), g)
    [] g.sig = "go" /\ what = "fornum" -> NumLoop(x[1], x[2], x[3], x[4], x[5], g)
    [] g.sig = "go" /\ what = "forin" -> InLoop(x[1], x[2], x[3], x[4], g)

Library1 == {"f", "error", "getmetatable", "setmetatable", "rawequal", "rawget", "rawset", "ipairs", "assert", "unpack",
             "select", "type", "pcall"}
Fresh == [env |-> <<>>, cells |-> <<>>, dots |-> <<>>, fun |-> <<>>, out |-> <<>>, sig |-> "go", val |-> <<>>,
          tab |-> <<[map |-> [k \in {<<"str", n>> : n \in Library1} |-> <<"cfun", k[2]>>], meta |-> 0]>>]
\* what a program logs; an error nobody catches is logged last
Run(program) ==
  LET h == Ev("block", program, Fresh)
  IN IF h.sig = "error" THEN Append(h.out, <<Public(First(h.val))>>) ELSE h.out

-----------------------------------------------------------------------------
(* What the lexical analyser must make of a text, by the shape of lexemes: *)
(* a reference for LuaLex that knows no current character and no pieces.   *)

Digit == {"0", "1", "3"}
Word == Digit \cup {"a", "e", "x", "_"}
NewlineChar == {"\n", "\r"}
Every(s, set) == \A i \in DOMAIN s : s[i] \in set
Least(S) == CHOOSE n \in S : \A k \in S : n <= k
Most(S) == CHOOSE n \in S : \A k \in S : n >= k
From(s, i) == SubSeq(s, i, Len(s))
At(s, i) == IF i \in DOMAIN s THEN s[i] ELSE "EOZ"
LexError == <<"error", <<>>>>
EndOfText == <<"eos", <<>>>>

Pair(s) == Len(s) > 1 /\ s[2] \in NewlineChar /\ s[2] # s[1]
\* line ends, however written, are counted and become one character
RECURSIVE Normal(_)
Normal(s) ==
  IF s = <<>> THEN <<>>
  ELSE IF Head(s) \notin NewlineChar THEN <<Head(s)>> \o Normal(Tail(s))
  ELSE <<"\n">> \o Normal(From(s, IF Pair(s) THEN 3 ELSE 2))
Lines(s) == Len(SelectSeq(Normal(s), LAMBDA c : c = "\n"))

Points(s) == {i \in DOMAIN s : s[i] = "."}
Fixed(s) == Every(s, Digit \cup {"."}) /\ Len(s) > Cardinality(Points(s)) /\ Cardinality(Points(s)) <= 1
IsNumber(s) ==
  \/ Fixed(s)
  \/ \E k \in DOMAIN s : /\ s[k] = "e" /\ Fixed(SubSeq(s, 1, k - 1))
                         /\ LET d == From(s, k + 1)
                            IN \/ d # <<>> /\ Every(d, Digit)
                               \/ Len(d) > 1 /\ d[1] \in {"+", "-"} /\ Every(Tail(d), Digit)
  \/ Len(s) > 2 /\ s[1] = "0" /\ s[2] = "x" /\ Every(From(s, 3), Digit \cup {"a", "e"})
\* what is taken for one numeral, right or wrong
NumeralLike(s) ==
  \E k \in 1 .. Len(s) :
    /\ Every(SubSeq(s, 1, k), Digit \cup {"."})
    /\ LET d == From(s, k + 1)
       IN Every(d, Word) \/ (Len(d) > 1 /\ d[1] = "e" /\ d[2] \in {"+", "-"} /\ Every(From(d, 3), Word))

\* the level of the long bracket s begins with, -1 if it does not
Level(s) ==
  LET k == {n \in 0 .. Len(s) - 2 : s[1] = "[" /\ Every(SubSeq(s, 2, n + 1), {"="}) /\ s[n + 2] = "["}
  IN IF k = {} THEN -1 ELSE CHOOSE n \in k : TRUE
Closes(s, i, n) ==
  i + n + 1 <= Len(s) /\ s[i] = "]" /\ s[i + n + 1] = "]" /\ Every(SubSeq(s, i + 1, i + n), {"="})
\* where the long bracket at the beginning of s ends; 0: it is malformed
LongEnd(s, n) ==
  LET ends == {i \in n + 3 .. Len(s) : Closes(s, i, n)}
  IN IF ends = {} THEN 0
     ELSE IF n = 0 /\ \E i \in 3 .. Least(ends) - 1 : s[i] = "[" /\ s[i + 1] = "[" THEN 0
     ELSE Least(ends) + n + 1
LongText(s, n) ==
  LET t == Normal(SubSeq(s, n + 3, Len(s) - n - 2)) IN IF t # <<>> /\ t[1] = "\n" THEN Tail(t) ELSE t

\* the character before s[i] is a \ that is not itself escaped
Escaped(s, i) ==
  LET run == {k \in 0 .. i - 1 : \A j \in i - k .. i - 1 : s[j] = "\\"} IN Most(run) % 2 = 1
LineEscaped(s, i) == Escaped(s, i) \/ (i > 1 /\ s[i - 1] \in NewlineChar /\ s[i - 1] # s[i] /\ Escaped(s, i - 1))
QuoteEnd(s) ==
  LET ends == {i \in 2 .. Len(s) : s[i] = s[1] /\ ~Escaped(s, i)}
  IN IF ends = {} \/ \E i \in 2 .. Least(ends) : s[i] \in NewlineChar /\ ~LineEscaped(s, i) THEN 0 ELSE Least(ends)
Value(d) == LET v == [c \in Digit |-> IF c = "0" THEN 0 ELSE IF c = "1" THEN 1 ELSE 3]
            IN FoldLeft(LAMBDA n, c : 10 * n + v[c], 0, d)
Char(n) == CASE n = 10 -> "\n" [] n = 13 -> "\r" [] n = 101 -> "e" [] OTHER -> "\\" \o ToString(n)
TooLarge == <<"too large">>
RECURSIVE Unquoted(_)
Unquoted(s) ==
  IF s = <<>> THEN <<>>
  ELSE IF Head(s) # "\\" THEN <<Head(s)>> \o Unquoted(Tail(s))
  ELSE LET c == s[2]
           k == Most({n \in 0 .. 3 : n < Len(s) /\ Every(SubSeq(s, 2, n + 1), Digit)})
       IN CASE c = "a" -> <<"\\7">> \o Unquoted(From(s, 3))
            [] c \in NewlineChar -> <<"\n">> \o Unquoted(From(s, IF Pair(Tail(s)) THEN 4 ELSE 3))
            [] c \in Digit -> (IF Value(SubSeq(s, 2, k + 1)) > 255 THEN TooLarge ELSE <<Char(Value(SubSeq(s, 2, k + 1)))>>)
                              \o Unquoted(From(s, k + 2))
            [] OTHER -> <<c>> \o Unquoted(From(s, 3))
\* a string, or an error, if an escape in it is out of range
Quoted(s) ==
  LET t == Unquoted(SubSeq(s, 2, Len(s) - 1)) IN IF "too large" \in Range(t) THEN LexError ELSE <<"string", t>>

Operators2 == {<<"=", "=">>, <<"<", "=">>, <<"~", "=">>, <<".", ".">>}
\* the length of the first lexeme of s, which is neither space nor comment,
\* and what it is; 0: an error
Lexeme(s) ==
  LET numeral == Most({0} \cup {n \in DOMAIN s : NumeralLike(SubSeq(s, 1, n))})
      name == Most({0} \cup {n \in DOMAIN s : Every(SubSeq(s, 1, n), Word)})
      c == s[1]
  IN CASE c \in Digit \/ (c = "." /\ At(s, 2) \in Digit) ->
            IF IsNumber(SubSeq(s, 1, numeral)) THEN <<numeral, <<"number", SubSeq(s, 1, numeral)>>>> ELSE <<0, LexError>>
       [] c \in Word \ Digit ->
            <<name, <<IF SubSeq(s, 1, name) = <<"e", "a", "x">> THEN "reserved" ELSE "name", SubSeq(s, 1, name)>>>>
       [] c \in {"\"", "'"} ->
            IF QuoteEnd(s) = 0 THEN <<0, LexError>>
            ELSE LET q == Quoted(SubSeq(s, 1, QuoteEnd(s))) IN <<IF q = LexError THEN 0 ELSE QuoteEnd(s), q>>
       [] c = "[" /\ Level(s) >= 0 ->
            IF LongEnd(s, Level(s)) = 0 THEN <<0, LexError>>
            ELSE <<LongEnd(s, Level(s)), <<"string", LongText(SubSeq(s, 1, LongEnd(s, Level(s))), Level(s))>>>>
       [] c = "[" /\ Level(s) = -1 -> IF At(s, 2) = "=" THEN <<0, LexError>> ELSE <<1, <<"[", <<>>>>>>
       [] c = "." /\ At(s, 2) = "." /\ At(s, 3) = "." -> <<3, <<"...", <<>>>>>>
       [] OTHER -> IF <<c, At(s, 2)>> \in Operators2 /\ ~(c = "." /\ At(s, 3) = ".")
                   THEN <<2, <<c \o s[2], <<>>>>>> ELSE <<1, <<c, <<>>>>>>

\* the length of the space or comment s begins with; -1: it has no end
Blank(s) ==
  CASE s[1] \in NewlineChar \cup {" "} -> 1
    [] s[1] = "-" /\ At(s, 2) = "-" ->
         LET level == Level(From(s, 3))
             newline == {i \in DOMAIN s : s[i] \in NewlineChar}
         IN IF level < 0 THEN (IF newline = {} THEN Len(s) ELSE Least(newline) - 1)
            ELSE IF LongEnd(From(s, 3), level) = 0 THEN -1 ELSE LongEnd(From(s, 3), level) + 2
    [] OTHER -> 0

RECURSIVE TokensOf(_)
TokensOf(s) ==
  IF s = <<>> THEN <<EndOfText>>
  ELSE IF Blank(s) = -1 THEN <<LexError>>
  ELSE IF Blank(s) > 0 THEN TokensOf(From(s, Blank(s) + 1))
  ELSE LET x == Lexeme(s) IN <<x[2]>> \o (IF x[1] = 0 THEN <<>> ELSE TokensOf(From(s, x[1] + 1)))

\* The text of a list of pieces: it ends with the first empty one, unless that
\* is the very first, which f_parser's look ahead has swallowed.
TextOf(pieces) ==
  LET rest == IF pieces # <<>> /\ Head(pieces) = <<>> THEN Tail(pieces) ELSE pieces
      ends == {i \in DOMAIN rest : rest[i] = <<>>}
  IN FlattenSeq(IF ends = {} THEN rest ELSE SubSeq(rest, 1, Least(ends) - 1))
=============================================================================

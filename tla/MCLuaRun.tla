----------------------------- MODULE MCLuaRun -----------------------------
(* The programs that are run, as trees: families of small programs in      *)
(* which one place takes many forms, and programs that use one feature.    *)
EXTENDS LuaRun

N(x) == <<"number", x>>
S(x) == <<"string", x>>
V(x) == <<"name", x>>
True == <<"true">>
NilE == <<"nil">>
Dots3 == <<"...">>
B(op, x, y) == <<"binop", op, x, y>>
U(op, x) == <<"unop", op, x>>
Call(f, args) == <<"call", f, args>>
F(args) == Call(V("f"), args)
Index(t, k) == <<"index", t, k>>
Fun(ps, blk) == <<"function", ps, "no", blk>>
FunV(ps, blk) == <<"function", ps, "dots", blk>>
Table(items) == <<"table", items>>
Item(e) == <<"item", e>>
Local(ns, es) == <<"local", ns, es>>
Assign(vs, es) == <<"assign", vs, es>>
Ret(es) == <<"return", es>>
If(c, t, e) == <<"if", <<<<c, t>>>>, e>>
\* a metatable with one entry
SetMeta(t, event, h) == Call(V("setmetatable"), <<t, Table(<<<<"named", event, h>>>>)>>)
-----------------------------------------------------------------------------
(* Conditions: and, or, not and comparisons nest in every place where an   *)
(* expression may stand.                                                   *)
Atoms == {V("a"), V("b"), N(1)}
Simple == Atoms \cup {U("not", x) : x \in Atoms} \cup {B("==", x, y) : x, y \in {V("a"), V("b")}}
          \cup {F(<<V("a")>>)}
Conds == {B(o, x, y) : o \in {"and", "or"}, x, y \in Simple}
Nested == {B(o, x, y) : o \in {"and", "or"}, x \in {B(p, u, w) : p \in {"and", "or"}, u \in {V("a"), F(<<V("a")>>)}, w \in {V("b"), U("not", V("b"))}},
                        y \in {N(1), V("a"), U("not", V("b"))}}
Exprs == Conds \cup {U("not", x) : x \in Nested} \cup Nested
Uses(e) == {<<F(<<e>>)>>,
            <<If(e, <<F(<<N(1)>>)>>, <<F(<<N(2)>>)>>)>>,
            <<Local(<<"x">>, <<e>>), F(<<V("x"), V("a")>>)>>,
            <<Assign(<<V("a")>>, <<e>>), F(<<V("a")>>)>>,
            <<<<"while", e, <<F(<<N(3)>>), <<"break">>>>>>, F(<<>>)>>}
Vals == {<<NilE, True>>, <<N(1), NilE>>, <<N(1), N(1)>>}
Conditions == {<<Local(<<"a", "b">>, v)>> \o u : v \in Vals, u \in UNION {Uses(e) : e \in Exprs}}

-----------------------------------------------------------------------------
(* Loops whose bodies make closures, left in every way.                    *)
Inc(v) == Fun(<<>>, <<Assign(<<V(v)>>, <<B("+", V(v), N(1))>>), Ret(<<V(v)>>)>>)
Captures3 == {"none", "y", "i", "n"}
BodyOf(capture, exit) ==
  <<Assign(<<V("n")>>, <<B("+", V("n"), N(1))>>), Local(<<"y">>, <<V("n")>>)>>
  \o (IF capture = "none" THEN <<>> ELSE <<Assign(<<Index(V("t"), V("n"))>>, <<Inc(capture)>>)>>)
  \o CASE exit = "end" -> <<>>
       [] exit = "break" -> <<If(B("==", V("n"), N(2)), <<F(<<V("y")>>), <<"break">>>>, <<>>)>>
       [] exit = "inner" -> <<<<"do", <<Local(<<"z">>, <<N(5)>>), Assign(<<Index(V("t"), N(9))>>, <<Inc("z")>>),
                                        If(B(">", V("n"), N(1)), <<<<"break">>>>, <<>>)>>>>>>
       [] exit = "return" -> <<If(B("==", V("n"), N(2)), <<Ret(<<V("y"), V("n")>>)>>, <<>>)>>
\* locals that take the registers the loop has left
Overwrite == <<"o1", "o2", "o3", "o4", "o5", "o6", "o7">>
Loops(b) ==
  {<<"fornum", "i", <<N(1), N(3)>>, b>>,
   <<"fornum", "i", <<N(5), N(1), U("-", N(2))>>, b>>,
   <<"forin", <<"i", "v">>, <<Call(V("ipairs"), <<Table(<<Item(N(7)), Item(N(8))>>)>>)>>, b>>,
   <<"while", B("<", V("n"), N(3)), <<Local(<<"i">>, <<N(4)>>)>> \o b>>,
   <<"repeat", <<Local(<<"i">>, <<N(4)>>)>> \o b, B(">=", V("y"), N(3))>>,
   <<"repeat", <<Local(<<"i">>, <<N(4)>>)>> \o b, B("or", B("==", V("n"), N(3)), NilE)>>}
LoopPrograms ==
  {<<Local(<<"t", "n">>, <<Table(<<>>), N(0)>>),
     F(<<Call(<<"paren", FunV(<<>>, <<l, Local(Overwrite, <<N(50), N(51), N(52), N(53), N(54), N(55), N(56)>>)>>)>>, <<>>)>>),
     <<"fornum", "j", <<N(1), B("+", U("#", V("t")), N(0))>>,
        <<F(<<Call(Index(V("t"), V("j")), <<>>), Call(Index(V("t"), V("j")), <<>>), V("n")>>)>>>>,
     If(Index(V("t"), N(9)), <<F(<<Call(Index(V("t"), N(9)), <<>>)>>)>>, <<>>)>> :
   l \in UNION {Loops(BodyOf(c, x)) : c \in Captures3, x \in {"end", "break", "inner", "return"}}}
-----------------------------------------------------------------------------
(* Assignments to several variables, each used by the others.              *)
Places == {V("a"), V("b"), V("g"), Index(V("t"), V("a")), Index(V("t"), N(2)), Index(V("u"), V("b")), Index(V("u"), S("k"))}
Sources == {<<N(1), N(2)>>, <<V("b"), V("a")>>, <<F(<<N(3), N(4)>>)>>, <<N(5)>>, <<V("a"), V("t"), F(<<>>)>>, <<F(<<N(1)>>), F(<<V("b")>>)>>,
            <<B("+", V("a"), N(1)), B("and", V("b"), V("g"))>>}
Targets2 == {<<x, y>> : x, y \in Places} \cup {<<V("a"), Index(V("t"), V("a")), Index(V("u"), V("a"))>>,
                                               <<Index(V("t"), V("a")), V("t"), V("a")>>, <<Index(V("u"), V("b")), V("b"), V("u")>>}
AssignPrograms ==
  {<<Local(<<"a", "b", "t", "u">>, <<N(1), N(2), Table(<<Item(N(10)), Item(N(20))>>), Table(<<>>)>>),
     Local(<<"v", "w">>, <<V("t"), V("u")>>),
     Assign(ts, es),
     F(<<V("a"), V("b"), V("g"), Index(V("v"), N(1)), Index(V("v"), N(2)), Index(V("w"), N(2)), Index(V("w"), S("k")),
         B("==", V("t"), V("v")), B("==", V("u"), V("w"))>>)>> :
     ts \in {x \in Targets2 : x[1] # x[2]}, es \in Sources}
-----------------------------------------------------------------------------
(* Constructors: flushes of two items, named fields between them, a last   *)
(* item with several values.                                               *)
Lasts == {<<>>, <<Item(F(<<N(8), N(9), N(10)>>))>>, <<Item(<<"paren", F(<<N(8), N(9)>>)>>)>>, <<Item(Dots3)>>, <<Item(F(<<>>))>>,
          <<<<"named", "k", F(<<N(6), N(7)>>)>>>>}
TablePrograms ==
  {<<Local(<<"t">>, <<Call(FunP, <<N(1), N(2), N(3)>>)>>),
     F(<<U("#", V("t")), Index(V("t"), S("k")), Call(V("unpack"), <<V("t")>>)>>)>> :
     FunP \in {<<"paren", FunV(<<"x">>, <<Ret(<<Table(items \o last)>>)>>)>> :
                 last \in Lasts,
                 items \in {[j \in 1..n |-> IF j = named THEN <<"named", "k", V("x")>>
                                            ELSE IF j = keyed THEN <<"key", B("+", V("x"), N(10)), N(j)>> ELSE Item(N(j))] :
                              n \in 0..5, named \in {0, 2}, keyed \in {0, 3}}}}
-----------------------------------------------------------------------------
(* Calls: what is passed, what is declared, what is taken.                 *)
Functions3 == {Fun(<<>>, <<>>), Fun(<<"x">>, <<Ret(<<V("x"), V("x")>>)>>), Fun(<<"x", "y">>, <<F(<<V("y")>>), Ret(<<V("y")>>)>>),
               FunV(<<>>, <<Ret(<<Dots3>>)>>), FunV(<<"x">>, <<Local(<<"p", "q">>, <<Dots3>>), Ret(<<V("q"), V("p"), V("x"), Dots3>>)>>),
               <<"function", <<"x">>, "arg", <<Ret(<<Index(V("arg"), S("n")), Index(V("arg"), N(1))>>)>>>>,
               FunV(<<"x">>, <<Ret(<<F(<<Dots3>>)>>)>>), Fun(<<"x">>, <<Ret(<<F(<<V("x")>>), N(0)>>)>>),
               FunV(<<"x">>, <<Ret(<<Call(V("select"), <<S("#"), Dots3>>), Call(V("select"), <<U("-", N(1)), Dots3>>)>>)>>)}
Arguments3 == {<<>>, <<N(1)>>, <<N(1), NilE, N(3)>>, <<N(1), F(<<N(4), N(5)>>)>>, <<F(<<N(4), N(5)>>), N(6)>>}
Taken(c) == {<<c>>, <<F(<<c>>)>>, <<F(<<N(0), c, N(9)>>)>>, <<Local(<<"p", "q", "r">>, <<c>>), F(<<V("p"), V("q"), V("r")>>)>>,
             <<F(<<Call(<<"paren", Fun(<<>>, <<Ret(<<c>>)>>)>>, <<>>)>>)>>, <<F(<<Call(<<"paren", FunV(<<"z">>, <<Ret(<<V("z"), c>>)>>)>>, <<N(2), N(3)>>)>>)>>,
             <<F(<<U("#", Table(<<Item(N(0)), Item(c)>>))>>)>>, <<Ret(<<c>>)>>}
CallPrograms ==
  {<<Local(<<"h">>, <<fn>>)>> \o u : fn \in Functions3, u \in UNION {Taken(Call(V("h"), as)) : as \in Arguments3}}
-----------------------------------------------------------------------------
(* Operators: precedence, constants folded or not, constants that do not   *)
(* fit an operand.                                                         *)
Operands == {<<N(7), N(5), N(2)>>, <<V("a"), N(5), V("b")>>, <<N(7), V("c"), F(<<N(2)>>)>>}
Ops == {"+", "-", "*", "..", "%", "==", "and"}
OpPrograms ==
  {<<Local(<<"a", "b", "c">>, <<N(7), N(2), N(5)>>), F(<<e>>)>> :
     e \in {B(o, B(q, x[1], x[2]), x[3]) : o, q \in Ops, x \in Operands} \cup {B(o, x[1], B(q, x[2], x[3])) : o, q \in Ops, x \in Operands}
           \cup {B(o, U(q, x[2]), x[3]) : o \in {"+", "^", "*"}, q \in {"-", "not"}, x \in Operands}
           \cup {U(q, B(o, x[2], x[3])) : o \in {"+", "^", "==", "and"}, q \in {"-", "not"}, x \in Operands}
           \cup {B("..", S("x"), B("..", N(1), B("..", V("a"), S("")))), U("#", B("..", V("a"), V("b"))),
                 B("^", N(2), B("^", N(3), N(2))), B("-", U("-", V("a")), U("-", N(3))), B("/", N(8), N(2)), B("/", N(1), N(0)),
                 B("..", N(1), NilE), U("#", V("a")), B("<", V("a"), S("a")), B("<", S("a"), S("b")), B(">=", S("a"), S("b"))}}
-----------------------------------------------------------------------------
(* Tag methods, set before or after they are first looked for.             *)
Handlers == [f |-> V("f"), lua |-> Fun(<<"x", "y", "z">>, <<F(<<V("x"), V("y"), V("z")>>), Ret(<<V("y"), N(0)>>)>>),
             fails |-> Fun(<<>>, <<Ret(<<>>)>>), error |-> V("error"), object |-> Table(<<<<"named", "k", N(33)>>>>)]
MetaUses ==
  {<<F(<<Index(V("t"), S("k"))>>)>>, <<Assign(<<Index(V("t"), S("k"))>>, <<N(3)>>), F(<<Call(V("rawget"), <<V("t"), S("k")>>)>>)>>,
   <<F(<<B("==", V("t"), V("u"))>>)>>, <<If(B("~=", V("t"), V("u")), <<F(<<>>)>>, <<>>)>>,
   <<F(<<B("+", V("t"), N(1)), B("-", N(1), V("t"))>>)>>, <<F(<<U("-", V("t"))>>)>>,
   <<F(<<B("..", S("x"), B("..", N(1), B("..", V("t"), S("y"))))>>)>>,
   <<F(<<B("<", V("t"), V("u")), B(">=", V("t"), V("u"))>>)>>, <<If(B("<=", V("t"), V("u")), <<F(<<>>)>>, <<F(<<N(9)>>)>>)>>,
   <<F(<<Call(V("t"), <<N(4)>>)>>)>>, <<Ret(<<Call(V("t"), <<N(4)>>)>>)>>, <<F(<<<<"method", V("t"), "k", <<N(1)>>>>>>)>>,
   <<<<"forin", <<"i">>, <<V("t"), N(1)>>, <<F(<<V("i")>>), <<"break">>>>>>>>,
   <<F(<<Call(V("getmetatable"), <<V("t")>>), Call(V("type"), <<V("t")>>)>>), Call(V("setmetatable"), <<V("t"), NilE>>), F(<<Index(V("t"), S("k"))>>)>>}
Events == {"__index", "__newindex", "__eq", "__add", "__unm", "__concat", "__lt", "__le", "__call", "__metatable"}
MetaPrograms ==
  {<<Local(<<"m", "t", "u">>, <<Table(<<>>), Table(<<>>), Table(<<>>)>>),
     Call(V("setmetatable"), <<V("t"), V("m")>>), Call(V("setmetatable"), <<V("u"), V("m")>>)>>
   \o (IF late THEN <<Call(V("pcall"), <<Fun(<<>>, use)>>)>> ELSE <<>>)
   \o <<Assign(<<Index(V("m"), S(event))>>, <<Handlers[h]>>)>> \o use :
   late \in BOOLEAN, event \in Events, h \in DOMAIN Handlers, use \in MetaUses}
-----------------------------------------------------------------------------
(* Errors, where they are raised and what is left when they are caught.    *)
Raises == {Call(V("error"), <<S("e")>>), Call(V("error"), <<Table(<<>>)>>), Call(V("nothing"), <<>>), F(<<Index(V("nothing"), N(1))>>),
           F(<<B("+", V("y"), Table(<<>>))>>), Call(V("assert"), <<NilE>>), F(<<N(6)>>)}
Around(c) ==
  {<<c>>, <<<<"fornum", "i", <<N(1), N(2)>>, <<Local(<<"z">>, <<V("i")>>), Assign(<<V("k")>>, <<Inc("z")>>), c>>>>>>,
   <<Local(<<"z">>, <<N(3)>>), Assign(<<V("k")>>, <<Inc("z")>>), F(<<Call(V("pcall"), <<Fun(<<>>, <<c, Ret(<<V("z")>>)>>)>>)>>), Assign(<<V("z")>>, <<N(7)>>), c>>,
   <<Local(<<"z">>, <<SetMeta(Table(<<>>), "__index", Fun(<<"q">>, <<c, Ret(<<N(1)>>)>>))>>), F(<<Index(V("z"), N(1))>>)>>,
   <<Ret(<<Call(V("pcall"), <<V("pcall"), Fun(<<>>, <<c>>)>>)>>)>>}
ErrorPrograms ==
  {<<Local(<<"k", "y">>, <<NilE, N(2)>>), Local(<<"h">>, <<Fun(<<"x">>, b)>>),
     F(<<Call(V("pcall"), <<V("h"), N(1)>>)>>),
     If(V("k"), <<F(<<Call(V("k"), <<>>), Call(V("k"), <<>>)>>)>>, <<>>), Call(V("h"), <<N(2)>>)>> : b \in UNION {Around(c) : c \in Raises}}
-----------------------------------------------------------------------------
(* Scopes: shadowing, upvalues of upvalues, recursion, chains of elseif.   *)
Others ==
  {<<Local(<<"x">>, <<N(1)>>), <<"do", <<Local(<<"x">>, <<B("+", V("x"), N(1))>>), F(<<V("x")>>)>>>>, F(<<V("x")>>)>>,
   <<Local(<<"x">>, <<N(1)>>), Local(<<"p">>, <<Fun(<<>>, <<Ret(<<Fun(<<>>, <<Assign(<<V("x")>>, <<B("+", V("x"), N(1))>>), Ret(<<V("x")>>)>>)>>)>>)>>),
     F(<<Call(Call(V("p"), <<>>), <<>>), Call(Call(V("p"), <<>>), <<>>), V("x")>>)>>,
   <<<<"localfunction", "fact", Fun(<<"n">>, <<If(B("<=", V("n"), N(1)), <<Ret(<<N(1)>>)>>, <<Ret(<<B("*", V("n"), Call(V("fact"), <<B("-", V("n"), N(1))>>))>>)>>)>>)>>,
     F(<<Call(V("fact"), <<N(4)>>)>>)>>,
   <<F(<<N(1)>>), If(V("nothing"), <<Local(<<"p", "q">>, <<>>)>>, <<>>), Local(<<"p", "q">>, <<>>), F(<<V("p"), V("q")>>)>>,
   <<<<"localfunction", "down", Fun(<<"n">>, <<If(B("==", V("n"), N(0)), <<Ret(<<N(42), V("n")>>)>>, <<>>), Ret(<<Call(V("down"), <<B("-", V("n"), N(1))>>)>>)>>)>>,
     F(<<Call(V("down"), <<N(6)>>)>>)>>,
   <<Local(<<"x">>, <<>>), Local(<<"y", "z">>, <<N(1)>>), F(<<V("x"), V("y"), V("z")>>), Assign(<<V("g")>>, <<Fun(<<>>, <<Assign(<<V("g")>>, <<N(3)>>)>>)>>),
     Call(V("g"), <<>>), F(<<V("g")>>)>>,
   <<<<"fornum", "i", <<N(1), N(4)>>,
       <<<<"if", <<<<B("==", V("i"), N(1)), <<F(<<N(1)>>)>>>>, <<B("and", B("<", V("i"), N(3)), V("i")), <<F(<<N(2)>>)>>>>,
                   <<B("==", V("i"), N(3)), <<<<"while", True, <<<<"break">>>>>>>>>>>>, <<F(<<V("i")>>), <<"break">>>>>>>>>>>>,
   <<<<"fornum", "i", <<S("1"), N(2)>>, <<F(<<V("i")>>)>>>>, <<"fornum", "i", <<NilE, N(2)>>, <<>>>>>>,
   <<F(<<Call(V("rawequal"), <<Call(V("rawset"), <<Table(<<>>), N(1), N(2)>>), N(1)>>), Call(V("unpack"), <<Table(<<Item(N(1)), Item(N(2)), Item(N(3))>>), N(2)>>)>>)>>,
   <<Local(<<"o">>, <<Table(<<<<"named", "m", FunV(<<"self">>, <<Ret(<<Index(V("self"), S("v")), Dots3>>)>>)>>, <<"named", "v", N(5)>>>>)>>),
     F(<<<<"method", V("o"), "m", <<N(1), N(2)>>>>>>), Ret(<<<<"method", V("o"), "m", <<>>>>>>)>>}
-----------------------------------------------------------------------------
(* Texts: every text over a few characters, and what is between the        *)
(* brackets of long strings, comments and quotes; whole, and cut in        *)
(* single characters, before, after or around an empty piece.              *)
Strings(chars, n) == UNION {[1 .. k -> chars] : k \in 0 .. n}
Wrap(before, ws, after) == {before \o w \o after : w \in ws}
Brackets == {"[", "]", "=", "\n", "\r"}
Plain == Strings({"-", "[", "=", "\n", "a"}, 4) \cup Strings({"=", "<", "~", "a", " ", "\r"}, 3)
         \cup Strings({"0", ".", "e", "-", "x"}, 4) \cup Strings({"e", "a", "x", "1"}, 3)
         \cup Wrap(<<"[", "[">>, Strings(Brackets, 3), <<"]", "]", "a">>)
         \cup Wrap(<<"[", "=", "[">>, Strings(Brackets, 3), <<"]", "=", "]">>)
         \cup Wrap(<<"-", "-", "[", "=", "[">>, Strings(Brackets, 2), <<"]", "=", "]", "a">>)
         \cup Wrap(<<"'">>, Strings({"\\", "'", "\n", "\r", "a"}, 4), <<>>)
         \cup Wrap(<<"\"", "\\">>, Strings({"0", "1", "3", "\"", "x"}, 4), <<"\"">>)
Cut(w) == [i \in DOMAIN w |-> <<w[i]>>]
MCTexts == UNION {{<<w>>, Cut(w)} : w \in Plain}
           \cup UNION {{<<w, <<>>, w>>, <<<<>>, w>>, <<<<>>, <<>>, w>>} : w \in Strings({"a", "-", "'"}, 2)}

MCCollation == <<"a", "b">>
MCPrograms == Conditions \cup LoopPrograms \cup AssignPrograms \cup TablePrograms \cup CallPrograms \cup OpPrograms
              \cup MetaPrograms \cup ErrorPrograms \cup Others
===========================================================================

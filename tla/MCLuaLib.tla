------------------------------ MODULE MCLuaLib ------------------------------
(* A small table: integers on both sides of the array part and strings      *)
(* that collide with each other and with the integers; and calls.           *)
EXTENDS LuaLib

Num(n) == [tt |-> "number", n |-> n]
Str(h, id) == [tt |-> "string", h |-> h, id |-> id]
MCKeys == {Num(1), Num(2), Str(0, "a"), Str(4, "b"), Str(3, "c")}
-----------------------------------------------------------------------------
(* Patterns: up to three items of every kind, and every text over the      *)
(* characters that can spoil a pattern.                                    *)
Words(chars, n) == UNION {[1 .. k -> chars] : k \in 0 .. n}
Repeated == {<<c, r>> : c \in {"a", "."}, r \in {"*", "+", "-", "?"}} \cup {<<"a">>, <<"b">>}
Groups == {<<"(">>, <<")">>, <<"(", ")">>, <<"%", "1">>, <<"%", "2">>, <<"%", "0">>, <<"$">>, <<"^">>}
Others == {<<"%", "b", "a", "b">>, <<"%", "f", "[", "a", "]">>, <<"[", "^", "a", "]", "*">>, <<"%", "A">>, <<"[", "1", "-", "a", "]">>}
Items3 == Repeated \cup Groups \cup Others
JoinedItems(n) == {FlattenSeq(w) : w \in Words(Items3, n)}
Triples == {FlattenSeq(w) : w \in [1 .. 3 -> {<<"a", "*">>, <<"a", "-">>, <<".", "?">>, <<"b">>, <<"(">>, <<")">>, <<"%", "1">>, <<"$">>}]}
Captured == {<<"(">> \o x \o <<")">> \o y \o z : x \in Repeated, y \in Repeated \cup Groups, z \in {<<"a">>, <<"b">>, <<")">>, <<"%", "1">>, <<"$">>}}
            \cup {<<"(">> \o x \o <<"(">> \o y \o <<")", ")">> \o z : x, y \in {<<"a", "*">>, <<"a", "?">>, <<".">>}, z \in Repeated \cup Groups}
Odd == Words({"[", "]", "%", "^", "-", "a"}, 3)
Finds(ss, ps) == {[fn |-> f, s |-> s, p |-> p, init |-> 1, plain |-> FALSE] : f \in {"find", "match"}, s \in ss, p \in ps}
Subjects == {<<>>, <<"a">>, <<"b", "a">>, <<"a", "a", "b">>}
FindJobs ==
  Finds(Subjects, JoinedItems(2)) \cup Finds({<<"a", "a", "b">>, <<"b", "a">>}, Triples) \cup Finds({<<"a", "b", "a">>, <<"a", "a">>}, Captured)
  \cup Finds({<<"a">>, <<"]", "-">>}, Odd)
  \cup {[fn |-> "find", s |-> s, p |-> p, init |-> i, plain |-> b] :
          s \in Subjects, p \in Words({"a", "b", "."}, 2), i \in -4 .. 5, b \in BOOLEAN}
GmatchJobs == {[fn |-> "gmatch", s |-> s, p |-> p] : s \in Subjects, p \in JoinedItems(2)}
Replacements == {[tr |-> "string", news |-> w] : w \in {<<>>, <<"a", "b">>, <<"%", "1", "a", "%", "1">>, <<"b", "%", "0">>, <<"%", "2">>, <<"%", "%">>, <<"%">>}}
                \cup {[tr |-> k, value |-> v] : k \in {"table", "function"}, v \in {<<"nil", <<>>>>, <<"string", <<"a">>>>, <<"error", <<>>>>}}
GsubJobs == {[fn |-> "gsub", s |-> s, p |-> p, repl |-> r, max |-> m] :
               s \in {<<>>, <<"a", "b">>, <<"a", "a", "a", "b">>}, p \in JoinedItems(1) \cup {<<"(">> \o x \o <<")">> : x \in Items3}, r \in Replacements, m \in {1, 5}}
SubJobs == {[fn |-> "sub", s |-> s, i |-> i, j |-> j] : s \in {<<>>, <<"a">>, <<"a", "b", "c">>}, i, j \in -5 .. 5}
-----------------------------------------------------------------------------
(* Lists, with holes too, where any border may be their length.             *)
Arrays(vs, n) == UNION {[0 .. k + 1 -> vs] : k \in 0 .. n}
Bordered(vs, n) == {x \in Arrays(vs, n) \X (0 .. n + 1) :
                      /\ x[1][0] = Nil /\ x[2] + 1 \in DOMAIN x[1] /\ x[1][x[2] + 1] = Nil /\ (x[2] = 0 \/ x[1][x[2]] # Nil)}
Texts == {Nil, "x", "y"}
InsertJobs ==
  {[fn |-> "insert", a |-> x[1], n |-> x[2], pos |-> p, v |-> "z"] : x \in Bordered(Texts, 3), p \in 0 .. 4}
RemoveJobs ==
  {[fn |-> "remove", a |-> x[1], n |-> x[2], pos |-> p] : x \in Bordered(Texts, 3), p \in 0 .. 4}
Parts == {<<>>, <<"a">>, <<"a", "b">>, <<"a", "b", "a", "b", "b">>}
ConcatJobs == {[fn |-> "concat", a |-> [k \in 1 .. Len(w) |-> w[k]], sep |-> sep, i |-> i, j |-> j] :
                 w \in UNION {[1 .. n -> Parts] : n \in 0 .. 3} \cup {[k \in 1 .. n |-> <<"a">>] : n \in 4 .. 6}, sep \in {<<>>, <<"b">>}, i \in 1 .. 2, j \in 0 .. 6}
(* Sorting: every list and every relation; every one of two values that     *)
(* raises errors; the weak orders of three values with an error where nil   *)
(* is compared; and every course of answers that ends in an error or in an  *)
(* order.                                                                   *)
Full(a, n) == [k \in 0 .. n + 1 |-> IF k \in 1 .. n THEN a[k] ELSE Nil]
Lists(vs, ns) == UNION {[1 .. n -> vs] : n \in ns}
\* 1 comes first: with 2 first it is the same for the relation turned round
Pairs == {a \in Lists(1 .. 2, 2 .. 5) : a[1] = 1}
Sort(as, cs) == {[fn |-> "sort", a |-> Full(a, Len(a)), n |-> Len(a), cmp |-> c] : a \in as, c \in cs}
Relations(vs, answers) == {[first |-> <<>>, rel |-> r] : r \in [vs \X vs -> answers]}
OrError(r, vs) == [p \in (vs \cup {Nil}) \X (vs \cup {Nil}) |-> IF Nil \in {p[1], p[2]} THEN "error" ELSE r[p]]
Partial == {[c EXCEPT !.rel = OrError(c.rel, 1 .. 2)] : c \in Relations(1 .. 2, {"lt", "ge", "error"})}
Ranked(vs, rank) == OrError([p \in vs \X vs |-> IF rank[p[1]] < rank[p[2]] THEN "lt" ELSE "ge"], vs)
Orders == {[first |-> <<>>, rel |-> Ranked(1 .. 3, rank)] : rank \in [1 .. 3 -> 1 .. 3]}
Fickle(n, rels) == {[first |-> w, rel |-> r] : w \in Words({"lt", "ge"}, n), r \in rels}
Raising(vs) == [p \in (vs \cup {Nil}) \X (vs \cup {Nil}) |-> "error"]
SortJobs ==
  Sort(Pairs, Relations({Nil, 1, 2}, {"lt", "ge"})) \cup Sort(Pairs, Partial)
  \cup Sort(Lists(1 .. 3, 0 .. 5), Orders)
  \cup Sort({<<4, 2, 5, 1, 3>>, <<1, 2, 3, 4>>, <<3, 2, 1>>}, Fickle(8, {Raising(1 .. 5), Ranked(1 .. 5, <<1, 2, 3, 4, 5>>)}))
MCJobs == <<FindJobs, GmatchJobs, GsubJobs, SubJobs, InsertJobs, RemoveJobs, ConcatJobs, SortJobs>>
=============================================================================

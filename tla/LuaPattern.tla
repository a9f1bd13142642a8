----------------------------- MODULE LuaPattern -----------------------------
(***************************************************************************)
(* What a pattern means, for comparison with LuaStrLib: the ways it        *)
(* matches at a place, in the order of preference.  A class is a set of    *)
(* characters; an error is a way too, since it ends the search when it is  *)
(* met first.                                                              *)
(***************************************************************************)
EXTENDS LuaStrLib

Chars == Range(Alphabet)
Failure == [e |-> 0, caps |-> <<>>]

\* the set that %c stands for
Named(c) == CASE c = "a" -> isalpha [] c = "A" -> Chars \ isalpha [] c = "d" -> isdigit [] c = "D" -> Chars \ isdigit
              [] OTHER -> {c}
Between(x, y) == {c \in Chars : uchar(x) <= uchar(c) /\ uchar(c) <= uchar(y)}

\* the members of a bracket, from its text
RECURSIVE Members(_)
Members(w) ==
  IF w = <<>> THEN {}
  ELSE IF w[1] = "%" THEN Named(w[2]) \cup Members(SubSeq(w, 3, Len(w)))
  ELSE IF Len(w) >= 3 /\ w[2] = "-" THEN Between(w[1], w[3]) \cup Members(SubSeq(w, 4, Len(w)))
  ELSE {w[1]} \cup Members(Tail(w))

\* The brackets that may begin at p: the shortest text that ends in a ] which
\* is neither first nor escaped.
EscapedAt(w, i) == \E n \in 1 .. i - 1 : n % 2 = 1 /\ (\A j \in i - n .. i - 1 : w[j] = "%") /\ (i - n = 1 \/ w[i - n - 1] # "%")
BracketClose(pat, p) ==
  LET from == IF At(pat, p + 1) = "^" THEN p + 2 ELSE p + 1
      ends == {q \in from + 1 .. Len(pat) : pat[q] = "]" /\ ~EscapedAt(SubSeq(pat, from, Len(pat)), q - from + 1)}
  IN IF ends = {} THEN 0 ELSE CHOOSE q \in ends : \A k \in ends : q <= k
Bracket(pat, p) ==
  LET q == BracketClose(pat, p)
  IN IF pat[p + 1] = "^" THEN Chars \ Members(SubSeq(pat, p + 2, q - 1)) ELSE Members(SubSeq(pat, p + 1, q - 1))

\* the class at p: <<its set, where it ends>>, or <<{}, 0>>
Class(pat, p) ==
  CASE pat[p] = "%" -> IF p = Len(pat) THEN <<{}, 0>> ELSE <<Named(pat[p + 1]), p + 2>>
    [] pat[p] = "[" -> IF BracketClose(pat, p) = 0 THEN <<{}, 0>> ELSE <<Bracket(pat, p), BracketClose(pat, p) + 1>>
    [] pat[p] = "." -> <<Chars, p + 1>>
    [] OTHER -> <<{pat[p]}, p + 1>>

Run(src, i, set) == LET ks == {k \in 0 .. Len(src) + 1 - i : \A j \in i .. i + k - 1 : src[j] \in set}
                    IN CHOOSE k \in ks : \A n \in ks : n <= k
Down(m, n) == [k \in 1 .. m - n + 1 |-> m - k + 1]
Up(m) == [k \in 1 .. m + 1 |-> k - 1]
Occurs(src, i, j, c) == Cardinality({k \in i .. j : src[k] = c})
Balanced(src, i, b, e) ==
  LET ends == {j \in i + 1 .. Len(src) : src[j] = e /\ (b = e \/ Occurs(src, i, j, b) = Occurs(src, i, j, e))}
  IN IF i > Len(src) \/ src[i] # b \/ ends = {} THEN 0 ELSE CHOOSE j \in ends : \A k \in ends : j <= k

\* how often an item may be repeated, preferred first
Times(suffix, n) ==
  CASE suffix = "?" -> Down(IF n > 0 THEN 1 ELSE 0, 0) [] suffix = "*" -> Down(n, 0)
    [] suffix = "+" -> Down(n, 1) [] suffix = "-" -> Up(n) [] OTHER -> IF n > 0 THEN <<1>> ELSE <<>>

RECURSIVE Ways(_, _, _, _, _)
WaysOfItem(pat, cl, src, i, caps) ==
  LET suffix == At(pat, cl[2])
      again == Times(suffix, Run(src, i, cl[1]))
      after == IF suffix \in {"?", "*", "+", "-"} THEN cl[2] + 1 ELSE cl[2]
  IN IF cl[2] = 0 THEN <<Failure>> ELSE FlattenSeq([j \in DOMAIN again |-> Ways(pat, after, src, i + again[j], caps)])
Ways(pat, p, src, i, caps) ==
  LET open == {k \in DOMAIN caps : caps[k].len = -1}
      last == CHOOSE k \in open : \A n \in open : n <= k
      c == At(pat, p)
      d == IF c = "%" THEN At(pat, p + 1) ELSE "NUL"
      k == digit(d)
      close == Balanced(src, i, pat[p + 2], pat[p + 3])
      set == Class(pat, p + 2)
  IN CASE p > Len(pat) -> <<[e |-> i, caps |-> caps]>>
       [] c = "(" -> IF Len(caps) = LUA_MAXCAPTURES THEN <<Failure>>
                     ELSE IF At(pat, p + 1) = ")" THEN Ways(pat, p + 2, src, i, Append(caps, [init |-> i, len |-> -2]))
                     ELSE Ways(pat, p + 1, src, i, Append(caps, [init |-> i, len |-> -1]))
       [] c = ")" -> IF open = {} THEN <<Failure>> ELSE Ways(pat, p + 1, src, i, [caps EXCEPT ![last].len = i - caps[last].init])
       [] d = "b" -> IF Len(pat) < p + 3 THEN <<Failure>>
                     ELSE IF close = 0 THEN <<>> ELSE Ways(pat, p + 4, src, close + 1, caps)
       [] d = "f" -> IF At(pat, p + 2) # "[" \/ set[2] = 0 THEN <<Failure>>
                     ELSE IF (IF i = 1 THEN "NUL" ELSE src[i - 1]) \notin set[1] /\ At(src, i) \in set[1]
                          THEN Ways(pat, set[2], src, i, caps) ELSE <<>>
       [] d \in isdigit -> IF k \notin DOMAIN caps \ open THEN <<Failure>>
                           ELSE IF caps[k].len >= 0 /\ IsPrefix(SubSeq(src, caps[k].init, caps[k].init + caps[k].len - 1), SubSeq(src, i, Len(src)))
                                THEN Ways(pat, p + 2, src, i + caps[k].len, caps) ELSE <<>>
       [] c = "$" /\ p = Len(pat) -> IF i = Len(src) + 1 THEN <<[e |-> i, caps |-> caps]>> ELSE <<>>
       [] OTHER -> WaysOfItem(pat, Class(pat, p), src, i, caps)

\* the preferred one of some ways at a place; e = -1: none
Preferred(at, ways) == IF ways = <<>> THEN [at |-> 0, e |-> -1, caps |-> <<>>] ELSE [at |-> at, e |-> ways[1].e, caps |-> ways[1].caps]

\* the preferred way at the first place that has one, from i on
RECURSIVE Best(_, _, _, _)
FirstOf(w, pat, p, src, i) == IF w.e # -1 \/ i > Len(src) THEN w ELSE Best(pat, p, src, i + 1)
Best(pat, p, src, i) == FirstOf(Preferred(i, Ways(pat, p, src, i, <<>>)), pat, p, src, i)

ValuesOf(src, w, whole) ==
  IF \E k \in DOMAIN w.caps : w.caps[k].len = -1 THEN Error
  ELSE IF w.caps = <<>> THEN (IF whole THEN <<Str(SubSeq(src, w.at, w.e - 1))>> ELSE <<>>)
  ELSE [k \in DOMAIN w.caps |-> IF w.caps[k].len = -2 THEN Pos(w.caps[k].init)
                                ELSE Str(SubSeq(src, w.caps[k].init, w.caps[k].init + w.caps[k].len - 1))]

Start(src, i) == IF i > Len(src) THEN Len(src) + 1 ELSE IF i > 0 THEN i ELSE IF i < 0 /\ -i <= Len(src) THEN Len(src) + 1 + i ELSE 1

WayMeans(src, w, find) ==
  LET values == ValuesOf(src, w, ~find)
  IN IF w.e = 0 THEN Error ELSE IF w.e = -1 THEN <<NilValue>> ELSE IF values = Error THEN Error
     ELSE (IF find THEN <<Pos(w.at), Pos(w.e - 1)>> ELSE <<>>) \o values

FindMeans(src, pat, i, find, plain) ==
  LET from == Start(src, i)
      exact == {j \in from .. Len(src) + 1 : IsPrefix(pat, SubSeq(src, j, Len(src)))}
      at == CHOOSE j \in exact : \A k \in exact : j <= k
      anchored == pat # <<>> /\ pat[1] = "^"
  IN IF find /\ (plain \/ \A j \in DOMAIN pat : pat[j] \notin SPECIALS)
     THEN (IF exact = {} THEN <<NilValue>> ELSE <<Pos(at), Pos(at + Len(pat) - 1)>>)
     ELSE WayMeans(src, IF anchored THEN Preferred(from, Ways(pat, 2, src, from, <<>>)) ELSE Best(pat, 1, src, from), find)

\* all matches one after the other, from i on, up to an error
RECURSIVE Successive(_, _, _)
From(w, src, pat) ==
  IF w.e = -1 THEN <<>>
  ELSE IF w.e = 0 \/ ValuesOf(src, w, TRUE) = Error THEN <<Error>>
  ELSE <<ValuesOf(src, w, TRUE)>> \o Successive(src, pat, IF w.e = w.at THEN w.e + 1 ELSE w.e)
Successive(src, pat, i) == IF i > Len(src) + 1 THEN <<>> ELSE From(Best(pat, 1, src, i), src, pat)

\* a replacement for the match w
RECURSIVE Expanded(_, _, _)
Expanded(src, w, news) ==
  LET c == At(news, 2)
      rest(n) == Expanded(src, w, SubSeq(news, n, Len(news)))
      one == LET k == w.caps[digit(c)]
             IN IF c = "0" \/ (w.caps = <<>> /\ c = "1") THEN Str(SubSeq(src, w.at, w.e - 1))
                ELSE IF digit(c) > Len(w.caps) THEN Error[1] ELSE IF k.len = -1 THEN Error[1]
                ELSE IF k.len = -2 THEN Pos(k.init) ELSE Str(SubSeq(src, k.init, k.init + k.len - 1))
  IN IF news = <<>> THEN <<>>
     ELSE IF news[1] # "%" THEN <<Str(<<news[1]>>)>> \o rest(2)
     ELSE IF c \in isdigit THEN <<one>> \o rest(3)
     ELSE <<Str(<<c>>)>> \o rest(3)
Replacement(src, w, repl) ==
  LET first == IF w.caps # <<>> /\ w.caps[1].len = -1 THEN Error ELSE <<>>
      args == IF repl.tr = "function" THEN ValuesOf(src, w, TRUE) ELSE first
  IN CASE repl.tr = "string" -> Expanded(src, w, repl.news)
       [] repl.tr # "string" /\ args = Error -> Error
       [] OTHER -> <<IF repl.value = NilValue THEN Str(SubSeq(src, w.at, w.e - 1)) ELSE repl.value>>

\* what gsub makes of src from i on with n replacements left: the pieces of
\* the result and the count
RECURSIVE Replaced(_, _, _, _, _)
ReplacedBy(w, src, pat, i, repl, n) ==
  LET none == w.e = -1
      next == IF w.e > i THEN w.e ELSE i + 1
      copied == IF w.e <= i /\ i <= Len(src) THEN <<Str(<<src[i]>>)>> ELSE <<>>
      now == (IF none THEN <<>> ELSE Replacement(src, w, repl)) \o copied
      count == IF none THEN 0 ELSE 1
      more == IF (pat # <<>> /\ pat[1] = "^") \/ i > Len(src)
              THEN [out |-> IF next > Len(src) THEN <<>> ELSE <<Str(SubSeq(src, next, Len(src)))>>, n |-> 0]
              ELSE Replaced(src, pat, next, repl, n - count)
  IN IF w.e = 0 THEN [out |-> Error, n |-> 0] ELSE [out |-> now \o more.out, n |-> count + more.n]
Replaced(src, pat, i, repl, n) ==
  IF n = 0 THEN [out |-> <<Str(SubSeq(src, i, Len(src)))>>, n |-> 0]
  ELSE ReplacedBy(Preferred(i, Ways(pat, IF pat # <<>> /\ pat[1] = "^" THEN 2 ELSE 1, src, i, <<>>)), src, pat, i, repl, n)
Joined(r) == IF Error[1] \in Range(r.out) THEN Error ELSE <<Str(FlattenSeq([k \in DOMAIN r.out |-> Text(r.out[k])])), Pos(r.n)>>
GsubMeans(src, pat, repl, max) == Joined(Replaced(src, pat, 1, repl, max))
=============================================================================

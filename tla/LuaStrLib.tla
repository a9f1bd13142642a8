----------------------------- MODULE LuaStrLib -----------------------------
(***************************************************************************)
(* Pattern matching (lua/lstrlib.c).  ms is a MatchState: the source, the  *)
(* captures and how many of them there are (level), which failed attempts  *)
(* undo, and the result of the last match: res is the position behind the  *)
(* match or NULL.  Positions count from 1, and a string has the character  *)
(* NUL at its end.  A read behind that has no value: TLC would stop there. *)
(***************************************************************************)
EXTENDS LuaBuffer

CONSTANT LUA_MAXCAPTURES

NULL == 0
CAP_UNFINISHED == -1
CAP_POSITION == -2
L_ESC == "%"
SPECIALS == {"^", "$", "*", "+", "?", ".", "(", "[", "%", "-"}

\* the characters, in the order of their codes
Alphabet == <<"NUL", " ", "$", "%", "(", ")", "*", "+", "-", ".", "0", "1", "2", "?", "A", "D", "[", "]", "^", "a", "b", "d", "f">>
uchar(c) == CHOOSE n \in DOMAIN Alphabet : Alphabet[n] = c
At(s, i) == IF i = Len(s) + 1 THEN "NUL" ELSE s[i]
isalpha == {"A", "D", "a", "b", "d", "f"}
isdigit == {"0", "1", "2"}

\* negative positions count back from the end
posrelat(pos, len) == LET p == IF pos < 0 THEN pos + len + 1 ELSE pos IN IF p >= 0 THEN p ELSE 0

str_sub(s, i, j) ==
  LET start == IF posrelat(i, Len(s)) < 1 THEN 1 ELSE posrelat(i, Len(s))
      end == IF posrelat(j, Len(s)) > Len(s) THEN Len(s) ELSE posrelat(j, Len(s))
  IN IF start <= end THEN SubSeq(s, start, end) ELSE <<>>
-----------------------------------------------------------------------------
(* Character classes *)

Fail(ms) == [ms EXCEPT !.err = TRUE, !.res = NULL]

\* behind the class at p; NULL if the pattern ends in it
RECURSIVE BracketEnd(_, _)
BracketEnd(pat, p) ==
  LET q == IF At(pat, p) = L_ESC /\ At(pat, p + 1) # "NUL" THEN p + 2 ELSE p + 1
  IN IF At(pat, p) = "NUL" THEN NULL ELSE IF At(pat, q) = "]" THEN q + 1 ELSE BracketEnd(pat, q)

classend(pat, p) ==
  CASE At(pat, p) = L_ESC -> IF At(pat, p + 1) = "NUL" THEN NULL ELSE p + 2
    [] At(pat, p) = "[" -> BracketEnd(pat, IF At(pat, p + 1) = "^" THEN p + 2 ELSE p + 1)
    [] OTHER -> p + 1

match_class(c, cl) ==
  CASE cl = "a" -> c \in isalpha
    [] cl = "A" -> c \notin isalpha
    [] cl = "d" -> c \in isdigit
    [] cl = "D" -> c \notin isdigit
    [] OTHER -> cl = c

RECURSIVE InBracket(_, _, _, _)
InBracket(c, pat, p, ec) ==
  IF p >= ec THEN FALSE
  ELSE IF pat[p] = L_ESC THEN match_class(c, pat[p + 1]) \/ InBracket(c, pat, p + 2, ec)
  ELSE IF pat[p + 1] = "-" /\ p + 2 < ec
       THEN (uchar(pat[p]) <= uchar(c) /\ uchar(c) <= uchar(pat[p + 2])) \/ InBracket(c, pat, p + 3, ec)
  ELSE pat[p] = c \/ InBracket(c, pat, p + 1, ec)

matchbracketclass(c, pat, p, ec) ==
  IF pat[p + 1] = "^" THEN ~InBracket(c, pat, p + 2, ec) ELSE InBracket(c, pat, p + 1, ec)

singlematch(c, pat, p, ep) ==
  CASE pat[p] = "." -> TRUE
    [] pat[p] = L_ESC -> match_class(c, pat[p + 1])
    [] pat[p] = "[" -> matchbracketclass(c, pat, p, ep - 1)
    [] OTHER -> pat[p] = c

\* the character at s is there and matches the class between p and ep
Here(ms, s, p, ep) == s <= Len(ms.src) /\ singlematch(ms.src[s], ms.pat, p, ep)
-----------------------------------------------------------------------------
(* Captures *)

digit(c) == CASE c = "0" -> 0 [] c = "1" -> 1 [] OTHER -> 2
check_capture(ms, l) == 1 <= l /\ l <= ms.level /\ ms.capture[l].len # CAP_UNFINISHED
capture_to_close(ms) ==
  LET open == {l \in 1 .. ms.level : ms.capture[l].len = CAP_UNFINISHED}
  IN IF open = {} THEN NULL ELSE CHOOSE l \in open : \A k \in open : k <= l

\* a position capture has a length no string has, and matches nothing
match_capture(ms, s, l) ==
  LET len == ms.capture[l].len
      init == ms.capture[l].init
  IN IF ~check_capture(ms, l) THEN Fail(ms)
     ELSE [ms EXCEPT !.res = IF len >= 0 /\ Len(ms.src) + 1 - s >= len /\ SubSeq(ms.src, init, init + len - 1) = SubSeq(ms.src, s, s + len - 1)
                             THEN s + len ELSE NULL]

RECURSIVE Balance(_, _, _, _, _)
Balance(ms, s, b, e, cont) ==
  IF s > Len(ms.src) THEN NULL
  ELSE IF ms.src[s] = e THEN (IF cont = 1 THEN s + 1 ELSE Balance(ms, s + 1, b, e, cont - 1))
  ELSE Balance(ms, s + 1, b, e, IF ms.src[s] = b THEN cont + 1 ELSE cont)

matchbalance(ms, s, p) ==
  IF At(ms.pat, p) = "NUL" \/ At(ms.pat, p + 1) = "NUL" THEN Fail(ms)
  ELSE [ms EXCEPT !.res = IF At(ms.src, s) # ms.pat[p] THEN NULL ELSE Balance(ms, s + 1, ms.pat[p], ms.pat[p + 1], 1)]

frontier(ms, s, p, ep) ==
  LET previous == IF s = 1 THEN "NUL" ELSE ms.src[s - 1]
  IN ~matchbracketclass(previous, ms.pat, p, ep - 1) /\ matchbracketclass(At(ms.src, s), ms.pat, p, ep - 1)
-----------------------------------------------------------------------------
(* Matching *)

RECURSIVE Count(_, _, _, _)
Count(ms, s, p, ep) == IF Here(ms, s, p, ep) THEN 1 + Count(ms, s + 1, p, ep) ELSE 0

Settled(ms) == ms.err \/ ms.res # NULL
NoMatch(ms) == [ms EXCEPT !.res = NULL]
KeepClosed(ms, l) == ms

\* a capture whose end did not lead to a match is open again
Reopen(ms, l) == IF Settled(ms) THEN ms ELSE [ms EXCEPT !.capture[l].len = CAP_UNFINISHED]


RECURSIVE match(_, _, _), MaxTry(_, _, _, _), min_expand(_, _, _, _)

MaxTry(ms, s, i, ep) ==
  LET r == match(ms, s + i, ep + 1) IN IF Settled(r) \/ i = 0 THEN r ELSE MaxTry(r, s, i - 1, ep)

max_expand(ms, s, p, ep) == MaxTry(ms, s, Count(ms, s, p, ep), ep)

min_expand(ms, s, p, ep) ==
  LET r == match(ms, s, ep + 1) IN IF Settled(r) \/ ~Here(r, s, p, ep) THEN r ELSE min_expand(r, s + 1, p, ep)

start_capture(ms, s, p, what) ==
  LET r == match([ms EXCEPT !.capture[ms.level + 1] = [init |-> s, len |-> what], !.level = @ + 1], s, p)
  IN IF ms.level >= LUA_MAXCAPTURES THEN Fail(ms) ELSE IF Settled(r) THEN r ELSE [r EXCEPT !.level = @ - 1]

end_capture(ms, s, p) ==
  LET l == capture_to_close(ms)
  IN IF l = NULL THEN Fail(ms) ELSE Reopen(match([ms EXCEPT !.capture[l].len = s - ms.capture[l].init], s, p), l)

\* a pattern item and what may follow it
DefaultItem(ms, s, p) ==
  LET ep == classend(ms.pat, p)
      m == Here(ms, s, p, ep)
      after == At(ms.pat, ep)
      one == match(ms, s + 1, ep + 1)
  IN CASE ep = NULL -> Fail(ms)
       [] ep # NULL /\ after = "?" -> IF m /\ Settled(one) THEN one ELSE match(IF m THEN one ELSE ms, s, ep + 1)
       [] ep # NULL /\ after = "*" -> max_expand(ms, s, p, ep)
       [] ep # NULL /\ after = "+" -> IF m THEN max_expand(ms, s + 1, p, ep) ELSE NoMatch(ms)
       [] ep # NULL /\ after = "-" -> min_expand(ms, s, p, ep)
       [] OTHER -> IF m THEN match(ms, s + 1, ep) ELSE NoMatch(ms)

Then(r, p) == IF r.err \/ r.res = NULL THEN r ELSE match(r, r.res, p)

EscapedItem(ms, s, p) ==
  LET c == At(ms.pat, p + 1)
      ep == classend(ms.pat, p + 2)
  IN CASE c = "b" -> Then(matchbalance(ms, s, p + 2), p + 4)
       [] c = "f" -> IF At(ms.pat, p + 2) # "[" \/ ep = NULL THEN Fail(ms)
                     ELSE IF frontier(ms, s, p + 2, ep) THEN match(ms, s, ep) ELSE NoMatch(ms)
       [] c \in isdigit -> Then(match_capture(ms, s, digit(c)), p + 2)
       [] OTHER -> DefaultItem(ms, s, p)

match(ms, s, p) ==
  LET c == At(ms.pat, p)
      last == p = Len(ms.pat)
  IN CASE c = "(" -> IF At(ms.pat, p + 1) = ")" THEN start_capture(ms, s, p + 2, CAP_POSITION)
                     ELSE start_capture(ms, s, p + 1, CAP_UNFINISHED)
       [] c = ")" -> end_capture(ms, s, p + 1)
       [] c = L_ESC -> EscapedItem(ms, s, p)
       [] c = "NUL" -> [ms EXCEPT !.res = s]
       [] c = "$" /\ last -> [ms EXCEPT !.res = IF s = Len(ms.src) + 1 THEN s ELSE NULL]
       [] OTHER -> DefaultItem(ms, s, p)
-----------------------------------------------------------------------------
(* The functions of the library.  A result is a sequence of values.        *)

Error == <<<<"error", <<>>>>>>
Str(s) == <<"string", s>>
Pos(n) == <<"number", <<n>>>>
NilValue == <<"nil", <<>>>>
Text(v) == IF v[1] = "number" THEN <<ToString(v[2][1])>> ELSE v[2]

MatchState(src, pat) ==
  [src |-> src, pat |-> pat, level |-> 0, res |-> NULL, err |-> FALSE,
   capture |-> [l \in 1 .. LUA_MAXCAPTURES + 1 |-> [init |-> 0, len |-> 0]]]

lmemfind(s1, s2, init) ==
  LET found == {i \in init .. Len(s1) + 1 - Len(s2) : SubSeq(s1, i, i + Len(s2) - 1) = s2}
  IN IF found = {} THEN NULL ELSE CHOOSE i \in found : \A k \in found : i <= k

\* the i-th capture, or the whole match; an unfinished one is an error
push_onecapture(ms, i, s, e) ==
  LET c == ms.capture[i]
  IN CASE i > ms.level /\ i = 1 -> Str(SubSeq(ms.src, s, e - 1))
       [] i > ms.level /\ i # 1 -> Error[1]
       [] i <= ms.level /\ c.len = CAP_UNFINISHED -> Error[1]
       [] i <= ms.level /\ c.len = CAP_POSITION -> Pos(c.init)
       [] OTHER -> Str(SubSeq(ms.src, c.init, c.init + c.len - 1))

push_captures(ms, s, e) ==
  LET nlevels == IF ms.level = 0 /\ s # NULL THEN 1 ELSE ms.level
      values == [i \in 1 .. nlevels |-> push_onecapture(ms, i, s, e)]
  IN IF Error[1] \in Range(values) THEN Error ELSE values

\* the first match at s1 or behind it: <<where, the state>>
RECURSIVE Search(_, _, _, _)
Search(ms, s1, p, anchor) ==
  LET r == match([ms EXCEPT !.level = 0], s1, p)
  IN IF Settled(r) \/ s1 > Len(ms.src) \/ anchor THEN <<s1, r>> ELSE Search(r, s1 + 1, p, anchor)

PlainSearch(s, p, init) ==
  LET s2 == lmemfind(s, p, init) IN IF s2 = NULL THEN <<NilValue>> ELSE <<Pos(s2), Pos(s2 + Len(p) - 1)>>

Found(at, ms, find) ==
  LET captures == push_captures(ms, IF find THEN NULL ELSE at, ms.res)
  IN IF ms.err THEN Error ELSE IF ms.res = NULL THEN <<NilValue>>
     ELSE IF find /\ captures # Error THEN <<Pos(at), Pos(ms.res - 1)>> \o captures ELSE captures

PatternSearch(s, p, init, find) ==
  LET anchor == At(p, 1) = "^"
      found == Search(MatchState(s, p), init, IF anchor THEN 2 ELSE 1, anchor)
  IN Found(found[1], found[2], find)

str_find_aux(s, p, i, find, plain) ==
  LET init0 == posrelat(i, Len(s)) - 1
      init == IF init0 < 0 THEN 1 ELSE IF init0 > Len(s) THEN Len(s) + 1 ELSE init0 + 1
  IN IF find /\ (plain \/ Range(p) \cap SPECIALS = {}) THEN PlainSearch(s, p, init) ELSE PatternSearch(s, p, init, find)

\* behind an empty match the next call goes on one character further
Iterated(at, ms, src) ==
  IF ~ms.err /\ ms.res = NULL THEN [vals |-> <<>>, src |-> src]
  ELSE [vals |-> IF ms.err THEN Error ELSE push_captures(ms, at, ms.res), src |-> IF ms.res = at THEN ms.res + 1 ELSE ms.res]

\* one call of gmatch's iterator: its values, none at the end, and where the
\* next call goes on
gmatch_aux(s, p, src) ==
  LET found == Search(MatchState(s, p), src, 1, FALSE)
  IN IF src > Len(s) + 1 THEN [vals |-> <<>>, src |-> src] ELSE Iterated(found[1], found[2], src)

\* a replacement string, in which %0 stands for the match and %1 for a capture;
\* g is the buffer and whether there was an error
RECURSIVE AddS(_, _, _, _, _, _)
AddS(g, ms, news, i, s, e) ==
  LET c == At(news, i + 1)
      whole == push_onecapture(ms, digit(c), s, e)
  IN IF i > Len(news) \/ g.err THEN g
     ELSE IF news[i] # L_ESC THEN AddS([g EXCEPT !.b = luaL_addchar(@, news[i])], ms, news, i + 1, s, e)
     ELSE IF c \notin isdigit THEN AddS([g EXCEPT !.b = luaL_addchar(@, c)], ms, news, i + 2, s, e)
     ELSE IF c = "0" THEN AddS([g EXCEPT !.b = luaL_addlstring(@, SubSeq(ms.src, s, e - 1))], ms, news, i + 2, s, e)
     ELSE IF whole = Error[1] THEN [g EXCEPT !.err = TRUE]
     ELSE AddS([g EXCEPT !.b = luaL_addvalue(@, Text(whole))], ms, news, i + 2, s, e)
add_s(g, ms, news, s, e) == AddS(g, ms, news, 1, s, e)

\* a table or a function gives value; false keeps the text
add_value(g, ms, repl, s, e) ==
  LET args == IF repl.tr = "function" THEN push_captures(ms, s, e) ELSE <<push_onecapture(ms, 1, s, e)>>
  IN IF repl.tr = "string" THEN add_s(g, ms, repl.news, s, e)
     ELSE IF args = Error \/ repl.value = Error[1] THEN [g EXCEPT !.err = TRUE]
     ELSE [g EXCEPT !.b = luaL_addvalue(@, IF repl.value = NilValue THEN SubSeq(ms.src, s, e - 1) ELSE Text(repl.value))]

RECURSIVE GsubLoop(_, _, _, _, _, _)
\* a pass that is not the last: at the end of the text there is no other,
\* and none when an anchor comes first
GsubOn(on, ms, src, p, repl, max_s) ==
  IF on.err THEN on ELSE IF on.src = src \/ p = 2 THEN on ELSE GsubLoop(on, ms, on.src, p, repl, max_s)
GsubSkip(g, ms, src, p, repl, max_s) ==
  GsubOn(IF ms.res > src THEN [g EXCEPT !.src = ms.res]
         ELSE IF src <= Len(ms.src) THEN [g EXCEPT !.b = luaL_addchar(@, ms.src[src]), !.src = src + 1]
         ELSE [g EXCEPT !.src = src], ms, src, p, repl, max_s)
GsubMatched(g, ms, src, p, repl, max_s) ==
  IF ms.err THEN [g EXCEPT !.err = TRUE]
  ELSE GsubSkip(IF ms.res = NULL THEN g ELSE [add_value(g, ms, repl, src, ms.res) EXCEPT !.n = @ + 1], ms, src, p, repl, max_s)
GsubLoop(g, ms, src, p, repl, max_s) ==
  IF g.n >= max_s THEN [g EXCEPT !.src = src]
  ELSE GsubMatched(g, match([ms EXCEPT !.level = 0], src, p), src, p, repl, max_s)

str_gsub(src, p, repl, max_s) ==
  LET anchor == At(p, 1) = "^"
      g == GsubLoop([b |-> luaL_buffinit, n |-> 0, src |-> 1, err |-> FALSE], MatchState(src, p), 1,
                    IF anchor THEN 2 ELSE 1, repl, max_s)
      b == luaL_pushresult(luaL_addlstring(g.b, SubSeq(src, g.src, Len(src))))
  IN IF g.err THEN [vals |-> Error, peak |-> g.b.peak]
     ELSE [vals |-> <<Str(b.stack[1]), Pos(g.n)>>, peak |-> b.peak]
=============================================================================

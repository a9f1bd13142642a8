----------------------------- MODULE LuaTabLib -----------------------------
(***************************************************************************)
(* The table library (lua/ltablib.c) on a table with integer keys: a maps  *)
(* them to values, and n is what aux_getn found, some border of it.  An    *)
(* order function cmp answers "lt", "ge" or "error" (it raises one): first *)
(* are its answers to the first calls, whatever is compared, and rel, on   *)
(* pairs of values, those to the calls after them.                         *)
(***************************************************************************)
EXTENDS LuaBuffer

CONSTANTS None,               \* nil
          MaxLoops            \* passes of auxsort's loop after which it is given up

rawgeti(a, i) == IF i \in DOMAIN a THEN a[i] ELSE None
rawset(a, i, v) == [k \in DOMAIN a \cup {i} |-> IF k = i THEN v ELSE a[k]]

\* the elements from pos on move up, the last one first
MoveUp(a, e, pos) == [i \in DOMAIN a \cup {e} |-> IF i \in pos + 1 .. e THEN a[i - 1] ELSE a[i]]

\* pos = 0: no position was given
tinsert(a, n, pos, v) ==
  LET at == IF pos = 0 THEN n + 1 ELSE pos
      e == IF at > n + 1 THEN at ELSE n + 1
  IN rawset(IF at > n THEN a ELSE MoveUp(a, e, at), at, v)

\* <<the table, the element>>
tremove(a, n, pos0) ==
  LET pos == IF pos0 = 0 THEN n ELSE pos0
  IN IF pos \notin 1 .. n THEN <<a, None>>
     ELSE <<[i \in DOMAIN a |-> IF i \in pos .. n - 1 THEN a[i + 1] ELSE IF i = n THEN None ELSE a[i]], a[pos]>>

addfield(g, a, i) == IF rawgeti(a, i) = None THEN [g EXCEPT !.err = TRUE] ELSE [g EXCEPT !.b = luaL_addvalue(@, a[i])]

RECURSIVE ConcatLoop(_, _, _, _, _)
ConcatLoop(g, a, sep, i, last) ==
  LET f == addfield(g, a, i)
  IN IF g.err \/ i > last THEN g ELSE IF i = last THEN f
     ELSE ConcatLoop([f EXCEPT !.b = IF f.err THEN @ ELSE luaL_addlstring(@, sep)], a, sep, i + 1, last)

\* the elements i to last with sep between them
tconcat(a, sep, i, last) ==
  LET g == ConcatLoop([b |-> luaL_buffinit, err |-> FALSE], a, sep, i, last)
      b == luaL_pushresult(g.b)
  IN IF g.err THEN [err |-> TRUE, text |-> <<>>, peak |-> g.b.peak] ELSE [err |-> FALSE, text |-> b.stack[1], peak |-> b.peak]
-----------------------------------------------------------------------------
(* Quicksort.  st holds the table, an error, the passes that are left, the *)
(* calls of the order function so far, and the place a scan stopped at.    *)

set2(st, i, j) == [st EXCEPT !.a = rawset(rawset(@, i, rawgeti(@, j)), j, rawgeti(@, i))]

sort_comp(st, x, y) == IF st.calls < Len(st.cmp.first) THEN st.cmp.first[st.calls + 1] ELSE st.cmp.rel[<<x, y>>]
Asked(st) == [st EXCEPT !.calls = @ + 1]
Failed(st) == [st EXCEPT !.err = TRUE]

\* a[i] and a[j] are swapped if x < y
SwapIf(st, x, y, i, j) ==
  CASE st.err -> st
    [] ~st.err /\ sort_comp(st, x, y) = "ge" -> Asked(st)
    [] ~st.err /\ sort_comp(st, x, y) = "lt" -> set2(Asked(st), i, j)
    [] OTHER -> Failed(st)

\* a[i] and a[l], or else a[u] and a[i]
SwapMiddle(st, l, i, u) ==
  LET r == SwapIf(st, st.a[i], st.a[l], i, l)
  IN IF sort_comp(st, st.a[i], st.a[l]) = "ge" THEN SwapIf(r, st.a[u], st.a[i], i, u) ELSE r

\* repeat ++i until a[i] >= P
RECURSIVE ScanUp(_, _, _, _)
ScanUp(st, i, P, u) ==
  LET c == sort_comp(st, rawgeti(st.a, i + 1), P)
  IN IF c = "error" \/ (c = "lt" /\ i + 1 > u) THEN Failed(st)
     ELSE IF c = "lt" THEN ScanUp(Asked(st), i + 1, P, u) ELSE [Asked(st) EXCEPT !.i = i + 1]

\* repeat --j until a[j] <= P
RECURSIVE ScanDown(_, _, _, _)
ScanDown(st, j, P, l) ==
  LET c == sort_comp(st, P, rawgeti(st.a, j - 1))
  IN IF c = "error" \/ (c = "lt" /\ j - 1 < l) THEN Failed(st)
     ELSE IF c = "lt" THEN ScanDown(Asked(st), j - 1, P, l) ELSE [Asked(st) EXCEPT !.j = j - 1]

RECURSIVE Partition(_, _, _, _, _, _)
Partition(st, l, u, i, j, P) ==
  LET up == ScanUp(st, i, P, u)
      down == ScanDown(up, j, P, l)
  IN IF up.err THEN up ELSE IF down.err \/ down.j < down.i THEN down
     ELSE Partition(set2(down, down.i, down.j), l, u, down.i, down.j, P)

WithPivot(l, k, u) == IF k - l < u - k THEN <<l, k - 1, k, u>> ELSE <<k + 1, u, l, k>>

\* the smaller half, which is sorted first, and the larger one
Halves(l, k, u) == IF k - l < u - k THEN <<l, k - 1, k + 1, u>> ELSE <<k + 1, u, l, k - 1>>

RECURSIVE auxsort(_, _, _)
auxsort(st, l, u) ==
  LET i == (l + u) \div 2
      two == SwapIf([st EXCEPT !.left = @ - 1], rawgeti(st.a, u), rawgeti(st.a, l), l, u)
      three == IF two.err \/ u - l = 1 THEN two ELSE SwapMiddle(two, l, i, u)
      P == three.a[i]
      part == Partition(set2(three, i, u - 1), l, u, l, u - 1, P)
      h == Halves(l, part.i, u)
  IN IF l >= u \/ st.err \/ st.left = 0 THEN st
     ELSE IF three.err \/ u - l <= 2 THEN three
     ELSE IF part.err THEN part
     ELSE auxsort(auxsort(set2(part, u - 1, part.i), h[1], h[2]), h[3], h[4])

sort(a, n, cmp) == auxsort([a |-> a, cmp |-> cmp, err |-> FALSE, left |-> MaxLoops, calls |-> 0, i |-> 0, j |-> 0], 1, n)
=============================================================================

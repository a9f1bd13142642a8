----------------------------- MODULE LuaBuffer -----------------------------
(***************************************************************************)
(* String buffers (lua/lauxlib.c): characters are collected in a fixed     *)
(* array, and what does not fit is kept as strings on the Lua stack, which *)
(* are joined so that there are never many.  A buffer is a record:         *)
(* buffer is the array's used part, stack the strings, lvl their count,    *)
(* peak the most slots the stack has had.                                  *)
(***************************************************************************)
EXTENDS Integers, Sequences, SequencesExt

CONSTANTS LUAL_BUFFERSIZE,
          LIMIT               \* strings on the stack before all are joined

luaL_buffinit == [buffer |-> <<>>, lvl |-> 0, stack |-> <<>>, peak |-> 0]

bufffree(B) == LUAL_BUFFERSIZE - Len(B.buffer)

Push(B, s) == [B EXCEPT !.stack = Append(@, s), !.peak = IF Len(B.stack) + 1 > @ THEN Len(B.stack) + 1 ELSE @]

emptybuffer(B) ==
  IF B.buffer = <<>> THEN B ELSE [Push(B, B.buffer) EXCEPT !.buffer = <<>>, !.lvl = @ + 1]

\* the n strings on the top become one
lua_concat(B, n) ==
  LET k == Len(B.stack) - n
  IN IF n = 0 THEN Push(B, <<>>)
     ELSE [B EXCEPT !.stack = SubSeq(@, 1, k) \o <<FlattenSeq(SubSeq(@, k + 1, Len(@)))>>]

RECURSIVE ToGet(_, _, _)
ToGet(B, toget, toplen) ==
  LET l == Len(B.stack[Len(B.stack) - toget])
  IN IF toget < B.lvl /\ (B.lvl - toget + 1 >= LIMIT \/ toplen > l) THEN ToGet(B, toget + 1, toplen + l) ELSE toget

JoinNone(B) == B

adjuststack(B) ==
  LET n == ToGet(B, 1, Len(Last(B.stack)))
  IN IF B.lvl > 1 THEN [lua_concat(B, n) EXCEPT !.lvl = @ - n + 1] ELSE B

luaL_prepbuffer(B) == IF B.buffer = <<>> THEN B ELSE adjuststack(emptybuffer(B))

luaL_addchar(B, c) ==
  LET b == IF bufffree(B) > 0 THEN B ELSE luaL_prepbuffer(B) IN [b EXCEPT !.buffer = Append(@, c)]

luaL_addlstring(B, s) == FoldLeft(luaL_addchar, B, s)

\* a string on the top of the stack is added, behind what the buffer holds
luaL_addvalue(B, s) ==
  LET top == [Push(B, s) EXCEPT !.stack = B.stack]
  IN IF Len(s) <= bufffree(B) THEN [top EXCEPT !.buffer = @ \o s]
     ELSE adjuststack([Push(emptybuffer(top), s) EXCEPT !.lvl = @ + 1])

luaL_pushresult(B) == LET b == emptybuffer(B) IN [lua_concat(b, b.lvl) EXCEPT !.lvl = 1]
=============================================================================

------------------------------- MODULE LuaRun -------------------------------
(***************************************************************************)
(* A program is compiled, and what the compiler made of it is run: the     *)
(* parser and code generator (LuaParser, LuaCode), the chunk format        *)
(* (LuaChunk) and the virtual machine (LuaVM) together, compared with what *)
(* the program means (LuaLanguage).  Programs are trees, and the parser    *)
(* gets their tokens; how tokens come from a text (LuaLex) is checked on   *)
(* small texts, which are read and not compiled, against LuaLanguage.      *)
(***************************************************************************)
EXTENDS LuaVM, LuaChunk

CONSTANTS Programs,
          Texts,                \* texts, as the pieces a reader hands out
          LUA_MINBUFFER, DecPoint

VARIABLES ls,                   \* the LexState
          read                  \* the tokens read so far

Lua == INSTANCE LuaLanguage
Lex == INSTANCE LuaLex

Init ==
  /\ main = <<>> /\ read = <<>>
  /\ \/ prog \in Programs /\ ls = Lex!luaZ_init(<<>>) /\ L = [lua_open EXCEPT !.status = "load"]
     \/ /\ prog \in Texts /\ L = [lua_open EXCEPT !.status = "text"]
        /\ ls = Lex!luaX_setinput(Lex!luaZ_lookahead(Lex!luaZ_init(prog)))

\* luaD_protectedparser leaves the function on the stack; the host calls it
Compile ==
  /\ L.status = "load"
  /\ main' = luaY_parser(Lua!Tokens(prog))
  /\ L' = IF main'.err THEN [L EXCEPT !.status = "syntax"]
          ELSE luaD_call(f_parser([L EXCEPT !.status = "run"], Proto(main'.fs)), L.top, 0, <<"host">>)
  /\ UNCHANGED <<prog, ls, read>>

Run == Execute /\ UNCHANGED <<ls, read>>

\* the parser takes a token; an error has no token
Advance ==
  /\ L.status = "text" /\ ~ls.err
  /\ read = <<>> \/ ls.t # Lex!NoToken
  /\ ls' = Lex!luaX_next(ls)
  /\ read' = IF ls'.err THEN read ELSE Append(read, ls'.t)
  /\ UNCHANGED <<prog, main, L>>

\* before a field of a table constructor, which may be a name and =
LookAhead ==
  /\ L.status = "text" /\ ~ls.err /\ ls.t[1] = "name" /\ ls.lookahead = Lex!NoToken
  /\ ls' = Lex!luaX_lookahead(ls)
  /\ UNCHANGED <<prog, main, L, read>>

Next == Compile \/ Run \/ Advance \/ LookAhead

Spec == Init /\ [][Next]_<<vars, ls, read>>
-----------------------------------------------------------------------------
\* The machine's variables have their shape, every upvalue that is open lies
\* in the used part of the stack, and a CallInfo's registers are on it.
TypeOK ==
  /\ L.status \in {"text", "load", "syntax", "run", "done", "error"}
  /\ read = <<>> \/ L.status = "text"
  /\ L.top \in 0..STACKSIZE
  /\ \A u \in Range(L.openupval) : L.uv[u].at \in 0..L.top - 1
  /\ \A j \in DOMAIN L.ci : L.ci[j].func < L.ci[j].base /\ L.ci[j].top <= STACKSIZE

\* What a program does when it is compiled and run is what it means: the
\* jumps, registers, constants and upvalues that lcode.c and lparser.c chose
\* lead luaV_execute to the same log, in the same order.
RunsAsWritten ==
  /\ L.status # "syntax"
  /\ L.status \in {"done", "error"} => L.out = Lua!Run(prog)

\* No lua_assert of the parser and the code generator fails: registers are
\* freed in order, blocks are closed, no break stays in a block that is not a
\* loop.  And no jump is lost from the list it was in: one that is still
\* NO_JUMP would run on its own place for ever.  (while true do end compiles to
\* just such a jump, and means it; the programs here do not contain it.)
RECURSIVE Patched(_)
Patched(f) == /\ \A i \in DOMAIN f.code : f.code[i].op = "JMP" => f.code[i].b # NO_JUMP
              /\ \A i \in DOMAIN f.p : Patched(f.p[i])
AssertsHold == main # <<>> => main.ok /\ main.fs.jpc = NO_JUMP /\ Patched(main.fs)

\* Compiled code passes luaG_checkcode, and comes back the same when it is
\* dumped and loaded; a chunk that was cut short is refused.
BinaryRoundTrip ==
  (main # <<>> /\ Len(L.ci) = 2 /\ L.out = <<>> /\ ci(L).pc = 0 /\ ~main.err) =>
    LET dump == luaU_dump(Proto(main.fs))
        back == luaU_undump(dump)
    IN /\ ~back.err /\ back.v = Proto(main.fs) /\ back.z = <<>>
       /\ luaU_undump(Front(dump)).err

\* Between instructions the top of the stack is the top of the function's
\* frame, unless the next instruction takes what an open call left there.
TopIsClosed == L.status = "run" => L.top = ci(L).top \/ luaG_checkopenop(Inst(L))

\* Each variable has one upvalue, however many closures share it, the open
\* ones are in the order of the stack, each in the registers of a call that
\* still runs, and none is open when the program has ended.
UpvaluesInOrder ==
  /\ \A i, j \in DOMAIN L.openupval : i < j => L.uv[L.openupval[i]].at > L.uv[L.openupval[j]].at
  /\ L.status = "run" => \A u \in Range(L.openupval) : \E j \in DOMAIN L.ci : L.uv[u].at \in L.ci[j].base .. L.ci[j].top - 1
  /\ L.status = "done" => L.openupval = <<>>

\* L->nCcalls counts the C code that waits for a call; luaD_pcall puts it
\* back whatever it cut away.
CallsCounted ==
  L.status = "run" => L.nCcalls = Cardinality({j \in 2..Len(L.ci) : L.ci[j].then[1] \notin {"call", "tail"}})

\* A text gives the tokens it is made of, and the error it contains, wherever
\* the reader cuts it into pieces and wherever the parser looks ahead; at its
\* end every line has been counted once.
TokensAsWritten ==
  L.status = "text" =>
    LET tokens == Lua!TokensOf(Lua!TextOf(prog))
    IN /\ IsPrefix(read, tokens)
       /\ ls.err => tokens[Len(read) + 1] = Lua!LexError
       /\ read # <<>> /\ ls.t = Lex!NoToken => read = tokens /\ ls.linenumber = 1 + Lua!Lines(Lua!TextOf(prog))

\* The stream is not read after it has ended, and no character is saved
\* behind the end of the buffer.
ReadsInBounds == ls.ok /\ Len(ls.buff) <= ls.size

\* Code is whole: as the generator asserts, and as the verifier and the
\* loader find it.
CodeSound == AssertsHold /\ BinaryRoundTrip

\* Between two instructions stack, frames, upvalues and the count of C calls
\* belong together, also after errors.
FramesInOrder == TypeOK /\ TopIsClosed /\ UpvaluesInOrder /\ CallsCounted

\* The lexer gives the tokens of the text, and stays inside its stream and
\* its buffer.
LexesAsWritten == TokensAsWritten /\ ReadsInBounds
=============================================================================

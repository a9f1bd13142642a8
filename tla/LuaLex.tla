------------------------------- MODULE LuaLex -------------------------------
(***************************************************************************)
(* The lexical analyser (lua/llex.c) and the stream it reads (lua/lzio.c). *)
(* A text comes from the reader in pieces, each a sequence of characters.  *)
(* ls is a LexState: z are the pieces to come, p is what is left of the    *)
(* present one, cur the current character, buff the characters saved, size *)
(* what the buffer has room for, r a result; ok becomes FALSE when the     *)
(* stream is read after its end: zgetc has counted n below zero by then,   *)
(* and would go on in memory that is not the piece's.                      *)
(* The character 0 is left out, and error messages.                        *)
(***************************************************************************)
EXTENDS Integers, Sequences, SequencesExt

CONSTANTS LUA_MINBUFFER,
          DecPoint            \* the decimal point of the locale

EOZ == "EOZ"
Digits == {"0", "1", "3"}
Letters == {"a", "e", "x", "_"}
Newlines == {"\n", "\r"}
NoToken == <<"eos", <<>>>>
Reserved == {<<"e", "a", "x">>}          \* stands for the reserved words

lexerror(ls) == [ls EXCEPT !.err = TRUE, !.t = <<"error", <<>>>>]

\* the reader is asked for a piece; none, or an empty one, is the end
luaZ_fill(ls) ==
  CASE ls.z = <<>> -> [ls EXCEPT !.cur = EOZ]
    [] ls.z # <<>> /\ Head(ls.z) = <<>> -> [ls EXCEPT !.cur = EOZ, !.z = Tail(@)]
    [] OTHER -> [ls EXCEPT !.z = Tail(@), !.p = Tail(Head(ls.z)), !.cur = Head(Head(ls.z))]

\* looks at the first character and puts it back
luaZ_lookahead(ls) ==
  LET s == luaZ_fill(ls)
      back == IF s.cur = EOZ THEN s ELSE [s EXCEPT !.p = <<s.cur>> \o @]
  IN IF ls.p # <<>> THEN ls ELSE [back EXCEPT !.cur = ls.cur]

next(ls) ==
  IF ls.cur = EOZ THEN [ls EXCEPT !.ok = FALSE]
  ELSE IF ls.p # <<>> THEN [ls EXCEPT !.cur = Head(ls.p), !.p = Tail(@)] ELSE luaZ_fill(ls)

save(ls, c) ==
  [ls EXCEPT !.buff = Append(@, c), !.size = IF Len(ls.buff) + 1 > @ THEN 2 * @ ELSE @]

save_and_next(ls) == next(save(ls, ls.cur))

resetbuffer(ls) == [ls EXCEPT !.buff = <<>>]

\* \n, \r, \r\n and \n\r are one line end each
inclinenumber(ls) ==
  LET s == next(ls)
  IN [(IF s.cur \in Newlines /\ s.cur # ls.cur THEN next(s) ELSE s) EXCEPT !.linenumber = @ + 1]

check_next(ls, set) == IF ls.cur \in set THEN save_and_next(ls) ELSE ls
-----------------------------------------------------------------------------
(* Numerals *)

All(s, set) == \A i \in DOMAIN s : s[i] \in set

\* digits with at most one point among them, and at least one digit
Mantissa(s) ==
  /\ All(s, Digits \cup {DecPoint}) /\ \E i \in DOMAIN s : s[i] \in Digits
  /\ \A i, j \in DOMAIN s : s[i] = DecPoint /\ s[j] = DecPoint => i = j
Exponent(s) ==
  /\ Len(s) > 1 /\ s[1] = "e"
  /\ LET d == IF s[2] \in {"+", "-"} THEN SubSeq(s, 3, Len(s)) ELSE Tail(s) IN d # <<>> /\ All(d, Digits)
Hexadecimal(s) ==
  Len(s) > 2 /\ s[1] = "0" /\ s[2] = "x" /\ All(SubSeq(s, 3, Len(s)), Digits \cup {"a", "e"})

\* how much of s strtod takes, and strtoul with base 16
strtod(s) ==
  LET ends == {n \in 1 .. Len(s) :
                 \/ Mantissa(SubSeq(s, 1, n))
                 \/ \E k \in 1 .. n - 1 : Mantissa(SubSeq(s, 1, k)) /\ Exponent(SubSeq(s, k + 1, n))}
  IN IF ends = {} THEN 0 ELSE CHOOSE n \in ends : \A k \in ends : k <= n
strtoul(s) ==
  LET ends == {n \in 1 .. Len(s) : Hexadecimal(SubSeq(s, 1, n)) \/ All(SubSeq(s, 1, n), Digits \cup {"a", "e"})}
  IN IF ends = {} THEN 0 ELSE CHOOSE n \in ends : \A k \in ends : k <= n

\* whether s is a number
luaO_str2d(s) ==
  LET n == strtod(s)
      end == IF n < Len(s) /\ s[n + 1] = "x" THEN strtoul(s) ELSE n
  IN n > 0 /\ end = Len(s)

RECURSIVE SaveWhile(_, _)
SaveWhile(ls, set) == IF ls.cur \in set THEN SaveWhile(save_and_next(ls), set) ELSE ls

buffreplace(ls, from, to) ==
  [ls EXCEPT !.buff = [i \in DOMAIN @ |-> IF @[i] = from THEN to ELSE @[i]]]

\* a numeral is saved with the 0 that ends it
Number(ls) == [ls EXCEPT !.t = <<"number", Front(ls.buff)>>]

\* a point may have to be written otherwise in the locale
trydecpoint(ls) ==
  LET s == [buffreplace(ls, ls.decpoint, DecPoint) EXCEPT !.decpoint = DecPoint]
  IN IF luaO_str2d(Front(s.buff)) THEN Number(s) ELSE lexerror(s)

read_numeral(ls) ==
  LET s == SaveWhile(save_and_next(ls), Digits \cup {"."})
      e == IF s.cur = "e" THEN check_next(save_and_next(s), {"+", "-"}) ELSE s
      n == SaveWhile(e, Digits \cup Letters)
      b == buffreplace(save(n, "NUL"), ".", n.decpoint)
  IN IF luaO_str2d(Front(b.buff)) THEN Number(b) ELSE trydecpoint(b)
-----------------------------------------------------------------------------
(* Long brackets and strings *)

RECURSIVE CountEquals(_, _)
CountEquals(ls, n) == IF ls.cur = "=" THEN CountEquals(save_and_next(ls), n + 1) ELSE [ls EXCEPT !.r = n]

skip_sep(ls) ==
  LET s == CountEquals(save_and_next(ls), 0)
  IN IF s.cur = ls.cur THEN s ELSE [s EXCEPT !.r = -@ - 1]

\* the body of a long string, or of a long comment when keep is FALSE
RECURSIVE LongBody(_, _, _)
LongBody(ls, keep, sep) ==
  CASE ls.cur = EOZ -> lexerror(ls)
    [] ls.cur = "[" ->
         LET s == skip_sep(ls)
         IN IF s.r # sep THEN LongBody(s, keep, sep)
            ELSE IF sep = 0 THEN lexerror(save_and_next(s)) ELSE LongBody(save_and_next(s), keep, sep)
    [] ls.cur = "]" ->
         LET s == skip_sep(ls) IN IF s.r = sep THEN save_and_next(s) ELSE LongBody(s, keep, sep)
    [] ls.cur \in Newlines ->
         LET s == inclinenumber(save(ls, "\n")) IN LongBody(IF keep THEN s ELSE resetbuffer(s), keep, sep)
    [] OTHER -> LongBody(IF keep THEN save_and_next(ls) ELSE next(ls), keep, sep)

read_long_string(ls, keep, sep) ==
  LET s == save_and_next(ls)
      b == LongBody(IF s.cur \in Newlines THEN inclinenumber(s) ELSE s, keep, sep)
  IN IF b.err \/ ~keep THEN b
     ELSE [b EXCEPT !.t = <<"string", SubSeq(b.buff, 3 + sep, Len(b.buff) - 2 - sep)>>]

\* the character of a code; those that have no name here are written \ddd
chr(c) == CASE c = 10 -> "\n" [] c = 13 -> "\r" [] c = 101 -> "e" [] OTHER -> "\\" \o ToString(c)

\* up to three digits of an escape sequence
RECURSIVE Decimal(_, _, _)
Decimal(ls, n, c) ==
  IF n < 3 /\ ls.cur \in Digits
  THEN Decimal(next(ls), n + 1, 10 * c + CASE ls.cur = "0" -> 0 [] ls.cur = "1" -> 1 [] ls.cur = "3" -> 3)
  ELSE [ls EXCEPT !.r = c]

\* what \ and the current character stand for; a stands for all the letters
\* that name a control character
Escape(ls) ==
  LET s == Decimal(ls, 0, 0)
  IN CASE ls.cur = "a" -> next(save(ls, "\\7"))
       [] ls.cur \in Newlines -> inclinenumber(save(ls, "\n"))
       [] ls.cur = EOZ -> ls
       [] ls.cur \in Digits -> IF s.r > 255 THEN lexerror(s) ELSE save(s, chr(s.r))
       [] OTHER -> save_and_next(ls)

RECURSIVE StringBody(_, _)
StringBody(ls, del) ==
  CASE ls.err \/ ls.cur = del -> ls
    [] ~ls.err /\ ls.cur \in Newlines \cup {EOZ} -> lexerror(ls)
    [] ~ls.err /\ ls.cur = "\\" -> StringBody(Escape(next(ls)), del)
    [] OTHER -> StringBody(save_and_next(ls), del)

read_string(ls) ==
  LET s == StringBody(save_and_next(ls), ls.cur)
      b == save_and_next(s)
  IN IF s.err THEN s ELSE [b EXCEPT !.t = <<"string", SubSeq(b.buff, 2, Len(b.buff) - 1)>>]
-----------------------------------------------------------------------------
(* Tokens *)

Single(ls, c) == [ls EXCEPT !.t = <<c, <<>>>>]

\* c, or c followed by = as one token
OrEqual(ls) ==
  LET s == next(ls) IN IF s.cur = "=" THEN Single(next(s), ls.cur \o "=") ELSE Single(s, ls.cur)

ReadDots(ls) ==
  LET s == save_and_next(ls)
  IN CASE s.cur = "." -> LET d == save_and_next(s) IN
            IF d.cur = "." THEN Single(save_and_next(d), "...") ELSE Single(d, "..")
       [] s.cur \in Digits -> read_numeral(s)
       [] OTHER -> Single(s, ".")

ReadName(ls) ==
  LET s == SaveWhile(save_and_next(ls), Digits \cup Letters)
  IN [s EXCEPT !.t = <<IF s.buff \in Reserved THEN "reserved" ELSE "name", s.buff>>]

RECURSIVE SkipLine(_)
SkipLine(ls) == IF ls.cur \in Newlines \cup {EOZ} THEN ls ELSE SkipLine(next(ls))

\* after two minus signs: a long comment, if a long bracket follows
SkipComment(ls) ==
  LET s == resetbuffer(IF ls.cur = "[" THEN skip_sep(ls) ELSE [ls EXCEPT !.r = -1])
  IN IF s.r >= 0 THEN resetbuffer(read_long_string(s, FALSE, s.r)) ELSE SkipLine(s)

RECURSIVE Scan(_)
Scan(ls) ==
  CASE ls.err -> ls
    [] ~ls.err /\ ls.cur \in Newlines -> Scan(inclinenumber(ls))
    [] ~ls.err /\ ls.cur = "-" ->
         LET s == next(ls) IN IF s.cur = "-" THEN Scan(SkipComment(next(s))) ELSE Single(s, "-")
    [] ~ls.err /\ ls.cur = "[" ->
         LET s == skip_sep(ls)
         IN IF s.r >= 0 THEN read_long_string(s, TRUE, s.r)
            ELSE IF s.r = -1 THEN Single(s, "[") ELSE lexerror(s)
    [] ~ls.err /\ ls.cur \in {"=", "<", ">", "~"} -> OrEqual(ls)
    [] ~ls.err /\ ls.cur \in {"\"", "'"} -> read_string(ls)
    [] ~ls.err /\ ls.cur = "." -> ReadDots(ls)
    [] ~ls.err /\ ls.cur = EOZ -> [ls EXCEPT !.t = NoToken]
    [] ~ls.err /\ ls.cur = " " -> Scan(next(ls))
    [] ~ls.err /\ ls.cur \in Digits -> read_numeral(ls)
    [] ~ls.err /\ ls.cur \in Letters -> ReadName(ls)
    [] OTHER -> Single(next(ls), ls.cur)

llex(ls) == Scan(resetbuffer(ls))

luaZ_init(pieces) ==
  [z |-> pieces, p |-> <<>>, cur |-> "none", buff |-> <<>>, size |-> 0, r |-> 0, linenumber |-> 0, lastline |-> 0,
   decpoint |-> "none", lookahead |-> NoToken, t |-> NoToken, err |-> FALSE, ok |-> TRUE]

luaX_setinput(z) ==
  next([z EXCEPT !.decpoint = ".", !.linenumber = 1, !.lastline = 1, !.size = LUA_MINBUFFER])

NoLookahead(ls) == [llex(ls) EXCEPT !.lastline = ls.linenumber]

luaX_next(ls) ==
  LET s == [ls EXCEPT !.lastline = ls.linenumber]
  IN IF ls.lookahead # NoToken THEN [s EXCEPT !.t = ls.lookahead, !.lookahead = NoToken] ELSE llex(s)

luaX_lookahead(ls) == LET s == llex(ls) IN [s EXCEPT !.lookahead = s.t, !.t = ls.t]
=============================================================================

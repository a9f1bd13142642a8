----------------------------- MODULE MCTerminal -----------------------------
(***************************************************************************)
(* A terminal as odd in width as the real one, with two colours and one    *)
(* character besides the blank; windows that fit their parent, touch its   *)
(* border or stick out of it; three processes; lines that fill the row and *)
(* lines that are scrolled.                                                *)
(***************************************************************************)
EXTENDS Desktop, FiniteSets

(* Bound: at most two kinds of cells are on the screen at once, so that    *)
(* what differs is where they are and how they were drawn.                 *)
TwoKinds == Cardinality({cells[y][x] : y \in Row, x \in Col}) <= 2

MCScreen == <<3, 3>>
MCPlaces == {<<1, 1, 2, 2>>, <<2, 2, 1, 1>>, <<3, 1, 2, 2>>, <<1, 2, 3, 1>>}
MCTexts == {<<>>, <<"a">>, <<"a", "b">>, <<"a", "b", "a", "b">>}

MCLines == {<<3, 2, 1, 1>>, <<4, 2, 2, 2>>}
MCPasted == {<<"a", "b">>}
MCCompletions == {<<>>, <<<<"b">>>>, <<<<"b", "a">>, <<"c">>>>}
MCHistories == {<<>>, <<<<"a">>, <<"b", "a", "b">>>>}
MCDefaults == {<<>>, <<"a", "b">>}
=============================================================================

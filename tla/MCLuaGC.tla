------------------------------ MODULE MCLuaGC ------------------------------
(* Casts of three or four objects, one for each interplay the collector has *)
(* a special case for.                                                      *)
EXTENDS LuaGC

MCKind == "m" :> "thread" @@ "co" :> "thread" @@ "t1" :> "table" @@ "t2" :> "table"
          @@ "wk" :> "table" @@ "wv" :> "table" @@ "u" :> "udata" @@ "u2" :> "udata"
          @@ "s" :> "string" @@ "c" :> "closure" @@ "uv" :> "upval"
MCObj == DOMAIN MCKind
MCMode == [o \in MCObj |-> CASE o = "wk" -> {"k"} [] o = "wv" -> {"v"} [] OTHER -> {}]
MCHasGC == {"u", "u2"}
MCCasts == {{"m", "t1", "t2"}, {"m", "t1", "u"}, {"m", "u", "u2"}, {"m", "wv", "s"},
            {"m", "wv", "u"}, {"m", "wk", "u"}, {"m", "c", "uv", "t1"}, {"m", "co", "c", "uv"}}
Symmetry == Permutations(Slots)
=============================================================================

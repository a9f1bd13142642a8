---------------------------- MODULE MCLuaThread ----------------------------
(* The instance of LuaThread that TLC checks. *)
EXTENDS LuaThread

CONSTANTS t1, t2

Threads == {coro, t1, t2}

\* Functions with maxstacksize slots and numparams parameters
Fn(slots, nparams, varargs) == [maxstacksize |-> slots, numparams |-> nparams, is_vararg |-> varargs]
Small == Fn(2, 0, "no")
Plain == Fn(3, 1, "no")
Wide  == Fn(30, 1, "no")
Dots  == Fn(4, 3, "dots")
Arg   == Fn(4, 2, "arg")
Many  == Fn(16, 15, "dots")

Prototypes == {Small, Plain, Wide, Dots, Arg, Many}

\* Each program does a part of what programs can, so that its calls nest deeply
Uses(names, protos, threads, values) ==
  [uses |-> names, protos |-> protos, threads |-> threads, values |-> values]

SomePrograms ==
  {Uses({"pcall", "xpcall", "tm", "c"}, {Plain}, {}, 1),
   Uses({"c", "tm", "gc"}, {Small, Wide}, {}, 1),
   Uses({"pcall", "c"}, {Wide}, {}, 2),
   Uses({"object", "tm", "gc"}, {Dots}, {}, 2),
   Uses({"object", "value", "pcall"}, {Dots}, {}, 2),
   Uses({"object", "c", "tm"}, {Small, Arg}, {}, 2),
   Uses({"c", "tm", "gc"}, {Many}, {}, 2),
   Uses({"create", "resume", "yield"}, {Plain}, {t1}, 2),
   Uses({"c", "create", "resume", "yield"}, {Small}, {t1}, 2),
   Uses({"create", "resume", "yield"}, {Small}, {t1, t2}, 1),
   Uses({"tm", "create", "wrap", "yield"}, {Small}, {t1, t2}, 1),
   Uses({"create", "resume", "pcall", "yield"}, {Small}, {t1}, 1),
   Uses({"create", "wrap", "pcall"}, {Small}, {t1}, 1),
   Uses({"create", "resume", "xpcall"}, {Plain}, {t1}, 1),
   Uses({"c", "yield", "queueEvent"}, {Plain}, {}, 2)}

QueueingProgram == {Uses({"yield", "queueEvent"}, {Plain}, {}, 2)}
=============================================================================

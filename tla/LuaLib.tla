------------------------------- MODULE LuaLib -------------------------------
(***************************************************************************)
(* Tables (LuaTable) and the functions of the library that programs call   *)
(* with strings and arrays (LuaStrLib, LuaTabLib): a behaviour is that of  *)
(* a table, or a call of one function, which gmatch's iterator repeats.    *)
(***************************************************************************)
EXTENDS LuaTable

CONSTANTS Jobs,               \* sets of calls, which are records: the function and its arguments
          LUAL_BUFFERSIZE, LIMIT, LUA_MAXCAPTURES, MaxLoops

VARIABLES job, res            \* the call and what it returned

None == Nil
S == INSTANCE LuaStrLib
T == INSTANCE LuaTabLib
Means == INSTANCE LuaPattern

NoJob == [fn |-> "none"]
Waiting == [st |-> "wait", vals |-> <<>>, peak |-> 0]

LibInit ==
  /\ res = Waiting
  /\ \/ Init /\ job = NoJob
     \/ /\ \E k \in DOMAIN Jobs : job \in Jobs[k]
        /\ t = luaH_new(0, 0) /\ NoFields /\ iter = [st |-> "idle", key |-> NilKey] /\ seen = {}

Call(fn) == job.fn = fn /\ res.st = "wait" /\ UNCHANGED <<vars, job>>
Return(vals, peak) == res' = [st |-> "done", vals |-> vals, peak |-> peak]

str_find == Call("find") /\ Return(S!str_find_aux(job.s, job.p, job.init, TRUE, job.plain), 0)
str_match == Call("match") /\ Return(S!str_find_aux(job.s, job.p, job.init, FALSE, FALSE), 0)

\* the iterator is called until it has no value or fails
gmatch ==
  /\ Call("gmatch")
  /\ \E r \in {S!gmatch_aux(job.s, job.p, IF "src" \in DOMAIN res THEN res.src ELSE 1)} :
       res' = [st |-> IF r.vals \in {<<>>, S!Error} THEN "done" ELSE "wait", src |-> r.src, peak |-> 0,
               vals |-> IF r.vals = <<>> THEN res.vals ELSE Append(res.vals, r.vals)]

str_gsub == Call("gsub") /\ \E r \in {S!str_gsub(job.s, job.p, job.repl, job.max)} : Return(r.vals, r.peak)
str_sub == Call("sub") /\ Return(S!str_sub(job.s, job.i, job.j), 0)
tinsert == Call("insert") /\ Return(T!tinsert(job.a, job.n, job.pos, job.v), 0)
tremove == Call("remove") /\ Return(T!tremove(job.a, job.n, job.pos), 0)
tconcat == Call("concat") /\ \E r \in {T!tconcat(job.a, job.sep, job.i, job.j)} : Return(<<r.err, r.text>>, r.peak)
sort == Call("sort") /\ Return(T!sort(job.a, job.n, job.cmp), 0)

LibNext ==
  \/ job = NoJob /\ Next /\ UNCHANGED <<job, res>>
  \/ str_find \/ str_match \/ gmatch \/ str_gsub \/ str_sub \/ tinsert \/ tremove \/ tconcat \/ sort

LibSpec == LibInit /\ [][LibNext]_<<vars, job, res>>
-----------------------------------------------------------------------------
Done(fn) == job.fn = fn /\ res.st = "done"

\* What find, match, gmatch and gsub return is what the pattern means: the
\* way that is preferred at the first place that has one, with the captures
\* of that way only, whatever captures attempts that failed had opened,
\* closed or undone, and an error only where one is met first.
MatchesAsMeant ==
  /\ Done("find") => res.vals = Means!FindMeans(job.s, job.p, job.init, TRUE, job.plain)
  /\ Done("match") => res.vals = Means!FindMeans(job.s, job.p, job.init, FALSE, FALSE)

\* gmatch and gsub go through the text once, from match to match, also over
\* empty matches, and stop.
RepeatsAsMeant ==
  /\ job.fn = "gmatch" => IsPrefix(res.vals, Means!Successive(job.s, job.p, 1))
  /\ Done("gmatch") => res.vals = Means!Successive(job.s, job.p, 1)
  /\ Done("gsub") => res.vals = Means!GsubMeans(job.s, job.p, job.repl, job.max)

\* However long the text, a buffer keeps few strings on the Lua stack, which
\* has LUA_MINSTACK free slots for a C function, twice LIMIT.
BufferStackBounded == res.peak <= LIMIT + 1

\* Negative positions count from the end, and what lies outside is cut off.
Place(len, i) == IF i >= 0 THEN i ELSE len + 1 + i
SubAsMeant ==
  Done("sub") => LET from == Place(Len(job.s), job.i)
                     to == Place(Len(job.s), job.j)
                     ks == {k \in DOMAIN job.s : from <= k /\ k <= to}
                 IN res.vals = IF ks = {} THEN <<>> ELSE SubSeq(job.s, Min(ks), Max(ks))

\* Patterns mean the same to every function that matches one.
PatternsAsMeant == MatchesAsMeant /\ RepeatsAsMeant /\ SubAsMeant

\* On a list, insert, remove and concat do what they say, the others keep
\* their order.
Items(a) == [k \in 1 .. Cardinality({i \in DOMAIN a : i > 0 /\ a[i] # Nil}) |-> a[k]]
IsList(a) == \A i \in DOMAIN a : (a[i] # Nil) = (i \in DOMAIN Items(a))
EditsAsMeant ==
  /\ (Done("insert") /\ IsList(job.a) /\ job.pos <= job.n + 1) =>
       IsList(res.vals) /\ Items(res.vals) = InsertAt(Items(job.a), IF job.pos = 0 THEN job.n + 1 ELSE job.pos, job.v)
  /\ (Done("remove") /\ IsList(job.a)) =>
       LET at == IF job.pos = 0 THEN job.n ELSE job.pos
       IN /\ IsList(res.vals[1])
          /\ IF at \in 1 .. job.n THEN Items(res.vals[1]) = RemoveAt(Items(job.a), at) /\ res.vals[2] = job.a[at]
             ELSE res.vals = <<job.a, Nil>>
  /\ Done("concat") =>
       LET ks == job.i .. job.j
           bad == \E k \in ks : k \notin DOMAIN job.a \/ job.a[k] = Nil
           at(m) == job.a[job.i + (m - 1) \div 2]
       IN res.vals = <<bad, IF bad \/ ks = {} THEN <<>>
                            ELSE FlattenSeq([m \in 1 .. 2 * Cardinality(ks) - 1 |-> IF m % 2 = 1 THEN at(m) ELSE job.sep])>>

\* sort loses no element and makes none, whatever the order function answers,
\* if it changes its answers from call to call too, and at whichever call it
\* raises an error; with one that is an order, and elements that can be
\* compared, the list is sorted.
Weak(cmp, vs) ==
  /\ cmp.first = <<>>
  /\ \A x, y \in vs : cmp.rel[<<x, y>>] # "error" /\ "ge" \in {cmp.rel[<<x, y>>], cmp.rel[<<y, x>>]}
  /\ \A x, y, z \in vs : cmp.rel[<<x, y>>] = "lt" => cmp.rel[<<x, z>>] = "lt" \/ cmp.rel[<<z, y>>] = "lt"
Sorts ==
  Done("sort") =>
    /\ \A v \in Range(job.a) : Cardinality({i \in DOMAIN job.a : job.a[i] = v}) = Cardinality({i \in DOMAIN job.a : res.vals.a[i] = v})
    /\ (IsList(job.a) /\ Weak(job.cmp, Range(job.a) \ {Nil})) =>
         ~res.vals.err /\ \A i \in 1 .. job.n : \A j \in i .. job.n : job.cmp.rel[<<res.vals.a[j], res.vals.a[i]>>] = "ge"

\* It comes to an end, in order or with an error, with every order function
\* that from some call on answers the same operands the same, consistently or
\* not.  (With one that never settles it may go through the same elements for
\* ever: a scan that stops behind the list leaves l and u as they were.)
SortEnds == Done("sort") => res.vals.left > 0

\* The functions of the table library keep lists lists.
ListsAsMeant == EditsAsMeant /\ Sorts /\ SortEnds
=============================================================================

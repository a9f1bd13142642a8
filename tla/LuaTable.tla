------------------------------ MODULE LuaTable ------------------------------
(***************************************************************************)
(* Lua tables (lua/ltable.c): an array part and a hash part, the hash part *)
(* a chained scatter table with Brent's variation.  One table, a program   *)
(* that assigns fields and traverses it with next, and the collector,      *)
(* which turns the keys of empty entries into dead keys in between.        *)
(*                                                                         *)
(* A key is a record: [tt |-> "number", n |-> 3] for an integer,           *)
(* [tt |-> "string", h |-> hash, id |-> ...] for a string and              *)
(* [tt |-> "pointer", ...] for other objects, where h is the address.      *)
(***************************************************************************)
EXTENDS Integers, SequencesExt

CONSTANTS Keys,       \* the keys programs use
          Values,     \* the values they store
          Nil,        \* the value nil
          Sizes,      \* sizes programs ask for (lua_createtable, OP_SETLIST)
          MaxInt      \* MAX_INT, where unbound_search gives up doubling

ASSUME NilAssumption == Nil \notin Values
ASSUME SizesAssumption == Sizes \subseteq Nat /\ MaxInt \in Nat

VARIABLES t,      \* the table
          map,    \* what programs assigned (auxiliary)
          iter,   \* the traversal: its state and the key it is at
          seen    \* the fields still there that the traversal has returned

vars == <<t, map, iter, seen>>

MAXBITS == 26
NilKey == [tt |-> "nil"]
Dead(k) == [tt |-> "dead", of |-> k]
NULL == -1

EmptyNode == [key |-> NilKey, val |-> Nil, next |-> NULL]

sizenode(tab) == 2 ^ tab.lsizenode

\* lua/lobject.c: the position of the highest bit, -1 for 0
luaO_log2(x) == IF x = 0 THEN -1 ELSE CHOOSE l \in 0..MAXBITS : 2^l <= x /\ x < 2^(l+1)
ceillog2(x) == luaO_log2(x - 1) + 1
-----------------------------------------------------------------------------
(* Hashing.                                                                *)

hashpow2(tab, h) == h % sizenode(tab)
hashmod(tab, h) == h % (IF sizenode(tab) <= 2 THEN 1 ELSE sizenode(tab) - 1)

\* The two words of a double are added; for a small integer the low word is
\* 0 and the high one holds exponent and mantissa.
HighWord(n) == LET e == luaO_log2(n) IN (1023 + e) * 2^20 + (n - 2^e) * 2^(20 - e)
hashnum(tab, n) == IF n = 0 THEN 0 ELSE hashmod(tab, HighWord(n))

mainposition(tab, key) ==
  CASE key.tt = "number"  -> hashnum(tab, key.n)
    [] key.tt = "string"  -> hashpow2(tab, key.h)
    [] key.tt = "boolean" -> hashpow2(tab, key.h)
    [] OTHER              -> hashmod(tab, key.h)

arrayindex(key) == IF key.tt = "number" THEN key.n ELSE -1

\* the nodes of the chain that starts at node i, in order
Extend(tab, c) ==
  LET n == tab.node[Last(c)].next IN IF n = NULL THEN c ELSE Append(c, n)
Chain(tab, i) ==
  LET c[n \in 1..sizenode(tab)] == IF n = 1 THEN <<i>> ELSE Extend(tab, c[n-1])
  IN c[sizenode(tab)]

\* the first node of key's chain whose key is one of ks, or NULL
Search(tab, key, ks) ==
  LET c == Chain(tab, mainposition(tab, key))
      hits == {i \in DOMAIN c : tab.node[c[i]].key \in ks}
  IN IF hits = {} THEN NULL ELSE c[Min(hits)]
-----------------------------------------------------------------------------
(* Reading.  A place is an index of the array, a node, or nowhere.         *)

Array(i) == [part |-> "array", i |-> i]
Node(i) == [part |-> "node", i |-> i]
Nowhere == [part |-> "none"]

luaH_getstr(tab, key) ==
  LET n == Search(tab, key, {key}) IN IF n = NULL THEN Nowhere ELSE Node(n)

luaH_getnum(tab, key) ==
  IF key.n \in 1..Len(tab.array) THEN Array(key.n) ELSE luaH_getstr(tab, key)

luaH_get(tab, key) ==
  CASE key = NilKey        -> Nowhere
    [] key.tt = "number"   -> luaH_getnum(tab, key)
    [] OTHER               -> luaH_getstr(tab, key)

Val(tab, place) == CASE place.part = "array" -> tab.array[place.i]
                     [] place.part = "node"  -> tab.node[place.i].val
                     [] OTHER                -> Nil

Put(tab, place, v) ==
  IF place.part = "array" THEN [tab EXCEPT !.array[place.i] = v]
                          ELSE [tab EXCEPT !.node[place.i].val = v]
-----------------------------------------------------------------------------
(* Inserting a key.                                                        *)

getfreepos(tab) ==
  Max({NULL} \cup {i \in 0..tab.lastfree - 1 : tab.node[i].key = NilKey})

PutKey(tab, n, key) == [tab EXCEPT !.node[n].key = key]

MoveForgetsChain(tab, mp, n, key) ==    \* gnext(othern) = n is missing
  PutKey([tab EXCEPT !.node[n] = tab.node[mp],
                     !.node[mp] = [tab.node[mp] EXCEPT !.next = NULL, !.val = Nil],
                     !.lastfree = n], mp, key)

\* the colliding node leaves its place mp for n; its predecessor follows it
MoveColliding(tab, mp, n, key) ==
  LET prev == CHOOSE p \in Range(Chain(tab, mainposition(tab, tab.node[mp].key))) :
                tab.node[p].next = mp
  IN PutKey([tab EXCEPT !.node[prev].next = n,
                        !.node[n] = tab.node[mp],
                        !.node[mp] = [tab.node[mp] EXCEPT !.next = NULL, !.val = Nil],
                        !.lastfree = n], mp, key)

\* the new key takes n and is chained behind the node in its main position
ChainBehind(tab, mp, n, key) ==
  PutKey([tab EXCEPT !.node[n].next = tab.node[mp].next,
                     !.node[mp].next = n,
                     !.lastfree = n], n, key)

\* newkey without the growth of the table: <<the table, the place of key>>,
\* where Nowhere says that there is no free node
newkey(tab, key) ==
  LET mp == mainposition(tab, key)
      n  == getfreepos(tab)
  IN IF tab.node[mp].val = Nil /\ ~tab.dummy THEN <<PutKey(tab, mp, key), Node(mp)>>
     ELSE IF n = NULL THEN <<[tab EXCEPT !.lastfree = NULL], Nowhere>>
     ELSE IF mainposition(tab, tab.node[mp].key) # mp
          THEN <<MoveColliding(tab, mp, n, key), Node(mp)>>
          ELSE <<ChainBehind(tab, mp, n, key), Node(n)>>

setnodevector(tab, size) ==
  LET lsize == IF size = 0 THEN 0 ELSE ceillog2(size)
  IN [tab EXCEPT !.node = [i \in 0..2^lsize - 1 |-> EmptyNode],
                 !.lsizenode = lsize,
                 !.dummy = (size = 0),
                 !.lastfree = IF size = 0 THEN 0 ELSE 2^lsize]

setarrayvector(tab, size) ==
  [tab EXCEPT !.array = [i \in 1..size |-> IF i <= Len(@) THEN @[i] ELSE Nil]]

\* luaH_set without the growth of the table
Find(tab, key, p) == IF p # Nowhere THEN <<tab, p>> ELSE newkey(tab, key)
FindOrAdd(tab, key) == Find(tab, key, luaH_get(tab, key))

\* A second search in a table that has just been resized finds a free node:
\* were there none, the code would resize again, recorded in "nested".
MustFit(tp) == IF tp[2] # Nowhere THEN tp
               ELSE <<[tp[1] EXCEPT !.nested = TRUE], Node(0)>>

StoreAt(tp, v) == Put(tp[1], tp[2], v)
Reinsert(tab, kv) == StoreAt(MustFit(FindOrAdd(tab, kv[1])), kv[2])

\* what resize re-inserts: the slice the array loses, then the nodes from
\* the last one down
Vanishing(tab, nasize) ==
  SubSeq([i \in 1..Len(tab.array) |-> <<[tt |-> "number", n |-> i], tab.array[i]>>],
         nasize + 1, Len(tab.array))
OldNodes(tab) ==
  [i \in 1..sizenode(tab) |->
     LET n == tab.node[sizenode(tab) - i] IN <<n.key, n.val>>]

resize(tab, nasize, nhsize) ==
  FoldLeft(Reinsert, setarrayvector(setnodevector(tab, nhsize), nasize),
           SelectSeq(Vanishing(tab, nasize) \o OldNodes(tab), LAMBDA kv : kv[2] # Nil))

\* numusearray, numusehash and countint: the keys in use, with the new one
UsedKeys(tab, ek) ==
  {ek} \cup {[tt |-> "number", n |-> i] : i \in {j \in DOMAIN tab.array : tab.array[j] # Nil}}
       \cup {tab.node[i].key : i \in {j \in DOMAIN tab.node : tab.node[j].val # Nil}}

Ints(ks) == {k.n : k \in {x \in ks : arrayindex(x) \in 1..2^MAXBITS}}
nums(ks) == [b \in 0..MAXBITS |-> Cardinality({k \in Ints(ks) : ceillog2(k) = b})]

\* <<the size of the array part, the number of keys in it>>
computesizes(num, narray) ==
  LET upto(i) == SumFunctionOnSet(num, 0..i)
      good == {i \in 0..MAXBITS : /\ 2^i \div 2 < narray
                                  /\ num[i] > 0
                                  /\ upto(i) > 2^i \div 2}
  IN IF good = {} THEN <<0, 0>> ELSE <<2^Max(good), upto(Max(good))>>

rehash(tab, ek) ==
  LET used == UsedKeys(tab, ek)
      size == computesizes(nums(used), Cardinality(Ints(used)))
  IN resize(tab, size[1], Cardinality(used) - size[2])

Grow(tab, key, tp) ==
  IF tp[2] # Nowhere THEN tp ELSE MustFit(FindOrAdd(rehash(tab, key), key))

\* the place for key, in a table that grew if it had to
luaH_set(tab, key) == Grow(tab, key, FindOrAdd(tab, key))
-----------------------------------------------------------------------------
(* Traversal and length.                                                   *)

FindLiveOnly(tab, key) ==               \* dead keys are not recognised
  IF key = NilKey THEN -1
  ELSE IF arrayindex(key) \in 1..Len(tab.array) THEN arrayindex(key) - 1
  ELSE LET n == Search(tab, key, {key})
       IN IF n = NULL THEN -2 ELSE n + Len(tab.array)

\* the number of the place a traversal is at; Len(array) + node index for a
\* node, -1 before the first, -2 when the key is not there
findindex(tab, key) ==
  IF key = NilKey THEN -1
  ELSE IF arrayindex(key) \in 1..Len(tab.array) THEN arrayindex(key) - 1
  ELSE LET n == Search(tab, key, {key, Dead(key)})
       IN IF n = NULL THEN -2 ELSE n + Len(tab.array)

\* the key behind key: NilKey at the end, Invalid for the error
Invalid == [tt |-> "invalid"]
luaH_next(tab, key) ==
  LET from == findindex(tab, key) + 1
      inarray == {i \in from..Len(tab.array) - 1 : tab.array[i + 1] # Nil}
      innodes == {i \in from..Len(tab.array) + sizenode(tab) - 1 :
                    i >= Len(tab.array) /\ tab.node[i - Len(tab.array)].val # Nil}
  IN IF from = -1 THEN Invalid
     ELSE IF inarray # {} THEN [tt |-> "number", n |-> Min(inarray) + 1]
     ELSE IF innodes # {} THEN tab.node[Min(innodes) - Len(tab.array)].key
     ELSE NilKey

\* the boundary that halving (i, j) finds, for a test of "is t[m] nil"
Halve(lo, hi, empty) ==
  LET h[p \in (0..hi) \X (0..hi)] ==
        IF p[2] - p[1] <= 1 THEN p[1]
        ELSE LET m == (p[1] + p[2]) \div 2
             IN IF empty[m] THEN h[<<p[1], m>>] ELSE h[<<m, p[2]>>]
  IN h[<<lo, hi>>]

EmptyAt(tab, m) == Val(tab, luaH_getnum(tab, [tt |-> "number", n |-> m])) = Nil

unbound_search(tab, j0) ==
  LET double[p \in Nat \X Nat] ==      \* i is present or 0, j the next to try
        IF EmptyAt(tab, p[2]) THEN p
        ELSE IF 2 * p[2] > MaxInt THEN <<0, 0>> ELSE double[<<p[2], 2 * p[2]>>]
      p == double[<<j0, j0 + 1>>]
      linear[i \in Nat] == IF EmptyAt(tab, i) THEN i - 1 ELSE linear[i + 1]
  IN IF p[2] = 0 THEN linear[1]
     ELSE Halve(p[1], p[2], [m \in 0..p[2] |-> EmptyAt(tab, m)])

luaH_getn(tab) ==
  LET j == Len(tab.array)
  IN IF j > 0 /\ tab.array[j] = Nil
     THEN Halve(0, j, [m \in 0..j |-> m > 0 /\ tab.array[m] = Nil])
     ELSE IF tab.dummy THEN j
     ELSE unbound_search(tab, j)

-----------------------------------------------------------------------------
luaH_new(narray, nhash) ==
  setnodevector([array |-> [i \in 1..narray |-> Nil], node |-> << >>, lsizenode |-> 0,
                 dummy |-> TRUE, lastfree |-> 0, nested |-> FALSE], nhash)

(* What a table promises its programs: a map in which Nil stands for "no   *)
(* entry" and which only assignments change, one key at a time.            *)
NoFields == map = [k \in Keys |-> Nil]
Assign(k, v) == map' = [map EXCEPT ![k] = v]

Init == /\ \E na \in Sizes, nh \in Sizes : t = luaH_new(na, nh)
        /\ NoFields
        /\ iter = [st |-> "idle", key |-> NilKey]
        /\ seen = {}

Idle == iter' = [st |-> "idle", key |-> NilKey] /\ seen' = {}

\* t[k] = v outside a traversal: luaV_settable without metamethods.  A nil
\* value gets a key too.
luaV_settable(k, v) ==
  /\ iter.st # "on"
  /\ t' = StoreAt(luaH_set(t, k), v)
  /\ Assign(k, v)
  /\ Idle

\* During a traversal a program may only assign to fields that are there.
AssignExisting(k, v) ==
  /\ iter.st = "on"
  /\ Val(t, luaH_get(t, k)) # Nil
  /\ t' = Put(t, luaH_get(t, k), v)
  /\ Assign(k, v)
  /\ seen' = IF v = Nil THEN seen \ {k} ELSE seen
  /\ UNCHANGED iter

\* OP_SETLIST makes room for the elements of a constructor.
luaH_resizearray(nasize) ==
  /\ iter.st # "on" /\ nasize > Len(t.array)
  /\ t' = resize(t, nasize, IF t.dummy THEN 0 ELSE sizenode(t))
  /\ UNCHANGED map
  /\ Idle

\* The collector traverses the table: keys of empty entries die.
removeentries ==
  LET dying == {i \in DOMAIN t.node : t.node[i].val = Nil
                                      /\ t.node[i].key.tt \in {"string", "pointer"}}
  IN /\ dying # {}
     /\ t' = [t EXCEPT !.node = [i \in DOMAIN @ |->
                IF i \in dying THEN [@[i] EXCEPT !.key = Dead(@)] ELSE @[i]]]
     /\ UNCHANGED <<map, iter, seen>>

\* next(t, key), called until it returns nil
lua_next ==
  LET k == luaH_next(t, iter.key)
      first == iter.st # "on"
  IN /\ iter' = CASE k = Invalid -> [st |-> "error", key |-> NilKey]
                  [] k = NilKey -> [st |-> "done", key |-> NilKey]
                  [] ~first /\ k \in seen -> [st |-> "twice", key |-> k]
                  [] OTHER -> [st |-> "on", key |-> k]
     /\ seen' = (IF first THEN {} ELSE seen) \cup ({k} \ {NilKey, Invalid})
     /\ UNCHANGED <<t, map>>

Next == \/ \E k \in Keys : \E v \in Values \cup {Nil} :
              luaV_settable(k, v) \/ AssignExisting(k, v)
        \/ \E n \in Sizes : luaH_resizearray(n)
        \/ removeentries
        \/ lua_next

Spec == Init /\ [][Next]_vars
-----------------------------------------------------------------------------
(* Properties.                                                             *)

TypeOK ==
  /\ t.array \in Seq(Values \cup {Nil})
  /\ DOMAIN t.node = 0..sizenode(t) - 1
  /\ \A i \in DOMAIN t.node :
       /\ t.node[i].key \in Keys \cup {NilKey} \cup {Dead(k) : k \in Keys}
       /\ t.node[i].val \in Values \cup {Nil}
       /\ t.node[i].next \in -1..sizenode(t) - 1
  /\ t.lastfree \in -1..sizenode(t)
  /\ iter.st \in {"idle", "on", "done", "twice", "error"}

Used == {i \in DOMAIN t.node : t.node[i].val # Nil}

\* The main invariant the header of ltable.c states (lines 15-17): an element
\* that is not in its main position collides with one that is in its own.
\* With it goes what makes it useful: every element lies on the chain of its
\* main position, where the searches look for it.
BrentInvariant ==
  \A i \in Used :
    LET mp == mainposition(t, t.node[i].key)
    IN /\ i \in Range(Chain(t, mp))
       /\ mp \in Used => mainposition(t, t.node[mp].key) = mp

\* Every node taken lies above lastfree or in its main position, so getfreepos
\* misses no node and re-insertion into a resized table never runs out of
\* nodes: resize never resizes the table it is resizing.
NeverNested == ~t.nested

\* luaH_getn returns a border (ltable.c:556-558): t[n] is not nil, or n is 0,
\* and t[n+1] is nil, holes or not, in the array part, across both parts, and
\* past the point where unbound_search gives up.
LengthIsBorder ==
  LET n == luaH_getn(t) IN /\ n = 0 \/ ~EmptyAt(t, n)
                           /\ EmptyAt(t, n + 1)

\* rehash gives the array part the largest power of two with more than half of
\* its slots in use, as computesizes asks ("more than half elements present?").
\* The header of ltable.c (lines 12-13) says "at least half": with exactly half
\* in use the code takes the smaller size, and so does this property.
ArrayOptimal ==
  \A k \in Keys :
    LET ints == Ints(UsedKeys(t, k))
        size == computesizes(nums(UsedKeys(t, k)), Cardinality(ints))
        best == {b \in 0..MAXBITS : 2 * Cardinality({i \in ints : i <= 2^b}) > 2^b}
    IN /\ size[1] = IF best = {} THEN 0 ELSE 2^Max(best)
       /\ size[2] = Cardinality({i \in ints : i <= size[1]})

\* A traversal with next returns every field that was there from start to end
\* exactly once and never raises "invalid key to 'next'" (ltable.c:156), though
\* fields are cleared and their keys die under it.
TraversalComplete ==
  /\ iter.st \notin {"error", "twice"}
  /\ iter.st = "done" => \A k \in Keys : map[k] # Nil => k \in seen

\* A table is a map: what luaH_get finds is what was assigned last, whatever
\* grew, moved, shrank or died in between.  A key in two places, in a node no
\* search reaches, or lost in a resize would show here.
IsMap == \A k \in Keys : Val(t, luaH_get(t, k)) = map[k]

\* The table is a map and keeps what its searches rely on.
TableSound == TypeOK /\ BrentInvariant /\ NeverNested /\ IsMap /\ LengthIsBorder /\ ArrayOptimal
=============================================================================

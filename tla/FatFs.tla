-------------------------------- MODULE FatFs --------------------------------
(***************************************************************************)
(* The synchronous half of the FAT driver (includeos-patch/fat.cpp,        *)
(* fat.hpp, fat_sync.cpp): directories, path lookup with the cache of      *)
(* listings, and reads that follow the allocation table.                   *)
(*                                                                         *)
(* A volume is a record with fields                                        *)
(*   chain      the allocation table; cluster 0 holds the media descriptor *)
(*   next       the links the driver meets.  Of a 32-bit table nothing is  *)
(*              loaded, since its length is taken from the 16-bit field,   *)
(*              and a link is whatever the memory behind holds             *)
(*   slots      the directory slots of each cluster                        *)
(*   rootrest   the slots of the root directory behind the first           *)
(*              sectors_per_cluster sectors, the only ones that are read   *)
(*   data       the bytes of each cluster                                  *)
(*   readable   the clusters that lie on the device                        *)
(*   fat32      TRUE when the table has 32-bit entries                     *)
(* Names are numbers in alphabetical order.                                *)
(***************************************************************************)
EXTENDS Integers, Sequences, SequencesExt

CONSTANTS
  Volumes,        \* the volumes considered
  PrefixOf,       \* <<a, b>>: name a, in any case, is the beginning of name b
  ClusterSize,    \* bytes of a cluster
  SlotsPerCluster \* directory slots of a cluster

ASSUME FatAssumption ==
  /\ ClusterSize \in Nat \ {0}
  /\ SlotsPerCluster \in Nat \ {0}

End == 65535      \* the end mark of a chain
Root == 0

(* What the driver meets of a volume: full clusters, entries of which a    *)
(* directory says where it begins, and chains that end.  Around a chain    *)
(* that does not int_ls goes forever.                                      *)
SlotTyped(v, s) ==
  /\ s.name \in Nat /\ s.total \in Nat /\ s.block \in Nat /\ s.size \in Nat
  /\ s.type \in {"DIR", "FILE", "VOLUME_ID", "NONE"} /\ s.hidden \in BOOLEAN
  /\ s.type = "DIR" => s.block \in DOMAIN v.next

VolumeTyped(v) ==
  /\ IsFiniteSet(DOMAIN v.next) /\ Root \in DOMAIN v.next
  /\ \A c \in DOMAIN v.next : v.next[c] \in DOMAIN v.next \cup {End}
  /\ \A S \in SUBSET DOMAIN v.next : S # {} => \E c \in S : v.next[c] \notin S
  /\ v.fat32 \/ v.chain = v.next
  /\ \A c \in DOMAIN v.next : v.data[c] \in [1 .. ClusterSize -> Nat]
  /\ \A c \in v.readable : \A i \in 1 .. SlotsPerCluster : SlotTyped(v, v.slots[c][i])

ASSUME VolumesAssumption == \A v \in Volumes : VolumeTyped(v)

VARIABLES
  volume,         \* the mounted volume: never written
  ls_cache        \* listings already read, by the directory's first cluster

Clusters == DOMAIN volume.next

(* Slots of a directory: "end" (first byte 0), "free" (0xE5), "last" (the  *)
(* first slot of a long name that takes `total` of them), "more" (its      *)
(* other slots) and "short" (the entry itself, with its 8.3 name).         *)
Dirent(name, type, block, size, hidden) ==
  [name |-> name, type |-> type, block |-> block, size |-> size, hidden |-> hidden]

INVALID == Dirent(0, "INVALID_ENTITY", 0, 0, FALSE)

TheRoot == Dirent(0, "DIR", Root, 0, FALSE)

-----------------------------------------------------------------------------
(* Clusters.                                                               *)

(* cl_to_sector, as the cluster that is read: numbers up to 2 are the root *)
(* directory.                                                              *)
ClusterRead(cl) == IF cl <= 2 THEN Root ELSE cl

read_sync(cl) == cl # End /\ ClusterRead(cl) \in volume.readable

next_cluster(cl) == volume.next[cl]

(* The end mark of a 32-bit table, 0x0FFFFFFF, is below the limit.         *)
IsEnd(cl) == cl = End /\ ~volume.fat32

(* The cluster reached from cl after n links of a table. *)
Walk(table, cl, n) ==
  LET link[i \in 0 .. n] ==
        IF i = 0 THEN cl
        ELSE IF link[i - 1] = End THEN End ELSE table[link[i - 1]]
  IN  link[n]

Link(cl, n) == Walk(volume.next, cl, n)

-----------------------------------------------------------------------------
(* Directories.                                                            *)

(* int_dirent: the entries of one cluster, and whether its end was seen.   *)
(* A long name whose short slot lies in the next cluster ends the scan.    *)
int_dirent(slots) ==
  LET scan[i \in 1 .. SlotsPerCluster + 1] ==
        IF i > SlotsPerCluster THEN [ents |-> <<>>, last |-> FALSE]
        ELSE LET s == slots[i]
                 Then(name, n) ==
                   LET e == slots[n]
                   IN  [scan[n + 1] EXCEPT !.ents =
                          <<Dirent(name, e.type, e.block, e.size, e.hidden)>> \o @]
             IN  CASE s.kind = "end"   -> [ents |-> <<>>, last |-> TRUE]
                   [] s.kind = "short" -> Then(s.name, i)
                   [] s.kind = "last" /\ i + s.total > SlotsPerCluster ->
                        [ents |-> <<>>, last |-> FALSE]
                   [] s.kind = "last" /\ i + s.total <= SlotsPerCluster ->
                        Then(s.name, i + s.total)
                   [] OTHER -> scan[i + 1]
  IN  scan[1]

Page(cl) == int_dirent(volume.slots[ClusterRead(cl)])

(* The loop of int_ls stops after link n. *)
LastPage(cl, n) ==
  \/ ~read_sync(Link(cl, n))
  \/ Page(Link(cl, n)).last
  \/ IsEnd(next_cluster(Link(cl, n)))

(* Mutant: only the first cluster of a directory is read. *)
FirstPageOnly(cl) ==
  IF read_sync(cl) THEN [err |-> "no_error", ents |-> Page(cl).ents]
  ELSE [err |-> "E_IO", ents |-> <<>>]

(* The number of links the loop of int_ls follows. *)
LastLink(cl) ==
  CHOOSE n \in 0 .. Cardinality(Clusters) :
    LastPage(cl, n) /\ \A i \in 0 .. n - 1 : ~LastPage(cl, i)

(* The entries of the first k clusters of a directory. *)
Pages(cl, k) == FlattenSeq([i \in 1 .. k |-> Page(Link(cl, i - 1)).ents])

ListingTo(cl, n) ==
  IF read_sync(Link(cl, n)) THEN [err |-> "no_error", ents |-> Pages(cl, n + 1)]
  ELSE [err |-> "E_IO", ents |-> Pages(cl, n)]

(* What the loop of int_ls collects. *)
Listing(cl) == ListingTo(cl, LastLink(cl))

(* The listing r, put behind what the caller's vector holds, is cached     *)
(* unless it ended with an error.                                          *)
Cached(cl, cache, ents, r) ==
  [err |-> r.err,
   ents |-> ents \o r.ents,
   cache |-> IF r.err # "no_error" THEN cache
             ELSE [c \in DOMAIN cache \cup {cl} |->
                     IF c = cl THEN ents \o r.ents ELSE cache[c]]]

(* int_ls: ents is what the caller's vector already holds.                 *)
int_ls(cl, cache, ents) ==
  IF cl \in DOMAIN cache THEN [err |-> "no_error", ents |-> cache[cl], cache |-> cache]
  ELSE Cached(cl, cache, ents, Listing(cl))

(* iequals compares only as many characters as the entry's name has. *)
iequals(entry, name) == entry = name \/ <<entry, name>> \in PrefixOf

FirstMatch(ents, name) == SelectInSeq(ents, LAMBDA e : iequals(e.name, name))

-----------------------------------------------------------------------------
(* Lookup.                                                                 *)

(* The variable found is declared outside the loop of traverse: a name     *)
(* without a match leaves it as it was.                                    *)
Found(s, r, i) == IF i = 0 THEN s.found ELSE r.ents[i]

(* One turn of the loop with the listing r of the current directory. *)
Turn(s, r, found) ==
  LET t == [s EXCEPT !.cache = r.cache, !.ents = r.ents]
  IN  CASE r.err # "no_error" -> [t EXCEPT !.err = r.err]
        [] r.err = "no_error" /\ found.type \notin {"DIR", "INVALID_ENTITY"} ->
             [t EXCEPT !.err = "E_NOTDIR"]
        [] r.err = "no_error" /\ found.type = "INVALID_ENTITY" -> [t EXCEPT !.err = "E_NOENT"]
        [] OTHER -> [t EXCEPT !.found = found, !.cluster = found.block]

TurnFor(s, name, r) == Turn(s, r, Found(s, r, FirstMatch(r.ents, name)))

EnterFrom(s, name, ents) == TurnFor(s, name, int_ls(s.cluster, s.cache, ents))

(* Mutant: ents is not cleared before the next directory is read into it. *)
EnterUncleared(s, name) == EnterFrom(s, name, s.ents)

Enter(s, name) == EnterFrom(s, name, <<>>)

(* The directory at the end of the path is listed. *)
Arrived(s) ==
  IF s.err # "no_error" THEN [err |-> s.err, ents |-> s.ents, cache |-> s.cache]
  ELSE int_ls(s.cluster, s.cache, <<>>)

(* traverse: the entries of the directory the path leads to.               *)
traverse(path) ==
  LET walk[k \in 0 .. Len(path)] ==
        IF k = 0 THEN [cluster |-> Root, found |-> INVALID, ents |-> <<>>,
                       cache |-> ls_cache, err |-> "no_error"]
        ELSE IF walk[k - 1].err # "no_error" THEN walk[k - 1]
        ELSE Enter(walk[k - 1], path[k])
  IN  Arrived(walk[Len(path)])

(* The entry of that name in the directory r. *)
Entry(r, name) ==
  LET i == FirstMatch(r.ents, name)
  IN  [ent |-> IF r.err # "no_error" \/ i = 0 THEN INVALID ELSE r.ents[i],
       cache |-> r.cache]

(* stat: the entry found, and the cache the lookup leaves. *)
stat(path) ==
  IF path = <<>> THEN [ent |-> TheRoot, cache |-> ls_cache]
  ELSE Entry(traverse(Front(path)), Last(path))

-----------------------------------------------------------------------------
(* Reads.                                                                  *)

Least(a, b) == IF a < b THEN a ELSE b

(* The bytes asked for that the file has, and the clusters they lie in. *)
Span(ent, pos, n) ==
  LET sta == Least(ent.size, pos)
      end == Least(ent.size, pos + n)
      cluster == sta \div ClusterSize
  IN  [sta |-> sta, end |-> end, cluster |-> cluster,
       nclust |-> (end + ClusterSize - 1) \div ClusterSize - cluster]

(* The cn-th cluster of a read: the first is computed, the others linked. *)
ReadCluster(ent, span, cn) == Link(ent.block + span.cluster, cn)

(* Mutant: the position inside the first cluster is dropped. *)
ReadFromClusterStart(ent, pos, n) ==
  LET span == Span(ent, pos, n)
      Bytes(cn) == volume.data[ClusterRead(ReadCluster(ent, span, cn))]
  IN  SubSeq(FlattenSeq([i \in 1 .. span.nclust |-> Bytes(i - 1)]), 1, span.end - span.sta)

(* FAT_::read: n bytes of the entry from position pos. *)
read(ent, pos, n) ==
  LET span == Span(ent, pos, n)
      Bytes(cn) == volume.data[ClusterRead(ReadCluster(ent, span, cn))]
      From(cn) == IF cn = 0 THEN (span.sta % ClusterSize) + 1 ELSE 1
      To(cn) == IF cn = span.nclust - 1 /\ span.end % ClusterSize # 0
                THEN span.end % ClusterSize ELSE ClusterSize
  IN  FlattenSeq([i \in 1 .. span.nclust |-> SubSeq(Bytes(i - 1), From(i - 1), To(i - 1))])

(* A read of a cluster that is not on the device stops the system.         *)
ReadPanics(ent, pos, n) ==
  LET span == Span(ent, pos, n)
  IN  \E cn \in 0 .. span.nclust - 1 : ~read_sync(ReadCluster(ent, span, cn))
=============================================================================

------------------------------ MODULE MCFileApi ------------------------------
(***************************************************************************)
(* Small volumes: a root with a label, a directory and a file; a directory *)
(* of two clusters whose second holds a long name; an empty subdirectory.  *)
(* Names: 1 ".", 2 "..", 3 "apis", 4 "bios", 5 "bios.lua", 6 "rom",        *)
(* 7 "startup", 8 the label.                                               *)
(***************************************************************************)
EXTENDS FileApi

Slot(kind, name, type, block, size, total) ==
  [kind |-> kind, name |-> name, type |-> type, block |-> block, size |-> size,
   total |-> total, hidden |-> FALSE]

Short(name, type, block, size) == Slot("short", name, type, block, size, 0)
Long(name, total) == Slot("last", name, "NONE", 0, 0, total)
More == Slot("more", 0, "NONE", 0, 0, 0)
Free == Slot("free", 0, "NONE", 0, 0, 0)
Ended == Slot("end", 0, "NONE", 0, 0, 0)
Dot(cl) == Short(1, "DIR", cl, 0)
DotDot(cl) == Short(2, "DIR", cl, 0)

Empty == <<Ended, Ended, Ended>>

(* The table: a directory in 3 and 4, files in 7 and 8, and in 9 and 10.   *)
Links ==
  [c \in {0, 2} \cup 3 .. 10 |->
     CASE c = 3 -> 4 [] c = 7 -> 8 [] c = 9 -> 10 [] OTHER -> End]

(* Two files: 7 and 8 hold "a", newline, 0x90, "b"; 9 and 10 hold "c",     *)
(* newline, "d".                                                           *)
Base ==
  [chain |-> Links,
   next |-> Links,
   rootrest |-> <<>>,
   slots |-> [c \in 0 .. 10 |->
     CASE c = 0 -> <<Short(8, "VOLUME_ID", 2, 0), Short(6, "DIR", 3, 0),
                     Short(5, "FILE", 7, 4)>>
       [] c = 3 -> <<Dot(3), DotDot(2), Short(3, "DIR", 6, 0)>>
       [] c = 4 -> <<Long(7, 1), Short(4, "FILE", 9, 3), Ended>>
       [] c = 6 -> <<Dot(6), DotDot(3), Ended>>
       [] OTHER -> Empty],
   data |-> [c \in 0 .. 10 |->
     CASE c = 7 -> <<97, Newline>> [] c = 8 -> <<144, 98>>
       [] c = 9 -> <<99, Newline>> [] c = 10 -> <<100, 0>> [] OTHER -> <<0, 0>>],
   readable |-> 0 .. 10,
   fat32 |-> FALSE]

(* The file in clusters 7 and 8 now lies in 7 and 5. *)
Fragmented ==
  [Base EXCEPT !.next[7] = 5, !.chain[7] = 5, !.data[5] = <<144, 98>>, !.data[8] = <<0, 0>>]

(* Half of a directory, and of a file, lies behind the end of the device. *)
Truncated == [Base EXCEPT !.readable = @ \ {4, 8}]

(* A 32-bit table, of which the driver meets other links: with zeros in    *)
(* its place every directory goes on in the root.                          *)
Fat32 ==
  [Base EXCEPT !.fat32 = TRUE, !.slots[4][3] = Free,
               !.next = [c \in DOMAIN Links |-> IF c = 0 THEN End ELSE 0]]

(* A root of two clusters, the second with a file and a directory, whose   *)
(* first is full; a hidden file.                                           *)
LongRoot ==
  [Base EXCEPT !.slots[0][3].hidden = TRUE,
               !.rootrest = <<Short(3, "DIR", 6, 0), Short(7, "FILE", 9, 3), Ended>>]

(* A long name that the end of the directory's first cluster cuts. *)
CutName ==
  [Base EXCEPT !.slots[3] = <<Dot(3), DotDot(2), Long(7, 1)>>,
               !.slots[4] = <<Short(4, "FILE", 9, 3), Short(3, "DIR", 6, 0), Ended>>]

(* A long name of two slots, a free slot, a file that ends with a newline  *)
(* and an empty file.                                                      *)
Tidy ==
  [Base EXCEPT
     !.slots[4] = <<Long(7, 2), More, Short(4, "FILE", 9, 2)>>,
     !.slots[0] = <<Free, Short(6, "DIR", 3, 0), Short(5, "FILE", 2, 0)>>]

MCVolumes == {Base, Fragmented, Truncated, Fat32, Tidy, LongRoot, CutName}

Lookups == {3, 4, 5, 6, 7}
MCPaths ==
  {<<>>} \cup {<<a>> : a \in Lookups} \cup {<<a, b>> : a \in {3, 5, 6}, b \in Lookups}
    \cup {<<6, a, b>> : a, b \in {3, 7}} \cup {<<6, 2>>, <<6, 2, 3>>, <<6, 2, 5>>}

MCPrefixOf == {<<4, 5>>}

(* Paths with slashes in every place. *)
MCPieces == UNION {[1 .. n -> {Slash, "a", "b"}] : n \in 0 .. 3} \cup {<<"a", Backslash, "b">>, <<"a", Slash, "b", Slash, "a">>}

(* Volumes as mkfs makes them: one of each table width, at the limits of   *)
(* the number of clusters. *)
Unused == [type |-> 0, lba_begin |-> 0, sectors |-> 0]
Used(at, n) == [type |-> 6, lba_begin |-> at, sectors |-> n]
Blank ==
  [magic |-> 0, bytes_per_sector |-> 0, sectors_per_cluster |-> 1, reserved_sectors |-> 0, fa_tables |-> 0,
   root_entries |-> 0, small_sectors |-> 0, large_sectors |-> 0, sectors_per_fat |-> 0, sectors_per_fat32 |-> 0,
   hidden_sectors |-> 0, signature |-> 0]
Record(hidden, tables, spf, roots, clusters, spc) ==
  LET sectors == 1 + tables * spf + roots \div 16 + clusters * spc
  IN  [Blank EXCEPT !.magic = 43605, !.bytes_per_sector = 512, !.sectors_per_cluster = spc, !.reserved_sectors = 1,
         !.fa_tables = tables, !.root_entries = roots, !.sectors_per_fat = spf, !.hidden_sectors = hidden, !.signature = 41,
         !.small_sectors = IF sectors < 65536 THEN sectors ELSE 0, !.large_sectors = IF sectors < 65536 THEN 0 ELSE sectors]
Wide(b, spf) == [b EXCEPT !.sectors_per_fat = 0, !.sectors_per_fat32 = spf, !.signature = 0]
Length(b) == IF b.small_sectors # 0 THEN b.small_sectors ELSE b.large_sectors

Records(hidden) ==
  {Record(hidden, 2, 12, 224, 4084, 1), Record(hidden, 1, 3, 16, 1022, 4), Record(hidden, 2, 16, 512, 4085, 2),
   Record(hidden, 2, 256, 512, 65524, 1), Wide(Record(hidden, 2, 512, 0, 65525, 1), 512)}

Disk(parts, b, at) == [size |-> at + Length(b) + 2, part |-> parts, boot |-> (0 :> Blank) @@ (at :> b)]
First(b, at) == Disk(<<Used(at, Length(b)), Unused, Unused, Unused>>, b, at)
Second(b, at) == Disk(<<Unused, Used(at, Length(b)), Unused, Unused>>, b, at)
Whole(b) == [size |-> Length(b) + 2, part |-> <<Unused, Unused, Unused, Unused>>, boot |-> 0 :> b]
Tiny == [size |-> 4, part |-> <<Unused, Unused, Unused, Unused>>, boot |-> 0 :> Blank]
Small == Record(63, 1, 3, 16, 1022, 4)
MCMachines ==
  {<<>>, <<Tiny>>}
    \cup {<<First(b, 63)>> : b \in Records(63) \cup {Small, Blank, [Small EXCEPT !.hidden_sectors = 0], [Small EXCEPT !.small_sectors = 2]}}
    \cup {<<Tiny, First(Small, 63)>>, <<Second(Small, 63)>>, <<[First(Small, 63) EXCEPT !.size = 64]>>}
    \cup {<<Whole(b)>> : b \in Records(0)}
=============================================================================

------------------------------- MODULE Boot -------------------------------
(***************************************************************************)
(* From power on to the file system (main.cpp Service::start, disk.cpp,    *)
(* the init functions of fat.cpp): a drive is chosen, its master boot      *)
(* record and the first sector of a partition are read, each read by a     *)
(* callback, and the geometry of the volume is computed from them.         *)
(* Where the code is undefined the stage is "undefined".                   *)
(***************************************************************************)
EXTENDS Integers, Sequences

CONSTANTS Machines,           \* sequences of drives
          NoBoot              \* the system is not booting

VARIABLE boot                 \* stage, drive, partition, geometry

PartitionEntry == [type : Nat, lba_begin : Nat, sectors : Nat]
BootRecord ==
  [magic : Nat, bytes_per_sector : Nat, sectors_per_cluster : Nat, reserved_sectors : Nat, fa_tables : Nat,
   root_entries : Nat, small_sectors : Nat, large_sectors : Nat, sectors_per_fat : Nat, sectors_per_fat32 : Nat,
   hidden_sectors : Nat, signature : Nat]

\* A drive says something in its first sector and where a partition begins.
DriveTyped(d) ==
  /\ d.size \in Nat /\ d.part \in [1 .. 4 -> PartitionEntry]
  /\ 0 \in DOMAIN d.boot /\ \A at \in DOMAIN d.boot : d.boot[at] \in BootRecord
  /\ \A i \in 1 .. 4 : d.part[i].sectors # 0 => d.part[i].lba_begin \in DOMAIN d.boot

ASSUME MachinesAssumption ==
  \A m \in Machines :
    Len(m) \in Nat /\ DOMAIN m = 1 .. Len(m) /\ \A i \in DOMAIN m : DriveTyped(m[i])

DiskSize == 512
MinBlocks == 10

Start == [stage |-> "start", machine |-> <<>>, drive |-> 0, part |-> 0, base |-> 0, size |-> 0, geo |-> <<>>]

Drive == boot.machine[boot.drive]
Stage(s) == boot.stage = s
Go(s) == boot' = [boot EXCEPT !.stage = s]

\* A null buffer: nothing outside the device can be read.
Readable(d, blk, count) == blk + count < d.size /\ count # 0

\* The first drive that is large enough.  The drive behind the last one is
\* looked at before the end is tested.
ChooseDrive ==
  LET large == {i \in DOMAIN boot.machine : boot.machine[i].size >= MinBlocks}
  IN /\ Stage("start")
     /\ \/ large = {} /\ (Go("panic") \/ Go("undefined"))
        \/ \E i \in large :
             /\ \A k \in large : i <= k
             /\ boot' = [boot EXCEPT !.stage = "disk", !.drive = i]

\* init_fs with a partition: the program's way
InitPartition == Stage("disk") /\ boot' = [boot EXCEPT !.stage = "mbr", !.part = 1]

\* init_fs that looks for a file system itself: a volume without partitions,
\* or the first partition there is
LooksLikeFat(b) == b.bytes_per_sector >= DiskSize /\ b.fa_tables # 0 /\ (b.signature # 0 \/ b.large_sectors # 0)
InitDetect ==
  LET used == {i \in 1 .. 4 : Drive.part[i].type # 0 /\ Drive.part[i].lba_begin # 0 /\ Drive.part[i].sectors # 0}
      found == IF LooksLikeFat(Drive.boot[0]) THEN {0} ELSE used
  IN /\ Stage("disk")
     /\ IF ~Readable(Drive, 0, 1) \/ found = {} THEN Go("panic")
        ELSE \E i \in found :
               /\ \A k \in found : i <= k
               /\ boot' = [boot EXCEPT !.stage = "mbr", !.part = i]

\* partition_t counts from 1 behind the master boot record
PartIndex(part) == part

internal_init ==
  /\ Stage("mbr")
  /\ IF boot.part = 0 THEN boot' = [boot EXCEPT !.stage = "vbr", !.base = 0, !.size = Drive.size]
     ELSE IF ~Readable(Drive, 0, 1) \/ Drive.part[PartIndex(boot.part)].sectors = 0 THEN Go("panic")
     ELSE boot' = [boot EXCEPT !.stage = "vbr", !.base = Drive.part[PartIndex(boot.part)].lba_begin,
                               !.size = Drive.part[PartIndex(boot.part)].sectors]

T_FAT12 == 0
T_FAT16 == 1
T_FAT32 == 2

\* the clusters of a volume that is shorter than its tables: the unsigned
\* difference is far above every limit
Wrapped == 2147483647

\* The geometry of a volume.  The table is read with a sector count of eight
\* bits, where 0 means 256.
Geometry(b) ==
  LET spf == IF b.sectors_per_fat # 0 THEN b.sectors_per_fat ELSE b.sectors_per_fat32
      root == ((b.root_entries * 32 + b.bytes_per_sector - 1) \div b.bytes_per_sector) % 65536
      data == b.reserved_sectors + b.fa_tables * spf + root
      sectors == IF b.small_sectors # 0 THEN b.small_sectors ELSE b.large_sectors
      clusters == IF sectors < data THEN Wrapped ELSE (sectors - data) \div b.sectors_per_cluster
  IN [sector_size |-> b.bytes_per_sector, sectors |-> sectors, sectors_per_fat |-> spf, root_dir_sectors |-> root,
      data_index |-> data, sectors_per_cluster |-> b.sectors_per_cluster, clusters |-> clusters, root_cluster |-> 2,
      fat_type |-> IF clusters < 4085 THEN T_FAT12 ELSE IF clusters < 65525 THEN T_FAT16 ELSE T_FAT32,
      table_at |-> b.hidden_sectors + b.reserved_sectors,
      table_sectors |-> IF b.sectors_per_fat = 0 THEN 0 ELSE IF b.sectors_per_fat % 256 = 0 THEN 256 ELSE b.sectors_per_fat % 256]

\* The first sector of the volume has been read.  A null buffer is followed
\* before it is tested.
FatInit ==
  LET b == Drive.boot[boot.base]
      g == Geometry(b)
  IN /\ Stage("vbr")
     /\ IF ~Readable(Drive, boot.base, 1) THEN Go("undefined") \/ Go("panic")
        ELSE IF b.magic # 43605 \/ b.bytes_per_sector < DiskSize \/ g.table_at >= Drive.size THEN Go("panic")
        ELSE boot' = [boot EXCEPT !.stage = "mounted", !.geo = g]

Booted == Stage("mounted") \/ Stage("panic") \/ Stage("undefined")

BootInit == boot \in {[Start EXCEPT !.machine = m] : m \in Machines}
BootNext ==
  \/ ChooseDrive \/ InitPartition \/ InitDetect \/ internal_init \/ FatInit
  \/ Booted /\ UNCHANGED boot
-----------------------------------------------------------------------------
(* What the driver makes of a cluster number.                              *)

ClusterFromOne(cl) == boot.base + boot.geo.data_index + (cl - 1) * boot.geo.sectors_per_cluster

\* cluster 2 and below stand for the root directory
cl_to_sector(cl) ==
  IF cl <= 2 THEN boot.base + boot.geo.data_index + (boot.geo.root_cluster - 2) * boot.geo.sectors_per_cluster - boot.geo.root_dir_sectors
  ELSE boot.base + boot.geo.data_index + (cl - 2) * boot.geo.sectors_per_cluster

\* the last byte of the table that next_cluster reads for a cluster
LastByte(cl) ==
  CASE boot.geo.fat_type = T_FAT12 -> IF cl % 2 = 1 THEN (cl \div 2) * 3 + 2 ELSE (cl \div 2) * 3 + 1
    [] boot.geo.fat_type = T_FAT16 -> cl * 2 + 1
    [] OTHER -> cl * 4 + 3

-----------------------------------------------------------------------------
(* Volumes that were made as the format asks: sectors of the size of the   *)
(* drive's, a table of at most 256 of them with an entry for every cluster,*)
(* a volume that fits into its partition and says where it begins.  A      *)
(* larger table is only loaded in part.                                    *)
Boundary == Drive.boot[boot.base]
EntryBits == IF boot.geo.fat_type = T_FAT12 THEN 12 ELSE IF boot.geo.fat_type = T_FAT16 THEN 16 ELSE 32
WellMade ==
  /\ boot.geo.sector_size = DiskSize /\ boot.geo.sectors_per_cluster > 0
  /\ Boundary.reserved_sectors > 0 /\ Boundary.fa_tables > 0
  /\ boot.geo.data_index < boot.geo.sectors /\ boot.geo.sectors <= boot.size
  /\ boot.base + boot.size <= Drive.size
  /\ Boundary.hidden_sectors = boot.base
  /\ boot.geo.fat_type # T_FAT32 => Boundary.sectors_per_fat \in 1 .. 256
  /\ (boot.geo.clusters + 2) * EntryBits <= boot.geo.sectors_per_fat * boot.geo.sector_size * 8

\* the clusters of the volume behind the root directory, and the first and
\* the last of them
AllClusters == 3 .. boot.geo.clusters + 1
Probes == {3, 4, boot.geo.clusters, boot.geo.clusters + 1} \cap AllClusters

\* On a mounted volume the table, the root directory and the clusters lie in
\* places of their own, one behind the other, inside the partition.
LayoutOf(some) ==
  Stage("mounted") /\ WellMade =>
    LET g == boot.geo
        tables == g.table_at .. g.table_at + g.table_sectors - 1
        root == cl_to_sector(2)
    IN /\ root = boot.base + Boundary.reserved_sectors + Boundary.fa_tables * g.sectors_per_fat
       /\ \A s \in tables : boot.base < s /\ s < root
       /\ \A cl \in some :
            /\ root + g.root_dir_sectors <= cl_to_sector(cl)
            /\ cl_to_sector(cl) + g.sectors_per_cluster <= boot.base + boot.size
            /\ \A other \in some \ {cl} :
                 \/ cl_to_sector(cl) + g.sectors_per_cluster <= cl_to_sector(other)
                 \/ cl_to_sector(other) + g.sectors_per_cluster <= cl_to_sector(cl)

\* The link of every cluster is read inside the part of the table that was
\* loaded, except with 32-bit tables, whose size is not where init looks.
LinksOf(some) ==
  Stage("mounted") /\ WellMade /\ boot.geo.fat_type # T_FAT32 =>
    \A cl \in {2} \cup some : LastByte(cl) < boot.geo.table_sectors * DiskSize

\* A disk as the README makes it is mounted, whether the program asks for its
\* first partition or lets the disk look for one.
FirstPartition(d) ==
  /\ d.size >= MinBlocks /\ d.part[1].type # 0 /\ d.part[1].sectors > 1
  /\ d.part[1].lba_begin \in 1 .. d.size - d.part[1].sectors
  /\ d.boot[d.part[1].lba_begin].magic = 43605 /\ LooksLikeFat(d.boot[d.part[1].lba_begin])
  /\ d.boot[d.part[1].lba_begin].hidden_sectors = d.part[1].lba_begin
  /\ d.boot[d.part[1].lba_begin].reserved_sectors < d.part[1].sectors
  /\ ~LooksLikeFat(d.boot[0])
MountsFirst ==
  Booted /\ boot.machine # <<>> /\ FirstPartition(boot.machine[1]) =>
    Stage("mounted") /\ boot.base = boot.machine[1].part[1].lba_begin

\* Where the volume is, and where its parts are, is what the disk says.
MountedRight == boot = NoBoot \/ (LayoutOf(Probes) /\ LinksOf(Probes) /\ MountsFirst)
=============================================================================

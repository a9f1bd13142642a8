----------------------------- MODULE FileProofs -----------------------------
(***************************************************************************)
(* Proofs about the boot chain, the FAT driver and the file functions.     *)
(***************************************************************************)
EXTENDS FileApi, SequenceTheorems, FiniteSetTheorems, WellFoundedInduction, TLAPS

-----------------------------------------------------------------------------
(* Every disk.                                                             *)

BootState ==
  [stage : {"start", "disk", "mbr", "vbr", "mounted", "panic", "undefined"}, machine : Machines, drive : Nat,
   part : 0 .. 4, base : Nat, size : Nat, geo : {Geometry(b) : b \in BootRecord} \cup {<<>>}]

\* The drive is one of the machine, the boundary one of its sectors, and a
\* mounted volume has the geometry its boundary says.
OnDisk ==
  /\ boot.stage \in {"disk", "mbr", "vbr", "mounted"} => boot.drive \in DOMAIN boot.machine
  /\ boot.stage \in {"vbr", "mounted"} => boot.base \in DOMAIN Drive.boot
  /\ boot.stage = "mounted" => boot.geo = Geometry(Boundary)

\* On its way to the first partition of the first drive the system neither
\* panics nor goes anywhere else.
OnTheWay ==
  boot.machine # <<>> /\ FirstPartition(boot.machine[1]) =>
    /\ boot.stage \notin {"panic", "undefined"}
    /\ boot.stage \in {"disk", "mbr", "vbr", "mounted"} => boot.drive = 1
    /\ boot.stage = "mbr" => boot.part = 1
    /\ boot.stage \in {"vbr", "mounted"} => boot.base = boot.machine[1].part[1].lba_begin

BootInv == boot \in BootState /\ OnDisk /\ OnTheWay

\* The drive that is being booted from has the types of a drive.
LEMMA DriveIsTyped ==
  ASSUME boot \in BootState, boot.drive \in DOMAIN boot.machine
  PROVE  DriveTyped(Drive)
  BY MachinesAssumption DEF BootState, Drive

\* The first drive of a machine that has one.
LEMMA FirstDrive ==
  ASSUME boot \in BootState, boot.machine # <<>>
  PROVE  1 \in DOMAIN boot.machine /\ DriveTyped(boot.machine[1])
  BY MachinesAssumption DEF BootState

\* A disk as the README makes it keeps the system on its way.
LEMMA FirstPartitionFits ==
  ASSUME NEW d, DriveTyped(d), FirstPartition(d)
  PROVE  /\ d.size >= MinBlocks /\ ~LooksLikeFat(d.boot[0])
         /\ Readable(d, 0, 1) /\ d.part[1].sectors # 0 /\ d.part[1].lba_begin # 0 /\ d.part[1].type # 0
         /\ d.part[1].lba_begin \in Nat /\ d.part[1].lba_begin \in DOMAIN d.boot
         /\ Readable(d, d.part[1].lba_begin, 1)
         /\ d.boot[d.part[1].lba_begin].magic = 43605
         /\ ~(d.boot[d.part[1].lba_begin].bytes_per_sector < DiskSize)
         /\ ~(Geometry(d.boot[d.part[1].lba_begin]).table_at >= d.size)
<1> DEFINE at == d.part[1].lba_begin
           n == d.part[1].sectors
           b == d.boot[at]
<1>1. d.size \in Nat /\ at \in Nat /\ n \in Nat /\ d.size >= 10
  BY DEF DriveTyped, FirstPartition, PartitionEntry, MinBlocks
<1>2. /\ n > 1 /\ at \in 1 .. d.size - n /\ d.part[1].type # 0
      /\ d.size >= MinBlocks /\ ~LooksLikeFat(d.boot[0])
  BY DEF FirstPartition
<1>3. b.magic = 43605 /\ b.bytes_per_sector >= DiskSize /\ b.hidden_sectors = at /\ b.reserved_sectors < n
  BY DEF FirstPartition, LooksLikeFat
<1>4. at \in DOMAIN d.boot
  BY <1>1, <1>2 DEF DriveTyped
<1>5. b \in BootRecord
  BY <1>4 DEF DriveTyped
<1>6. b.reserved_sectors \in Nat /\ b.bytes_per_sector \in Nat
  BY <1>5 DEF BootRecord
<1>7. Geometry(b).table_at = at + b.reserved_sectors
  BY <1>3 DEF Geometry
<1> HIDE DEF at, n, b
<1>8. /\ Readable(d, 0, 1) /\ Readable(d, at, 1) /\ n # 0 /\ at # 0
      /\ ~(b.bytes_per_sector < DiskSize) /\ ~(Geometry(b).table_at >= d.size)
  BY <1>1, <1>2, <1>3, <1>6, <1>7 DEF Readable, DiskSize
<1> QED
  BY <1>1, <1>2, <1>3, <1>4, <1>8 DEF at, n, b

\* The first drive that is large enough is one of the machine's, and the
\* first one of all if that is large enough.
LEMMA ChooseDriveInv ==
  ASSUME BootInv, ChooseDrive
  PROVE  BootInv'
<1> DEFINE large == {i \in DOMAIN boot.machine : boot.machine[i].size >= MinBlocks}
<1>0. boot \in BootState /\ boot.stage = "start" /\ OnTheWay
  BY DEF BootInv, ChooseDrive, Stage
<1>1. boot.machine # <<>> /\ FirstPartition(boot.machine[1]) => 1 \in large
  <2> SUFFICES ASSUME boot.machine # <<>>, FirstPartition(boot.machine[1]) PROVE 1 \in large
    OBVIOUS
  <2>1. 1 \in DOMAIN boot.machine /\ DriveTyped(boot.machine[1])
    BY <1>0, FirstDrive
  <2>2. boot.machine[1].size >= MinBlocks
    BY <2>1, FirstPartitionFits
  <2> QED
    BY <2>1, <2>2
<1>2. CASE large = {} /\ (Go("panic") \/ Go("undefined"))
  <2>1. boot' \in BootState /\ boot'.machine = boot.machine /\ boot'.stage \in {"panic", "undefined"}
    BY <1>0, <1>2 DEF Go, BootState
  <2> QED
    BY <1>1, <1>2, <2>1 DEF BootInv, OnDisk, OnTheWay
<1>3. CASE \E i \in large : (\A k \in large : i <= k) /\ boot' = [boot EXCEPT !.stage = "disk", !.drive = i]
  <2>1. PICK i \in large : (\A k \in large : i <= k) /\ boot' = [boot EXCEPT !.stage = "disk", !.drive = i]
    BY <1>3
  <2>2. i \in DOMAIN boot.machine /\ i \in Nat /\ i >= 1
    BY <1>0, MachinesAssumption DEF BootState
  <2>3. /\ boot' \in BootState /\ boot'.machine = boot.machine
        /\ boot'.stage = "disk" /\ boot'.drive = i
    BY <1>0, <2>1, <2>2 DEF BootState
  <2>4. 1 \in large => i = 1
    BY <2>1, <2>2
  <2> QED
    BY <1>1, <2>2, <2>3, <2>4 DEF BootInv, OnDisk, OnTheWay
<1> QED
  BY <1>2, <1>3 DEF ChooseDrive

\* The partition the program asks for, or the one the disk finds, is the
\* first one where there is one and the drive does not begin with a volume.
LEMMA InitInv ==
  ASSUME BootInv, InitPartition \/ InitDetect
  PROVE  BootInv'
<1>0. boot \in BootState /\ boot.stage = "disk" /\ OnTheWay /\ boot.drive \in DOMAIN boot.machine
  BY DEF BootInv, OnDisk, InitPartition, InitDetect, Stage
<1> DEFINE First == boot.machine # <<>> /\ FirstPartition(boot.machine[1])
<1>1. First => Drive = boot.machine[1]
  BY <1>0 DEF OnTheWay, Drive
<1>2. DriveTyped(Drive)
  BY <1>0, DriveIsTyped
<1>3. CASE InitPartition
  <2>1. /\ boot' \in BootState /\ boot'.machine = boot.machine /\ boot'.drive = boot.drive
        /\ boot'.stage = "mbr" /\ boot'.part = 1
    <3>1. boot' = [boot EXCEPT !.stage = "mbr", !.part = 1] /\ 1 \in 0 .. 4
      BY <1>3 DEF InitPartition
    <3> QED
      BY <1>0, <3>1 DEF BootState
  <2> QED
    BY <1>0, <2>1 DEF BootInv, OnDisk, OnTheWay
<1>4. CASE InitDetect
  <2> DEFINE used == {i \in 1 .. 4 : Drive.part[i].type # 0 /\ Drive.part[i].lba_begin # 0 /\ Drive.part[i].sectors # 0}
             found == IF LooksLikeFat(Drive.boot[0]) THEN {0} ELSE used
  <2>1. First => Readable(Drive, 0, 1) /\ 1 \in used /\ found = used
    <3> SUFFICES ASSUME First PROVE Readable(Drive, 0, 1) /\ 1 \in used /\ found = used
      OBVIOUS
    <3>1. FirstPartition(Drive)
      BY <1>1
    <3>2. /\ Readable(Drive, 0, 1) /\ ~LooksLikeFat(Drive.boot[0])
          /\ Drive.part[1].type # 0 /\ Drive.part[1].lba_begin # 0 /\ Drive.part[1].sectors # 0
      BY <1>2, <3>1, FirstPartitionFits
    <3> QED
      BY <3>2
  <2>2. found \subseteq 0 .. 4 /\ used \subseteq 1 .. 4
    OBVIOUS
  <2>3. CASE (~Readable(Drive, 0, 1) \/ found = {}) /\ Go("panic")
    <3>1. boot' \in BootState /\ boot'.machine = boot.machine /\ boot'.stage = "panic"
      BY <1>0, <2>3 DEF Go, BootState
    <3>2. ~First
      BY <2>1, <2>3
    <3> QED
      BY <3>1, <3>2 DEF BootInv, OnDisk, OnTheWay
  <2>4. CASE \E i \in found : (\A k \in found : i <= k) /\ boot' = [boot EXCEPT !.stage = "mbr", !.part = i]
    <3>1. PICK i \in found : (\A k \in found : i <= k) /\ boot' = [boot EXCEPT !.stage = "mbr", !.part = i]
      BY <2>4
    <3> HIDE DEF found, used, First
    <3>2. i \in 0 .. 4
      BY <2>2, <3>1
    <3>3. First => i = 1
      BY <2>1, <2>2, <3>1, <3>2
    <3>4. /\ boot' \in BootState /\ boot'.machine = boot.machine /\ boot'.drive = boot.drive
          /\ boot'.stage = "mbr" /\ boot'.part = i
      BY <1>0, <3>1, <3>2 DEF BootState
    <3> QED
      BY <1>0, <3>3, <3>4 DEF BootInv, OnDisk, OnTheWay, First
  <2> QED
    BY <1>4, <2>3, <2>4 DEF InitDetect
<1> QED
  BY <1>3, <1>4

\* The place of a partition is where the drive has a boundary.
LEMMA InternalInitInv ==
  ASSUME BootInv, internal_init
  PROVE  BootInv'
<1>0. boot \in BootState /\ boot.stage = "mbr" /\ OnTheWay /\ boot.drive \in DOMAIN boot.machine
  BY DEF BootInv, OnDisk, internal_init, Stage
<1> DEFINE First == boot.machine # <<>> /\ FirstPartition(boot.machine[1])
<1>1. First => Drive = boot.machine[1] /\ boot.part = 1
  BY <1>0 DEF OnTheWay, Drive
<1>2. DriveTyped(Drive)
  BY <1>0, DriveIsTyped
<1>3. First => /\ Readable(Drive, 0, 1) /\ Drive.part[1].sectors # 0
  BY <1>1, <1>2, FirstPartitionFits
<1>4. boot.part \in 0 .. 4
  BY <1>0 DEF BootState
<1>5. CASE boot' = [boot EXCEPT !.stage = "vbr", !.base = 0, !.size = Drive.size] /\ boot.part = 0
  <2>1. Drive.size \in Nat /\ 0 \in DOMAIN Drive.boot
    BY <1>2 DEF DriveTyped
  <2>2. /\ boot' \in BootState /\ boot'.machine = boot.machine /\ boot'.drive = boot.drive
        /\ boot'.stage = "vbr" /\ boot'.base = 0
    BY <1>0, <1>5, <2>1 DEF BootState
  <2>3. ~First
    BY <1>1, <1>5
  <2> QED
    BY <1>0, <2>1, <2>2, <2>3 DEF BootInv, OnDisk, OnTheWay, Drive
<1>6. CASE (~Readable(Drive, 0, 1) \/ Drive.part[boot.part].sectors = 0) /\ Go("panic")
  <2>1. boot' \in BootState /\ boot'.machine = boot.machine /\ boot'.stage = "panic"
    BY <1>0, <1>6 DEF Go, BootState
  <2>2. ~First
    BY <1>1, <1>3, <1>6
  <2> QED
    BY <2>1, <2>2 DEF BootInv, OnDisk, OnTheWay
<1>7. CASE /\ boot.part # 0 /\ Drive.part[boot.part].sectors # 0
           /\ boot' = [boot EXCEPT !.stage = "vbr", !.base = Drive.part[boot.part].lba_begin,
                                   !.size = Drive.part[boot.part].sectors]
  <2>1. /\ Drive.part[boot.part].lba_begin \in Nat /\ Drive.part[boot.part].sectors \in Nat
        /\ Drive.part[boot.part].lba_begin \in DOMAIN Drive.boot
    BY <1>2, <1>4, <1>7 DEF DriveTyped, PartitionEntry
  <2>2. /\ boot' \in BootState /\ boot'.machine = boot.machine /\ boot'.drive = boot.drive
        /\ boot'.stage = "vbr" /\ boot'.base = Drive.part[boot.part].lba_begin
    BY <1>0, <1>7, <2>1 DEF BootState
  <2> QED
    BY <1>0, <1>1, <2>1, <2>2 DEF BootInv, OnDisk, OnTheWay, Drive
<1> QED
  BY <1>5, <1>6, <1>7 DEF internal_init, PartIndex

\* The geometry that is kept is that of the boundary that was read.
LEMMA FatInitInv ==
  ASSUME BootInv, FatInit
  PROVE  BootInv'
<1>0. /\ boot \in BootState /\ boot.stage = "vbr" /\ OnTheWay
      /\ boot.drive \in DOMAIN boot.machine /\ boot.base \in DOMAIN Drive.boot
  BY DEF BootInv, OnDisk, FatInit, Stage
<1> DEFINE First == boot.machine # <<>> /\ FirstPartition(boot.machine[1])
           b == Drive.boot[boot.base]
           g == Geometry(b)
           Rejected == b.magic # 43605 \/ b.bytes_per_sector < DiskSize \/ g.table_at >= Drive.size
<1>1. First => Drive = boot.machine[1] /\ boot.base = Drive.part[1].lba_begin
  BY <1>0 DEF OnTheWay, Drive
<1>2. DriveTyped(Drive) /\ b \in BootRecord
  BY <1>0, DriveIsTyped DEF DriveTyped
<1>3. First => Readable(Drive, boot.base, 1) /\ ~Rejected
  BY <1>1, <1>2, FirstPartitionFits
<1>4. CASE (~Readable(Drive, boot.base, 1) \/ Rejected) /\ (Go("undefined") \/ Go("panic"))
  <2>1. boot' \in BootState /\ boot'.machine = boot.machine /\ boot'.stage \in {"panic", "undefined"}
    BY <1>0, <1>4 DEF Go, BootState
  <2>2. ~First
    BY <1>3, <1>4
  <2> QED
    BY <2>1, <2>2 DEF BootInv, OnDisk, OnTheWay
<1>5. CASE boot' = [boot EXCEPT !.stage = "mounted", !.geo = g]
  <2>1. g \in {Geometry(c) : c \in BootRecord} \cup {<<>>}
    BY <1>2
  <2> HIDE DEF g
  <2>2. /\ boot' \in BootState /\ boot'.machine = boot.machine /\ boot'.drive = boot.drive
        /\ boot'.stage = "mounted" /\ boot'.base = boot.base /\ boot'.geo = g
    BY <1>0, <1>5, <2>1 DEF BootState
  <2>3. Drive' = Drive /\ Boundary' = b
    BY <2>2 DEF Drive, Boundary
  <2>4. OnDisk'
    BY <1>0, <2>2, <2>3 DEF OnDisk, g
  <2>5. OnTheWay'
    BY <1>0, <2>2 DEF OnTheWay
  <2> QED
    BY <2>2, <2>4, <2>5 DEF BootInv
<1> QED
  BY <1>4, <1>5 DEF FatInit

\* Every step of the boot keeps to the disk.
LEMMA BootInvHolds ==
  Spec => [](boot = NoBoot \/ BootInv)
<1>1. BootInit => BootInv
  <2> SUFFICES ASSUME BootInit PROVE BootInv
    OBVIOUS
  <2>1. boot \in BootState /\ boot.stage = "start"
    BY DEF BootInit, Start, BootState
  <2> QED
    BY <2>1 DEF BootInv, OnDisk, OnTheWay
<1>2. BootInv /\ [BootNext]_boot => BootInv'
  <2> SUFFICES ASSUME BootInv, [BootNext]_boot PROVE BootInv'
    OBVIOUS
  <2>1. CASE UNCHANGED boot
    BY <2>1 DEF BootInv, OnDisk, OnTheWay, Drive, Boundary
  <2> QED
    BY <2>1, ChooseDriveInv, InitInv, InternalInitInv, FatInitInv DEF BootNext
<1>3. Init => boot = NoBoot \/ BootInv
  BY <1>1 DEF Init
<1>4. (boot = NoBoot \/ BootInv) /\ [Next]_vars => (boot = NoBoot \/ BootInv)'
  <2> SUFFICES ASSUME boot = NoBoot \/ BootInv, [Next]_vars PROVE (boot = NoBoot \/ BootInv)'
    OBVIOUS
  <2>1. UNCHANGED boot \/ (boot # NoBoot /\ BootNext)
    BY DEF Next, vars
  <2>2. CASE boot = NoBoot
    BY <2>1, <2>2
  <2>3. CASE BootInv
    BY <1>2, <2>1, <2>3
  <2> QED
    BY <2>2, <2>3
<1> QED
  BY <1>3, <1>4, PTL DEF Spec

\* The products that the layout of a volume is made of.
LEMMA Products ==
  ASSUME NEW s \in Nat
  PROVE  /\ \A a, c \in Nat : a <= c => a * s <= c * s
         /\ \A a \in Nat : a * s \in Nat /\ (a + 1) * s = a * s + s
  BY Z3

\* The clusters of a volume fill no more than what follows its tables.
LEMMA Quotient ==
  ASSUME NEW n \in Nat, NEW s \in Nat \ {0}
  PROVE  n \div s \in Nat /\ (n \div s) * s <= n
  BY Z3

\* The geometry of a volume, as numbers.
LEMMA GeometryOf ==
  ASSUME NEW b \in BootRecord, Geometry(b).sectors_per_cluster > 0,
         Geometry(b).data_index < Geometry(b).sectors, b.fa_tables > 0, b.bytes_per_sector = DiskSize
  PROVE  LET g == Geometry(b)
         IN /\ g.sectors_per_cluster \in Nat \ {0} /\ g.root_dir_sectors \in Nat /\ g.sectors_per_fat \in Nat
            /\ g.sectors \in Nat /\ g.clusters \in Nat /\ g.table_sectors \in Nat
            /\ b.fa_tables * g.sectors_per_fat \in Nat
            /\ g.data_index = b.reserved_sectors + b.fa_tables * g.sectors_per_fat + g.root_dir_sectors
            /\ g.data_index + g.clusters * g.sectors_per_cluster <= g.sectors
            /\ g.table_sectors <= b.fa_tables * g.sectors_per_fat
            /\ g.table_at = b.hidden_sectors + b.reserved_sectors
            /\ g.root_cluster = 2
<1>1. /\ b.sectors_per_cluster \in Nat \ {0} /\ b.fa_tables \in Nat \ {0} /\ b.reserved_sectors \in Nat
      /\ b.sectors_per_fat \in Nat /\ b.sectors_per_fat32 \in Nat /\ b.root_entries \in Nat
      /\ b.small_sectors \in Nat /\ b.large_sectors \in Nat
  BY DEF BootRecord, Geometry
<1> DEFINE spf == IF b.sectors_per_fat # 0 THEN b.sectors_per_fat ELSE b.sectors_per_fat32
           root == ((b.root_entries * 32 + b.bytes_per_sector - 1) \div b.bytes_per_sector) % 65536
           data == b.reserved_sectors + b.fa_tables * spf + root
           sectors == IF b.small_sectors # 0 THEN b.small_sectors ELSE b.large_sectors
           clusters == IF sectors < data THEN Wrapped ELSE (sectors - data) \div b.sectors_per_cluster
           loaded == IF b.sectors_per_fat = 0 THEN 0 ELSE IF b.sectors_per_fat % 256 = 0 THEN 256 ELSE b.sectors_per_fat % 256
           g == Geometry(b)
<1>2. /\ g.sectors_per_cluster = b.sectors_per_cluster /\ g.root_dir_sectors = root /\ g.sectors_per_fat = spf
      /\ g.sectors = sectors /\ g.clusters = clusters /\ g.table_sectors = loaded /\ g.data_index = data
      /\ g.table_at = b.hidden_sectors + b.reserved_sectors /\ g.root_cluster = 2
  BY DEF Geometry
<1>3. spf \in Nat /\ sectors \in Nat /\ loaded \in Nat /\ loaded <= spf
  BY <1>1
<1>4. root \in Nat
  BY <1>1 DEF DiskSize
<1>5. data < sectors
  BY <1>2
<1> DEFINE t == b.fa_tables * spf
<1> HIDE DEF spf, root, sectors, loaded, g
<1>6. t \in Nat /\ spf <= t
  <2>1. 1 * spf <= b.fa_tables * spf /\ b.fa_tables * spf \in Nat /\ 1 * spf = spf
    BY <1>1, <1>3, Products
  <2> QED
    BY <2>1
<1> HIDE DEF t
<1>7. data = b.reserved_sectors + t + root
  BY DEF t
<1>8. clusters = (sectors - data) \div b.sectors_per_cluster /\ sectors - data \in Nat /\ data \in Nat
  BY <1>1, <1>3, <1>4, <1>5, <1>6, <1>7
<1> HIDE DEF data, clusters
<1>9. clusters \in Nat /\ clusters * b.sectors_per_cluster <= sectors - data
  BY <1>1, <1>8, Quotient
<1>10. data + clusters * b.sectors_per_cluster <= sectors
  <2> DEFINE p == clusters * b.sectors_per_cluster
  <2>1. p \in Nat /\ p <= sectors - data
    BY <1>1, <1>9, Products
  <2> HIDE DEF p
  <2>2. data + p <= sectors
    BY <1>3, <1>8, <2>1
  <2> QED
    BY <2>2 DEF p
<1>11. loaded <= t
  BY <1>3, <1>6
<1> QED
  BY <1>1, <1>2, <1>3, <1>4, <1>6, <1>7, <1>9, <1>10, <1>11 DEF g, t, data

\* What a well-made volume on a mounted disk is, as numbers.
LEMMA MountedVolume ==
  ASSUME BootInv, Stage("mounted"), WellMade
  PROVE  /\ boot.base \in Nat /\ boot.size \in Nat /\ Boundary \in BootRecord
         /\ boot.geo = Geometry(Boundary) /\ Boundary.bytes_per_sector = DiskSize
         /\ Geometry(Boundary).sectors_per_cluster > 0 /\ Boundary.fa_tables > 0
         /\ Geometry(Boundary).data_index < Geometry(Boundary).sectors
<1>1. /\ boot \in BootState /\ boot.drive \in DOMAIN boot.machine /\ boot.base \in DOMAIN Drive.boot
      /\ boot.geo = Geometry(Boundary)
  BY DEF BootInv, OnDisk, Stage
<1>2. Boundary \in BootRecord
  BY <1>1, DriveIsTyped DEF DriveTyped, Boundary
<1>3. boot.base \in Nat /\ boot.size \in Nat
  BY <1>1 DEF BootState
<1>4. boot.geo.sector_size = Boundary.bytes_per_sector
  BY <1>1 DEF Geometry
<1> QED
  BY <1>1, <1>2, <1>3, <1>4 DEF WellMade

\* Where the clusters lie: one behind the other, behind the root directory
\* and inside the partition.
LEMMA ClustersApart ==
  ASSUME NEW base \in Nat, NEW size \in Nat, NEW data \in Nat, NEW s \in Nat, NEW n \in Nat, NEW sectors \in Nat,
         data + n * s <= sectors, sectors <= size,
         NEW cl \in 3 .. n + 1
  PROVE  /\ base + data <= base + data + (cl - 2) * s
         /\ base + data + (cl - 2) * s + s <= base + size
         /\ \A other \in 3 .. n + 1 : cl < other => base + data + (cl - 2) * s + s <= base + data + (other - 2) * s
<1>1. /\ cl - 2 \in Nat /\ (cl - 2) * s \in Nat
      /\ (cl - 2) * s + s = (cl - 2 + 1) * s /\ (cl - 2 + 1) * s <= n * s /\ n * s \in Nat
  BY Products
<1> DEFINE p == (cl - 2) * s
           q == n * s
<1>2. p \in Nat /\ q \in Nat /\ p + s <= q /\ data + q <= sectors
  BY <1>1
<1>3. \A other \in 3 .. n + 1 : cl < other => p + s <= (other - 2) * s /\ (other - 2) * s \in Nat
  BY <1>1, Products
<1> HIDE DEF p, q
<1>4. base + data <= base + data + p /\ base + data + p + s <= base + size
  BY <1>2
<1>5. ASSUME NEW other \in 3 .. n + 1, cl < other
      PROVE  base + data + p + s <= base + data + (other - 2) * s
  <2> DEFINE r == (other - 2) * s
  <2>1. r \in Nat /\ p + s <= r
    BY <1>3, <1>5
  <2> HIDE DEF r
  <2>2. base + data + p + s <= base + data + r
    BY <1>2, <2>1
  <2> QED
    BY <2>2 DEF r
<1> QED
  BY <1>4, <1>5 DEF p

\* On every mounted volume that was made as the format asks the table, the
\* root directory and all its clusters lie apart and inside the partition.
LEMMA EveryClusterApart ==
  ASSUME BootInv
  PROVE  LayoutOf(AllClusters)
<1> SUFFICES ASSUME Stage("mounted"), WellMade PROVE LayoutOf(AllClusters)
  BY DEF LayoutOf
<1> DEFINE g == boot.geo
           b == Boundary
           t == b.fa_tables * g.sectors_per_fat
<1>1. /\ boot.base \in Nat /\ boot.size \in Nat /\ b \in BootRecord /\ g = Geometry(b)
      /\ b.bytes_per_sector = DiskSize
      /\ Geometry(b).sectors_per_cluster > 0 /\ b.fa_tables > 0
      /\ Geometry(b).data_index < Geometry(b).sectors
  BY MountedVolume
<1>2. /\ g.sectors_per_cluster \in Nat \ {0} /\ g.root_dir_sectors \in Nat /\ g.sectors_per_fat \in Nat
      /\ g.sectors \in Nat /\ g.clusters \in Nat /\ g.table_sectors \in Nat /\ t \in Nat
      /\ g.data_index = b.reserved_sectors + t + g.root_dir_sectors
      /\ g.data_index + g.clusters * g.sectors_per_cluster <= g.sectors
      /\ g.table_sectors <= t
      /\ g.table_at = b.hidden_sectors + b.reserved_sectors
      /\ g.root_cluster = 2
  BY <1>1, GeometryOf
<1>3. b.reserved_sectors \in Nat \ {0} /\ b.hidden_sectors = boot.base /\ g.sectors <= boot.size
  BY <1>1 DEF WellMade, BootRecord
<1>4. cl_to_sector(2) = boot.base + g.data_index + (g.root_cluster - 2) * g.sectors_per_cluster - g.root_dir_sectors
  BY DEF cl_to_sector
<1>5. \A cl \in AllClusters : cl_to_sector(cl) = boot.base + g.data_index + (cl - 2) * g.sectors_per_cluster
  BY <1>2 DEF cl_to_sector, AllClusters
<1> DEFINE root == cl_to_sector(2)
           tables == g.table_at .. g.table_at + g.table_sectors - 1
<1> HIDE DEF t, g, b
<1>6. g.data_index \in Nat /\ (g.root_cluster - 2) * g.sectors_per_cluster = 0
  BY <1>2, <1>3
<1>7. root = boot.base + b.reserved_sectors + t /\ root + g.root_dir_sectors = boot.base + g.data_index
  <2> HIDE DEF root
  <2>1. root = boot.base + g.data_index + 0 - g.root_dir_sectors
    BY <1>4, <1>6 DEF root, g
  <2> QED
    BY <1>1, <1>2, <1>3, <1>6, <2>1
<1> HIDE DEF root
<1>8. \A s \in tables : boot.base < s /\ s < root
  <2>1. g.table_at = boot.base + b.reserved_sectors /\ g.table_at \in Nat
    BY <1>1, <1>2, <1>3
  <2>2. g.table_at > boot.base /\ g.table_at + g.table_sectors <= root
    BY <1>1, <1>2, <1>3, <1>7, <2>1
  <2>3. root \in Nat
    BY <1>1, <1>2, <1>3, <1>7
  <2> QED
    BY <1>1, <1>2, <2>1, <2>2, <2>3
<1>9. \A cl \in AllClusters :
        /\ root + g.root_dir_sectors <= cl_to_sector(cl)
        /\ cl_to_sector(cl) + g.sectors_per_cluster <= boot.base + boot.size
        /\ \A other \in AllClusters : cl < other =>
             cl_to_sector(cl) + g.sectors_per_cluster <= cl_to_sector(other)
  <2> SUFFICES ASSUME NEW cl \in AllClusters
               PROVE  /\ root + g.root_dir_sectors <= cl_to_sector(cl)
                      /\ cl_to_sector(cl) + g.sectors_per_cluster <= boot.base + boot.size
                      /\ \A other \in AllClusters : cl < other =>
                           cl_to_sector(cl) + g.sectors_per_cluster <= cl_to_sector(other)
    OBVIOUS
  <2>1. AllClusters = 3 .. g.clusters + 1
    BY DEF AllClusters, g
  <2>2. LET x == boot.base + g.data_index + (cl - 2) * g.sectors_per_cluster
        IN /\ boot.base + g.data_index <= x
           /\ x + g.sectors_per_cluster <= boot.base + boot.size
           /\ \A other \in 3 .. g.clusters + 1 : cl < other =>
                x + g.sectors_per_cluster <= boot.base + g.data_index + (other - 2) * g.sectors_per_cluster
    BY <1>1, <1>2, <1>3, <1>6, <2>1, ClustersApart
  <2> QED
    BY <1>5, <1>7, <2>1, <2>2
<1>10. AllClusters \subseteq Int
  BY <1>2 DEF AllClusters, g
<1> QED
  <2>1. \A cl \in AllClusters : \A other \in AllClusters \ {cl} :
          \/ cl_to_sector(cl) + g.sectors_per_cluster <= cl_to_sector(other)
          \/ cl_to_sector(other) + g.sectors_per_cluster <= cl_to_sector(cl)
    BY <1>9, <1>10
  <2> QED
    BY <1>7, <1>8, <1>9, <2>1 DEF LayoutOf, root, g, b, t

\* On every such volume the link of every cluster is in the table that was
\* loaded, unless the table has 32-bit entries.
LEMMA EveryLinkLoaded ==
  ASSUME BootInv
  PROVE  LinksOf(AllClusters)
<1> SUFFICES ASSUME Stage("mounted"), WellMade, boot.geo.fat_type # T_FAT32,
                    NEW cl \in {2} \cup AllClusters
             PROVE  LastByte(cl) < boot.geo.table_sectors * DiskSize
  BY DEF LinksOf
<1>1. /\ Boundary \in BootRecord /\ boot.geo = Geometry(Boundary) /\ Boundary.bytes_per_sector = DiskSize
      /\ Geometry(Boundary).sectors_per_cluster > 0 /\ Boundary.fa_tables > 0
      /\ Geometry(Boundary).data_index < Geometry(Boundary).sectors
  BY MountedVolume
<1>2. boot.geo.clusters \in Nat /\ boot.geo.table_sectors \in Nat /\ boot.geo.sectors_per_fat \in Nat
  BY <1>1, GeometryOf
<1>3. Boundary.sectors_per_fat \in 1 .. 256
  BY DEF WellMade
<1>4. /\ boot.geo.sectors_per_fat = Boundary.sectors_per_fat
      /\ boot.geo.table_sectors = IF Boundary.sectors_per_fat = 0 THEN 0
           ELSE IF Boundary.sectors_per_fat % 256 = 0 THEN 256 ELSE Boundary.sectors_per_fat % 256
      /\ boot.geo.sector_size = 512 /\ boot.geo.fat_type \in {T_FAT12, T_FAT16, T_FAT32}
  BY <1>1, <1>3 DEF Geometry, DiskSize
<1> DEFINE f == boot.geo.table_sectors
           n == boot.geo.clusters
<1>5. f = boot.geo.sectors_per_fat /\ f \in 1 .. 256
  BY <1>3, <1>4
<1>6. n \in Nat /\ cl \in Nat /\ (cl = 2 \/ cl <= n + 1)
  BY <1>2 DEF AllClusters
<1>7. (n + 2) * EntryBits <= f * 512 * 8
  BY <1>4, <1>5 DEF WellMade
<1>8. CASE boot.geo.fat_type = T_FAT12
  <2>1. (n + 2) * 12 <= f * 512 * 8
    BY <1>7, <1>8 DEF EntryBits
  <2>2. LastByte(cl) = IF cl % 2 = 1 THEN (cl \div 2) * 3 + 2 ELSE (cl \div 2) * 3 + 1
    BY <1>8 DEF LastByte, T_FAT12, T_FAT16
  <2> HIDE DEF f, n
  <2> QED
    BY <1>5, <1>6, <2>1, <2>2 DEF DiskSize, f
<1>9. CASE boot.geo.fat_type = T_FAT16
  <2>1. (n + 2) * 16 <= f * 512 * 8
    BY <1>7, <1>9 DEF EntryBits, T_FAT12, T_FAT16
  <2>2. LastByte(cl) = cl * 2 + 1
    BY <1>9 DEF LastByte, T_FAT12, T_FAT16
  <2> HIDE DEF f, n
  <2> QED
    BY <1>5, <1>6, <2>1, <2>2 DEF DiskSize, f
<1> QED
  BY <1>4, <1>8, <1>9

\* A system on its way to the first partition ends there.
LEMMA FirstMounted ==
  ASSUME BootInv
  PROVE  MountsFirst
  BY DEF BootInv, OnTheWay, MountsFirst, Booted, Stage

\* On every machine, whatever its drives hold, a mounted volume that was made
\* as the format asks is read where it is: its table, root directory and
\* clusters are apart and inside the partition, its links inside the table
\* that was loaded.  The first partition of a disk as the README makes it is
\* always found.
THEOREM MountsWhereItIs ==
  Spec => []MountedRight
<1>1. boot = NoBoot \/ BootInv => MountedRight
  <2> SUFFICES ASSUME BootInv PROVE MountedRight
    BY DEF MountedRight
  <2>1. LayoutOf(AllClusters) /\ LinksOf(AllClusters)
    BY EveryClusterApart, EveryLinkLoaded
  <2>2. Probes \subseteq AllClusters
    BY DEF Probes
  <2>3. LayoutOf(Probes)
    BY <2>1, <2>2 DEF LayoutOf
  <2>4. LinksOf(Probes)
    BY <2>1, <2>2 DEF LinksOf
  <2> QED
    BY <2>3, <2>4, FirstMounted DEF MountedRight
<1> QED
  BY <1>1, BootInvHolds, PTL

\* The same of every cluster, not only of the first and the last ones.
THEOREM EveryClusterInPlace ==
  Spec => [](boot # NoBoot => LayoutOf(AllClusters) /\ LinksOf(AllClusters) /\ MountsFirst)
<1>1. BootInv => LayoutOf(AllClusters) /\ LinksOf(AllClusters) /\ MountsFirst
  BY EveryClusterApart, EveryLinkLoaded, FirstMounted
<1>2. boot = NoBoot \/ BootInv => (boot # NoBoot => LayoutOf(AllClusters) /\ LinksOf(AllClusters) /\ MountsFirst)
  BY <1>1
<1> QED
  BY <1>2, BootInvHolds, PTL

-----------------------------------------------------------------------------
(* Numbers and sequences.                                                  *)

(* Every set of numbers has a least one: induction, in the form of a least *)
(* counterexample.                                                         *)
LEMMA LeastNumber ==
  ASSUME NEW T, T \subseteq Nat, T # {}
  PROVE  \E m \in T : \A k \in T : m <= k
<1>1. PICK m \in T : \A k \in T : ~(<<k, m>> \in OpToRel(<, Nat))
  BY NatLessThanWellFounded, WFMin
<1>2. \A k \in T : ~(k < m)
  BY <1>1 DEF OpToRel
<1>3. QED
  BY <1>2

(* What SelectInSeq picks with Min is one of the numbers it picks from.    *)
LEMMA MinIsIn ==
  ASSUME NEW T, T \subseteq Nat, T # {}
  PROVE  Min(T) \in T /\ \A k \in T : Min(T) <= k
  BY LeastNumber DEF Min

(* FirstMatch is 0 or the place of an entry.                               *)
LEMMA FirstMatchIn ==
  ASSUME NEW S, NEW ents \in Seq(S), NEW name
  PROVE  FirstMatch(ents, name) \in {0} \cup DOMAIN ents
<1> DEFINE I == {i \in 1 .. Len(ents) : iequals(ents[i].name, name)}
<1>1. Len(ents) \in Nat /\ DOMAIN ents = 1 .. Len(ents)
  OBVIOUS
<1>2. FirstMatch(ents, name) = IF I # {} THEN Min(I) ELSE 0
  BY DEF FirstMatch, SelectInSeq
<1>3. I \subseteq Nat
  BY <1>1
<1>4. I # {} => Min(I) \in I
  BY <1>3, MinIsIn
<1> HIDE DEF I
<1>5. I \subseteq DOMAIN ents
  BY <1>1 DEF I
<1> QED
  BY <1>2, <1>4, <1>5

(* FlattenSeq's loop is defined, and gives sequences of what it is given.  *)
FlattenBody(ss, f, i) == IF i = 1 THEN ss[i] ELSE f[i - 1] \o ss[i]

(* There is such a loop.                                                   *)
LEMMA FlattenDefined ==
  ASSUME NEW ss, NEW n \in Nat, n > 0
  PROVE  \E f : f = [i \in 1 .. n |-> FlattenBody(ss, f, i)]
<1> DEFINE Ok(m) == \E f : f = [i \in 1 .. m |-> FlattenBody(ss, f, i)]
           Bad == {m \in Nat : m > 0 /\ ~Ok(m)}
<1> SUFFICES ASSUME Bad # {} PROVE FALSE
  OBVIOUS
<1>1. PICK m \in Bad : \A k \in Bad : m <= k
  <2>1. Bad \subseteq Nat
    OBVIOUS
  <2> HIDE DEF Bad
  <2> QED
    BY <2>1, LeastNumber
<1>2. m \in Nat /\ m > 0 /\ ~Ok(m)
  OBVIOUS
<1>3. CASE m = 1
  <2> DEFINE g == [i \in 1 .. m |-> ss[i]]
  <2>1. \A i \in 1 .. m : g[i] = FlattenBody(ss, g, i)
    BY <1>3 DEF FlattenBody
  <2>2. g = [i \in 1 .. m |-> FlattenBody(ss, g, i)]
    BY <2>1
  <2> QED
    BY <1>2, <2>2
<1>4. CASE m # 1
  <2>1. m - 1 \in Nat /\ m - 1 > 0 /\ ~(m <= m - 1)
    BY <1>2, <1>4
  <2>2. Ok(m - 1)
    BY <1>1, <2>1
  <2> HIDE DEF Bad
  <2>3. PICK f : f = [i \in 1 .. m - 1 |-> FlattenBody(ss, f, i)]
    BY <2>2
  <2> DEFINE z == f[m - 1] \o ss[m]
             g == [i \in 1 .. m |-> IF i < m THEN f[i] ELSE z]
  <2> HIDE DEF z
  <2>4. ASSUME NEW i \in 1 .. m PROVE g[i] = FlattenBody(ss, g, i)
    <3>1. CASE i < m
      <4>1. i \in 1 .. m - 1 /\ f[i] = FlattenBody(ss, f, i) /\ g[i] = f[i]
        BY <1>2, <2>1, <2>3, <3>1
      <4>2. i # 1 => g[i - 1] = f[i - 1]
        BY <1>2, <2>1, <3>1
      <4> QED
        BY <4>1, <4>2 DEF FlattenBody
    <3>2. CASE i = m
      <4>1. g[i] = z /\ g[m - 1] = f[m - 1]
        BY <1>2, <2>1, <3>2
      <4> HIDE DEF g
      <4> QED
        BY <1>4, <3>2, <4>1 DEF FlattenBody, z
    <3> QED
      BY <1>2, <2>1, <3>1, <3>2
  <2>5. g = [i \in 1 .. m |-> FlattenBody(ss, g, i)]
    BY <2>4
  <2> QED
    BY <1>2, <2>5
<1> QED
  BY <1>3, <1>4

(* FlattenSeq is what that loop has at its end.                            *)
LEMMA FlattenFunction ==
  ASSUME NEW ss, NEW n \in Nat, n > 0, Len(ss) = n
  PROVE  \E f : /\ FlattenSeq(ss) = f[n]
                /\ \A i \in 1 .. n : f[i] = IF i = 1 THEN ss[i] ELSE f[i - 1] \o ss[i]
<1> DEFINE fl == CHOOSE f : f = [i \in 1 .. n |-> IF i = 1 THEN ss[i] ELSE f[i - 1] \o ss[i]]
<1>1. FlattenSeq(ss) = fl[n]
  BY DEF FlattenSeq
<1>2. \E f : f = [i \in 1 .. n |-> IF i = 1 THEN ss[i] ELSE f[i - 1] \o ss[i]]
  BY FlattenDefined DEF FlattenBody
<1>3. fl = [i \in 1 .. n |-> IF i = 1 THEN ss[i] ELSE fl[i - 1] \o ss[i]]
  BY <1>2
<1> HIDE DEF fl
<1>4. \A i \in 1 .. n : fl[i] = IF i = 1 THEN ss[i] ELSE fl[i - 1] \o ss[i]
  BY <1>3
<1> QED
  BY <1>1, <1>4

(* Two sequences of S, one behind the other, are a sequence of S.          *)
LEMMA FlattenIsSeq ==
  ASSUME NEW S, NEW n \in Nat, NEW ss, Len(ss) = n, ss \in [1 .. n -> Seq(S)]
  PROVE  FlattenSeq(ss) \in Seq(S)
<1>1. CASE n = 0
  <2>1. FlattenSeq(ss) = ss
    BY <1>1 DEF FlattenSeq
  <2>2. ss = <<>>
    BY <1>1
  <2> QED
    BY <2>1, <2>2
<1>2. CASE n > 0
  <2>1. PICK f : /\ FlattenSeq(ss) = f[n]
                 /\ \A i \in 1 .. n : f[i] = IF i = 1 THEN ss[i] ELSE f[i - 1] \o ss[i]
    BY <1>2, FlattenFunction
  <2> DEFINE Bad == {i \in 1 .. n : f[i] \notin Seq(S)}
  <2>2. Bad = {}
    <3> SUFFICES ASSUME Bad # {} PROVE FALSE
      OBVIOUS
    <3>1. Bad \subseteq Nat
      OBVIOUS
    <3>2. PICK m \in Bad : \A k \in Bad : m <= k
      <4> HIDE DEF Bad
      <4> QED
        BY <3>1, LeastNumber
    <3>3. m \in 1 .. n /\ f[m] \notin Seq(S)
      OBVIOUS
    <3>4. m # 1
      BY <2>1, <3>3
    <3>5. m - 1 \in 1 .. n /\ ~(m <= m - 1)
      BY <3>3, <3>4
    <3>6. f[m - 1] \in Seq(S)
      BY <3>2, <3>5
    <3>7. f[m] = f[m - 1] \o ss[m] /\ ss[m] \in Seq(S)
      BY <2>1, <3>3, <3>4
    <3> QED
      BY <3>3, <3>6, <3>7, ConcatProperties
  <2>3. n \in 1 .. n
    BY <1>2
  <2> QED
    BY <2>1, <2>2, <2>3
<1> QED
  BY <1>1, <1>2

-----------------------------------------------------------------------------
(* Chains of clusters.                                                     *)

LinkBody(cl, f, i) ==
  IF i = 0 THEN cl ELSE IF f[i - 1] = End THEN End ELSE next_cluster(f[i - 1])

(* The loop that follows links is defined, however far it goes.            *)
LEMMA LinkDefined ==
  ASSUME NEW cl, NEW n \in Nat
  PROVE  \E f : f = [i \in 0 .. n |-> LinkBody(cl, f, i)]
<1> DEFINE Ok(m) == \E f : f = [i \in 0 .. m |-> LinkBody(cl, f, i)]
           Bad == {m \in Nat : ~Ok(m)}
<1> SUFFICES ASSUME Bad # {} PROVE FALSE
  OBVIOUS
<1>1. PICK m \in Bad : \A k \in Bad : m <= k
  <2>1. Bad \subseteq Nat
    OBVIOUS
  <2> HIDE DEF Bad
  <2> QED
    BY <2>1, LeastNumber
<1>2. m \in Nat /\ ~Ok(m)
  OBVIOUS
<1>3. CASE m = 0
  <2> DEFINE g == [i \in 0 .. m |-> cl]
  <2>1. \A i \in 0 .. m : g[i] = LinkBody(cl, g, i)
    BY <1>3 DEF LinkBody
  <2>2. g = [i \in 0 .. m |-> LinkBody(cl, g, i)]
    BY <2>1
  <2> QED
    BY <1>2, <2>2
<1>4. CASE m # 0
  <2>1. m - 1 \in Nat /\ ~(m <= m - 1)
    BY <1>2, <1>4
  <2>2. Ok(m - 1)
    BY <1>1, <2>1
  <2> HIDE DEF Bad
  <2>3. PICK f : f = [i \in 0 .. m - 1 |-> LinkBody(cl, f, i)]
    BY <2>2
  <2> DEFINE z == LinkBody(cl, f, m)
             g == [i \in 0 .. m |-> IF i < m THEN f[i] ELSE z]
  <2> HIDE DEF z
  <2>4. ASSUME NEW i \in 0 .. m PROVE g[i] = LinkBody(cl, g, i)
    <3>1. CASE i < m
      <4>1. i \in 0 .. m - 1 /\ f[i] = LinkBody(cl, f, i) /\ g[i] = f[i]
        BY <1>2, <2>1, <2>3, <3>1
      <4>2. i # 0 => g[i - 1] = f[i - 1]
        BY <1>2, <2>1, <3>1
      <4> HIDE DEF g
      <4> QED
        BY <4>1, <4>2 DEF LinkBody
    <3>2. CASE i = m
      <4>1. g[i] = z /\ g[m - 1] = f[m - 1]
        BY <1>2, <2>1, <3>2
      <4> HIDE DEF g
      <4> QED
        BY <1>4, <3>2, <4>1 DEF LinkBody, z
    <3> QED
      BY <1>2, <2>1, <3>1, <3>2
  <2>5. g = [i \in 0 .. m |-> LinkBody(cl, g, i)]
    BY <2>4
  <2> QED
    BY <1>2, <2>5
<1> QED
  BY <1>3, <1>4

(* A link of a chain is what the walk along it has reached.                *)
LEMMA LinkFunction ==
  ASSUME NEW cl, NEW n \in Nat
  PROVE  \E f : Link(cl, n) = f[n] /\ \A i \in 0 .. n : f[i] = LinkBody(cl, f, i)
<1> DEFINE fl == CHOOSE f : f = [i \in 0 .. n |->
                   IF i = 0 THEN cl ELSE IF f[i - 1] = End THEN End ELSE next_cluster(f[i - 1])]
<1>1. Link(cl, n) = fl[n]
  BY DEF Link, Walk, next_cluster
<1>2. \E f : f = [i \in 0 .. n |-> IF i = 0 THEN cl ELSE IF f[i - 1] = End THEN End ELSE next_cluster(f[i - 1])]
  <2>1. \E f : f = [i \in 0 .. n |-> LinkBody(cl, f, i)]
    BY LinkDefined
  <2> QED
    BY <2>1 DEF LinkBody
<1>3. fl = [i \in 0 .. n |-> IF i = 0 THEN cl ELSE IF fl[i - 1] = End THEN End ELSE next_cluster(fl[i - 1])]
  BY <1>2
<1> HIDE DEF fl
<1>4. \A i \in 0 .. n : fl[i] = LinkBody(cl, fl, i)
  BY <1>3 DEF LinkBody
<1> QED
  BY <1>1, <1>4

(* A link further is the next cluster, and behind the end of a chain there *)
(* is its end.                                                             *)
LEMMA LinkSteps ==
  ASSUME NEW cl
  PROVE  /\ Link(cl, 0) = cl
         /\ \A n \in Nat : Link(cl, n + 1) = IF Link(cl, n) = End THEN End ELSE next_cluster(Link(cl, n))
<1>1. Link(cl, 0) = cl
  BY LinkFunction, 0 \in Nat, 0 \in 0 .. 0 DEF LinkBody
<1>2. ASSUME NEW n \in Nat
      PROVE  Link(cl, n + 1) = IF Link(cl, n) = End THEN End ELSE next_cluster(Link(cl, n))
  <2>1. n + 1 \in Nat
    OBVIOUS
  <2>2. PICK f : Link(cl, n) = f[n] /\ \A i \in 0 .. n : f[i] = LinkBody(cl, f, i)
    BY LinkFunction
  <2>3. PICK g : Link(cl, n + 1) = g[n + 1] /\ \A i \in 0 .. n + 1 : g[i] = LinkBody(cl, g, i)
    BY <2>1, LinkFunction
  <2> DEFINE Bad == {i \in 0 .. n : f[i] # g[i]}
  <2>4. Bad = {}
    <3> SUFFICES ASSUME Bad # {} PROVE FALSE
      OBVIOUS
    <3>1. Bad \subseteq Nat
      OBVIOUS
    <3>2. PICK m \in Bad : \A k \in Bad : m <= k
      <4> HIDE DEF Bad
      <4> QED
        BY <3>1, LeastNumber
    <3>3. m \in 0 .. n /\ m \in 0 .. n + 1 /\ f[m] # g[m]
      OBVIOUS
    <3>4. f[m] = LinkBody(cl, f, m) /\ g[m] = LinkBody(cl, g, m)
      BY <2>2, <2>3, <3>3
    <3>5. CASE m = 0
      BY <3>3, <3>4, <3>5 DEF LinkBody
    <3>6. CASE m # 0
      <4>1. m - 1 \in 0 .. n /\ ~(m <= m - 1)
        BY <3>3, <3>6
      <4>2. f[m - 1] = g[m - 1]
        BY <3>2, <4>1
      <4> HIDE DEF Bad
      <4> QED
        BY <3>3, <3>4, <3>6, <4>2 DEF LinkBody
    <3> QED
      BY <3>5, <3>6
  <2>5. f[n] = g[n]
    <3>1. n \in 0 .. n
      OBVIOUS
    <3> QED
      BY <2>4, <3>1
  <2>6. g[n + 1] = LinkBody(cl, g, n + 1)
    <3>1. n + 1 \in 0 .. n + 1
      OBVIOUS
    <3> QED
      BY <2>3, <3>1
  <2>7. n + 1 # 0 /\ (n + 1) - 1 = n
    OBVIOUS
  <2> HIDE DEF Bad
  <2> QED
    BY <2>2, <2>3, <2>5, <2>6, <2>7 DEF LinkBody
<1> QED
  BY <1>1, <1>2

(* From a cluster of the table links lead to clusters of the table, or to  *)
(* the end.                                                                *)
LEMMA LinkInTable ==
  ASSUME volume \in Volumes, NEW cl \in Clusters, NEW n \in Nat
  PROVE  Link(cl, n) \in Clusters \cup {End}
<1> DEFINE Bad == {i \in Nat : Link(cl, i) \notin Clusters \cup {End}}
<1> SUFFICES ASSUME Bad # {} PROVE FALSE
  OBVIOUS
<1>1. PICK m \in Bad : \A k \in Bad : m <= k
  <2>1. Bad \subseteq Nat
    OBVIOUS
  <2> HIDE DEF Bad
  <2> QED
    BY <2>1, LeastNumber
<1>2. m \in Nat /\ Link(cl, m) \notin Clusters \cup {End}
  OBVIOUS
<1>3. m # 0
  BY <1>2, LinkSteps
<1>4. m - 1 \in Nat /\ ~(m <= m - 1) /\ (m - 1) + 1 = m
  BY <1>2, <1>3
<1>5. Link(cl, m - 1) \in Clusters \cup {End}
  BY <1>1, <1>4
<1>6. Link(cl, m) = IF Link(cl, m - 1) = End THEN End ELSE next_cluster(Link(cl, m - 1))
  BY <1>4, LinkSteps
<1> HIDE DEF Bad
<1> QED
  BY <1>2, <1>5, <1>6, VolumesAssumption DEF VolumeTyped, next_cluster, Clusters

(* The loop of int_ls ends within as many links as there are clusters:     *)
(* were all of them read and none the last, two would be the same and the  *)
(* chain between them would not end.                                       *)
LEMMA LoopEnds ==
  ASSUME volume \in Volumes, NEW cl \in Clusters
  PROVE  /\ LastLink(cl) \in 0 .. Cardinality(Clusters)
         /\ LastPage(cl, LastLink(cl))
         /\ \A i \in 0 .. LastLink(cl) - 1 : ~LastPage(cl, i)
<1> DEFINE N == Cardinality(Clusters)
<1>1. IsFiniteSet(Clusters) /\ N \in Nat
  BY FS_CardinalityType, VolumesAssumption DEF VolumeTyped, Clusters
<1> DEFINE Last_ == {n \in 0 .. N : LastPage(cl, n)}
<1>2. Last_ # {}
  <2> SUFFICES ASSUME Last_ = {} PROVE FALSE
    OBVIOUS
  <2> HIDE DEF N
  <2>1. \A n \in 0 .. N : n \in Nat /\ ~LastPage(cl, n)
    BY <1>1
  <2>2. \A n \in 0 .. N : Link(cl, n) \in Clusters /\ Link(cl, n) # End
    BY <2>1, LinkInTable DEF LastPage, read_sync
  <2> DEFINE f == [n \in 0 .. N |-> Link(cl, n)]
  <2>3. f \in [0 .. N -> Clusters]
    BY <2>2
  <2>4. IsFiniteSet(0 .. N) /\ Cardinality(0 .. N) = N + 1
    BY <1>1, FS_Interval
  <2>5. Cardinality(Clusters) < Cardinality(0 .. N)
    BY <1>1, <2>4 DEF N
  <2>6. \E x, y \in 0 .. N : x # y /\ f[x] = f[y]
    <3> HIDE DEF f
    <3> QED
      BY <1>1, <2>3, <2>4, <2>5, FS_PigeonHole
  <2>7. PICK x \in 0 .. N, y \in 0 .. N : x < y /\ Link(cl, x) = Link(cl, y)
    BY <1>1, <2>6
  <2> DEFINE S == {Link(cl, k) : k \in x .. y - 1}
  <2>8. S \in SUBSET DOMAIN volume.next
    BY <1>1, <2>2, <2>7 DEF Clusters
  <2>9. S # {}
    BY <1>1, <2>7
  <2>10. PICK c \in S : volume.next[c] \notin S
    <3> HIDE DEF S
    <3> QED
      BY <2>8, <2>9, VolumesAssumption DEF VolumeTyped
  <2>11. PICK k \in x .. y - 1 : c = Link(cl, k)
    OBVIOUS
  <2>12. k \in 0 .. N /\ k \in Nat
    BY <1>1, <2>7
  <2>13. Link(cl, k + 1) = volume.next[c]
    BY <2>2, <2>11, <2>12, LinkSteps DEF next_cluster
  <2>14. k + 1 \in x .. y - 1 \/ k + 1 = y
    BY <1>1, <2>7
  <2>15. x \in x .. y - 1
    BY <1>1, <2>7
  <2> QED
    BY <2>7, <2>10, <2>13, <2>14, <2>15
<1>3. PICK n \in Last_ : \A k \in Last_ : n <= k
  <2>1. Last_ \subseteq Nat
    BY <1>1
  <2> HIDE DEF Last_
  <2> QED
    BY <1>2, <2>1, LeastNumber
<1>4. n \in 0 .. N /\ LastPage(cl, n) /\ \A i \in 0 .. n - 1 : ~LastPage(cl, i)
  <2>1. \A i \in 0 .. n - 1 : i \in 0 .. N /\ ~(n <= i)
    BY <1>1, <1>3
  <2> QED
    BY <1>3, <2>1
<1> HIDE DEF Last_
<1> QED
  BY <1>4 DEF LastLink

-----------------------------------------------------------------------------
(* The entries of one cluster.                                             *)

(* Entries a lookup may meet: a directory says where it begins.            *)
Entries ==
  {e \in [name : Nat, type : {"DIR", "FILE", "VOLUME_ID", "NONE"}, block : Nat, size : Nat, hidden : BOOLEAN] :
     e.type = "DIR" => e.block \in Clusters}

PageType == [ents : Seq(Entries), last : BOOLEAN]

SlotsOK(slots) == \A i \in 1 .. SlotsPerCluster : SlotTyped(volume, slots[i])

(* The entry in slot n, under a name, in front of those behind it.         *)
InFront(slots, f, name, n) ==
  [f[n + 1] EXCEPT !.ents =
     <<Dirent(name, slots[n].type, slots[n].block, slots[n].size, slots[n].hidden)>> \o @]

ScanBody(slots, f, i) ==
  IF i > SlotsPerCluster THEN [ents |-> <<>>, last |-> FALSE]
  ELSE CASE slots[i].kind = "end"   -> [ents |-> <<>>, last |-> TRUE]
         [] slots[i].kind = "short" -> InFront(slots, f, slots[i].name, i)
         [] slots[i].kind = "last" /\ i + slots[i].total > SlotsPerCluster -> [ents |-> <<>>, last |-> FALSE]
         [] slots[i].kind = "last" /\ i + slots[i].total <= SlotsPerCluster ->
              InFront(slots, f, slots[i].name, i + slots[i].total)
         [] OTHER -> f[i + 1]

(* What the scan finds from a slot on depends on what it finds behind it.  *)
LEMMA ScanDepends ==
  ASSUME NEW slots, SlotsOK(slots), NEW i \in 1 .. SlotsPerCluster + 1, NEW f, NEW g,
         \A k \in i + 1 .. SlotsPerCluster + 1 : f[k] = g[k]
  PROVE  ScanBody(slots, f, i) = ScanBody(slots, g, i)
<1>1. SlotsPerCluster \in Nat
  BY FatAssumption
<1>2. CASE i > SlotsPerCluster
  BY <1>2 DEF ScanBody
<1>3. CASE i <= SlotsPerCluster
  <2>1. i \in 1 .. SlotsPerCluster /\ slots[i].total \in Nat
    BY <1>1, <1>3 DEF SlotsOK, SlotTyped
  <2>2. f[i + 1] = g[i + 1]
    BY <1>1, <2>1
  <2>3. InFront(slots, f, slots[i].name, i) = InFront(slots, g, slots[i].name, i)
    BY <2>2 DEF InFront
  <2> DEFINE n == i + slots[i].total
  <2>4. n <= SlotsPerCluster => f[n + 1] = g[n + 1]
    BY <1>1, <2>1
  <2>5. n <= SlotsPerCluster => InFront(slots, f, slots[i].name, n) = InFront(slots, g, slots[i].name, n)
    BY <2>4 DEF InFront
  <2>6. ~(i > SlotsPerCluster)
    BY <1>1, <1>3
  <2> QED
    BY <2>2, <2>3, <2>5, <2>6 DEF ScanBody
<1> QED
  BY <1>1, <1>2, <1>3

(* The scan is defined: it goes from the last slot to the first.           *)
LEMMA ScanDefined ==
  ASSUME NEW slots, SlotsOK(slots)
  PROVE  \E f : f = [i \in 1 .. SlotsPerCluster + 1 |-> ScanBody(slots, f, i)]
<1> DEFINE N == SlotsPerCluster + 1
           Ok(m) == \E f : f = [i \in N - m .. N |-> ScanBody(slots, f, i)]
           Bad == {m \in 0 .. SlotsPerCluster : ~Ok(m)}
<1>1. SlotsPerCluster \in Nat /\ N \in Nat /\ N = SlotsPerCluster + 1
  BY FatAssumption
<1> HIDE DEF N
<1>2. Bad = {}
  <2> SUFFICES ASSUME Bad # {} PROVE FALSE
    OBVIOUS
  <2>1. PICK m \in Bad : \A k \in Bad : m <= k
    <3>1. Bad \subseteq Nat
      BY <1>1
    <3> HIDE DEF Bad
    <3> QED
      BY <3>1, LeastNumber
  <2>2. m \in 0 .. SlotsPerCluster /\ ~Ok(m)
    OBVIOUS
  <2>3. CASE m = 0
    <3> DEFINE g == [i \in N - m .. N |-> [ents |-> <<>>, last |-> FALSE]]
    <3>1. \A i \in N - m .. N : g[i] = ScanBody(slots, g, i)
      BY <1>1, <2>3 DEF ScanBody
    <3>2. g = [i \in N - m .. N |-> ScanBody(slots, g, i)]
      BY <3>1
    <3> QED
      BY <2>2, <3>2
  <2>4. CASE m # 0
    <3>1. m - 1 \in 0 .. SlotsPerCluster /\ ~(m <= m - 1)
      BY <1>1, <2>2, <2>4
    <3>2. Ok(m - 1)
      BY <2>1, <3>1
    <3> HIDE DEF Bad
    <3>3. PICK f : f = [i \in N - (m - 1) .. N |-> ScanBody(slots, f, i)]
      BY <3>2
    <3> DEFINE z == ScanBody(slots, f, N - m)
               g == [i \in N - m .. N |-> IF i = N - m THEN z ELSE f[i]]
    <3> HIDE DEF z
    <3>4. ASSUME NEW i \in N - m .. N PROVE g[i] = ScanBody(slots, g, i)
      <4>1. i \in 1 .. SlotsPerCluster + 1 /\ \A k \in i + 1 .. SlotsPerCluster + 1 : k \in N - m .. N /\ k # N - m
        BY <1>1, <2>2
      <4>2. \A k \in i + 1 .. SlotsPerCluster + 1 : f[k] = g[k]
        BY <4>1
      <4> HIDE DEF g
      <4>3. ScanBody(slots, f, i) = ScanBody(slots, g, i)
        BY <4>1, <4>2, ScanDepends
      <4>4. CASE i = N - m
        <5>1. g[i] = z
          BY <4>4 DEF g
        <5> QED
          BY <4>3, <4>4, <5>1 DEF z
      <4>5. CASE i # N - m
        <5>1. i \in N - (m - 1) .. N
          BY <1>1, <2>2, <4>5
        <5>2. f[i] = ScanBody(slots, f, i)
          BY <3>3, <5>1
        <5>3. g[i] = f[i]
          BY <4>5 DEF g
        <5> QED
          BY <4>3, <5>2, <5>3
      <4> QED
        BY <4>4, <4>5
    <3>5. g = [i \in N - m .. N |-> ScanBody(slots, g, i)]
      BY <3>4
    <3> QED
      BY <2>2, <3>5
  <2> QED
    BY <2>3, <2>4
<1>3. Ok(SlotsPerCluster)
  <2> HIDE DEF Ok
  <2>1. SlotsPerCluster \in 0 .. SlotsPerCluster
    BY <1>1
  <2> QED
    BY <1>2, <2>1
<1>4. N - SlotsPerCluster = 1
  BY <1>1
<1> QED
  BY <1>3, <1>4 DEF N

(* int_dirent is what the scan from the first slot on gives.               *)
LEMMA ScanFunction ==
  ASSUME NEW slots, SlotsOK(slots)
  PROVE  \E f : int_dirent(slots) = f[1] /\ \A i \in 1 .. SlotsPerCluster + 1 : f[i] = ScanBody(slots, f, i)
<1> DEFINE fl == CHOOSE f : f = [i \in 1 .. SlotsPerCluster + 1 |-> ScanBody(slots, f, i)]
<1>1. int_dirent(slots) = fl[1]
  BY DEF int_dirent, ScanBody, InFront
<1>2. \E f : f = [i \in 1 .. SlotsPerCluster + 1 |-> ScanBody(slots, f, i)]
  BY ScanDefined
<1>3. fl = [i \in 1 .. SlotsPerCluster + 1 |-> ScanBody(slots, fl, i)]
  BY <1>2
<1> HIDE DEF fl
<1>4. \A i \in 1 .. SlotsPerCluster + 1 : fl[i] = ScanBody(slots, fl, i)
  BY <1>3
<1> QED
  BY <1>1, <1>4

(* An entry in front of a page of entries is a page of entries.            *)
LEMMA InFrontTyped ==
  ASSUME NEW S, NEW p \in [ents : Seq(S), last : BOOLEAN], NEW e \in S
  PROVE  [p EXCEPT !.ents = <<e>> \o @] \in [ents : Seq(S), last : BOOLEAN]
<1>1. <<e>> \in Seq(S) /\ p.ents \in Seq(S)
  OBVIOUS
<1>2. <<e>> \o p.ents \in Seq(S)
  BY <1>1, ConcatProperties
<1> DEFINE z == <<e>> \o p.ents
<1> HIDE DEF z
<1>3. z \in Seq(S)
  BY <1>2 DEF z
<1>4. [p EXCEPT !.ents = z] \in [ents : Seq(S), last : BOOLEAN]
  BY <1>3
<1> QED
  BY <1>4 DEF z

(* int_dirent finds entries.                                               *)
LEMMA PageTyped ==
  ASSUME NEW slots, SlotsOK(slots)
  PROVE  int_dirent(slots) \in PageType
<1>1. PICK f : int_dirent(slots) = f[1] /\ \A i \in 1 .. SlotsPerCluster + 1 : f[i] = ScanBody(slots, f, i)
  BY ScanFunction
<1>2. SlotsPerCluster \in Nat
  BY FatAssumption
<1> DEFINE N == SlotsPerCluster + 1
           Bad == {m \in 0 .. SlotsPerCluster : f[N - m] \notin PageType}
<1>3. Bad = {}
  <2> SUFFICES ASSUME Bad # {} PROVE FALSE
    OBVIOUS
  <2>1. PICK m \in Bad : \A k \in Bad : m <= k
    <3>1. Bad \subseteq Nat
      BY <1>2
    <3> HIDE DEF Bad
    <3> QED
      BY <3>1, LeastNumber
  <2> DEFINE i == N - m
  <2>2. m \in 0 .. SlotsPerCluster /\ i \in 1 .. N /\ f[i] \notin PageType
    BY <1>2
  <2>3. ASSUME NEW k \in i + 1 .. N PROVE f[k] \in PageType
    <3>1. N - k \in 0 .. SlotsPerCluster /\ ~(m <= N - k) /\ N - (N - k) = k
      BY <1>2, <2>2
    <3> QED
      BY <2>1, <3>1
  <2>4. f[i] = ScanBody(slots, f, i)
    BY <1>1, <2>2
  <2> HIDE DEF Bad, i
  <2>5. [ents |-> <<>>, last |-> FALSE] \in PageType /\ [ents |-> <<>>, last |-> TRUE] \in PageType
    BY DEF PageType
  <2>6. i # N
    BY <1>2, <2>2, <2>4, <2>5 DEF ScanBody
  <2>7. i \in 1 .. SlotsPerCluster /\ ~(i > SlotsPerCluster) /\ SlotTyped(volume, slots[i])
    BY <1>2, <2>2, <2>6 DEF SlotsOK
  <2>8. ASSUME NEW n \in i .. SlotsPerCluster PROVE InFront(slots, f, slots[i].name, n) \in PageType
    <3>1. n \in 1 .. SlotsPerCluster /\ SlotTyped(volume, slots[n]) /\ n + 1 \in i + 1 .. N
      BY <1>2, <2>7 DEF SlotsOK
    <3>2. f[n + 1] \in PageType
      BY <2>3, <3>1
    <3>3. Dirent(slots[i].name, slots[n].type, slots[n].block, slots[n].size, slots[n].hidden) \in Entries
      BY <2>7, <3>1 DEF SlotTyped, Dirent, Entries, Clusters
    <3> QED
      BY <3>2, <3>3, InFrontTyped DEF InFront, PageType
  <2>9. f[i + 1] \in PageType
    BY <1>2, <2>3, <2>7
  <2>10. InFront(slots, f, slots[i].name, i) \in PageType
    BY <1>2, <2>7, <2>8
  <2>11. slots[i].total \in Nat
    BY <2>7 DEF SlotTyped
  <2>12. i + slots[i].total <= SlotsPerCluster => InFront(slots, f, slots[i].name, i + slots[i].total) \in PageType
    BY <1>2, <2>7, <2>8, <2>11
  <2>13. ScanBody(slots, f, i) \in PageType
    BY <2>5, <2>7, <2>9, <2>10, <2>12 DEF ScanBody
  <2> QED
    BY <2>2, <2>4, <2>13
<1>4. SlotsPerCluster \in 0 .. SlotsPerCluster /\ N - SlotsPerCluster = 1
  BY <1>2
<1>5. f[1] \in PageType
  BY <1>3, <1>4
<1> QED
  BY <1>1, <1>5

-----------------------------------------------------------------------------
(* The cache of listings.                                                  *)

(* The clusters of a directory that are read hold entries.                 *)
LEMMA ReadPage ==
  ASSUME volume \in Volumes, NEW cl, read_sync(cl)
  PROVE  Page(cl).ents \in Seq(Entries)
<1>1. SlotsOK(volume.slots[ClusterRead(cl)])
  BY VolumesAssumption DEF read_sync, SlotsOK, VolumeTyped
<1>2. Page(cl) \in PageType
  BY <1>1, PageTyped DEF Page
<1> QED
  BY <1>2 DEF PageType

(* The pages of a chain are entries of the volume.                         *)
LEMMA PagesTyped ==
  ASSUME volume \in Volumes, NEW cl \in Clusters, NEW n \in Nat,
         \A i \in 0 .. n - 1 : read_sync(Link(cl, i))
  PROVE  Pages(cl, n) \in Seq(Entries)
<1> DEFINE ss == [i \in 1 .. n |-> Page(Link(cl, i - 1)).ents]
<1>1. ss \in [1 .. n -> Seq(Entries)]
  <2>1. \A i \in 1 .. n : i - 1 \in 0 .. n - 1
    OBVIOUS
  <2> QED
    BY <2>1, ReadPage
<1>2. Len(ss) = n
  OBVIOUS
<1>3. Pages(cl, n) = FlattenSeq(ss)
  BY DEF Pages
<1> HIDE DEF ss
<1> QED
  BY <1>1, <1>2, <1>3, FlattenIsSeq

(* A directory is listed to its end, or to the first cluster that cannot   *)
(* be read; what is listed are entries.                                    *)
LEMMA ListingTyped ==
  ASSUME volume \in Volumes, NEW cl \in Clusters
  PROVE  /\ Listing(cl).ents \in Seq(Entries)
         /\ <<>> \o Listing(cl).ents = Listing(cl).ents
<1> DEFINE n == LastLink(cl)
<1>1. n \in Nat /\ LastPage(cl, n) /\ \A i \in 0 .. n - 1 : ~LastPage(cl, i)
  <2>1. IsFiniteSet(Clusters)
    BY VolumesAssumption DEF VolumeTyped, Clusters
  <2>2. Cardinality(Clusters) \in Nat
    BY <2>1, FS_CardinalityType
  <2> QED
    BY <2>2, LoopEnds
<1> HIDE DEF n
<1>2. \A i \in 0 .. n - 1 : read_sync(Link(cl, i))
  BY <1>1 DEF LastPage
<1>3. Pages(cl, n) \in Seq(Entries)
  BY <1>1, <1>2, PagesTyped
<1>4. read_sync(Link(cl, n)) => Pages(cl, n + 1) \in Seq(Entries)
  <2> SUFFICES ASSUME read_sync(Link(cl, n)) PROVE Pages(cl, n + 1) \in Seq(Entries)
    OBVIOUS
  <2>1. n + 1 \in Nat /\ \A i \in 0 .. (n + 1) - 1 : i \in 0 .. n - 1 \/ i = n
    BY <1>1
  <2>2. \A i \in 0 .. (n + 1) - 1 : read_sync(Link(cl, i))
    BY <1>2, <2>1
  <2> QED
    BY <2>1, <2>2, PagesTyped
<1>5. Listing(cl) = IF read_sync(Link(cl, n)) THEN [err |-> "no_error", ents |-> Pages(cl, n + 1)]
                    ELSE [err |-> "E_IO", ents |-> Pages(cl, n)]
  BY DEF Listing, ListingTo, n
<1>6. Listing(cl).ents \in Seq(Entries)
  BY <1>3, <1>4, <1>5
<1> QED
  BY <1>6, ConcatEmptySeq

(* A cache that holds what reading the directories again would give.       *)
Honest(cache) ==
  /\ DOMAIN cache \subseteq Clusters
  /\ \A c \in DOMAIN cache : cache[c] = Listing(c).ents

(* What int_ls leaves in the cache is honest, and what it returns is what  *)
(* the directory holds.                                                    *)
LEMMA IntLsHonest ==
  ASSUME volume \in Volumes, NEW cl \in Clusters, NEW cache, Honest(cache)
  PROVE  /\ Honest(int_ls(cl, cache, <<>>).cache)
         /\ int_ls(cl, cache, <<>>).ents = Listing(cl).ents
         /\ int_ls(cl, cache, <<>>).ents \in Seq(Entries)
<1>1. CASE cl \in DOMAIN cache
  <2>1. int_ls(cl, cache, <<>>) = [err |-> "no_error", ents |-> cache[cl], cache |-> cache]
    BY <1>1 DEF int_ls
  <2>2. cache[cl] = Listing(cl).ents
    BY <1>1 DEF Honest
  <2> QED
    BY <2>1, <2>2, ListingTyped
<1>2. CASE cl \notin DOMAIN cache
  <2> DEFINE l == Listing(cl)
             z == <<>> \o l.ents
             c2 == [c \in DOMAIN cache \cup {cl} |-> IF c = cl THEN z ELSE cache[c]]
  <2>1. int_ls(cl, cache, <<>>) = [err |-> l.err, ents |-> z, cache |-> IF l.err # "no_error" THEN cache ELSE c2]
    BY <1>2 DEF int_ls, Cached
  <2>2. z = l.ents /\ z \in Seq(Entries)
    BY ListingTyped
  <2> HIDE DEF z, l
  <2>3. Honest(c2)
    BY <2>2 DEF Honest, l
  <2> HIDE DEF c2
  <2>4. Honest(IF l.err # "no_error" THEN cache ELSE c2)
    BY <2>3
  <2> QED
    BY <2>1, <2>2, <2>4 DEF l
<1> QED
  BY <1>1, <1>2

(* What traverse has on its way: a directory of the volume, and an honest  *)
(* cache.                                                                  *)
OnPath(s) ==
  /\ s = [cluster |-> s.cluster, found |-> s.found, ents |-> s.ents, cache |-> s.cache, err |-> s.err]
  /\ s.cluster \in Clusters /\ s.found \in Entries \cup {INVALID} /\ Honest(s.cache)

(* One turn of the loop goes from such a state to such a state.            *)
LEMMA EnterOnPath ==
  ASSUME volume \in Volumes, NEW s, OnPath(s), NEW name
  PROVE  OnPath(Enter(s, name))
<1> DEFINE r == int_ls(s.cluster, s.cache, <<>>)
           i == FirstMatch(r.ents, name)
           found == Found(s, r, i)
<1>1. Honest(r.cache) /\ r.ents \in Seq(Entries)
  BY IntLsHonest DEF OnPath
<1>2. i \in {0} \cup DOMAIN r.ents
  BY <1>1, FirstMatchIn
<1>3. Enter(s, name) = Turn(s, r, found)
  BY DEF Enter, EnterFrom, TurnFor
<1> HIDE DEF r, i
<1>4. found \in Entries \cup {INVALID}
  <2>1. CASE i = 0
    BY <2>1 DEF Found, OnPath
  <2>2. CASE i # 0
    <3>1. i \in DOMAIN r.ents
      BY <1>2, <2>2
    <3>2. r.ents[i] \in Entries
      BY <1>1, <3>1
    <3> QED
      BY <2>2, <3>2 DEF Found
  <2> QED
    BY <2>1, <2>2
<1> HIDE DEF found
<1>5. found.type = "DIR" => found.block \in Clusters
  <2>1. INVALID.type # "DIR"
    BY DEF INVALID, Dirent
  <2> QED
    BY <1>4, <2>1 DEF Entries
<1> DEFINE t == [cluster |-> s.cluster, found |-> s.found, ents |-> r.ents, cache |-> r.cache, err |-> s.err]
<1>6. [s EXCEPT !.cache = r.cache, !.ents = r.ents] = t
  <2>1. s = [cluster |-> s.cluster, found |-> s.found, ents |-> s.ents, cache |-> s.cache, err |-> s.err]
    BY DEF OnPath
  <2> DEFINE a == s.cluster  b == s.found  c == s.ents  d == s.cache  e == s.err
  <2>2. s = [cluster |-> a, found |-> b, ents |-> c, cache |-> d, err |-> e]
    BY <2>1
  <2>3. t = [cluster |-> a, found |-> b, ents |-> r.ents, cache |-> r.cache, err |-> e]
    OBVIOUS
  <2> HIDE DEF a, b, c, d, e, t
  <2>4. [s EXCEPT !.cache = r.cache] = [cluster |-> a, found |-> b, ents |-> c, cache |-> r.cache, err |-> e]
    BY <2>2
  <2> DEFINE u == [s EXCEPT !.cache = r.cache]
  <2>5. u = [cluster |-> a, found |-> b, ents |-> c, cache |-> r.cache, err |-> e]
    BY <2>4
  <2> HIDE DEF u
  <2>6. [u EXCEPT !.ents = r.ents] = t
    BY <2>3, <2>5
  <2> QED
    BY <2>6 DEF u
<1>7. ASSUME NEW e
      PROVE  [t EXCEPT !.err = e] =
               [cluster |-> s.cluster, found |-> s.found, ents |-> r.ents, cache |-> r.cache, err |-> e]
  OBVIOUS
<1>8. [t EXCEPT !.found = found, !.cluster = found.block] =
        [cluster |-> found.block, found |-> found, ents |-> r.ents, cache |-> r.cache, err |-> s.err]
  <2> DEFINE u == [t EXCEPT !.found = found]
  <2>1. u = [cluster |-> s.cluster, found |-> found, ents |-> r.ents, cache |-> r.cache, err |-> s.err]
    OBVIOUS
  <2> HIDE DEF u
  <2>2. [u EXCEPT !.cluster = found.block] =
          [cluster |-> found.block, found |-> found, ents |-> r.ents, cache |-> r.cache, err |-> s.err]
    BY <2>1
  <2> QED
    BY <2>2 DEF u
<1>9. \A e : OnPath([t EXCEPT !.err = e])
  BY <1>1, <1>7 DEF OnPath
<1>10. found.type = "DIR" => OnPath([t EXCEPT !.found = found, !.cluster = found.block])
  BY <1>1, <1>4, <1>5, <1>8 DEF OnPath
<1> HIDE DEF t
<1>11. Turn(s, r, found) =
         CASE r.err # "no_error" -> [t EXCEPT !.err = r.err]
           [] r.err = "no_error" /\ found.type \notin {"DIR", "INVALID_ENTITY"} -> [t EXCEPT !.err = "E_NOTDIR"]
           [] r.err = "no_error" /\ found.type = "INVALID_ENTITY" -> [t EXCEPT !.err = "E_NOENT"]
           [] OTHER -> [t EXCEPT !.found = found, !.cluster = found.block]
  BY <1>6 DEF Turn
<1> QED
  BY <1>3, <1>9, <1>10, <1>11

AtRoot ==
  [cluster |-> Root, found |-> INVALID, ents |-> <<>>, cache |-> ls_cache, err |-> "no_error"]

WalkBody(path, f, k) ==
  IF k = 0 THEN AtRoot
  ELSE IF f[k - 1].err # "no_error" THEN f[k - 1] ELSE Enter(f[k - 1], path[k])

(* The loop of traverse is defined for paths of every length.              *)
LEMMA WalkDefined ==
  ASSUME NEW path, NEW n \in Nat
  PROVE  \E f : f = [k \in 0 .. n |-> WalkBody(path, f, k)]
<1> DEFINE Ok(m) == \E f : f = [k \in 0 .. m |-> WalkBody(path, f, k)]
           Bad == {m \in Nat : ~Ok(m)}
<1> SUFFICES ASSUME Bad # {} PROVE FALSE
  OBVIOUS
<1>1. PICK m \in Bad : \A k \in Bad : m <= k
  <2>1. Bad \subseteq Nat
    OBVIOUS
  <2> HIDE DEF Bad
  <2> QED
    BY <2>1, LeastNumber
<1>2. m \in Nat /\ ~Ok(m)
  OBVIOUS
<1>3. CASE m = 0
  <2> DEFINE g == [i \in 0 .. m |-> AtRoot]
  <2>1. \A i \in 0 .. m : g[i] = WalkBody(path, g, i)
    BY <1>3 DEF WalkBody
  <2>2. g = [i \in 0 .. m |-> WalkBody(path, g, i)]
    BY <2>1
  <2> QED
    BY <1>2, <2>2
<1>4. CASE m # 0
  <2>1. m - 1 \in Nat /\ ~(m <= m - 1)
    BY <1>2, <1>4
  <2>2. Ok(m - 1)
    BY <1>1, <2>1
  <2> HIDE DEF Bad
  <2>3. PICK f : f = [i \in 0 .. m - 1 |-> WalkBody(path, f, i)]
    BY <2>2
  <2> DEFINE z == WalkBody(path, f, m)
             g == [i \in 0 .. m |-> IF i < m THEN f[i] ELSE z]
  <2> HIDE DEF z
  <2>4. ASSUME NEW i \in 0 .. m PROVE g[i] = WalkBody(path, g, i)
    <3>1. CASE i < m
      <4>1. i \in 0 .. m - 1 /\ f[i] = WalkBody(path, f, i) /\ g[i] = f[i]
        BY <1>2, <2>1, <2>3, <3>1
      <4>2. i # 0 => g[i - 1] = f[i - 1]
        BY <1>2, <2>1, <3>1
      <4> HIDE DEF g
      <4> QED
        BY <4>1, <4>2 DEF WalkBody
    <3>2. CASE i = m
      <4>1. g[i] = z /\ g[m - 1] = f[m - 1]
        BY <1>2, <2>1, <3>2
      <4> HIDE DEF g
      <4> QED
        BY <1>4, <3>2, <4>1 DEF WalkBody, z
    <3> QED
      BY <1>2, <2>1, <3>1, <3>2
  <2>5. g = [i \in 0 .. m |-> WalkBody(path, g, i)]
    BY <2>4
  <2> QED
    BY <1>2, <2>5
<1> QED
  BY <1>3, <1>4

(* traverse, after any number of names, is in a directory of the volume    *)
(* with an honest cache.                                                   *)
LEMMA TraverseHonest ==
  ASSUME volume \in Volumes, Honest(ls_cache), NEW path, Len(path) \in Nat
  PROVE  /\ Honest(traverse(path).cache)
         /\ traverse(path).err = "no_error" => traverse(path).ents \in Seq(Entries)
<1> DEFINE n == Len(path)
           w == CHOOSE f : f = [k \in 0 .. n |-> WalkBody(path, f, k)]
<1>1. traverse(path) = Arrived(w[n])
  BY DEF traverse, WalkBody, AtRoot
<1>2. \E f : f = [k \in 0 .. n |-> WalkBody(path, f, k)]
  BY WalkDefined
<1>3. w = [k \in 0 .. n |-> WalkBody(path, w, k)]
  BY <1>2
<1> HIDE DEF w
<1>4. \A k \in 0 .. n : w[k] = WalkBody(path, w, k)
  BY <1>3
<1> DEFINE Bad == {k \in 0 .. n : ~OnPath(w[k])}
<1>5. Bad = {}
  <2> SUFFICES ASSUME Bad # {} PROVE FALSE
    OBVIOUS
  <2>1. PICK m \in Bad : \A k \in Bad : m <= k
    <3>1. Bad \subseteq Nat
      OBVIOUS
    <3> HIDE DEF Bad
    <3> QED
      BY <3>1, LeastNumber
  <2>2. m \in 0 .. n /\ ~OnPath(w[m]) /\ w[m] = WalkBody(path, w, m)
    BY <1>4
  <2>3. CASE m = 0
    <3>1. w[m] = AtRoot
      BY <2>2, <2>3 DEF WalkBody
    <3>2. Root \in Clusters
      BY VolumesAssumption DEF VolumeTyped, Clusters
    <3>3. OnPath(AtRoot)
      BY <3>2 DEF OnPath, AtRoot
    <3> QED
      BY <2>2, <3>1, <3>3
  <2>4. CASE m # 0
    <3>1. m - 1 \in 0 .. n /\ ~(m <= m - 1)
      BY <2>2, <2>4
    <3>2. OnPath(w[m - 1])
      BY <2>1, <3>1
    <3>3. OnPath(Enter(w[m - 1], path[m]))
      BY <3>2, EnterOnPath
    <3> QED
      BY <2>2, <2>4, <3>2, <3>3 DEF WalkBody
  <2> QED
    BY <2>3, <2>4
<1>6. OnPath(w[n])
  BY <1>5
<1> DEFINE s == w[n]
<1> HIDE DEF s
<1>7. OnPath(s) /\ traverse(path) = Arrived(s)
  BY <1>1, <1>6 DEF s
<1>8. CASE s.err # "no_error"
  <2>1. Arrived(s) = [err |-> s.err, ents |-> s.ents, cache |-> s.cache]
    BY <1>8 DEF Arrived
  <2> QED
    BY <1>7, <1>8, <2>1 DEF OnPath
<1>9. CASE s.err = "no_error"
  <2>1. Arrived(s) = int_ls(s.cluster, s.cache, <<>>)
    BY <1>9 DEF Arrived
  <2> QED
    BY <1>7, <2>1, IntLsHonest DEF OnPath
<1> QED
  BY <1>8, <1>9

(* stat leaves an honest cache, and a directory or a file it finds is one. *)
LEMMA StatHonest ==
  ASSUME volume \in Volumes, Honest(ls_cache), NEW path \in Paths
  PROVE  /\ Honest(stat(path).cache)
         /\ stat(path).ent.type = "DIR" => stat(path).ent.block \in Clusters
         /\ stat(path).ent.type = "FILE" => stat(path).ent \in Entries
<1>1. path \in Seq(Nat)
  BY PathsAssumption
<1>2. CASE path = <<>>
  <2>1. stat(path) = [ent |-> TheRoot, cache |-> ls_cache]
    BY <1>2 DEF stat
  <2>2. Root \in Clusters
    BY VolumesAssumption DEF VolumeTyped, Clusters
  <2> QED
    BY <2>1, <2>2 DEF TheRoot, Dirent
<1>3. CASE path # <<>>
  <2> DEFINE r == traverse(Front(path))
             i == FirstMatch(r.ents, Last(path))
             ent == IF r.err # "no_error" \/ i = 0 THEN INVALID ELSE r.ents[i]
  <2>1. Len(Front(path)) \in Nat
    <3>1. Len(path) \in Nat /\ \A k \in 1 .. Len(path) - 1 : path[k] \in Nat
      BY <1>1
    <3>2. Front(path) \in Seq(Nat)
      BY <3>1, SubSeqProperties DEF Front
    <3> QED
      BY <3>2
  <2>2. Honest(r.cache) /\ (r.err = "no_error" => r.ents \in Seq(Entries))
    BY <2>1, TraverseHonest
  <2>3. stat(path) = [ent |-> ent, cache |-> r.cache]
    BY <1>3 DEF stat, Entry
  <2> HIDE DEF r
  <2>4. (ent.type = "DIR" => ent.block \in Clusters) /\ (ent.type = "FILE" => ent \in Entries)
    <3>1. CASE r.err # "no_error" \/ i = 0
      <4>1. INVALID.type # "DIR" /\ INVALID.type # "FILE"
        BY DEF INVALID, Dirent
      <4> QED
        BY <3>1, <4>1
    <3>2. CASE r.err = "no_error" /\ i # 0
      <4>1. i \in DOMAIN r.ents
        BY <2>2, <3>2, FirstMatchIn
      <4>2. r.ents[i] \in Entries
        BY <2>2, <3>2, <4>1
      <4> HIDE DEF i
      <4> QED
        BY <3>2, <4>2 DEF Entries
    <3> QED
      BY <3>1, <3>2
  <2> HIDE DEF ent
  <2> QED
    BY <2>2, <2>3, <2>4
<1> QED
  BY <1>2, <1>3

-----------------------------------------------------------------------------
(* The inductive invariant of the lookups: the volume is one of those      *)
(* considered, and the cache holds listings of its directories.            *)
CacheInv == volume \in Volumes /\ Honest(ls_cache)

(* Whether a cache is honest depends on the volume alone.                  *)
LEMMA HonestKept ==
  ASSUME UNCHANGED volume, NEW cache, Honest(cache), ls_cache' = cache
  PROVE  Honest(ls_cache)'
<1>1. \A c : Listing(c)' = Listing(c)
  BY DEF Listing, ListingTo, LastLink, LastPage, Pages, Page, read_sync, IsEnd, next_cluster, Link, Walk, Clusters
<1>2. Clusters' = Clusters
  BY DEF Clusters
<1> QED
  BY <1>1, <1>2 DEF Honest

(* No call, file or handle function, makes the cache dishonest.            *)
LEMMA FileStepKeepsCache ==
  ASSUME CacheInv, NextFile
  PROVE  CacheInv'
<1>1. ASSUME NEW path \in Paths, fs_exists(path, stat(path)) \/ fs_isDir(path, stat(path)) \/ fs_getSize(path, stat(path))
      PROVE  CacheInv'
  <2>1. UNCHANGED volume /\ ls_cache' = stat(path).cache
    BY <1>1 DEF fs_exists, fs_isDir, fs_getSize, LookedUp
  <2> QED
    BY <2>1, StatHonest, HonestKept DEF CacheInv
<1>2. ASSUME NEW path \in Paths, fs_list(path, stat(path))
      PROVE  CacheInv'
  <2> DEFINE s == stat(path)
             r == int_ls(s.ent.block, s.cache, <<>>)
  <2>1. Honest(s.cache) /\ (s.ent.type = "DIR" => s.ent.block \in Clusters)
    BY StatHonest DEF CacheInv
  <2>2. UNCHANGED volume /\ ls_cache' = IF s.ent.type = "DIR" THEN r.cache ELSE s.cache
    BY <1>2 DEF fs_list
  <2> HIDE DEF s
  <2>3. s.ent.type = "DIR" => Honest(r.cache)
    BY <2>1, IntLsHonest DEF CacheInv
  <2> HIDE DEF r
  <2> QED
    BY <2>1, <2>2, <2>3, HonestKept DEF CacheInv
<1>3. ASSUME NEW path \in Paths, NEW mode \in Modes, fs_open(path, stat(path), mode)
      PROVE  CacheInv'
  <2>1. UNCHANGED volume /\ ls_cache' = stat(path).cache
    BY <1>3 DEF fs_open, LookedUp
  <2> QED
    BY <2>1, StatHonest, HonestKept DEF CacheInv
<1>4. ASSUME UNCHANGED <<volume, ls_cache>>
      PROVE  CacheInv'
  BY <1>4, HonestKept DEF CacheInv
<1>5. CASE handle_readAll \/ handle_readLine \/ handle_readChar \/ AtEof("r") \/ handle_readByte \/ AtEof("rb")
           \/ handle_close \/ Panic \/ (panicked /\ UNCHANGED <<volume, ls_cache, handle, answer, panicked>>)
  BY <1>4, <1>5 DEF handle_readAll, handle_readLine, handle_readChar, AtEof, handle_readByte, handle_close, Panic
<1> QED
  BY <1>1, <1>2, <1>3, <1>5 DEF NextFile

(* The invariant of the lookups holds.                                     *)
LEMMA CacheInvHolds == Spec => []CacheInv
<1>1. Init => CacheInv
  BY DEF Init, CacheInv, Honest
<1>2. CacheInv /\ [Next]_vars => CacheInv'
  <2> SUFFICES ASSUME CacheInv, [Next]_vars PROVE CacheInv'
    OBVIOUS
  <2>1. CASE NextFile
    BY <2>1, FileStepKeepsCache
  <2>2. CASE UNCHANGED <<volume, ls_cache>>
    BY <2>2, HonestKept DEF CacheInv
  <2>3. NextFile \/ UNCHANGED <<volume, ls_cache>>
    BY DEF Next, vars
  <2> QED
    BY <2>1, <2>2, <2>3
<1> QED
  BY <1>1, <1>2, PTL DEF Spec

(* The cache of listings never changes an answer, on any volume whose      *)
(* chains end and whatever is looked up in which order: int_ls of          *)
(* fat_sync.cpp, with traverse clearing its vector before every directory. *)
THEOREM CacheIsHonest == Spec => []CacheHonest
<1>1. CacheInv => CacheHonest
  BY DEF CacheInv, Honest, CacheHonest
<1> QED
  BY <1>1, CacheInvHolds, PTL

-----------------------------------------------------------------------------
(* Sequences in pieces.                                                    *)

(* Quotient and remainder of a number put together from them.              *)
LEMMA DivMod ==
  ASSUME NEW L \in Nat \ {0}, NEW c \in Nat, NEW r \in 0 .. L - 1
  PROVE  (c * L + r) \div L = c /\ (c * L + r) % L = r
  BY Z3

(* Every number is put together from its quotient and remainder.           *)
LEMMA DivModOf ==
  ASSUME NEW L \in Nat \ {0}, NEW p \in Nat
  PROVE  p = (p \div L) * L + (p % L) /\ p \div L \in Nat /\ p % L \in 0 .. L - 1
  BY Z3

(* As many pieces of length L as p needs.                                  *)
LEMMA CeilDiv ==
  ASSUME NEW L \in Nat \ {0}, NEW p \in Nat
  PROVE  /\ (p + L - 1) \div L \in Nat
         /\ p <= ((p + L - 1) \div L) * L
         /\ p > 0 => (p + L - 1) \div L > 0 /\ (((p + L - 1) \div L) - 1) * L < p
         /\ p = 0 => (p + L - 1) \div L = 0
  BY Z3

(* The part of a sequence behind a up to b.                                *)
LEMMA PartOf ==
  ASSUME NEW S, NEW T \in Seq(S), NEW a \in Nat, NEW b \in Nat, a <= b, b <= Len(T)
  PROVE  /\ SubSeq(T, a + 1, b) \in Seq(S) /\ Len(SubSeq(T, a + 1, b)) = b - a
         /\ \A k \in 1 .. b - a : SubSeq(T, a + 1, b)[k] = T[a + k]
<1> DEFINE u == SubSeq(T, a + 1, b)
<1>1. \A i \in a + 1 .. b : T[i] \in S
  OBVIOUS
<1>2. /\ u \in Seq(S) /\ Len(u) = IF a + 1 <= b THEN b - (a + 1) + 1 ELSE 0
      /\ \A i \in 1 .. b - (a + 1) + 1 : u[i] = T[(a + 1) + i - 1]
  <2>1. a + 1 \in Int /\ b \in Int
    OBVIOUS
  <2> QED
    BY <1>1, <2>1, SubSeqProperties
<1> HIDE DEF u
<1>3. u \in Seq(S) /\ Len(u) = b - a
  BY <1>2
<1>4. ASSUME NEW k \in 1 .. b - a PROVE u[k] = T[a + k]
  <2>1. k \in 1 .. b - (a + 1) + 1 /\ (a + 1) + k - 1 = a + k
    OBVIOUS
  <2> QED
    BY <1>2, <2>1
<1> QED
  BY <1>3, <1>4 DEF u

(* A sequence that has the elements of a part of another is that part.     *)
LEMMA SubSeqIs ==
  ASSUME NEW S, NEW T \in Seq(S), NEW a \in Nat, NEW b \in Nat, a <= b, b <= Len(T),
         NEW s \in Seq(S), Len(s) = b - a, \A k \in 1 .. b - a : s[k] = T[a + k]
  PROVE  s = SubSeq(T, a + 1, b)
<1> DEFINE u == SubSeq(T, a + 1, b)
<1>1. u \in Seq(S) /\ Len(u) = b - a /\ \A k \in 1 .. b - a : u[k] = T[a + k]
  BY PartOf
<1> HIDE DEF u
<1>2. \A i \in 1 .. Len(s) : s[i] = u[i]
  BY <1>1
<1>3. s = u
  BY <1>1, <1>2, SeqEqual
<1> QED
  BY <1>3 DEF u

(* The n pieces ss are the parts of T one behind the other; off says where *)
(* each of them ends.                                                      *)
InPieces(S, T, n, ss, off) ==
  /\ T \in Seq(S) /\ n \in Nat /\ Len(ss) = n /\ ss \in [1 .. n -> Seq(S)]
  /\ off \in [0 .. n -> Nat] /\ off[0] = 0 /\ off[n] = Len(T)
  /\ \A i \in 1 .. n : off[i - 1] <= off[i] /\ off[i] <= Len(T) /\ ss[i] = SubSeq(T, off[i - 1] + 1, off[i])

(* Such pieces make it up.                                                 *)
LEMMA FlattenIs ==
  ASSUME NEW S, NEW T, NEW n, NEW ss, NEW off, InPieces(S, T, n, ss, off)
  PROVE  FlattenSeq(ss) = T
<1> USE DEF InPieces
<1>0. T \in Seq(S) /\ n \in Nat /\ Len(T) \in Nat
  OBVIOUS
<1>1. CASE n = 0
  <2>1. T = <<>>
    BY <1>1
  <2>2. ss = <<>>
    BY <1>1
  <2>3. FlattenSeq(ss) = ss
    BY <1>1 DEF FlattenSeq
  <2> QED
    BY <2>1, <2>2, <2>3
<1>2. CASE n > 0
  <2>1. PICK f : /\ FlattenSeq(ss) = f[n]
                 /\ \A i \in 1 .. n : f[i] = IF i = 1 THEN ss[i] ELSE f[i - 1] \o ss[i]
    BY <1>2, FlattenFunction
  <2> DEFINE P(i) == f[i] = SubSeq(T, 1, off[i])
             Bad == {i \in 1 .. n : ~P(i)}
  <2> HIDE DEF P
  <2>2. Bad = {}
    <3> SUFFICES ASSUME Bad # {} PROVE FALSE
      OBVIOUS
    <3>1. Bad \subseteq Nat
      OBVIOUS
    <3>2. PICK m \in Bad : \A k \in Bad : m <= k
      <4> HIDE DEF Bad
      <4> QED
        BY <3>1, LeastNumber
    <3>3. m \in 1 .. n /\ m \in Nat /\ ~P(m)
      OBVIOUS
    <3>4. m # 1
      <4> SUFFICES ASSUME m = 1 PROVE FALSE
        OBVIOUS
      <4>1. f[1] = ss[1] /\ 1 \in 1 .. n
        BY <2>1, <3>3
      <4>2. off[0] + 1 = 1 /\ 1 - 1 = 0
        OBVIOUS
      <4>3. ss[1] = SubSeq(T, off[1 - 1] + 1, off[1])
        BY <4>1
      <4>4. f[1] = SubSeq(T, 1, off[1])
        BY <4>1, <4>2, <4>3
      <4> QED
        BY <3>3, <4>4 DEF P
    <3>5. m - 1 \in 1 .. n /\ ~(m <= m - 1)
      BY <3>3, <3>4
    <3>6. P(m - 1)
      BY <3>2, <3>5
    <3>7. f[m] = f[m - 1] \o ss[m]
      BY <2>1, <3>3, <3>4
    <3>11. ss[m] = SubSeq(T, off[m - 1] + 1, off[m])
      BY <3>3
    <3> DEFINE a == off[m - 1]  b == off[m]
    <3>8. a \in Nat /\ b \in Nat /\ a <= b /\ b <= Len(T)
      BY <3>3, <3>5
    <3> HIDE DEF a, b
    <3>9. 1 \in 1 .. Len(T) + 1 /\ a \in 1 - 1 .. Len(T) /\ b \in a .. Len(T)
      <4> DEFINE N == Len(T)
      <4>1. N \in Nat /\ a \in Nat /\ b \in Nat /\ a <= b /\ b <= N
        BY <3>8
      <4> HIDE DEF N
      <4>2. 1 \in 1 .. N + 1 /\ a \in 1 - 1 .. N /\ b \in a .. N
        BY ONLY <4>1, Z3
      <4> QED
        BY <4>2 DEF N
    <3>10. SubSeq(T, 1, a) \o SubSeq(T, a + 1, b) = SubSeq(T, 1, b)
      BY <3>9, ConcatAdjacentSubSeq
    <3>12. f[m - 1] = SubSeq(T, 1, a)
      BY <3>6 DEF P, a
    <3>13. ss[m] = SubSeq(T, a + 1, b)
      BY <3>11 DEF a, b
    <3>14. f[m] = SubSeq(T, 1, off[m])
      BY <3>7, <3>10, <3>12, <3>13 DEF b
    <3> QED
      BY <3>3, <3>14 DEF P
  <2>3. n \in 1 .. n
    BY <1>2
  <2>4. P(n)
    BY <2>2, <2>3
  <2>5. f[n] = SubSeq(T, 1, Len(T))
    BY <2>4 DEF P
  <2> QED
    BY <2>1, <2>5, SubSeqFull
<1> QED
  BY <1>1, <1>2

(* The bytes of a file whose clusters are the functions D.                 *)
Byte(D, L, p) == D[p \div L][(p % L) + 1]

(* Bytes inside the clusters are bytes.                                    *)
LEMMA ByteTyped ==
  ASSUME NEW L \in Nat \ {0}, NEW K \in Nat, NEW D \in [0 .. K - 1 -> [1 .. L -> Nat]],
         NEW p \in Nat, p < K * L
  PROVE  Byte(D, L, p) \in Nat
<1>1. p = (p \div L) * L + (p % L) /\ p \div L \in Nat /\ p % L \in 0 .. L - 1
  BY DivModOf
<1> DEFINE c == p \div L  r == p % L
<1>2. c \in Nat /\ r \in 0 .. L - 1 /\ p = c * L + r
  BY <1>1
<1> HIDE DEF c, r
<1>3. c < K
  <2> SUFFICES ASSUME c >= K PROVE FALSE
    BY <1>2
  <2>1. K * L <= c * L
    BY <1>2, Products
  <2> DEFINE x == c * L  y == K * L
  <2>2. x \in Nat /\ y \in Nat /\ y <= x /\ p = x + r /\ p < y /\ r \in Nat
    BY <1>2, <2>1, Products
  <2> HIDE DEF x, y
  <2> QED
    BY <2>2
<1>4. c \in 0 .. K - 1 /\ r + 1 \in 1 .. L
  BY <1>2, <1>3
<1>5. D[c][r + 1] \in Nat
  BY <1>4
<1> QED
  BY <1>5 DEF Byte, c, r

(* The bytes of the K clusters.                                            *)
Whole(D, L, K) == [p \in 1 .. K * L |-> Byte(D, L, p - 1)]

(* As many as the clusters hold.                                           *)
LEMMA WholeTyped ==
  ASSUME NEW L \in Nat \ {0}, NEW K \in Nat, NEW D \in [0 .. K - 1 -> [1 .. L -> Nat]]
  PROVE  K * L \in Nat /\ Whole(D, L, K) \in Seq(Nat) /\ Len(Whole(D, L, K)) = K * L
<1>1. K * L \in Nat
  BY Products
<1> DEFINE N == K * L
<1>2. \A p \in 1 .. K * L : p - 1 \in Nat /\ p - 1 < K * L
  BY <1>1
<1>3. \A p \in 1 .. N : Byte(D, L, p - 1) \in Nat
  BY <1>2, ByteTyped
<1>4. N \in Nat
  BY <1>1
<1> HIDE DEF N
<1>5. [p \in 1 .. N |-> Byte(D, L, p - 1)] \in Seq(Nat) /\ Len([p \in 1 .. N |-> Byte(D, L, p - 1)]) = N
  BY <1>3, <1>4
<1> QED
  BY <1>4, <1>5 DEF N, Whole

(* A cluster is a part of them.                                            *)
LEMMA ClusterIsPart ==
  ASSUME NEW L \in Nat \ {0}, NEW K \in Nat, NEW D \in [0 .. K - 1 -> [1 .. L -> Nat]],
         NEW c \in 0 .. K - 1
  PROVE  /\ c * L \in Nat /\ (c + 1) * L = c * L + L /\ c * L + L <= K * L
         /\ D[c] = SubSeq(Whole(D, L, K), c * L + 1, c * L + L)
<1> DEFINE T == Whole(D, L, K)
           a == c * L
<1>1. K * L \in Nat /\ T \in Seq(Nat) /\ Len(T) = K * L
  BY WholeTyped
<1>2. c \in Nat /\ c + 1 \in Nat /\ c + 1 <= K
  OBVIOUS
<1>3. a \in Nat /\ (c + 1) * L = a + L /\ a + L <= K * L
  BY <1>2, Products
<1>4. D[c] \in Seq(Nat) /\ Len(D[c]) = L
  <2>1. D[c] \in [1 .. L -> Nat]
    OBVIOUS
  <2> QED
    BY <2>1
<1>5. ASSUME NEW k \in 1 .. L PROVE D[c][k] = T[a + k]
  <2>1. a + k \in 1 .. K * L /\ (a + k) - 1 = a + (k - 1) /\ k - 1 \in 0 .. L - 1 /\ (k - 1) + 1 = k
    <3> HIDE DEF a
    <3> QED
      BY <1>1, <1>3
  <2>2. T[a + k] = Byte(D, L, (a + k) - 1)
    <3> HIDE DEF a
    <3> QED
      BY <2>1 DEF Whole
  <2> DEFINE r == k - 1
  <2>3. r \in 0 .. L - 1 /\ (a + k) - 1 = c * L + r /\ r + 1 = k
    BY <2>1
  <2> HIDE DEF r
  <2>4. (c * L + r) \div L = c /\ (c * L + r) % L = r
    BY <1>2, <2>3, DivMod
  <2>5. Byte(D, L, c * L + r) = D[c][k]
    BY <2>3, <2>4 DEF Byte
  <2> HIDE DEF T, a
  <2> QED
    BY <2>2, <2>3, <2>5
<1> HIDE DEF T, a
<1>6. D[c] = SubSeq(T, a + 1, a + L)
  <2>1. (a + L) - a = L /\ a + L \in Nat /\ a <= a + L /\ a + L <= Len(T)
    BY <1>1, <1>3
  <2> QED
    BY <1>1, <1>3, <1>4, <1>5, <2>1, SubSeqIs
<1> QED
  BY <1>3, <1>6 DEF T, a

(* Full clusters, one behind the other.                                    *)
LEMMA FullFlatten ==
  ASSUME NEW L \in Nat \ {0}, NEW K \in Nat, NEW D \in [0 .. K - 1 -> [1 .. L -> Nat]]
  PROVE  FlattenSeq([i \in 1 .. K |-> D[i - 1]]) = Whole(D, L, K)
<1> DEFINE ss == [i \in 1 .. K |-> D[i - 1]]
           T == Whole(D, L, K)
           off == [i \in 0 .. K |-> i * L]
<1>1. K * L \in Nat /\ T \in Seq(Nat) /\ Len(T) = K * L
  BY WholeTyped
<1>3. ss \in [1 .. K -> Seq(Nat)] /\ Len(ss) = K
  <2>1. \A i \in 1 .. K : i - 1 \in 0 .. K - 1
    OBVIOUS
  <2>2. \A i \in 1 .. K : D[i - 1] \in [1 .. L -> Nat]
    BY <2>1
  <2>3. \A i \in 1 .. K : D[i - 1] \in Seq(Nat)
    BY <2>2
  <2> QED
    BY <2>3
<1>4. off \in [0 .. K -> Nat] /\ off[0] = 0 /\ off[K] = K * L
  <2>1. \A i \in 0 .. K : i * L \in Nat
    BY Products
  <2>2. 0 * L = 0
    OBVIOUS
  <2> QED
    BY <2>1, <2>2
<1>5. ASSUME NEW i \in 1 .. K
      PROVE  off[i - 1] <= off[i] /\ off[i] <= Len(T) /\ ss[i] = SubSeq(T, off[i - 1] + 1, off[i])
  <2> DEFINE c == i - 1  a == c * L
  <2>1. c \in 0 .. K - 1 /\ i = c + 1 /\ i \in 0 .. K
    OBVIOUS
  <2>2. off[i - 1] = a /\ off[i] = (c + 1) * L /\ ss[i] = D[c]
    BY <2>1
  <2> HIDE DEF c, off, ss, T
  <2>3. a \in Nat /\ (c + 1) * L = a + L /\ a + L <= K * L /\ D[c] = SubSeq(Whole(D, L, K), a + 1, a + L)
    BY <2>1, ClusterIsPart
  <2> HIDE DEF a
  <2>4. off[i] = a + L
    BY <2>2, <2>3
  <2>5. D[c] = SubSeq(T, a + 1, a + L)
    BY <2>3 DEF T
  <2>6. a <= a + L /\ a + L <= Len(T)
    <3> DEFINE N == K * L
    <3>1. a \in Nat /\ a + L <= N /\ Len(T) = N
      BY <1>1, <2>3
    <3> HIDE DEF N
    <3> QED
      BY <3>1
  <2>7. off[i - 1] = a
    BY <2>2
  <2>8. ss[i] = SubSeq(T, a + 1, a + L)
    BY <2>2, <2>5
  <2> QED
    BY <2>4, <2>6, <2>7, <2>8
<1> HIDE DEF T, off, ss
<1>6. off[K] = Len(T)
  BY <1>1, <1>4
<1>7. \A i \in 1 .. K : off[i - 1] <= off[i] /\ off[i] <= Len(T) /\ ss[i] = SubSeq(T, off[i - 1] + 1, off[i])
  BY <1>5
<1>8. InPieces(Nat, T, K, ss, off)
  BY <1>1, <1>3, <1>4, <1>6, <1>7 DEF InPieces
<1>9. FlattenSeq(ss) = T
  BY <1>8, FlattenIs
<1> QED
  BY <1>9 DEF T, ss

(* The part of a part.                                                     *)
LEMMA PartOfPart ==
  ASSUME NEW S, NEW T \in Seq(S), NEW x \in Nat, NEW y \in Nat, x <= y, y <= Len(T),
         NEW a \in Nat, NEW b \in Nat, a <= b, x + b <= y
  PROVE  SubSeq(SubSeq(T, x + 1, y), a + 1, b) = SubSeq(T, (x + a) + 1, x + b)
<1> DEFINE P == SubSeq(T, x + 1, y)
           s == SubSeq(P, a + 1, b)
<1>1. P \in Seq(S) /\ Len(P) = y - x /\ \A k \in 1 .. y - x : P[k] = T[x + k]
  BY PartOf
<1> HIDE DEF P
<1>2. P \in Seq(S) /\ a \in Nat /\ b \in Nat /\ a <= b /\ b <= Len(P)
  BY <1>1
<1>3. s \in Seq(S) /\ Len(s) = b - a /\ \A k \in 1 .. b - a : s[k] = P[a + k]
  BY ONLY <1>2, PartOf
<1> HIDE DEF s
<1>4. \A k \in 1 .. (x + b) - (x + a) : s[k] = T[(x + a) + k]
  <2> SUFFICES ASSUME NEW k \in 1 .. (x + b) - (x + a) PROVE s[k] = T[(x + a) + k]
    OBVIOUS
  <2>1. k \in 1 .. b - a /\ a + k \in 1 .. y - x /\ x + (a + k) = (x + a) + k
    OBVIOUS
  <2> QED
    BY <1>1, <1>3, <2>1
<1>5. x + a \in Nat /\ x + b \in Nat /\ x + a <= x + b /\ x + b <= Len(T) /\ Len(s) = (x + b) - (x + a)
  BY <1>3
<1>6. s = SubSeq(T, (x + a) + 1, x + b)
  BY <1>3, <1>4, <1>5, SubSeqIs
<1> QED
  BY <1>6 DEF s, P

(* The last cluster of what ends at p, and how much of it.                 *)
LEMMA LastPiece ==
  ASSUME NEW L \in Nat \ {0}, NEW p \in Nat, p > 0
  PROVE  p - (((p + L - 1) \div L) - 1) * L = IF p % L # 0 THEN p % L ELSE L
<1> DEFINE e == (p + L - 1) \div L  m == e - 1  r == p - m * L
<1>1. e \in Nat /\ p <= e * L /\ e > 0 /\ m * L < p
  BY CeilDiv
<1> HIDE DEF e
<1>2. m \in Nat /\ e = m + 1
  BY <1>1
<1> HIDE DEF m
<1>3. m * L \in Nat /\ (m + 1) * L = m * L + L /\ m + 1 \in Nat
  BY <1>2, Products
<1>4. r \in 1 .. L /\ p = m * L + r
  <2> DEFINE x == m * L
  <2>1. x \in Nat /\ p <= x + L /\ x < p
    BY <1>1, <1>2, <1>3
  <2> HIDE DEF x
  <2>2. p - x \in 1 .. L /\ p = x + (p - x)
    BY <2>1
  <2> QED
    BY <2>2 DEF x
<1> HIDE DEF r
<1>5. CASE r # L
  <2>1. r \in 0 .. L - 1 /\ r # 0
    BY <1>4, <1>5
  <2>2. p % L = r
    BY <1>2, <1>4, <2>1, DivMod
  <2> QED
    BY <2>1, <2>2 DEF r, m, e
<1>6. CASE r = L
  <2>1. 0 \in 0 .. L - 1
    OBVIOUS
  <2>2. ((m + 1) * L + 0) % L = 0
    BY <1>3, <2>1, DivMod
  <2>3. (m + 1) * L + 0 = p
    <3> DEFINE x == m * L
    <3>1. x \in Nat /\ p = x + L /\ (m + 1) * L = x + L
      BY <1>3, <1>4, <1>6
    <3> HIDE DEF x
    <3> QED
      BY <3>1
  <2>4. p % L = 0
    BY <2>2, <2>3
  <2> QED
    BY <1>6, <2>4 DEF r, m, e
<1> QED
  BY <1>5, <1>6

(* A multiple of L below another.                                          *)
LEMMA MultipleBelow ==
  ASSUME NEW L \in Nat \ {0}, NEW m \in Nat, NEW n \in Nat, m * L < n * L
  PROVE  m < n
<1> SUFFICES ASSUME m >= n PROVE FALSE
  OBVIOUS
<1>1. n * L <= m * L
  BY Products
<1> DEFINE x == m * L  y == n * L
<1>2. x \in Nat /\ y \in Nat /\ x < y /\ y <= x
  BY <1>1, Products
<1> HIDE DEF x, y
<1> QED
  BY <1>2

(* The clusters a read from sta to end goes through, and the part of each  *)
(* that it takes.                                                          *)
PieceBounds(L, K, sta, end, c0, nc) ==
  \A j \in 1 .. nc :
    LET c == c0 + (j - 1)
        lo == IF j = 1 THEN sta ELSE c * L
        hi == IF j = nc THEN end ELSE c * L + L
    IN  /\ c \in 0 .. K - 1 /\ c * L \in Nat /\ (c0 + j) * L = c * L + L
        /\ c * L <= lo /\ lo <= hi /\ hi <= c * L + L /\ sta <= lo /\ hi <= end
        /\ lo - c * L + 1 = IF j - 1 = 0 THEN (sta % L) + 1 ELSE 1
        /\ hi - c * L = IF j - 1 = nc - 1 /\ end % L # 0 THEN end % L ELSE L

(* The pieces that FAT_::read takes of the clusters are inside them.       *)
LEMMA PieceAt ==
  ASSUME NEW L \in Nat \ {0}, NEW K \in Nat, NEW sta \in Nat, NEW end \in Nat, sta < end, end <= K * L,
         NEW c0, c0 = sta \div L, NEW nc, nc = (end + L - 1) \div L - c0
  PROVE  /\ c0 \in Nat /\ nc \in Nat /\ nc > 0 /\ c0 + nc <= K
         /\ PieceBounds(L, K, sta, end, c0, nc)
<1> DEFINE e == (end + L - 1) \div L  e1 == e - 1
<1>1. /\ sta = c0 * L + (sta % L) /\ c0 \in Nat /\ sta % L \in 0 .. L - 1
  BY DivModOf
<1>2. e \in Nat /\ end <= e * L /\ e > 0 /\ e1 * L < end
  BY CeilDiv
<1>3. end - e1 * L = IF end % L # 0 THEN end % L ELSE L
  <2>1. end > 0
    OBVIOUS
  <2> QED
    BY <2>1, LastPiece
<1>4. nc = e - c0
  OBVIOUS
<1> HIDE DEF e
<1>5. e1 \in Nat /\ e = e1 + 1 /\ e \in Nat
  BY <1>2
<1> DEFINE z == c0 * L  y == e1 * L  N == K * L
<1>6. z \in Nat /\ y \in Nat /\ N \in Nat /\ e * L = y + L
  BY <1>1, <1>2, <1>5, Products
<1>7. sta = z + (sta % L) /\ sta % L \in 0 .. L - 1 /\ y < end /\ end <= y + L /\ end <= N
  BY <1>1, <1>2, <1>6
<1>8. c0 < e
  <2>1. c0 * L < e * L
    <3> HIDE DEF z, y
    <3>1. z < y + L
      BY <1>6, <1>7
    <3> QED
      BY <1>6, <3>1 DEF z
  <2> QED
    BY <1>1, <1>2, <2>1, MultipleBelow
<1>9. e1 < K
  <2>1. e1 * L < K * L
    <3> HIDE DEF y, N
    <3>1. y < N
      BY <1>6, <1>7
    <3> QED
      BY <3>1 DEF y, N
  <2> QED
    BY <1>5, <2>1, MultipleBelow
<1>10. nc \in Nat /\ nc > 0 /\ c0 + nc <= K
  BY <1>1, <1>2, <1>4, <1>5, <1>8, <1>9
<1> HIDE DEF z, y, N, e1
<1>11. ASSUME NEW j \in 1 .. nc
       PROVE  LET c == c0 + (j - 1)
                  lo == IF j = 1 THEN sta ELSE c * L
                  hi == IF j = nc THEN end ELSE c * L + L
              IN  /\ c \in 0 .. K - 1 /\ c * L \in Nat /\ (c0 + j) * L = c * L + L
                  /\ c * L <= lo /\ lo <= hi /\ hi <= c * L + L /\ sta <= lo /\ hi <= end
                  /\ lo - c * L + 1 = IF j - 1 = 0 THEN (sta % L) + 1 ELSE 1
                  /\ hi - c * L = IF j - 1 = nc - 1 /\ end % L # 0 THEN end % L ELSE L
  <2> DEFINE c == c0 + (j - 1)  x == c * L
             lo == IF j = 1 THEN sta ELSE x
             hi == IF j = nc THEN end ELSE x + L
  <2>1. c \in Nat /\ c + 1 = c0 + j /\ c \in 0 .. K - 1 /\ j \in Nat
    BY <1>1, <1>10
  <2>2. (j = 1 => c = c0) /\ (j # 1 => c0 + 1 <= c)
    BY <1>1
  <2>3. (j = nc => c = e1) /\ (j # nc => c + 1 <= e1)
    <3>1. c0 \in Nat /\ nc \in Nat /\ j \in 1 .. nc /\ nc = e - c0 /\ e = e1 + 1 /\ e1 \in Nat
      BY <1>1, <1>4, <1>5, <1>10
    <3> QED
      BY ONLY <3>1
  <2> HIDE DEF c
  <2>4. x \in Nat /\ (c + 1) * L = x + L
    BY <2>1, Products
  <2>5. (c0 + 1) * L = z + L /\ c0 + 1 \in Nat
    BY <1>1, Products DEF z
  <2>6. (j = 1 => x = z) /\ (j # 1 => z + L <= x)
    <3>1. CASE j = 1
      BY <2>2, <3>1 DEF z
    <3>2. CASE j # 1
      <4>1. (c0 + 1) * L <= c * L
        BY <2>1, <2>2, <2>5, <3>2, Products
      <4> QED
        BY <2>5, <3>2, <4>1
    <3> QED
      BY <3>1, <3>2
  <2>7. (j = nc => x = y) /\ (j # nc => x + L <= y)
    <3>1. CASE j = nc
      BY <2>3, <3>1 DEF y
    <3>2. CASE j # nc
      <4>1. (c + 1) * L <= e1 * L
        BY <1>5, <2>1, <2>3, <3>2, Products
      <4> QED
        BY <2>4, <3>2, <4>1 DEF y
    <3> QED
      BY <3>1, <3>2
  <2>8. (c0 + j) * L = x + L
    BY <2>1, <2>4
  <2>9. end - y = IF end % L # 0 THEN end % L ELSE L
    BY <1>3 DEF y
  <2> HIDE DEF x
  <2>10. x <= lo /\ lo <= hi /\ hi <= x + L /\ sta <= lo /\ hi <= end
    BY <1>6, <1>7, <2>4, <2>6, <2>7
  <2>11. lo - x + 1 = IF j - 1 = 0 THEN (sta % L) + 1 ELSE 1
    BY <1>6, <1>7, <2>4, <2>6
  <2>12. hi - x = IF j - 1 = nc - 1 /\ end % L # 0 THEN end % L ELSE L
    <3>1. CASE j = nc
      BY <2>7, <2>9, <3>1
    <3>2. CASE j # nc
      BY <1>10, <2>1, <2>4, <3>2
    <3> QED
      BY <3>1, <3>2
  <2> QED
    BY <2>1, <2>4, <2>8, <2>10, <2>11, <2>12 DEF c, x
<1> QED
  BY <1>1, <1>10, <1>11 DEF PieceBounds

(* What a read takes of its clusters.                                      *)
ReadPieces(L, D, sta, end, c0, nc) ==
  [j \in 1 .. nc |->
     SubSeq(D[c0 + (j - 1)], IF j - 1 = 0 THEN (sta % L) + 1 ELSE 1,
            IF j - 1 = nc - 1 /\ end % L # 0 THEN end % L ELSE L)]

(* A read from sta to end of a file of K clusters goes through nc of them  *)
(* from c0 on.                                                             *)
ReadSpan(L, K, D, sta, end, c0, nc) ==
  /\ L \in Nat \ {0} /\ K \in Nat /\ D \in [0 .. K - 1 -> [1 .. L -> Nat]]
  /\ sta \in Nat /\ end \in Nat /\ sta < end /\ end <= K * L
  /\ c0 = sta \div L /\ nc = (end + L - 1) \div L - c0

(* What it takes is the part of the file it was asked for.                 *)
LEMMA PiecesOfRead ==
  ASSUME NEW L, NEW K, NEW D, NEW sta, NEW end, NEW c0, NEW nc, ReadSpan(L, K, D, sta, end, c0, nc)
  PROVE  FlattenSeq(ReadPieces(L, D, sta, end, c0, nc)) = SubSeq(Whole(D, L, K), sta + 1, end)
<1>0. /\ L \in Nat \ {0} /\ K \in Nat /\ D \in [0 .. K - 1 -> [1 .. L -> Nat]]
      /\ sta \in Nat /\ end \in Nat /\ sta < end /\ end <= K * L
      /\ c0 = sta \div L /\ nc = (end + L - 1) \div L - c0
  BY DEF ReadSpan
<1> USE <1>0
<1> DEFINE W == Whole(D, L, K)
           T == SubSeq(W, sta + 1, end)
           fst(j) == IF j - 1 = 0 THEN (sta % L) + 1 ELSE 1
           lst(j) == IF j - 1 = nc - 1 /\ end % L # 0 THEN end % L ELSE L
           ss == [j \in 1 .. nc |-> SubSeq(D[c0 + (j - 1)], fst(j), lst(j))]
           off == [j \in 0 .. nc |-> IF j = 0 THEN 0 ELSE IF j = nc THEN end - sta ELSE (c0 + j) * L - sta]
           c(j) == c0 + (j - 1)
           lo(j) == IF j = 1 THEN sta ELSE c(j) * L
           hi(j) == IF j = nc THEN end ELSE c(j) * L + L
<1>1. /\ c0 \in Nat /\ nc \in Nat /\ nc > 0 /\ c0 + nc <= K
      /\ \A j \in 1 .. nc :
           /\ c(j) \in 0 .. K - 1 /\ c(j) * L \in Nat /\ (c0 + j) * L = c(j) * L + L
           /\ c(j) * L <= lo(j) /\ lo(j) <= hi(j) /\ hi(j) <= c(j) * L + L /\ sta <= lo(j) /\ hi(j) <= end
           /\ lo(j) - c(j) * L + 1 = fst(j)
           /\ hi(j) - c(j) * L = lst(j)
  <2>1. c0 \in Nat /\ nc \in Nat /\ nc > 0 /\ c0 + nc <= K /\ PieceBounds(L, K, sta, end, c0, nc)
    BY PieceAt
  <2> QED
    BY <2>1, Zenon DEF PieceBounds
<1>2. K * L \in Nat /\ W \in Seq(Nat) /\ Len(W) = K * L
  BY WholeTyped
<1>3. T \in Seq(Nat) /\ Len(T) = end - sta
  <2>1. end <= Len(W) /\ sta <= end
    BY <1>2
  <2> HIDE DEF W
  <2> QED
    BY <1>2, <2>1, PartOf
<1>4. ASSUME NEW j \in 1 .. nc
      PROVE  /\ off[j - 1] = lo(j) - sta /\ off[j] = hi(j) - sta
             /\ lo(j) \in Nat /\ hi(j) \in Nat
             /\ ss[j] = SubSeq(W, lo(j) + 1, hi(j))
             /\ SubSeq(T, (lo(j) - sta) + 1, hi(j) - sta) = SubSeq(W, lo(j) + 1, hi(j))
  <2> DEFINE x == c(j) * L
  <2>1. /\ c(j) \in 0 .. K - 1 /\ x \in Nat /\ (c0 + j) * L = x + L
        /\ x <= lo(j) /\ lo(j) <= hi(j) /\ hi(j) <= x + L /\ sta <= lo(j) /\ hi(j) <= end
        /\ lo(j) - x + 1 = fst(j)
        /\ hi(j) - x = lst(j)
    BY <1>1
  <2>2. j - 1 \in 0 .. nc /\ j \in 0 .. nc /\ c0 + (j - 1) = c(j) /\ j # 0 /\ j - 1 # nc /\ (j - 1 = 0 <=> j = 1)
    <3>1. c0 \in Nat /\ nc \in Nat /\ j \in 1 .. nc
      BY <1>1
    <3> QED
      BY ONLY <3>1
  <2>3. off[j - 1] = lo(j) - sta
    <3>1. off[j - 1] = IF j - 1 = 0 THEN 0 ELSE IF j - 1 = nc THEN end - sta ELSE (c0 + (j - 1)) * L - sta
      BY <2>2
    <3>2. sta - sta = 0
      OBVIOUS
    <3> HIDE DEF off
    <3>3. CASE j = 1
      BY <2>2, <3>1, <3>2, <3>3
    <3>4. CASE j # 1
      BY <2>2, <3>1, <3>4
    <3> QED
      BY <3>3, <3>4
  <2>4. off[j] = hi(j) - sta
    <3>1. off[j] = IF j = nc THEN end - sta ELSE (c0 + j) * L - sta
      BY <2>2
    <3> HIDE DEF off
    <3> QED
      BY <2>1, <3>1
  <2>5. D[c(j)] = SubSeq(W, x + 1, x + L) /\ x + L <= K * L
    BY <2>1, ClusterIsPart
  <2>6. ss[j] = SubSeq(D[c(j)], fst(j), lst(j))
    OBVIOUS
  <2> DEFINE l == lo(j)  h == hi(j)  C == D[c(j)]
  <2>7. l \in Nat /\ h \in Nat /\ x \in Nat /\ x <= l /\ l <= h /\ h <= x + L /\ sta <= l /\ h <= end
    <3>1. l \in Nat /\ h \in Nat
      <4> HIDE DEF x
      <4>1. l = (IF j = 1 THEN sta ELSE x) /\ h = (IF j = nc THEN end ELSE x + L) /\ x \in Nat
        BY <2>1 DEF x
      <4> HIDE DEF l, h
      <4> QED
        BY <4>1
    <3> QED
      BY <2>1, <3>1
  <2>8. ss[j] = SubSeq(C, (l - x) + 1, h - x)
    <3>1. fst(j) = (l - x) + 1 /\ lst(j) = h - x
      BY <2>1
    <3> HIDE DEF ss, l, h, x, fst, lst
    <3> QED
      BY <2>6, <3>1
  <2> HIDE DEF l, h, x, C, W
  <2>9. SubSeq(C, (l - x) + 1, h - x) = SubSeq(W, l + 1, h)
    <3> DEFINE y == x + L  a == l - x  b == h - x
    <3>1. y \in Nat /\ x <= y /\ y <= Len(W) /\ a \in Nat /\ b \in Nat /\ a <= b /\ x + b <= y
      BY <1>2, <2>5, <2>7
    <3>2. x + a = l /\ x + b = h
      BY <2>7
    <3>3. C = SubSeq(W, x + 1, y)
      BY <2>5 DEF C
    <3> HIDE DEF y, a, b
    <3>4. SubSeq(SubSeq(W, x + 1, y), a + 1, b) = SubSeq(W, (x + a) + 1, x + b)
      BY <1>2, <2>7, <3>1, PartOfPart
    <3>5. SubSeq(C, a + 1, b) = SubSeq(W, l + 1, h)
      BY <3>2, <3>3, <3>4
    <3> QED
      BY <3>5 DEF a, b
  <2>10. SubSeq(T, (l - sta) + 1, h - sta) = SubSeq(W, l + 1, h)
    <3> DEFINE a == l - sta  b == h - sta
    <3>1. end <= Len(W) /\ sta <= end /\ a \in Nat /\ b \in Nat /\ a <= b /\ sta + b <= end
      BY <1>2, <2>7
    <3>2. sta + a = l /\ sta + b = h
      BY <2>7
    <3> HIDE DEF a, b
    <3>4. SubSeq(SubSeq(W, sta + 1, end), a + 1, b) = SubSeq(W, (sta + a) + 1, sta + b)
      BY <1>2, <3>1, PartOfPart
    <3>5. SubSeq(T, a + 1, b) = SubSeq(W, l + 1, h)
      BY <3>2, <3>4
    <3> QED
      BY <3>5 DEF a, b
  <2> HIDE DEF T, off, ss
  <2> QED
    BY <2>3, <2>4, <2>7, <2>8, <2>9, <2>10 DEF l, h
<1> HIDE DEF W, T, c, lo, hi
<1>5. ASSUME NEW j \in 1 .. nc
      PROVE  /\ ss[j] \in Seq(Nat) /\ off[j - 1] \in Nat /\ off[j] \in Nat /\ off[j - 1] <= off[j] /\ off[j] <= Len(T)
             /\ ss[j] = SubSeq(T, off[j - 1] + 1, off[j])
  <2> DEFINE l == lo(j)  h == hi(j)
  <2>1. /\ off[j - 1] = l - sta /\ off[j] = h - sta /\ l \in Nat /\ h \in Nat
        /\ ss[j] = SubSeq(W, l + 1, h)
        /\ SubSeq(T, (l - sta) + 1, h - sta) = SubSeq(W, l + 1, h)
    BY <1>4
  <2>2. l <= h /\ sta <= l /\ h <= end
    BY <1>1
  <2> HIDE DEF off, ss, l, h
  <2>3. h <= Len(W)
    BY <1>2, <2>1, <2>2
  <2>4. SubSeq(W, l + 1, h) \in Seq(Nat)
    BY <1>2, <2>1, <2>2, <2>3, PartOf
  <2>5. l - sta \in Nat /\ h - sta \in Nat /\ l - sta <= h - sta /\ h - sta <= Len(T)
    BY <1>3, <2>1, <2>2
  <2>6. ss[j] = SubSeq(T, off[j - 1] + 1, off[j])
    BY <2>1
  <2>7. ss[j] \in Seq(Nat)
    BY <2>1, <2>4
  <2>8. off[j - 1] = l - sta /\ off[j] = h - sta
    BY <2>1
  <2> QED
    BY <2>5, <2>6, <2>7, <2>8
<1>6. off[0] = 0 /\ off[nc] = Len(T) /\ off \in [0 .. nc -> Nat]
  <2>1. off[0] = 0 /\ off[nc] = end - sta
    BY <1>1
  <2>2. \A j \in 0 .. nc : off[j] \in Nat
    <3> SUFFICES ASSUME NEW j \in 0 .. nc PROVE off[j] \in Nat
      OBVIOUS
    <3> HIDE DEF off
    <3>1. CASE j = 0
      BY <2>1, <3>1
    <3>2. CASE j # 0
      <4>1. j \in 1 .. nc
        BY <1>1, <3>2
      <4> QED
        BY <1>5, <4>1
    <3> QED
      BY <3>1, <3>2
  <2> QED
    BY <1>3, <2>1, <2>2
<1>7. Len(ss) = nc /\ ss \in [1 .. nc -> Seq(Nat)]
  <2>1. Len(ss) = nc /\ DOMAIN ss = 1 .. nc
    BY <1>1
  <2>2. \A j \in 1 .. nc : ss[j] \in Seq(Nat)
    BY <1>5
  <2>3. ss = [j \in 1 .. nc |-> ss[j]]
    OBVIOUS
  <2> HIDE DEF ss
  <2> QED
    BY <2>1, <2>2, <2>3
<1> HIDE DEF ss, off
<1>8. InPieces(Nat, T, nc, ss, off)
  <2>1. \A i \in 1 .. nc : off[i - 1] <= off[i] /\ off[i] <= Len(T) /\ ss[i] = SubSeq(T, off[i - 1] + 1, off[i])
    BY <1>5
  <2> QED
    BY <1>1, <1>3, <1>6, <1>7, <2>1 DEF InPieces
<1>9. FlattenSeq(ss) = T
  BY <1>8, FlattenIs
<1> QED
  BY <1>9, Zenon DEF ss, T, W, ReadPieces

-----------------------------------------------------------------------------
(* Files whose clusters follow each other.                                 *)

(* Links after links.                                                      *)
LEMMA LinkAdd ==
  ASSUME NEW b, NEW c \in Nat, NEW n \in Nat
  PROVE  Link(Link(b, c), n) = Link(b, c + n)
<1> DEFINE P(i) == Link(Link(b, c), i) = Link(b, c + i)
           Bad == {i \in Nat : ~P(i)}
<1>1. Bad = {}
  <2> SUFFICES ASSUME Bad # {} PROVE FALSE
    OBVIOUS
  <2>1. PICK m \in Bad : \A k \in Bad : m <= k
    <3>1. Bad \subseteq Nat
      OBVIOUS
    <3> HIDE DEF Bad
    <3> QED
      BY <3>1, LeastNumber
  <2>2. m \in Nat /\ ~P(m)
    OBVIOUS
  <2>3. m # 0
    <3>1. Link(Link(b, c), 0) = Link(b, c)
      BY LinkSteps
    <3>2. c + 0 = c
      OBVIOUS
    <3> QED
      BY <2>2, <3>1, <3>2
  <2> DEFINE k == m - 1
  <2>4. k \in Nat /\ m = k + 1 /\ ~(m <= k) /\ c + k \in Nat /\ c + m = (c + k) + 1
    BY <2>2, <2>3
  <2> HIDE DEF k
  <2>5. P(k)
    BY <2>1, <2>4
  <2>6. Link(Link(b, c), k + 1) = IF Link(Link(b, c), k) = End THEN End ELSE next_cluster(Link(Link(b, c), k))
    BY <2>4, LinkSteps
  <2>7. Link(b, (c + k) + 1) = IF Link(b, c + k) = End THEN End ELSE next_cluster(Link(b, c + k))
    BY <2>4, LinkSteps
  <2> QED
    BY <2>2, <2>4, <2>5, <2>6, <2>7
<1> QED
  BY <1>1

(* The clusters of a file, and how many they are.                          *)
ClustersOf(ent) == (ent.size + ClusterSize - 1) \div ClusterSize
DataOf(ent) == [c \in 0 .. ClustersOf(ent) - 1 |-> volume.data[ent.block + c]]
BytesOf(ent) == Whole(DataOf(ent), ClusterSize, ClustersOf(ent))

(* A file whose clusters follow each other, with its links loaded.         *)
Solid(ent) == ~volume.fat32 /\ Contiguous(ent)

(* The links that are loaded are those on the disk.                        *)
LEMMA TrueLinkIs ==
  ASSUME volume \in Volumes, ~volume.fat32, NEW cl, NEW n
  PROVE  TrueLink(cl, n) = Link(cl, n)
<1>1. volume.chain = volume.next
  BY VolumesAssumption DEF VolumeTyped
<1> QED
  BY <1>1 DEF TrueLink, Link

(* A file whose clusters follow each other lies in its clusters.           *)
LEMMA FileData ==
  ASSUME volume \in Volumes, NEW ent, ent.block \in Nat, ent.size \in Nat, Solid(ent)
  PROVE  /\ ClusterSize \in Nat \ {0} /\ ClustersOf(ent) \in Nat /\ ent.size <= ClustersOf(ent) * ClusterSize
         /\ DataOf(ent) \in [0 .. ClustersOf(ent) - 1 -> [1 .. ClusterSize -> Nat]]
         /\ \A c \in 0 .. ClustersOf(ent) - 1 : Link(ent.block, c) = ent.block + c /\ ent.block + c > 2
<1> DEFINE K == ClustersOf(ent)
<1>1. ClusterSize \in Nat \ {0}
  BY FatAssumption
<1>2. K \in Nat /\ ent.size <= K * ClusterSize
  BY <1>1, CeilDiv DEF ClustersOf
<1>3. \A i \in 1 .. K : Link(ent.block, i - 1) = ent.block + i - 1 /\ ent.block + i - 1 \in Clusters /\ ent.block + i - 1 > 2
  BY TrueLinkIs DEF Solid, Contiguous, ClustersOf
<1> HIDE DEF K
<1>4. ASSUME NEW c \in 0 .. K - 1
      PROVE  Link(ent.block, c) = ent.block + c /\ ent.block + c \in Clusters /\ ent.block + c > 2
  <2>1. c + 1 \in 1 .. K /\ (c + 1) - 1 = c /\ ent.block + (c + 1) - 1 = ent.block + c
    BY <1>2
  <2> QED
    BY <1>3, <2>1
<1>5. \A cl \in Clusters : volume.data[cl] \in [1 .. ClusterSize -> Nat]
  BY VolumesAssumption DEF VolumeTyped, Clusters
<1>6. \A c \in 0 .. K - 1 : volume.data[ent.block + c] \in [1 .. ClusterSize -> Nat]
  BY <1>4, <1>5
<1>7. DataOf(ent) \in [0 .. K - 1 -> [1 .. ClusterSize -> Nat]]
  BY <1>6 DEF DataOf, K
<1> QED
  BY <1>1, <1>2, <1>4, <1>7 DEF K

(* A read gives the part of such a file that it was asked for.             *)
LEMMA ReadIs ==
  ASSUME volume \in Volumes, NEW ent, ent.block \in Nat, ent.size \in Nat, Solid(ent),
         NEW pos \in Nat, pos < ent.size, NEW n \in Nat \ {0}
  PROVE  read(ent, pos, n) = SubSeq(BytesOf(ent), pos + 1, Least(ent.size, pos + n))
<1> DEFINE L == ClusterSize  K == ClustersOf(ent)  D == DataOf(ent)
           end == Least(ent.size, pos + n)
           c0 == pos \div L
           nc == (end + L - 1) \div L - c0
           span == Span(ent, pos, n)
           fst(j) == IF j - 1 = 0 THEN (pos % L) + 1 ELSE 1
           lst(j) == IF j - 1 = nc - 1 /\ end % L # 0 THEN end % L ELSE L
           R(j) == volume.data[ClusterRead(Link(ent.block + c0, j - 1))]
<1>1. /\ L \in Nat \ {0} /\ K \in Nat /\ ent.size <= K * L
      /\ D \in [0 .. K - 1 -> [1 .. L -> Nat]]
      /\ \A c \in 0 .. K - 1 : Link(ent.block, c) = ent.block + c /\ ent.block + c > 2
  BY FileData
<1>2. end \in Nat /\ pos < end /\ end <= ent.size
  BY DEF Least
<1>3. end <= K * L
  <2> DEFINE N == K * L
  <2>1. N \in Nat
    BY <1>1, Products
  <2>2. ent.size <= N
    BY <1>1
  <2> HIDE DEF N, end
  <2>3. end <= N
    BY <1>2, <2>1, <2>2
  <2> QED
    BY <2>3 DEF N
<1>4. span = [sta |-> pos, end |-> end, cluster |-> c0, nclust |-> nc]
  <2>1. Least(ent.size, pos) = pos
    BY DEF Least
  <2> QED
    BY <2>1 DEF Span
<1>5. read(ent, pos, n) = FlattenSeq([j \in 1 .. nc |-> SubSeq(R(j), fst(j), lst(j))])
  <2>1. read(ent, pos, n) =
          FlattenSeq([i \in 1 .. span.nclust |->
            SubSeq(volume.data[ClusterRead(Link(ent.block + span.cluster, i - 1))],
                   IF i - 1 = 0 THEN (span.sta % L) + 1 ELSE 1,
                   IF i - 1 = span.nclust - 1 /\ span.end % L # 0 THEN span.end % L ELSE L)])
    BY DEF read, ReadCluster
  <2>2. span.nclust = nc /\ span.cluster = c0 /\ span.sta = pos /\ span.end = end
    BY <1>4
  <2> HIDE DEF span, nc, c0, end
  <2> QED
    BY <2>1, <2>2
<1> HIDE DEF L, K, D, end, span
<1>6. c0 \in Nat /\ nc \in Nat /\ c0 + nc <= K
  <2> DEFINE cc == c0  nn == nc
  <2>1. cc = pos \div L /\ nn = (end + L - 1) \div L - cc
    OBVIOUS
  <2> HIDE DEF cc, nn
  <2>2. cc \in Nat /\ nn \in Nat /\ nn > 0 /\ cc + nn <= K
    BY <1>1, <1>2, <1>3, <2>1, PieceAt
  <2> QED
    BY <2>2 DEF cc, nn
<1>7. ASSUME NEW j \in 1 .. nc PROVE R(j) = D[c0 + (j - 1)]
  <2> HIDE DEF c0, nc
  <2> DEFINE i == j - 1  b == ent.block
  <2>1. i \in Nat /\ c0 \in Nat /\ c0 \in 0 .. K - 1 /\ c0 + i \in 0 .. K - 1 /\ b \in Nat
    BY <1>1, <1>6
  <2> HIDE DEF i
  <2>2. Link(b, c0) = b + c0 /\ Link(b, c0 + i) = b + (c0 + i) /\ b + (c0 + i) > 2
    BY <1>1, <2>1
  <2>3. Link(Link(b, c0), i) = Link(b, c0 + i)
    BY <2>1, LinkAdd
  <2>4. Link(b + c0, i) = b + (c0 + i)
    BY <2>2, <2>3
  <2>5. ClusterRead(Link(b + c0, i)) = b + (c0 + i)
    BY <2>1, <2>2, <2>4 DEF ClusterRead
  <2>6. D[c0 + i] = volume.data[b + (c0 + i)]
    BY <2>1 DEF D, DataOf, K
  <2> QED
    BY <2>5, <2>6 DEF i
<1>8. [j \in 1 .. nc |-> SubSeq(R(j), fst(j), lst(j))] = [j \in 1 .. nc |-> SubSeq(D[c0 + (j - 1)], fst(j), lst(j))]
  <2> HIDE DEF nc, c0, fst, lst, R
  <2> QED
    BY <1>7
<1>9. FlattenSeq([j \in 1 .. nc |-> SubSeq(D[c0 + (j - 1)], fst(j), lst(j))]) = SubSeq(Whole(D, L, K), pos + 1, end)
  <2> DEFINE cc == c0  nn == nc
  <2>1. cc = pos \div L /\ nn = (end + L - 1) \div L - cc
    OBVIOUS
  <2> HIDE DEF cc, nn
  <2>2. FlattenSeq(ReadPieces(L, D, pos, end, cc, nn)) = SubSeq(Whole(D, L, K), pos + 1, end)
    <3>1. L \in Nat \ {0} /\ K \in Nat /\ D \in [0 .. K - 1 -> [1 .. L -> Nat]]
      BY <1>1
    <3>2. pos \in Nat /\ end \in Nat /\ pos < end /\ end <= K * L
      BY <1>2, <1>3
    <3>3. ReadSpan(L, K, D, pos, end, cc, nn)
      BY <2>1, <3>1, <3>2 DEF ReadSpan
    <3> QED
      BY <3>3, PiecesOfRead
  <2> QED
    BY <2>2, Zenon DEF cc, nn, ReadPieces
<1> HIDE DEF nc, c0, fst, lst, R
<1> QED
  BY <1>5, <1>8, <1>9 DEF BytesOf, L, K, D, end

(* Read in blocks, such a file is its bytes.                               *)
LEMMA StreamIs ==
  ASSUME volume \in Volumes, NEW ent, ent.block \in Nat, ent.size \in Nat, Solid(ent)
  PROVE  Stream(ent) = SubSeq(BytesOf(ent), 1, ent.size)
<1> DEFINE B == BlockSize  size == ent.size  W == BytesOf(ent)
           n == (size + B - 1) \div B
           ss == [i \in 1 .. n |-> read(ent, (i - 1) * B, B)]
           off == [i \in 0 .. n |-> Least(size, i * B)]
           T == SubSeq(W, 0 + 1, size)
<1>1. B \in Nat \ {0} /\ size \in Nat
  BY BlockAssumption
<1>2. W \in Seq(Nat) /\ size <= Len(W)
  BY FileData, WholeTyped DEF BytesOf
<1>3. T \in Seq(Nat) /\ Len(T) = size
  <2> HIDE DEF W, size
  <2>1. 0 <= size /\ size - 0 = size
    BY <1>1
  <2> QED
    BY <1>1, <1>2, <2>1, PartOf
<1>4. n \in Nat /\ size <= n * B /\ (size > 0 => n > 0 /\ (n - 1) * B < size) /\ (size = 0 => n = 0)
  BY <1>1, CeilDiv
<1>5. Stream(ent) = FlattenSeq(ss)
  BY DEF Stream
<1>6. ASSUME NEW i \in 1 .. n
      PROVE  /\ off[i - 1] \in Nat /\ off[i] \in Nat /\ off[i - 1] <= off[i] /\ off[i] <= Len(T)
             /\ ss[i] \in Seq(Nat) /\ ss[i] = SubSeq(T, off[i - 1] + 1, off[i])
  <2> DEFINE k == i - 1  a == k * B  b == Least(size, a + B)
  <2>1. ss[i] = read(ent, a, B) /\ off[i - 1] = Least(size, a) /\ off[i] = Least(size, i * B)
    <3>1. i - 1 \in 0 .. n /\ i \in 0 .. n
      BY <1>4
    <3> QED
      BY <3>1
  <2> HIDE DEF n
  <2>2. k \in Nat /\ i = k + 1 /\ n - 1 \in Nat /\ k <= n - 1 /\ size > 0
    BY <1>1, <1>4
  <2> HIDE DEF k
  <2>3. a \in Nat /\ i * B = a + B /\ a < size
    <3>1. a \in Nat /\ (k + 1) * B = a + B
      BY <1>1, <2>2, Products
    <3> DEFINE m == n - 1  z == m * B
    <3>2. z \in Nat /\ a <= z
      BY <1>1, <2>2, Products
    <3>3. z < size
      BY <1>4, <2>2
    <3> HIDE DEF a, z
    <3>4. a < size
      BY <1>1, <3>1, <3>2, <3>3
    <3> QED
      BY <2>2, <3>1, <3>4 DEF a
  <2> HIDE DEF a, W, size
  <2>4. Least(size, a) = a /\ b \in Nat /\ a <= b /\ b <= size
    BY <1>1, <2>3 DEF Least
  <2>5. read(ent, a, B) = SubSeq(W, a + 1, b)
    <3>1. a < ent.size
      BY <2>3 DEF size
    <3>2. read(ent, a, B) = SubSeq(BytesOf(ent), a + 1, Least(ent.size, a + B))
      BY <1>1, <2>3, <3>1, ReadIs
    <3> QED
      BY <3>2 DEF W, size
  <2> HIDE DEF b
  <2>6. SubSeq(T, a + 1, b) = SubSeq(W, a + 1, b)
    <3>1. 0 <= size /\ 0 + a = a /\ 0 + b = b /\ 0 + b <= size
      BY <1>1, <2>3, <2>4
    <3>2. SubSeq(SubSeq(W, 0 + 1, size), a + 1, b) = SubSeq(W, (0 + a) + 1, 0 + b)
      BY <1>1, <1>2, <2>3, <2>4, <3>1, PartOfPart
    <3> QED
      BY <3>1, <3>2
  <2>7. SubSeq(W, a + 1, b) \in Seq(Nat)
    <3>1. b <= Len(W)
      BY <1>1, <1>2, <2>4
    <3> QED
      BY <1>2, <2>3, <2>4, <3>1, PartOf
  <2> HIDE DEF T, ss, off
  <2>8. off[i - 1] = a /\ off[i] = b
    BY <2>1, <2>3, <2>4 DEF b
  <2>9. ss[i] = SubSeq(T, a + 1, b) /\ ss[i] \in Seq(Nat)
    BY <2>1, <2>5, <2>6, <2>7
  <2> QED
    BY <1>3, <2>3, <2>4, <2>8, <2>9
<1>7. off[0] = 0 /\ off[n] = size
  <2> DEFINE z == n * B
  <2>1. 0 \in 0 .. n /\ n \in 0 .. n /\ 0 * B = 0
    BY <1>1, <1>4
  <2>2. off[0] = Least(size, 0 * B) /\ off[n] = Least(size, z)
    BY <2>1
  <2>3. z \in Nat /\ size <= z
    <3> HIDE DEF n
    <3> QED
      BY <1>1, <1>4, Products
  <2> HIDE DEF z, off, size, n
  <2> QED
    BY <1>1, <2>1, <2>2, <2>3 DEF Least
<1>8. off \in [0 .. n -> Nat]
  <2>1. off = [i \in 0 .. n |-> off[i]]
    OBVIOUS
  <2> SUFFICES ASSUME NEW i \in 0 .. n PROVE off[i] \in Nat
    BY <2>1, Zenon
  <2> HIDE DEF off, n
  <2>2. CASE i = 0
    BY <1>7, <2>2
  <2>3. CASE i # 0
    <3>1. i \in 1 .. n
      BY <1>4, <2>3
    <3> QED
      BY <1>6, <3>1
  <2> QED
    BY <2>2, <2>3
<1>9. Len(ss) = n /\ ss \in [1 .. n -> Seq(Nat)]
  <2>1. Len(ss) = n /\ ss = [i \in 1 .. n |-> ss[i]]
    <3> HIDE DEF n
    <3> QED
      BY <1>4
  <2>2. \A i \in 1 .. n : ss[i] \in Seq(Nat)
    BY <1>6
  <2> HIDE DEF ss, n
  <2> QED
    BY <2>1, <2>2
<1> HIDE DEF ss, off, n, T, W
<1>10. InPieces(Nat, T, n, ss, off)
  <2>1. \A i \in 1 .. n : off[i - 1] <= off[i] /\ off[i] <= Len(T) /\ ss[i] = SubSeq(T, off[i - 1] + 1, off[i])
    BY <1>6
  <2> QED
    BY <1>3, <1>4, <1>7, <1>8, <1>9, <2>1 DEF InPieces
<1>11. FlattenSeq(ss) = T
  BY <1>10, FlattenIs
<1>12. 0 + 1 = 1
  OBVIOUS
<1> QED
  BY <1>5, <1>11, <1>12 DEF T, W

(* Such a file is read as it is stored.                                    *)
LEMMA StreamAsStored ==
  ASSUME volume \in Volumes, NEW ent, ent.block \in Nat, ent.size \in Nat, Solid(ent)
  PROVE  Stream(ent) = TrueBytes(ent)
<1> DEFINE K == ClustersOf(ent)  D == DataOf(ent)
<1>1. /\ ClusterSize \in Nat \ {0} /\ K \in Nat
      /\ D \in [0 .. K - 1 -> [1 .. ClusterSize -> Nat]]
      /\ \A c \in 0 .. K - 1 : Link(ent.block, c) = ent.block + c
  BY FileData
<1>2. TrueBytes(ent) = SubSeq(FlattenSeq([i \in 1 .. K |-> volume.data[Link(ent.block, i - 1)]]), 1, ent.size)
  <2>1. \A i \in 1 .. K : volume.data[TrueLink(ent.block, i - 1)] = volume.data[Link(ent.block, i - 1)]
    BY TrueLinkIs DEF Solid
  <2>2. TrueBytes(ent) = SubSeq(FlattenSeq([i \in 1 .. K |-> volume.data[TrueLink(ent.block, i - 1)]]), 1, ent.size)
    BY DEF TrueBytes, ClustersOf
  <2> HIDE DEF K
  <2>3. [i \in 1 .. K |-> volume.data[TrueLink(ent.block, i - 1)]] = [i \in 1 .. K |-> volume.data[Link(ent.block, i - 1)]]
    BY <2>1
  <2> QED
    BY <2>2, <2>3
<1>3. ASSUME NEW i \in 1 .. K PROVE volume.data[Link(ent.block, i - 1)] = D[i - 1]
  <2>1. i - 1 \in 0 .. K - 1
    BY <1>1
  <2>2. D[i - 1] = volume.data[ent.block + (i - 1)]
    BY <2>1 DEF DataOf
  <2>3. Link(ent.block, i - 1) = ent.block + (i - 1)
    BY <1>1, <2>1
  <2> QED
    BY <2>2, <2>3
<1> HIDE DEF K, D
<1>4. [i \in 1 .. K |-> volume.data[Link(ent.block, i - 1)]] = [i \in 1 .. K |-> D[i - 1]]
  BY <1>3
<1>5. FlattenSeq([i \in 1 .. K |-> D[i - 1]]) = Whole(D, ClusterSize, K)
  BY <1>1, FullFlatten
<1>6. TrueBytes(ent) = SubSeq(Whole(D, ClusterSize, K), 1, ent.size)
  BY <1>2, <1>4, <1>5
<1>7. Stream(ent) = SubSeq(BytesOf(ent), 1, ent.size)
  BY StreamIs
<1> QED
  BY <1>6, <1>7 DEF BytesOf, K, D

-----------------------------------------------------------------------------
(* What the handles return.                                                *)

(* A file that is open is one stat found.  If its clusters follow each     *)
(* other, the position is inside it.                                       *)
HandleOK ==
  handle # NoHandle =>
    /\ handle = [mode |-> handle.mode, ent |-> handle.ent, pos |-> handle.pos, eof |-> handle.eof]
    /\ handle.ent \in Entries
    /\ Solid(handle.ent) => handle.pos \in 0 .. handle.ent.size

TextInv == CacheInv /\ HandleOK /\ TextAsStored

(* What is stored depends on the volume alone.                             *)
LEMMA StoredKept ==
  ASSUME UNCHANGED volume
  PROVE  /\ Entries' = Entries
         /\ \A ent : Solid(ent)' = Solid(ent) /\ TrueBytes(ent)' = TrueBytes(ent)
  BY DEF Entries, Clusters, Solid, Contiguous, TrueBytes, TrueLink, Walk

(* The first newline.                                                      *)
FirstNewline(s) == SelectInSeq(s, LAMBDA c : c = Newline)

(* It is in the text, or 0.                                                *)
LEMMA FirstNewlineIn ==
  ASSUME NEW s \in Seq(Nat)
  PROVE  FirstNewline(s) \in 0 .. Len(s)
<1> DEFINE I == {i \in 1 .. Len(s) : s[i] = Newline}
<1>1. Len(s) \in Nat
  OBVIOUS
<1>2. FirstNewline(s) = IF I # {} THEN Min(I) ELSE 0
  BY DEF FirstNewline, SelectInSeq
<1>3. I \subseteq Nat
  BY <1>1
<1>4. I # {} => Min(I) \in I
  BY <1>3, MinIsIn
<1>5. I \subseteq 1 .. Len(s)
  OBVIOUS
<1> HIDE DEF I
<1>6. FirstNewline(s) = 0 \/ FirstNewline(s) \in 1 .. Len(s)
  BY <1>2, <1>4, <1>5
<1> QED
  BY <1>1, <1>6

(* What is open can be read as it is stored.                               *)
LEMMA OpenAsStored ==
  ASSUME CacheInv, HandleOK, handle # NoHandle, Solid(handle.ent)
  PROVE  /\ bytes = TrueBytes(handle.ent) /\ bytes \in Seq(Nat) /\ Len(bytes) = handle.ent.size
         /\ handle.pos \in Nat /\ handle.pos <= handle.ent.size /\ handle.ent.size \in Nat
         /\ Ahead \in Seq(Nat) /\ Len(Ahead) = handle.ent.size - handle.pos
<1> DEFINE e == handle.ent  size == e.size  W == BytesOf(e)
<1>1. volume \in Volumes /\ e \in Entries /\ handle.pos \in 0 .. size
  BY DEF CacheInv, HandleOK
<1>2. e.block \in Nat /\ size \in Nat
  BY <1>1 DEF Entries
<1> HIDE DEF e
<1>3. Solid(e)
  BY DEF e
<1>4. Stream(e) = TrueBytes(e) /\ Stream(e) = SubSeq(W, 1, size)
  BY <1>1, <1>2, <1>3, StreamAsStored, StreamIs
<1>5. W \in Seq(Nat) /\ size <= Len(W)
  BY <1>1, <1>2, <1>3, FileData, WholeTyped DEF BytesOf
<1> HIDE DEF W, size
<1>6. Stream(e) \in Seq(Nat) /\ Len(Stream(e)) = size
  <2>1. 0 <= size /\ 0 + 1 = 1 /\ size - 0 = size
    BY <1>2
  <2>2. SubSeq(W, 0 + 1, size) \in Seq(Nat) /\ Len(SubSeq(W, 0 + 1, size)) = size - 0
    BY <1>2, <1>5, <2>1, PartOf
  <2> QED
    BY <1>4, <2>1, <2>2
<1>7. handle.pos \in Nat /\ handle.pos <= size /\ size <= Len(Stream(e))
  BY <1>1, <1>2, <1>6
<1>8. SubSeq(Stream(e), handle.pos + 1, size) \in Seq(Nat) /\ Len(SubSeq(Stream(e), handle.pos + 1, size)) = size - handle.pos
  BY <1>2, <1>6, <1>7, PartOf
<1>9. Ahead = SubSeq(Stream(e), handle.pos + 1, size)
  BY <1>6 DEF Ahead, bytes, e
<1> QED
  BY <1>2, <1>4, <1>6, <1>7, <1>8, <1>9 DEF bytes, e, size

(* A handle that is moved inside its file stays one.                       *)
LEMMA MovedInside ==
  ASSUME HandleOK, handle # NoHandle, UNCHANGED volume, NEW p, NEW e, Moved(p, e),
         Solid(handle.ent) => p \in 0 .. handle.ent.size
  PROVE  HandleOK'
<1> DEFINE h == [mode |-> handle.mode, ent |-> handle.ent, pos |-> p, eof |-> e]
<1>1. handle = [mode |-> handle.mode, ent |-> handle.ent, pos |-> handle.pos, eof |-> handle.eof] /\ handle.ent \in Entries
  BY DEF HandleOK
<1>2. handle' = h
  BY <1>1 DEF Moved
<1>3. h.ent = handle.ent /\ h.pos = p /\ h = [mode |-> h.mode, ent |-> h.ent, pos |-> h.pos, eof |-> h.eof]
  OBVIOUS
<1> HIDE DEF h
<1> QED
  BY <1>1, <1>2, <1>3, StoredKept DEF HandleOK

(* What an answer says of the bytes that are stored.                       *)
TextOf(a, stored) ==
  /\ a.op = "readAll" => a.value = Shown(SubSeq(stored, a.from + 1, Len(stored)))
  /\ a.op = "readLine" => a.value \in Unterminated(LineAt(stored, a.from))

AnswerIsText ==
  answer.op \in {"readAll", "readLine"} /\ Solid(answer.ent) => TextOf(answer, TrueBytes(answer.ent))

(* The property's words are the same.                                      *)
LEMMA TextAsStoredIs ==
  (TextAsStored <=> AnswerIsText) /\ (TextAsStored' <=> AnswerIsText')
<1>1. TextAsStored <=> AnswerIsText
  BY Zenon DEF TextAsStored, AnswerIsText, TextOf, Solid
<1>2. TextAsStored' <=> AnswerIsText'
  BY Zenon DEF TextAsStored, AnswerIsText, TextOf, Solid
<1> QED
  BY <1>1, <1>2

(* An answer of another function, or the one there was.                    *)
LEMMA NoText ==
  ASSUME TextAsStored, UNCHANGED volume, answer'.op \notin {"readAll", "readLine"} \/ UNCHANGED answer
  PROVE  TextAsStored'
<1>1. CASE answer'.op \notin {"readAll", "readLine"}
  BY <1>1, TextAsStoredIs DEF AnswerIsText
<1>2. CASE UNCHANGED answer
  BY <1>2, StoredKept, TextAsStoredIs DEF AnswerIsText
<1> QED
  BY <1>1, <1>2

(* A handle gives what is ahead of it.                                     *)
LEMMA ResultIsText ==
  ASSUME CacheInv, HandleOK, handle # NoHandle, UNCHANGED volume,
         NEW op \in {"readAll", "readLine"}, NEW value, Result(op, value),
         ASSUME Solid(handle.ent)
         PROVE  /\ op = "readAll" => value = Shown(Ahead)
                /\ op = "readLine" => value \in Unterminated(LineAt(bytes, handle.pos))
  PROVE  TextAsStored'
<1> DEFINE a == [op |-> op, ent |-> handle.ent, from |-> handle.pos, value |-> value]
<1>1. answer' = a
  BY DEF Result
<1>2. a.op = op /\ a.ent = handle.ent /\ a.from = handle.pos /\ a.value = value
  OBVIOUS
<1> HIDE DEF a
<1>3. ASSUME Solid(handle.ent)
      PROVE  TextOf(a, TrueBytes(handle.ent))
  <2> DEFINE stored == TrueBytes(handle.ent)
  <2>1. bytes = stored
    BY <1>3, OpenAsStored
  <2>2. Ahead = SubSeq(stored, handle.pos + 1, Len(stored))
    BY <2>1 DEF Ahead
  <2>3. /\ op = "readAll" => value = Shown(Ahead)
        /\ op = "readLine" => value \in Unterminated(LineAt(bytes, handle.pos))
    BY <1>3
  <2> HIDE DEF stored
  <2>4. TextOf(a, stored)
    BY <1>2, <2>1, <2>2, <2>3 DEF TextOf
  <2> QED
    BY <2>4 DEF stored
<1>4. AnswerIsText'
  BY <1>1, <1>2, <1>3, StoredKept DEF AnswerIsText
<1> QED
  BY <1>4, TextAsStoredIs

(* What fs_handle.c does with an open file.                                *)
LEMMA ReadStep ==
  ASSUME TextInv, handle_readAll \/ handle_readLine \/ handle_readChar \/ handle_readByte
  PROVE  HandleOK' /\ TextAsStored'
<1> DEFINE size == handle.ent.size
<1>1. CacheInv /\ HandleOK /\ TextAsStored /\ handle # NoHandle /\ UNCHANGED volume
  BY DEF TextInv, handle_readAll, handle_readLine, handle_readChar, handle_readByte, Fetch, Reads
<1>2. ASSUME Solid(handle.ent)
      PROVE  /\ Len(bytes) = size /\ handle.pos \in Nat /\ handle.pos <= size /\ size \in Nat
             /\ Ahead \in Seq(Nat) /\ Len(Ahead) = size - handle.pos
             /\ LineLength \in 0 .. size - handle.pos
  <2>1. /\ Len(bytes) = size /\ handle.pos \in Nat /\ handle.pos <= size /\ size \in Nat
        /\ Ahead \in Seq(Nat) /\ Len(Ahead) = size - handle.pos
    BY <1>1, <1>2, OpenAsStored
  <2>2. LineLength = FirstNewline(Ahead)
    BY Zenon DEF LineLength, FirstNewline
  <2>3. FirstNewline(Ahead) \in 0 .. Len(Ahead)
    BY <2>1, FirstNewlineIn
  <2> QED
    BY <2>1, <2>2, <2>3
<1> HIDE DEF size
<1>3. Solid(handle.ent) => Len(bytes) \in 0 .. size
  BY <1>2
<1>4. LineLength = FirstNewline(Ahead)
  BY Zenon DEF LineLength, FirstNewline
<1>5. CASE handle_readAll
  <2>1. Result("readAll", Shown(Ahead)) /\ Moved(Len(bytes), FALSE)
    BY <1>5 DEF handle_readAll
  <2>2. HandleOK'
    BY <1>1, <1>3, <2>1, MovedInside DEF size
  <2>3. TextAsStored'
    BY <1>1, <2>1, ResultIsText
  <2> QED
    BY <2>2, <2>3
<1>6. CASE handle_readLine /\ ReadWholeLine
  <2> DEFINE n == LineLength
  <2>1. PICK v \in Unterminated(Shown(SubSeq(Ahead, 1, n - 1))) : Result("readLine", v)
    BY <1>6 DEF ReadWholeLine
  <2>2. n > 0 /\ Moved(handle.pos + n, FALSE)
    BY <1>6 DEF ReadWholeLine
  <2> HIDE DEF n
  <2>3. HandleOK'
    <3>1. Solid(handle.ent) => handle.pos + n \in 0 .. size
      BY <1>2 DEF n
    <3> QED
      BY <1>1, <2>2, <3>1, MovedInside DEF size
  <2>4. LineAt(bytes, handle.pos) = Shown(SubSeq(Ahead, 1, n - 1))
    BY <2>2 DEF LineAt, Ahead, LineLength, n
  <2>5. v \in Unterminated(LineAt(bytes, handle.pos))
    BY <2>1, <2>4
  <2>6. TextAsStored'
    BY <1>1, <2>1, <2>5, ResultIsText
  <2> QED
    BY <2>3, <2>6
<1>7. CASE handle_readLine /\ ReadLastLine
  <2> DEFINE line == IF handle.pos = 0 THEN [i \in DOMAIN Ahead |-> Question]
                     ELSE Shown(SubSeq(bytes, handle.pos, Len(bytes) - 1))
  <2>1. PICK v \in Unterminated(line) : Result("readLine", v)
    BY <1>7 DEF ReadLastLine
  <2>2. LineLength = 0 /\ Moved(Len(bytes), handle.pos = 0)
    BY <1>7 DEF ReadLastLine
  <2>3. HandleOK'
    BY <1>1, <1>3, <2>2, MovedInside DEF size
  <2>4. LineAt(bytes, handle.pos) = line
    BY <2>2 DEF LineAt, Ahead, LineLength
  <2> HIDE DEF line
  <2>5. TextAsStored'
    BY <1>1, <2>1, <2>4, ResultIsText
  <2> QED
    BY <2>3, <2>5
<1>8. CASE handle_readChar \/ handle_readByte
  <2>1. GetChar
    BY <1>8 DEF handle_readChar, handle_readByte
  <2>2. HandleOK'
    <3>1. CASE Ahead = <<>>
      <4>1. Moved(handle.pos, TRUE)
        BY <2>1, <3>1 DEF GetChar
      <4>2. Solid(handle.ent) => handle.pos \in 0 .. size
        BY <1>2
      <4> QED
        BY <1>1, <4>1, <4>2, MovedInside DEF size
    <3>2. CASE Ahead # <<>>
      <4>1. Moved(handle.pos + 1, FALSE)
        BY <2>1, <3>2 DEF GetChar
      <4>2. Solid(handle.ent) => handle.pos + 1 \in 0 .. size
        BY <1>2, <3>2
      <4> QED
        BY <1>1, <4>1, <4>2, MovedInside DEF size
    <3> QED
      BY <3>1, <3>2
  <2>3. answer'.op \notin {"readAll", "readLine"}
    BY <1>8 DEF handle_readChar, handle_readByte, Result
  <2> QED
    BY <1>1, <2>2, <2>3, NoText
<1> QED
  BY <1>5, <1>6, <1>7, <1>8 DEF handle_readLine

(* Every other step leaves the handle, opens what stat found, or closes it.*)
LEMMA FileStepKeepsText ==
  ASSUME TextInv, NextFile
  PROVE  TextInv'
<1>1. CacheInv /\ HandleOK /\ TextAsStored /\ CacheInv'
  BY FileStepKeepsCache DEF TextInv
<1>2. ASSUME UNCHANGED <<volume, handle>>, answer'.op \notin {"readAll", "readLine"} \/ UNCHANGED answer
      PROVE  TextInv'
  <2>1. HandleOK'
    BY <1>1, <1>2, StoredKept DEF HandleOK
  <2> QED
    BY <1>1, <1>2, <2>1, NoText DEF TextInv
<1>3. ASSUME NEW path \in Paths,
             fs_exists(path, stat(path)) \/ fs_isDir(path, stat(path)) \/ fs_getSize(path, stat(path)) \/ fs_list(path, stat(path))
      PROVE  TextInv'
  <2>1. UNCHANGED <<volume, handle>>
    BY <1>3 DEF fs_exists, fs_isDir, fs_getSize, fs_list
  <2>2. answer'.op \notin {"readAll", "readLine"}
    <3> DEFINE s == stat(path)
    <3>1. fs_exists(path, s) \/ fs_isDir(path, s) \/ fs_getSize(path, s) \/ fs_list(path, s)
      BY <1>3
    <3> HIDE DEF s
    <3>2. CASE fs_exists(path, s) \/ fs_isDir(path, s)
      BY <3>2 DEF fs_exists, fs_isDir
    <3>3. CASE fs_getSize(path, s)
      BY <3>3 DEF fs_getSize
    <3>4. CASE fs_list(path, s)
      BY <3>4 DEF fs_list
    <3> QED
      BY <3>1, <3>2, <3>3, <3>4
  <2> QED
    BY <1>2, <2>1, <2>2
<1>4. ASSUME NEW path \in Paths, NEW mode \in Modes, fs_open(path, stat(path), mode)
      PROVE  TextInv'
  <2> DEFINE s == stat(path)
             h == [mode |-> mode, ent |-> s.ent, pos |-> 0, eof |-> FALSE]
  <2>1. s.ent.type = "FILE" => s.ent \in Entries
    BY <1>1, StatHonest DEF CacheInv
  <2> HIDE DEF s
  <2>2. UNCHANGED volume /\ answer'.op \notin {"readAll", "readLine"}
    BY <1>4 DEF fs_open, s
  <2>3. UNCHANGED handle \/ (s.ent.type = "FILE" /\ handle' = h)
    BY <1>4 DEF fs_open, s
  <2>4. CASE UNCHANGED handle
    BY <1>2, <2>2, <2>4
  <2>5. CASE s.ent.type = "FILE" /\ handle' = h
    <3>1. h.ent = s.ent /\ h.pos = 0 /\ h = [mode |-> h.mode, ent |-> h.ent, pos |-> h.pos, eof |-> h.eof]
      OBVIOUS
    <3>2. h.ent \in Entries /\ h.ent.size \in Nat
      BY <2>1, <2>5, <3>1 DEF Entries
    <3>3. h.pos \in 0 .. h.ent.size
      BY <3>1, <3>2
    <3> HIDE DEF h
    <3>4. HandleOK'
      BY <2>2, <2>5, <3>1, <3>2, <3>3, StoredKept DEF HandleOK
    <3> QED
      BY <1>1, <2>2, <3>4, NoText DEF TextInv
  <2> QED
    BY <2>3, <2>4, <2>5
<1>5. CASE handle_readAll \/ handle_readLine \/ handle_readChar \/ handle_readByte
  BY <1>1, <1>5, ReadStep DEF TextInv
<1>6. CASE AtEof("r") \/ AtEof("rb") \/ Panic \/ (panicked /\ UNCHANGED <<volume, ls_cache, handle, answer, panicked>>)
  <2>1. UNCHANGED <<volume, handle>>
    BY <1>6 DEF AtEof, Panic
  <2>2. answer'.op \notin {"readAll", "readLine"} \/ UNCHANGED answer
    BY <1>6 DEF AtEof, Panic, nil
  <2> QED
    BY <1>2, <2>1, <2>2
<1>7. CASE handle_close
  <2>1. UNCHANGED volume /\ handle' = NoHandle /\ answer'.op \notin {"readAll", "readLine"}
    BY <1>7 DEF handle_close, nil
  <2>2. HandleOK'
    BY <2>1 DEF HandleOK, NoHandle
  <2> QED
    BY <1>1, <2>1, <2>2, NoText DEF TextInv
<1> QED
  BY <1>3, <1>4, <1>5, <1>6, <1>7 DEF NextFile

(* For every cluster size, every block size of stdio and every file whose  *)
(* clusters follow each other, readAll returns exactly what the file holds *)
(* from the handle's position on, and readLine the line LineAt names, with *)
(* or without what lies behind its buffer: FAT_::read of fat_sync.cpp puts *)
(* the parts of the clusters and stdio the blocks together without losing, *)
(* repeating or moving a byte.  What readLine gets wrong is not hidden:    *)
(* LineAt has the shifted last line of fs_handle.c:38, Unterminated the    *)
(* missing 0 of fs_handle.c:39-42.                                         *)
THEOREM TextIsAsStored == Spec => []TextAsStored
<1>1. Init => TextInv
  BY DEF Init, TextInv, CacheInv, Honest, HandleOK, TextAsStored, NoHandle, nil
<1>2. TextInv /\ [Next]_vars => TextInv'
  <2> SUFFICES ASSUME TextInv, [Next]_vars PROVE TextInv'
    OBVIOUS
  <2>1. CASE NextFile
    BY <2>1, FileStepKeepsText
  <2>2. CASE UNCHANGED <<volume, ls_cache, handle, answer>>
    <3>1. CacheInv'
      BY <2>2, HonestKept DEF CacheInv, TextInv
    <3>2. HandleOK'
      BY <2>2, StoredKept DEF HandleOK, TextInv
    <3>3. TextAsStored'
      BY <2>2, NoText DEF TextInv
    <3> QED
      BY <3>1, <3>2, <3>3 DEF TextInv
  <2>3. NextFile \/ UNCHANGED <<volume, ls_cache, handle, answer>>
    BY DEF Next, vars
  <2> QED
    BY <2>1, <2>2, <2>3
<1>3. TextInv => TextAsStored
  BY DEF TextInv
<1> QED
  BY <1>1, <1>2, <1>3, PTL DEF Spec

-----------------------------------------------------------------------------
(* The functions that only compute with paths.                             *)

(* f gives the n numbers of S in their order.                              *)
InLine(f, n, S) ==
  /\ n \in Nat /\ f \in [1 .. n -> S] /\ S \subseteq Nat
  /\ \A i, j \in 1 .. n : i < j => f[i] < f[j]
  /\ \A x \in S : \E i \in 1 .. n : f[i] = x

(* There are as many of them.                                              *)
LEMMA LineCounts ==
  ASSUME NEW f, NEW n, NEW S, InLine(f, n, S)
  PROVE  IsFiniteSet(S) /\ Cardinality(S) = n
<1>1. n \in Nat /\ f \in [1 .. n -> S] /\ (\A i, j \in 1 .. n : i < j => f[i] < f[j]) /\ S \subseteq Nat
  BY DEF InLine
<1>2. ASSUME NEW i \in 1 .. n, NEW j \in 1 .. n, f[i] = f[j] PROVE i = j
  <2>1. f[i] \in Nat /\ f[j] \in Nat
    BY <1>1
  <2>2. ~(i < j) /\ ~(j < i)
    BY <1>1, <1>2, <2>1
  <2> QED
    BY <1>1, <2>2
<1>3. f \in Bijection(1 .. n, S)
  BY <1>1, <1>2 DEF Bijection, Injection, Surjection, IsInjective, InLine
<1>4. ExistsBijection(1 .. n, S)
  BY <1>3 DEF ExistsBijection
<1>5. IsFiniteSet(1 .. n) /\ Cardinality(1 .. n) = n
  BY <1>1, FS_Interval
<1> QED
  BY <1>4, <1>5, FS_Bijection

(* There is one way to put numbers in a line.                              *)
LEMMA OneLine ==
  ASSUME NEW f, NEW g, NEW n, NEW S, InLine(f, n, S), InLine(g, n, S)
  PROVE  f = g
<1>1. /\ n \in Nat /\ f \in [1 .. n -> S] /\ g \in [1 .. n -> S] /\ S \subseteq Nat
      /\ \A i, j \in 1 .. n : i < j => f[i] < f[j] /\ g[i] < g[j]
      /\ \A x \in S : (\E i \in 1 .. n : f[i] = x) /\ (\E i \in 1 .. n : g[i] = x)
  BY DEF InLine
<1> DEFINE Bad == {i \in 1 .. n : f[i] # g[i]}
<1>2. Bad = {}
  <2> SUFFICES ASSUME Bad # {} PROVE FALSE
    OBVIOUS
  <2>1. Bad \subseteq Nat
    BY <1>1
  <2>2. PICK k \in Bad : \A i \in Bad : k <= i
    <3> HIDE DEF Bad
    <3> QED
      BY <2>1, LeastNumber
  <2>3. k \in 1 .. n /\ f[k] # g[k] /\ \A i \in 1 .. n : i < k => f[i] = g[i]
    <3>1. \A i \in 1 .. n : f[i] # g[i] => k <= i
      BY <2>2
    <3> QED
      BY <1>1, <2>2, <3>1
  <2>4. f[k] \in Nat /\ g[k] \in Nat
    BY <1>1, <2>3
  <2>5. CASE f[k] < g[k]
    <3>1. PICK i \in 1 .. n : g[i] = f[k]
      BY <1>1, <2>3
    <3>2. CASE i < k
      BY <1>1, <2>3, <2>4, <3>1, <3>2
    <3>3. CASE i = k
      BY <2>3, <3>1, <3>3
    <3>4. CASE k < i
      BY <1>1, <2>3, <2>4, <2>5, <3>1, <3>4
    <3> QED
      BY <1>1, <2>3, <3>2, <3>3, <3>4
  <2>6. CASE g[k] < f[k]
    <3>1. PICK i \in 1 .. n : f[i] = g[k]
      BY <1>1, <2>3
    <3>2. CASE i < k
      BY <1>1, <2>3, <2>4, <3>1, <3>2
    <3>3. CASE i = k
      BY <2>3, <3>1, <3>3
    <3>4. CASE k < i
      BY <1>1, <2>3, <2>4, <2>6, <3>1, <3>4
    <3> QED
      BY <1>1, <2>3, <3>2, <3>3, <3>4
  <2> QED
    BY <2>3, <2>4, <2>5, <2>6
<1>3. \A i \in 1 .. n : f[i] = g[i]
  BY <1>2
<1> QED
  BY <1>1, <1>3

(* The numbers up to b can be put in a line, whichever they are.           *)
LEMMA LineExists ==
  ASSUME NEW b \in Nat, NEW S, S \subseteq 1 .. b
  PROVE  \E f, n : InLine(f, n, S)
<1> DEFINE Bad == {c \in Nat : \E T \in SUBSET (1 .. c) : ~\E f, n : InLine(f, n, T)}
<1>1. Bad = {}
  <2> SUFFICES ASSUME Bad # {} PROVE FALSE
    OBVIOUS
  <2>1. Bad \subseteq Nat
    OBVIOUS
  <2>2. PICK c \in Bad : \A k \in Bad : c <= k
    <3> HIDE DEF Bad
    <3> QED
      BY <2>1, LeastNumber
  <2>3. PICK T \in SUBSET (1 .. c) : ~\E f, n : InLine(f, n, T)
    BY <2>2
  <2>4. c \in Nat
    BY <2>2
  <2>5. c # 0
    <3> SUFFICES ASSUME c = 0 PROVE FALSE
      OBVIOUS
    <3>1. T = {}
      BY <2>3
    <3> DEFINE e == [i \in 1 .. 0 |-> 0]
    <3>2. 1 .. 0 = {} /\ 0 \in Nat
      OBVIOUS
    <3>3. e \in [1 .. 0 -> {}]
      BY <3>2
    <3>4. InLine(e, 0, T)
      BY <3>1, <3>2, <3>3 DEF InLine
    <3> QED
      BY <2>3, <3>4
  <2>6. \A U \in SUBSET (1 .. c - 1) : \E f, n : InLine(f, n, U)
    <3>1. c - 1 \in Nat /\ ~(c <= c - 1)
      BY <2>4, <2>5
    <3>2. c - 1 \notin Bad
      BY <2>2, <3>1
    <3> QED
      BY <3>1, <3>2
  <2>7. CASE c \notin T
    <3>1. T \in SUBSET (1 .. c - 1)
      BY <2>3, <2>4, <2>7
    <3> QED
      BY <2>3, <2>6, <3>1
  <2>8. CASE c \in T
    <3> DEFINE U == T \ {c}
    <3>1. U \in SUBSET (1 .. c - 1)
      BY <2>3, <2>4
    <3>2. PICK f, n : InLine(f, n, U)
      BY <2>6, <3>1
    <3>3. /\ n \in Nat /\ f \in [1 .. n -> U]
          /\ \A i, j \in 1 .. n : i < j => f[i] < f[j]
          /\ \A x \in U : \E i \in 1 .. n : f[i] = x
      BY <3>2 DEF InLine
    <3> DEFINE g == [i \in 1 .. n + 1 |-> IF i = n + 1 THEN c ELSE f[i]]
    <3>4. \A i \in 1 .. n + 1 : i # n + 1 => i \in 1 .. n
      BY <3>3
    <3>5. T \subseteq Nat /\ U \subseteq T /\ \A x \in T : x = c \/ x \in U
      BY <2>3, <2>4
    <3>6. \A x \in U : x < c
      BY <2>4, <3>1
    <3> HIDE DEF U
    <3>7. g \in [1 .. n + 1 -> T]
      BY <2>8, <3>3, <3>4, <3>5
    <3>8. \A i, j \in 1 .. n + 1 : i < j => g[i] < g[j]
      <4> SUFFICES ASSUME NEW i \in 1 .. n + 1, NEW j \in 1 .. n + 1, i < j PROVE g[i] < g[j]
        OBVIOUS
      <4>1. i \in 1 .. n /\ i # n + 1
        BY <3>3
      <4>2. g[i] = f[i] /\ f[i] \in U
        BY <3>3, <4>1
      <4>3. CASE j = n + 1
        BY <3>6, <4>2, <4>3
      <4>4. CASE j # n + 1
        BY <3>3, <3>4, <4>1, <4>2, <4>4
      <4> QED
        BY <4>3, <4>4
    <3>9. \A x \in T : \E i \in 1 .. n + 1 : g[i] = x
      <4> SUFFICES ASSUME NEW x \in T PROVE \E i \in 1 .. n + 1 : g[i] = x
        OBVIOUS
      <4>1. CASE x = c
        <5>1. n + 1 \in 1 .. n + 1 /\ g[n + 1] = c
          BY <3>3
        <5> QED
          BY <4>1, <5>1
      <4>2. CASE x \in U
        <5>1. PICK i \in 1 .. n : f[i] = x
          BY <3>3, <4>2
        <5>2. i \in 1 .. n + 1 /\ i # n + 1
          BY <3>3
        <5> QED
          BY <5>1, <5>2
      <4> QED
        BY <3>5, <4>1, <4>2
    <3> HIDE DEF g
    <3>10. InLine(g, n + 1, T)
      <4>1. n + 1 \in Nat
        BY <3>3
      <4> QED
        BY <3>5, <3>7, <3>8, <3>9, <4>1 DEF InLine
    <3> QED
      BY <2>3, <3>10
  <2> QED
    BY <2>7, <2>8
<1>2. S \in SUBSET (1 .. b)
  OBVIOUS
<1> QED
  BY <1>1, <1>2

(* InOrder is that line.                                                   *)
LEMMA InOrderIs ==
  ASSUME NEW f, NEW n, NEW S, InLine(f, n, S)
  PROVE  InOrder(S) = f
<1>1. IsFiniteSet(S) /\ Cardinality(S) = n
  BY LineCounts
<1>2. n \in Nat /\ f \in [1 .. n -> S] /\ S \subseteq Nat /\ \A i, j \in 1 .. n : i < j => f[i] < f[j]
  BY DEF InLine
<1> DEFINE g == InOrder(S)
<1>3. g \in [1 .. n -> S] /\ \A i, j \in 1 .. n : i < j => g[i] < g[j]
  <2>1. \E h \in [1 .. n -> S] : \A i, j \in DOMAIN h : i < j => h[i] < h[j]
    BY <1>2
  <2>2. g = CHOOSE h \in [1 .. n -> S] : \A i, j \in DOMAIN h : i < j => h[i] < h[j]
    BY <1>1 DEF InOrder
  <2> HIDE DEF g
  <2>3. g \in [1 .. n -> S] /\ \A i, j \in DOMAIN g : i < j => g[i] < g[j]
    BY <2>1, <2>2
  <2> QED
    BY <2>3
<1> HIDE DEF g
<1>4. ASSUME NEW x \in S PROVE \E i \in 1 .. n : g[i] = x
  <2> SUFFICES ASSUME \A i \in 1 .. n : g[i] # x PROVE FALSE
    OBVIOUS
  <2>1. g \in [1 .. n -> S \ {x}]
    BY <1>3
  <2>2. IsFiniteSet(S \ {x}) /\ Cardinality(S \ {x}) = n - 1
    BY ONLY <1>1, x \in S, FS_RemoveElement
  <2>3. IsFiniteSet(1 .. n) /\ Cardinality(1 .. n) = n
    <3>1. IsFiniteSet(1 .. n) /\ Cardinality(1 .. n) = IF 1 > n THEN 0 ELSE n - 1 + 1
      BY ONLY <1>2, FS_Interval
    <3> QED
      BY ONLY <1>2, <3>1
  <2>4. n - 1 < n
    BY <1>2
  <2>5. PICK i, j \in 1 .. n : i # j /\ g[i] = g[j]
    <3> DEFINE A == 1 .. n  B == S \ {x}
    <3>1. IsFiniteSet(A) /\ IsFiniteSet(B) /\ Cardinality(B) < Cardinality(A) /\ g \in [A -> B]
      BY <2>1, <2>2, <2>3, <2>4
    <3> HIDE DEF A, B
    <3>2. \E i, j \in A : i # j /\ g[i] = g[j]
      BY <3>1, FS_PigeonHole
    <3> QED
      BY <3>2 DEF A
  <2>6. g[i] \in Nat /\ g[j] \in Nat /\ (i < j \/ j < i)
    <3>1. i \in 1 .. n /\ j \in 1 .. n /\ i # j
      BY <2>5
    <3>2. g[i] \in S /\ g[j] \in S
      BY <1>3, <3>1
    <3>3. i < j \/ j < i
      BY ONLY <1>2, <3>1
    <3> QED
      BY <1>2, <3>2, <3>3
  <2> QED
    BY <1>3, <2>5, <2>6
<1>5. InLine(g, n, S)
  BY <1>2, <1>3, <1>4 DEF InLine
<1> QED
  BY <1>5, OneLine DEF g

(* The characters of a path, and what is inside a name.                    *)
Chr == (STRING \union {Slash}) \ {"NUL"}
Inside(p, i) == CharAt(p, i) \notin Between

(* A place is inside a name if it has a character other than a slash.      *)
LEMMA CharIs ==
  ASSUME NEW p \in Seq(Chr), NEW i \in Int
  PROVE  CharAt(p, i) = (IF i \in 1 .. Len(p) THEN p[i] ELSE "NUL") /\ (Inside(p, i) <=> i \in 1 .. Len(p) /\ p[i] # Slash)
<1>1. DOMAIN p = 1 .. Len(p)
  OBVIOUS
<1>2. i \in 1 .. Len(p) => p[i] \in Chr
  OBVIOUS
<1> QED
  BY <1>1, <1>2 DEF CharAt, Inside, Between, Chr

(* A name is a run of places inside it.                                    *)
Run(p, i, e) ==
  /\ i \in Int /\ e \in Int /\ i <= e /\ ~Inside(p, i - 1) /\ ~Inside(p, e + 1)
  /\ \A j \in i .. e : Inside(p, j)

(* A name lies in the path.                                                *)
LEMMA RunBounds ==
  ASSUME NEW p \in Seq(Chr), NEW i, NEW e, Run(p, i, e)
  PROVE  i \in 1 .. Len(p) /\ e \in i .. Len(p)
<1>1. i \in Int /\ e \in Int /\ i <= e /\ Inside(p, i) /\ Inside(p, e)
  BY DEF Run
<1>2. i \in 1 .. Len(p) /\ e \in 1 .. Len(p)
  BY <1>1, CharIs
<1> QED
  BY <1>1, <1>2

(* Where names start.                                                      *)
LEMMA StartIs ==
  ASSUME NEW p \in Seq(Chr), NEW i \in Int
  PROVE  i \in Starts(p) <=> Inside(p, i) /\ ~Inside(p, i - 1)
<1>1. i - 1 \in Int /\ DOMAIN p = 1 .. Len(p)
  OBVIOUS
<1>2. Inside(p, i) <=> i \in 1 .. Len(p) /\ p[i] # Slash
  BY CharIs
<1>3. ~Inside(p, i - 1) <=> CharAt(p, i - 1) \in Between
  BY DEF Inside
<1> QED
  BY <1>1, <1>2, <1>3 DEF Starts

(* Names start at places of the path.                                      *)
LEMMA StartsBound ==
  ASSUME NEW p \in Seq(Chr)
  PROVE  Starts(p) \subseteq 1 .. Len(p) /\ Len(p) \in Nat
  BY DEF Starts

(* From where a name starts to its end.                                    *)
LEMMA EndIsRun ==
  ASSUME NEW p \in Seq(Chr), NEW i \in Starts(p)
  PROVE  Run(p, i, EndOf(p, i))
<1> DEFINE T == {j \in i .. Len(p) : CharAt(p, j + 1) \in Between}
<1>1. i \in 1 .. Len(p) /\ i \in Int /\ Len(p) \in Nat
  BY StartsBound
<1>2. Inside(p, i) /\ ~Inside(p, i - 1)
  BY <1>1, StartIs
<1>3. T \subseteq Nat /\ T # {}
  <2>1. Len(p) + 1 \in Int /\ Len(p) + 1 \notin 1 .. Len(p)
    BY <1>1
  <2>2. CharAt(p, Len(p) + 1) \in Between
    BY <2>1, CharIs DEF Between
  <2>3. Len(p) \in i .. Len(p)
    BY <1>1
  <2> QED
    BY <1>1, <2>2, <2>3
<1> DEFINE e == Min(T)
<1>4. e \in T /\ \A k \in T : e <= k
  <2> HIDE DEF T
  <2> QED
    BY <1>3, MinIsIn
<1>5. EndOf(p, i) = e
  BY DEF EndOf
<1> HIDE DEF e
<1>6. e \in i .. Len(p) /\ CharAt(p, e + 1) \in Between
  BY <1>4
<1>7. ASSUME NEW j \in i .. e PROVE Inside(p, j)
  <2>1. CASE j = i
    BY <1>2, <2>1
  <2>2. CASE j # i
    <3>1. j - 1 \in i .. Len(p) /\ ~(e <= j - 1) /\ (j - 1) + 1 = j
      BY <1>1, <1>6, <2>2
    <3>2. j - 1 \notin T
      BY <1>4, <3>1
    <3>3. CharAt(p, j) \notin Between
      BY <3>1, <3>2
    <3> QED
      BY <3>3 DEF Inside
  <2> QED
    BY <2>1, <2>2
<1> QED
  BY <1>1, <1>2, <1>5, <1>6, <1>7 DEF Run, Inside

(* Every such run is a name of the path.                                   *)
LEMMA RunIsName ==
  ASSUME NEW p \in Seq(Chr), NEW i, NEW e, Run(p, i, e)
  PROVE  i \in Starts(p) /\ EndOf(p, i) = e
<1>1. i \in 1 .. Len(p) /\ e \in i .. Len(p)
  BY RunBounds
<1>2. i \in Starts(p)
  <2>1. i \in Int /\ Inside(p, i) /\ ~Inside(p, i - 1)
    BY DEF Run
  <2> QED
    BY <2>1, StartIs
<1> DEFINE d == EndOf(p, i)
<1>3. Run(p, i, d)
  BY <1>2, EndIsRun
<1> HIDE DEF d
<1>4. d \in i .. Len(p)
  BY <1>3, RunBounds
<1>5. ~(d < e)
  <2> SUFFICES ASSUME d < e PROVE FALSE
    OBVIOUS
  <2>1. d + 1 \in i .. e
    BY <1>1, <1>4
  <2> QED
    BY <1>3, <2>1 DEF Run
<1>6. ~(e < d)
  <2> SUFFICES ASSUME e < d PROVE FALSE
    OBVIOUS
  <2>1. e + 1 \in i .. d
    BY <1>1, <1>4
  <2> QED
    BY <1>3, <2>1 DEF Run
<1>7. d = e
  BY <1>1, <1>4, <1>5, <1>6
<1> QED
  BY <1>2, <1>7 DEF d

NameAt(p, i) == SubSeq(p, i, EndOf(p, i))

(* The names of a path, in the order of where they start.                  *)
LEMMA NamesIs ==
  ASSUME NEW p, NEW f, NEW n, InLine(f, n, Starts(p))
  PROVE  Names(p) = [k \in 1 .. n |-> NameAt(p, f[k])]
<1>1. InOrder(Starts(p)) = f
  BY InOrderIs
<1>2. DOMAIN f = 1 .. n
  BY DEF InLine
<1> QED
  BY <1>1, <1>2 DEF Names, NameAt

(* The names of a path, one for each place where one starts.               *)
LEMMA NamesOf ==
  ASSUME NEW p \in Seq(Chr)
  PROVE  \E f, n : InLine(f, n, Starts(p)) /\ Names(p) = [k \in 1 .. n |-> NameAt(p, f[k])]
<1>1. PICK f, n : InLine(f, n, Starts(p))
  BY StartsBound, LineExists
<1> QED
  BY <1>1, NamesIs

(* Names are texts.                                                        *)
LEMMA NamesTyped ==
  ASSUME NEW p \in Seq(Chr)
  PROVE  Names(p) \in Seq(Seq(Chr))
<1>1. PICK f, n : InLine(f, n, Starts(p)) /\ Names(p) = [k \in 1 .. n |-> NameAt(p, f[k])]
  BY NamesOf
<1>2. n \in Nat /\ f \in [1 .. n -> Starts(p)]
  BY <1>1 DEF InLine
<1>3. ASSUME NEW k \in 1 .. n PROVE NameAt(p, f[k]) \in Seq(Chr)
  <2> DEFINE i == f[k]  e == EndOf(p, i)
  <2>1. i \in Starts(p)
    BY <1>2
  <2> HIDE DEF i
  <2>2. Run(p, i, e)
    BY <2>1, EndIsRun
  <2> HIDE DEF e
  <2>3. i \in 1 .. Len(p) /\ e \in i .. Len(p)
    BY <2>2, RunBounds
  <2>4. i \in Int /\ e \in Int /\ \A j \in i .. e : p[j] \in Chr
    BY <2>3
  <2>5. SubSeq(p, i, e) \in Seq(Chr)
    BY <2>4, SubSeqProperties
  <2> QED
    BY <2>5 DEF NameAt, i, e
<1> QED
  BY <1>1, <1>2, <1>3

(* The same characters elsewhere.                                          *)
LEMMA SameSlice ==
  ASSUME NEW S, NEW s \in Seq(S), NEW t \in Seq(S), NEW i \in Int, NEW e \in Int, NEW d \in Int,
         1 <= i, i <= e, e <= Len(s), 1 <= i + d, e + d <= Len(t), \A j \in i .. e : s[j] = t[j + d]
  PROVE  SubSeq(s, i, e) = SubSeq(t, i + d, e + d)
<1> DEFINE u == SubSeq(s, i, e)  v == SubSeq(t, i + d, e + d)  l == e - i + 1  i2 == i + d  e2 == e + d
<1>1. \A j \in i .. e : s[j] \in S
  OBVIOUS
<1>2. \A j \in i2 .. e2 : t[j] \in S
  OBVIOUS
<1>3. /\ u \in Seq(S) /\ Len(u) = (IF i <= e THEN e - i + 1 ELSE 0)
      /\ \A k \in 1 .. e - i + 1 : u[k] = s[i + k - 1]
  BY <1>1, SubSeqProperties
<1>4. i2 \in Int /\ e2 \in Int
  OBVIOUS
<1> HIDE DEF i2, e2
<1>5. /\ SubSeq(t, i2, e2) \in Seq(S) /\ Len(SubSeq(t, i2, e2)) = (IF i2 <= e2 THEN e2 - i2 + 1 ELSE 0)
      /\ \A k \in 1 .. e2 - i2 + 1 : SubSeq(t, i2, e2)[k] = t[i2 + k - 1]
  BY <1>2, <1>4, SubSeqProperties
<1>6. v = SubSeq(t, i2, e2) /\ e2 - i2 + 1 = l /\ i2 <= e2
  BY DEF i2, e2
<1> HIDE DEF u, v
<1>7. u \in Seq(S) /\ v \in Seq(S) /\ Len(u) = l /\ Len(v) = l
  BY <1>3, <1>5, <1>6
<1>8. ASSUME NEW k \in 1 .. l PROVE u[k] = v[k]
  <2>1. i + k - 1 \in i .. e /\ i2 + k - 1 = (i + k - 1) + d
    BY DEF i2
  <2>2. u[k] = s[i + k - 1] /\ v[k] = t[i2 + k - 1]
    BY <1>3, <1>5, <1>6
  <2> QED
    BY <2>1, <2>2
<1>9. DOMAIN u = 1 .. l /\ DOMAIN v = 1 .. l
  BY <1>7
<1>10. u = [k \in 1 .. l |-> u[k]] /\ v = [k \in 1 .. l |-> v[k]]
  BY <1>7, <1>9
<1> HIDE DEF l
<1>11. u = v
  BY <1>8, <1>10
<1> QED
  BY <1>11 DEF u, v

(* Two paths behind each other: no name goes over from one to the other.   *)
Apart(a, b) == ~Inside(a, Len(a)) \/ ~Inside(b, 1)

(* What is inside a name in two paths behind each other.                   *)
LEMMA JoinChars ==
  ASSUME NEW a \in Seq(Chr), NEW b \in Seq(Chr), NEW i \in Int
  PROVE  /\ a \o b \in Seq(Chr) /\ Len(a \o b) = Len(a) + Len(b)
         /\ i <= Len(a) => (Inside(a \o b, i) <=> Inside(a, i))
         /\ i > Len(a) => (Inside(a \o b, i) <=> Inside(b, i - Len(a)))
<1> DEFINE p == a \o b
<1>1. p \in Seq(Chr) /\ Len(p) = Len(a) + Len(b) /\ Len(a) \in Nat /\ Len(b) \in Nat
  OBVIOUS
<1>2. \A k \in 1 .. Len(p) : p[k] = IF k <= Len(a) THEN a[k] ELSE b[k - Len(a)]
  BY ConcatProperties
<1> HIDE DEF p
<1>3. Inside(p, i) <=> i \in 1 .. Len(p) /\ p[i] # Slash
  BY <1>1, CharIs
<1>4. Inside(a, i) <=> i \in 1 .. Len(a) /\ a[i] # Slash
  BY CharIs
<1>5. i - Len(a) \in Int
  BY <1>1
<1>6. Inside(b, i - Len(a)) <=> i - Len(a) \in 1 .. Len(b) /\ b[i - Len(a)] # Slash
  BY <1>5, CharIs
<1>7. ASSUME i <= Len(a) PROVE Inside(p, i) <=> Inside(a, i)
  <2>1. i \in 1 .. Len(p) <=> i \in 1 .. Len(a)
    BY <1>1, <1>7
  <2> QED
    BY <1>2, <1>3, <1>4, <1>7, <2>1
<1>8. ASSUME i > Len(a) PROVE Inside(p, i) <=> Inside(b, i - Len(a))
  <2>1. (i \in 1 .. Len(p) <=> i - Len(a) \in 1 .. Len(b)) /\ ~(i <= Len(a))
    BY <1>1, <1>8
  <2> QED
    BY <1>2, <1>3, <1>6, <2>1
<1> QED
  BY <1>1, <1>7, <1>8 DEF p

InFirst(a, b, i, e) == a \in Seq(Chr) /\ b \in Seq(Chr) /\ Apart(a, b) /\ Run(a, i, e)
RunMoved(p, b, i, e, d) == Run(p, i + d, e + d) /\ SubSeq(p, i + d, e + d) = SubSeq(b, i, e)
InSecond(a, b, i, e) == a \in Seq(Chr) /\ b \in Seq(Chr) /\ Apart(a, b) /\ Run(b, i, e)

(* The names in front are those of the first path.                         *)
LEMMA RunInFirst ==
  ASSUME NEW a, NEW b, NEW i, NEW e, InFirst(a, b, i, e)
  PROVE  Run(a \o b, i, e) /\ SubSeq(a \o b, i, e) = SubSeq(a, i, e)
<1> DEFINE p == a \o b
<1> a \in Seq(Chr) /\ b \in Seq(Chr) /\ Apart(a, b) /\ Run(a, i, e)
  BY DEF InFirst
<1>1. i \in 1 .. Len(a) /\ e \in i .. Len(a) /\ Len(a) \in Nat
  BY RunBounds
<1>2. /\ i \in Int /\ e \in Int /\ i <= e /\ ~Inside(a, i - 1) /\ ~Inside(a, e + 1)
      /\ \A j \in i .. e : Inside(a, j)
  BY DEF Run
<1>3. p \in Seq(Chr) /\ Len(p) = Len(a) + Len(b)
  OBVIOUS
<1>4. \A j \in Int : j <= Len(a) => (Inside(p, j) <=> Inside(a, j))
  BY JoinChars
<1>5. ~Inside(p, i - 1)
  BY <1>1, <1>2, <1>4
<1>6. \A j \in i .. e : Inside(p, j)
  BY <1>1, <1>2, <1>4
<1>7. ~Inside(p, e + 1)
  <2>1. CASE e < Len(a)
    BY <1>1, <1>2, <1>4, <2>1
  <2>2. CASE e = Len(a)
    <3>1. Inside(a, Len(a))
      BY <1>1, <1>2, <2>2
    <3>2. ~Inside(b, 1)
      BY <3>1 DEF Apart
    <3>3. e + 1 \in Int /\ e + 1 > Len(a) /\ (e + 1) - Len(a) = 1
      BY <1>1, <2>2
    <3> QED
      BY <3>2, <3>3, JoinChars
  <2> QED
    BY <1>1, <2>1, <2>2
<1>8. SubSeq(p, i, e) = SubSeq(a, i, e)
  <2>1. \A j \in i .. e : a[j] = p[j]
    BY <1>1, ConcatProperties
  <2>2. 1 <= i /\ e <= Len(a) /\ e <= Len(p)
    BY <1>1, <1>3
  <2> DEFINE d == 0
  <2>3. d \in Int /\ 1 <= i + d /\ e + d <= Len(p) /\ i + d = i /\ e + d = e /\ \A j \in i .. e : a[j] = p[j + d]
    <3>1. \A j \in i .. e : j + d = j
      BY <1>1
    <3> QED
      BY <1>1, <2>1, <2>2, <3>1
  <2> HIDE DEF d, p
  <2>4. SubSeq(a, i, e) = SubSeq(p, i + d, e + d)
    BY <1>2, <1>3, <2>2, <2>3, SameSlice
  <2> QED
    BY <2>3, <2>4
<1> HIDE DEF p
<1>9. Run(p, i, e)
  BY <1>2, <1>5, <1>6, <1>7 DEF Run
<1> QED
  BY <1>8, <1>9 DEF p

(* The names behind are those of the second.                               *)
LEMMA RunInSecond ==
  ASSUME NEW a, NEW b, NEW i, NEW e, InSecond(a, b, i, e)
  PROVE  RunMoved(a \o b, b, i, e, Len(a))
<1> DEFINE p == a \o b  d == Len(a)
<1> a \in Seq(Chr) /\ b \in Seq(Chr) /\ Apart(a, b) /\ Run(b, i, e)
  BY DEF InSecond
<1>1. i \in 1 .. Len(b) /\ e \in i .. Len(b) /\ Len(b) \in Nat /\ d \in Nat
  BY RunBounds
<1>2. /\ i \in Int /\ e \in Int /\ i <= e /\ ~Inside(b, i - 1) /\ ~Inside(b, e + 1)
      /\ \A j \in i .. e : Inside(b, j)
  BY DEF Run
<1>3. p \in Seq(Chr) /\ Len(p) = d + Len(b)
  OBVIOUS
<1>4. \A j \in Int : j > d => (Inside(p, j) <=> Inside(b, j - d))
  BY JoinChars
<1>5. ~Inside(p, i + d - 1)
  <2>1. CASE i = 1
    <3>1. Inside(b, 1)
      BY <1>1, <1>2, <2>1
    <3>2. ~Inside(a, d)
      BY <3>1 DEF Apart
    <3>3. i + d - 1 = d /\ d \in Int /\ d <= d
      BY <1>1, <2>1
    <3> QED
      BY <3>2, <3>3, JoinChars
  <2>2. CASE i > 1
    <3>1. i + d - 1 \in Int /\ i + d - 1 > d /\ i + d - 1 - d = i - 1
      BY <1>1, <2>2
    <3> QED
      BY <1>2, <1>4, <3>1
  <2> QED
    BY <1>1, <2>1, <2>2
<1>6. ASSUME NEW j \in i + d .. e + d PROVE Inside(p, j)
  <2>1. j \in Int /\ j > d /\ j - d \in i .. e
    BY <1>1
  <2> QED
    BY <1>2, <1>4, <2>1
<1>7. ~Inside(p, e + d + 1)
  <2>1. e + d + 1 \in Int /\ e + d + 1 > d /\ e + d + 1 - d = e + 1
    BY <1>1
  <2> QED
    BY <1>2, <1>4, <2>1
<1>8. SubSeq(b, i, e) = SubSeq(p, i + d, e + d)
  <2>1. ASSUME NEW j \in i .. e PROVE b[j] = p[j + d]
    <3>1. j + d \in 1 .. Len(a) + Len(b) /\ ~(j + d <= Len(a)) /\ j + d - Len(a) = j
      BY <1>1
    <3> QED
      BY <3>1, ConcatProperties
  <2>2. 1 <= i /\ e <= Len(b) /\ d \in Int /\ 1 <= i + d /\ e + d <= Len(p)
    BY <1>1, <1>3
  <2> HIDE DEF d, p
  <2> QED
    BY <1>2, <1>3, <2>1, <2>2, SameSlice
<1>9. i + d \in Int /\ e + d \in Int /\ i + d <= e + d
  BY <1>1
<1> HIDE DEF p
<1>10. Run(p, i + d, e + d)
  BY <1>5, <1>6, <1>7, <1>9 DEF Run
<1> QED
  BY <1>8, <1>10 DEF p, RunMoved

(* Every name is one of them.                                              *)
LEMMA JoinStarts ==
  ASSUME NEW a \in Seq(Chr), NEW b \in Seq(Chr), NEW i \in Starts(a \o b)
  PROVE  i \in Starts(a) \/ i - Len(a) \in Starts(b)
<1> DEFINE p == a \o b  d == Len(a)
<1>1. p \in Seq(Chr) /\ d \in Nat
  OBVIOUS
<1>2. i \in Int /\ i \in 1 .. Len(p)
  <2> HIDE DEF p
  <2>1. i \in 1 .. Len(p)
    BY <1>1, StartsBound DEF p
  <2> QED
    BY <2>1
<1>3. Inside(p, i) /\ ~Inside(p, i - 1)
  BY <1>1, <1>2, StartIs
<1>4. CASE i <= d
  <2>1. i - 1 \in Int /\ i - 1 <= d
    BY <1>1, <1>2, <1>4
  <2>2. Inside(a, i) /\ ~Inside(a, i - 1)
    BY <1>2, <1>3, <1>4, <2>1, JoinChars
  <2> QED
    BY <1>2, <2>2, StartIs
<1>5. CASE i > d
  <2>1. Inside(b, i - d)
    BY <1>2, <1>3, <1>5, JoinChars
  <2>2. ~Inside(b, i - d - 1)
    <3>1. CASE i = d + 1
      <4>1. i - d - 1 = 0 /\ 0 \in Int /\ 0 \notin 1 .. Len(b)
        BY <1>1, <3>1
      <4>2. ~Inside(b, 0)
        BY <4>1, CharIs
      <4> QED
        BY <4>1, <4>2
    <3>2. CASE i > d + 1
      <4>1. i - 1 \in Int /\ i - 1 > d /\ i - 1 - d = i - d - 1
        BY <1>1, <1>2, <3>2
      <4> QED
        BY <1>3, <4>1, JoinChars
    <3> QED
      BY <1>1, <1>2, <1>5, <3>1, <3>2
  <2>3. i - d \in Int
    BY <1>1, <1>2
  <2> QED
    BY <2>1, <2>2, <2>3, StartIs
<1> QED
  BY <1>1, <1>2, <1>4, <1>5

(* The names of two paths behind each other.                               *)
LEMMA JoinNames ==
  ASSUME NEW a \in Seq(Chr), NEW b \in Seq(Chr), Apart(a, b)
  PROVE  Names(a \o b) = Names(a) \o Names(b)
<1> DEFINE p == a \o b  d == Len(a)
<1>1. PICK f, n : InLine(f, n, Starts(a)) /\ Names(a) = [k \in 1 .. n |-> NameAt(a, f[k])]
  BY NamesOf
<1>2. PICK g, m : InLine(g, m, Starts(b)) /\ Names(b) = [k \in 1 .. m |-> NameAt(b, g[k])]
  BY NamesOf
<1>3. /\ n \in Nat /\ f \in [1 .. n -> Starts(a)] /\ (\A i, j \in 1 .. n : i < j => f[i] < f[j])
      /\ \A x \in Starts(a) : \E i \in 1 .. n : f[i] = x
  BY <1>1 DEF InLine
<1>4. /\ m \in Nat /\ g \in [1 .. m -> Starts(b)] /\ (\A i, j \in 1 .. m : i < j => g[i] < g[j])
      /\ \A x \in Starts(b) : \E i \in 1 .. m : g[i] = x
  BY <1>2 DEF InLine
<1>5. Starts(a) \subseteq 1 .. d /\ Starts(b) \subseteq 1 .. Len(b) /\ d \in Nat /\ Len(b) \in Nat /\ p \in Seq(Chr)
  BY StartsBound
<1>6. \A i \in Starts(a) : i \in Starts(p) /\ NameAt(p, i) = NameAt(a, i)
  <2> SUFFICES ASSUME NEW i \in Starts(a) PROVE i \in Starts(p) /\ NameAt(p, i) = NameAt(a, i)
    OBVIOUS
  <2> DEFINE e == EndOf(a, i)
  <2>1. Run(a, i, e)
    BY EndIsRun
  <2> HIDE DEF e
  <2>2. Run(p, i, e) /\ SubSeq(p, i, e) = SubSeq(a, i, e)
    <3>1. Run(a \o b, i, e) /\ SubSeq(a \o b, i, e) = SubSeq(a, i, e)
      BY <2>1, RunInFirst, ZenonT(30) DEF InFirst
    <3> QED
      BY <3>1
  <2> HIDE DEF p
  <2>3. i \in Starts(p) /\ EndOf(p, i) = e
    BY <1>5, <2>2, RunIsName
  <2> QED
    BY <2>2, <2>3 DEF NameAt, e
<1>7. \A i \in Starts(b) : i + d \in Starts(p) /\ NameAt(p, i + d) = NameAt(b, i)
  <2> SUFFICES ASSUME NEW i \in Starts(b) PROVE i + d \in Starts(p) /\ NameAt(p, i + d) = NameAt(b, i)
    OBVIOUS
  <2> DEFINE e == EndOf(b, i)
  <2>1. Run(b, i, e)
    BY EndIsRun
  <2> HIDE DEF e
  <2>2. Run(p, i + d, e + d) /\ SubSeq(p, i + d, e + d) = SubSeq(b, i, e)
    <3>1. RunMoved(p, b, i, e, d)
      <4>1. InSecond(a, b, i, e)
        BY <2>1 DEF InSecond
      <4> QED
        BY <4>1, RunInSecond
    <3> QED
      BY <3>1 DEF RunMoved
  <2> HIDE DEF p, d
  <2>3. i + d \in Starts(p) /\ EndOf(p, i + d) = e + d
    BY <1>5, <2>2, RunIsName
  <2> QED
    BY <2>2, <2>3 DEF NameAt, e
<1>8. \A i \in Starts(p) : i \in Starts(a) \/ i - d \in Starts(b)
  BY JoinStarts
<1> HIDE DEF p, d
<1> DEFINE h == [k \in 1 .. n + m |-> IF k <= n THEN f[k] ELSE g[k - n] + d]
<1>9. \A k \in 1 .. n + m : (k <= n /\ k \in 1 .. n) \/ (~(k <= n) /\ k - n \in 1 .. m)
  BY <1>3, <1>4
<1>10. h \in [1 .. n + m -> Starts(p)]
  BY <1>3, <1>4, <1>6, <1>7, <1>9
<1>11. Starts(p) \subseteq Nat /\ n + m \in Nat
  <2>1. Starts(p) \subseteq 1 .. Len(p)
    BY <1>5, StartsBound
  <2> QED
    BY <1>3, <1>4, <2>1
<1>12. ASSUME NEW i \in 1 .. n + m, NEW j \in 1 .. n + m, i < j PROVE h[i] < h[j]
  <2>1. CASE j <= n
    <3>1. i \in 1 .. n /\ j \in 1 .. n /\ i <= n
      BY <1>3, <1>4, <1>12, <2>1
    <3> QED
      BY <1>3, <1>12, <2>1, <3>1
  <2>2. CASE ~(j <= n) /\ i <= n
    <3>1. i \in 1 .. n /\ j - n \in 1 .. m
      BY <1>3, <1>4, <2>2
    <3>2. f[i] \in 1 .. d /\ g[j - n] \in 1 .. Len(b)
      BY <1>3, <1>4, <1>5, <3>1
    <3>3. f[i] < g[j - n] + d
      BY <1>5, <3>2
    <3> QED
      BY <2>2, <3>3
  <2>3. CASE ~(j <= n) /\ ~(i <= n)
    <3>1. i - n \in 1 .. m /\ j - n \in 1 .. m /\ i - n < j - n
      BY <1>3, <1>4, <1>12, <2>3
    <3>2. g[i - n] < g[j - n]
      BY <1>4, <3>1
    <3>3. g[i - n] \in 1 .. Len(b) /\ g[j - n] \in 1 .. Len(b)
      BY <1>4, <1>5, <3>1
    <3>4. g[i - n] + d < g[j - n] + d
      BY <1>5, <3>2, <3>3
    <3> QED
      BY <2>3, <3>4
  <2> QED
    BY <2>1, <2>2, <2>3
<1>13. ASSUME NEW x \in Starts(p) PROVE \E k \in 1 .. n + m : h[k] = x
  <2>1. CASE x \in Starts(a)
    <3>1. PICK i \in 1 .. n : f[i] = x
      BY <1>3, <2>1
    <3>2. i \in 1 .. n + m /\ i <= n
      BY <1>3, <1>4
    <3> QED
      BY <3>1, <3>2
  <2>2. CASE x - d \in Starts(b)
    <3>1. PICK i \in 1 .. m : g[i] = x - d
      BY <1>4, <2>2
    <3>2. i + n \in 1 .. n + m /\ ~(i + n <= n) /\ i + n - n = i
      BY <1>3, <1>4
    <3>3. (x - d) + d = x
      BY <1>5, <1>11
    <3> DEFINE q == i + n
    <3>6. q \in 1 .. n + m /\ ~(q <= n)
      BY <3>2
    <3>4. h[q] = g[q - n] + d
      <4> HIDE DEF q
      <4> QED
        BY <3>6
    <3>5. h[i + n] = x
      <4> HIDE DEF h
      <4> QED
        BY <1>3, <1>4, <1>5, <1>11, <3>1, <3>2, <3>3, <3>4
    <3> QED
      BY <3>2, <3>5
  <2> QED
    BY <1>8, <2>1, <2>2
<1>14. InLine(h, n + m, Starts(p))
  <2> HIDE DEF h
  <2> QED
    BY <1>10, <1>11, <1>12, <1>13 DEF InLine
<1>15. Names(p) = [k \in 1 .. n + m |-> NameAt(p, h[k])]
  <2> HIDE DEF h
  <2> QED
    BY <1>14, NamesIs
<1>16. ASSUME NEW k \in 1 .. n + m
       PROVE  NameAt(p, h[k]) = IF k <= n THEN NameAt(a, f[k]) ELSE NameAt(b, g[k - n])
  <2>1. CASE k <= n
    <3>1. k \in 1 .. n /\ f[k] \in Starts(a) /\ h[k] = f[k]
      BY <1>3, <1>9, <2>1
    <3> QED
      BY <1>6, <2>1, <3>1
  <2>2. CASE ~(k <= n)
    <3>1. k - n \in 1 .. m /\ g[k - n] \in Starts(b) /\ h[k] = g[k - n] + d
      BY <1>4, <1>9, <2>2
    <3> QED
      BY <1>7, <2>2, <3>1
  <2> QED
    BY <2>1, <2>2
<1> HIDE DEF h
<1> DEFINE na == Names(a)  nb == Names(b)
<1>17. Names(p) = [k \in 1 .. n + m |-> IF k <= n THEN NameAt(a, f[k]) ELSE NameAt(b, g[k - n])]
  BY <1>15, <1>16
<1>18. na \o nb = [k \in 1 .. n + m |-> IF k <= n THEN NameAt(a, f[k]) ELSE NameAt(b, g[k - n])]
  <2>1. Len(na) = n /\ Len(nb) = m /\ na \in Seq(Seq(Chr)) /\ nb \in Seq(Seq(Chr))
    <3>1. na \in Seq(Seq(Chr)) /\ nb \in Seq(Seq(Chr))
      BY NamesTyped
    <3> QED
      BY <1>1, <1>2, <1>3, <1>4, <3>1
  <2>2. \A k \in 1 .. n : na[k] = NameAt(a, f[k])
    BY <1>1
  <2>3. \A k \in 1 .. m : nb[k] = NameAt(b, g[k])
    BY <1>2
  <2> HIDE DEF na, nb
  <2>4. na \o nb = [k \in 1 .. n + m |-> IF k <= n THEN na[k] ELSE nb[k - n]]
    <3> DEFINE s == na \o nb
    <3>1. s \in Seq(Seq(Chr)) /\ Len(s) = n + m /\ \A k \in 1 .. n + m : s[k] = IF k <= n THEN na[k] ELSE nb[k - n]
      BY <2>1, ConcatProperties
    <3> HIDE DEF s
    <3>2. s = [k \in 1 .. n + m |-> s[k]]
      BY <3>1
    <3>3. s = [k \in 1 .. n + m |-> IF k <= n THEN na[k] ELSE nb[k - n]]
      BY <3>1, <3>2
    <3> QED
      BY <3>3 DEF s
  <2>5. \A k \in 1 .. n + m : (IF k <= n THEN na[k] ELSE nb[k - n]) = IF k <= n THEN NameAt(a, f[k]) ELSE NameAt(b, g[k - n])
    BY <1>9, <2>2, <2>3
  <2> QED
    BY <2>4, <2>5
<1> QED
  BY <1>17, <1>18 DEF p

(* A text without slashes is one name.                                     *)
LEMMA OneName ==
  ASSUME NEW t \in Seq(Chr), t # <<>>, \A i \in 1 .. Len(t) : t[i] # Slash
  PROVE  Names(t) = <<t>>
<1> DEFINE l == Len(t)  f == [k \in 1 .. 1 |-> 1]
<1>1. l \in Nat /\ l >= 1
  OBVIOUS
<1>2. \A i \in Int : Inside(t, i) <=> i \in 1 .. l
  BY CharIs
<1>3. Run(t, 1, l)
  <2> HIDE DEF l
  <2>1. 0 \notin 1 .. l /\ l + 1 \notin 1 .. l /\ 1 - 1 = 0 /\ l + 1 \in Int
    BY <1>1
  <2> QED
    BY <1>1, <1>2, <2>1 DEF Run
<1>4. 1 \in Starts(t) /\ EndOf(t, 1) = l
  BY <1>3, RunIsName
<1>5. \A i \in Starts(t) : i = 1
  <2> SUFFICES ASSUME NEW i \in Starts(t) PROVE i = 1
    OBVIOUS
  <2>1. i \in 1 .. l
    BY StartsBound
  <2>2. ~Inside(t, i - 1)
    BY <2>1, StartIs
  <2>3. i - 1 \in Int
    BY <2>1
  <2>4. i - 1 \notin 1 .. l
    BY <1>2, <2>2, <2>3
  <2> QED
    BY <1>1, <2>1, <2>4
<1>6. InLine(f, 1, Starts(t))
  BY <1>4, <1>5 DEF InLine
<1>7. Names(t) = [k \in 1 .. 1 |-> NameAt(t, f[k])]
  <2> HIDE DEF f
  <2> QED
    BY <1>6, NamesIs
<1>8. NameAt(t, 1) = t
  <2>1. SubSeq(t, 1, l) = t
    BY SubSeqFull
  <2> QED
    BY <1>4, <2>1 DEF NameAt
<1>9. Names(t) = [k \in 1 .. 1 |-> t]
  BY <1>7, <1>8
<1> QED
  BY <1>9

(* There is no name in a text in which nothing is inside one.              *)
LEMMA NoNames ==
  ASSUME NEW t \in Seq(Chr), \A i \in 1 .. Len(t) : t[i] = Slash
  PROVE  Names(t) = <<>>
<1> DEFINE f == [k \in 1 .. 0 |-> 1]
<1>1. Starts(t) = {}
  BY DEF Starts
<1>2. 1 .. 0 = {}
  OBVIOUS
<1>3. InLine(f, 0, Starts(t))
  BY <1>1, <1>2 DEF InLine
<1>4. Names(t) = [k \in 1 .. 0 |-> NameAt(t, f[k])]
  <2> HIDE DEF f
  <2> QED
    BY <1>3, NamesIs
<1> QED
  BY <1>2, <1>4

(* The slash is a character, and a text of its own.                        *)
LEMMA SlashIs == Slash \in Chr
<1>1. Slash # "NUL"
  BY DEF Slash
<1> QED
  BY <1>1 DEF Chr

(* What a text of one slash is.                                            *)
LEMMA SlashText == <<Slash>> \in Seq(Chr) /\ Len(<<Slash>>) = 1 /\ <<Slash>>[1] = Slash
BY SlashIs

(* Slashes around a path add no name.                                      *)
LEMMA SlashNames ==
  ASSUME NEW p \in Seq(Chr)
  PROVE  /\ <<Slash>> \in Seq(Chr)
         /\ Names(<<Slash>> \o p) = Names(p) /\ Names(p \o <<Slash>>) = Names(p)
<1> DEFINE s == <<Slash>>
<1>1. s \in Seq(Chr) /\ Len(s) = 1 /\ s[1] = Slash
  BY SlashText
<1>2. \A i \in 1 .. Len(s) : s[i] = Slash
  BY <1>1
<1> HIDE DEF s
<1>3. Names(s) = <<>>
  BY <1>1, <1>2, NoNames
<1>4. ~Inside(s, 1) /\ ~Inside(s, Len(s))
  <2>1. 1 \in Int
    OBVIOUS
  <2>2. ~Inside(s, 1)
    BY <1>1, <2>1, CharIs
  <2> QED
    BY <1>1, <2>2
<1>5. Names(s \o p) = Names(s) \o Names(p)
  BY <1>1, <1>4, JoinNames DEF Apart
<1>6. Names(p \o s) = Names(p) \o Names(s)
  BY <1>1, <1>4, JoinNames DEF Apart
<1>7. Names(p) \in Seq(Seq(Chr))
  BY NamesTyped
<1>8. <<>> \o Names(p) = Names(p) /\ Names(p) \o <<>> = Names(p)
  BY <1>7, ConcatEmptySeq
<1> QED
  BY <1>1, <1>3, <1>5, <1>6, <1>8 DEF s

(* Two sequences are the same if their members are.                        *)
LEMMA SameSeq ==
  ASSUME NEW S, NEW s \in Seq(S), NEW t \in Seq(S), Len(s) = Len(t), \A i \in 1 .. Len(s) : s[i] = t[i]
  PROVE  s = t
<1>1. DOMAIN s = 1 .. Len(s) /\ DOMAIN t = 1 .. Len(s)
  OBVIOUS
<1>2. s = [i \in 1 .. Len(s) |-> s[i]] /\ t = [i \in 1 .. Len(s) |-> t[i]]
  BY <1>1
<1> QED
  BY <1>2

(* The path without its first slash.                                       *)
LEMMA RootedOK ==
  ASSUME NEW p \in Seq(Chr)
  PROVE  LET q == Rooted(p)
         IN  /\ q \in Seq(Chr) /\ Names(q) = Names(p) /\ Len(q) <= Len(p)
             /\ q # <<>> => p # <<>> /\ q[Len(q)] = p[Len(p)]
             /\ q = <<>> => p = <<>> \/ p = <<Slash>>
<1> DEFINE q == Rooted(p)
<1>1. CASE CharAt(p, 1) = Slash
  <2>1. 1 \in Int
    OBVIOUS
  <2>2. 1 \in 1 .. Len(p) /\ p[1] = Slash
    BY <1>1, <2>1, CharIs DEF Slash
  <2>3. p # <<>> /\ Len(p) \in Nat /\ Len(p) >= 1
    BY <2>2
  <2>4. q = Tail(p)
    BY <1>1 DEF Rooted
  <2>5. q \in Seq(Chr) /\ Len(q) = Len(p) - 1 /\ \A i \in 1 .. Len(q) : q[i] = p[i + 1]
    BY <2>3, <2>4, HeadTailProperties
  <2> HIDE DEF q
  <2>6. p = <<Slash>> \o q
    <3> DEFINE s == <<Slash>>  t == s \o q
    <3>1. s \in Seq(Chr) /\ Len(s) = 1 /\ s[1] = Slash
      BY SlashText
    <3> HIDE DEF s
    <3>0. /\ t \in Seq(Chr) /\ Len(t) = Len(s) + Len(q)
          /\ \A i \in 1 .. Len(s) + Len(q) : t[i] = IF i <= Len(s) THEN s[i] ELSE q[i - Len(s)]
      <4>1. s \in Seq(Chr) /\ q \in Seq(Chr)
        BY <2>5, <3>1
      <4> QED
        BY ONLY <4>1, ConcatProperties
    <3> HIDE DEF t
    <3>2. t \in Seq(Chr) /\ Len(t) = 1 + Len(q) /\ \A i \in 1 .. 1 + Len(q) : t[i] = IF i <= 1 THEN s[i] ELSE q[i - 1]
      BY <3>0, <3>1
    <3> HIDE DEF t
    <3>3. Len(t) = Len(p)
      BY <2>3, <2>5, <3>2
    <3>4. ASSUME NEW i \in 1 .. Len(t) PROVE t[i] = p[i]
      <4>1. CASE i = 1
        BY <2>2, <3>1, <3>2, <4>1
      <4>2. CASE i > 1
        <5>1. i - 1 \in 1 .. Len(q) /\ (i - 1) + 1 = i /\ ~(i <= 1) /\ i \in 1 .. 1 + Len(q)
          BY <2>3, <2>5, <3>3, <4>2
        <5> QED
          BY <2>5, <3>2, <5>1
      <4> QED
        BY <4>1, <4>2
    <3>5. t = p
      BY <3>2, <3>3, <3>4, SameSeq
    <3> QED
      BY <3>5 DEF t, s
  <2>7. Names(q) = Names(p)
    BY <2>5, <2>6, SlashNames
  <2>8. q # <<>> => q[Len(q)] = p[Len(p)]
    <3> SUFFICES ASSUME q # <<>> PROVE q[Len(q)] = p[Len(p)]
      OBVIOUS
    <3>1. Len(q) \in 1 .. Len(q) /\ Len(q) + 1 = Len(p)
      BY <2>3, <2>5
    <3> QED
      BY <2>5, <3>1
  <2>9. q = <<>> => p = <<Slash>>
    BY <2>6, SlashNames, ConcatEmptySeq
  <2> QED
    BY <2>3, <2>5, <2>7, <2>8, <2>9 DEF q
<1>2. CASE CharAt(p, 1) # Slash
  BY <1>2 DEF Rooted
<1> QED
  BY <1>1, <1>2

(* The base with a slash behind it.                                        *)
LEMMA JoinedOK ==
  ASSUME NEW p \in Seq(Chr)
  PROVE  LET q == Joined(p)
         IN  /\ q \in Seq(Chr) /\ Names(q) = Names(p) /\ Len(q) <= Len(p) + 1
             /\ q # <<>> => q[Len(q)] = Slash
             /\ q = <<>> => p = <<Slash>>
<1> DEFINE q == Joined(p)  r == Rooted(p)  s == <<Slash>>
<1>1. /\ r \in Seq(Chr) /\ Names(r) = Names(p) /\ Len(r) <= Len(p)
      /\ (r # <<>> => p # <<>> /\ r[Len(r)] = p[Len(p)])
      /\ (r = <<>> => p = <<>> \/ p = <<Slash>>)
  BY RootedOK
<1>2. Len(p) \in Nat /\ Len(p) \in Int /\ Len(r) \in Nat
  BY <1>1
<1>3. s \in Seq(Chr) /\ Len(s) = 1 /\ s[1] = Slash
  BY SlashText
<1> HIDE DEF r
<1>4. CASE CharAt(p, Len(p)) # Slash
  <2>1. q = Append(r, Slash) /\ Slash \in Chr
    BY <1>4, SlashIs DEF Joined, r
  <2>2. q = r \o s
    <3>1. Append(r, Slash) \in Seq(Chr) /\ r \o s \in Seq(Chr) /\ Len(Append(r, Slash)) = Len(r) + 1 /\ Len(r \o s) = Len(r) + 1
      BY <1>1, <2>1
    <3>2. \A i \in 1 .. Len(r) + 1 : Append(r, Slash)[i] = IF i <= Len(r) THEN r[i] ELSE Slash
      BY <1>1, <2>1
    <3>3. \A i \in 1 .. Len(r) + 1 : (r \o s)[i] = IF i <= Len(r) THEN r[i] ELSE s[i - Len(r)]
      BY <1>1, <1>3, ConcatProperties
    <3>4. \A i \in 1 .. Len(r) + 1 : ~(i <= Len(r)) => i - Len(r) = 1
      BY <1>2
    <3> DEFINE u == Append(r, Slash)  v == r \o s
    <3>5. \A i \in 1 .. Len(r) + 1 : u[i] = v[i]
      BY <1>3, <3>2, <3>3, <3>4
    <3>6. u \in Seq(Chr) /\ v \in Seq(Chr) /\ Len(u) = Len(v) /\ Len(u) = Len(r) + 1
      BY <3>1
    <3> HIDE DEF u, v
    <3>7. u = v
      BY <3>5, <3>6, SameSeq
    <3> QED
      BY <2>1, <3>7 DEF u, v
  <2>3. Names(q) = Names(p)
    BY <1>1, <2>2, SlashNames
  <2>4. q \in Seq(Chr) /\ Len(q) = Len(r) + 1 /\ q[Len(q)] = Slash
    <3> HIDE DEF q
    <3> QED
      BY <1>1, <2>1
  <2>5. q # <<>> /\ Len(q) <= Len(p) + 1
    <3> HIDE DEF q
    <3> QED
      BY <1>1, <1>2, <2>4
  <2> QED
    BY <2>3, <2>4, <2>5
<1>5. CASE CharAt(p, Len(p)) = Slash
  <2>1. q = r
    BY <1>5 DEF Joined, r
  <2>2. Len(p) \in 1 .. Len(p) /\ p[Len(p)] = Slash
    BY <1>2, <1>5, CharIs DEF Slash
  <2> HIDE DEF q
  <2>3. Len(q) <= Len(p) + 1
    BY <1>1, <1>2, <2>1
  <2>4. q = <<>> => p = <<Slash>>
    BY <1>1, <2>1, <2>2
  <2> QED
    BY <1>1, <2>1, <2>2, <2>3, <2>4 DEF q
<1> QED
  BY <1>4, <1>5

(* A text is what lies before a place in it and what lies behind.          *)
LEMMA TwoParts ==
  ASSUME NEW S, NEW s \in Seq(S), NEW k \in 0 .. Len(s)
  PROVE  s = SubSeq(s, 1, k) \o SubSeq(s, k + 1, Len(s))
<1> DEFINE n == Len(s)  a == SubSeq(s, 1, k)  b == SubSeq(s, k + 1, n)  t == a \o b
<1>1. n \in Nat /\ k \in Nat /\ k <= n
  OBVIOUS
<1>2. 0 \in Nat /\ 0 <= k /\ 0 + 1 = 1 /\ k - 0 = k /\ n <= n
  BY <1>1
<1>3. a \in Seq(S) /\ Len(a) = k /\ \A i \in 1 .. k : a[i] = s[0 + i]
  BY <1>1, <1>2, PartOf
<1>4. b \in Seq(S) /\ Len(b) = n - k /\ \A i \in 1 .. n - k : b[i] = s[k + i]
  BY <1>1, <1>2, PartOf
<1> HIDE DEF a, b
<1>5. /\ t \in Seq(S) /\ Len(t) = Len(a) + Len(b)
      /\ \A i \in 1 .. Len(a) + Len(b) : t[i] = IF i <= Len(a) THEN a[i] ELSE b[i - Len(a)]
  BY <1>3, <1>4, ConcatProperties
<1> HIDE DEF t, n
<1>6. Len(t) = n
  BY <1>1, <1>3, <1>4, <1>5
<1>7. ASSUME NEW i \in 1 .. n PROVE s[i] = t[i]
  <2>1. i \in 1 .. Len(a) + Len(b)
    BY <1>5, <1>6
  <2>2. CASE i <= k
    <3>1. i \in 1 .. k /\ 0 + i = i
      BY <1>1, <2>2
    <3> QED
      BY <1>3, <1>5, <2>1, <2>2, <3>1
  <2>3. CASE ~(i <= k)
    <3>1. i - k \in 1 .. n - k /\ k + (i - k) = i
      BY <1>1, <2>3
    <3> QED
      BY <1>3, <1>4, <1>5, <2>1, <2>3, <3>1
  <2> QED
    BY <2>2, <2>3
<1>8. s = t
  BY <1>5, <1>6, <1>7, SameSeq DEF n
<1> QED
  BY <1>8 DEF t, a, b, n

(* The last character that is a slash is no part of a name.                *)
LEMMA CutSlash ==
  ASSUME NEW p \in Seq(Chr), p # <<>>, p[Len(p)] = Slash
  PROVE  SubSeq(p, 1, Len(p) - 1) \in Seq(Chr) /\ Names(SubSeq(p, 1, Len(p) - 1)) = Names(p)
<1> DEFINE n == Len(p)  a == SubSeq(p, 1, n - 1)  b == SubSeq(p, (n - 1) + 1, n)
<1>1. n \in Nat /\ n >= 1
  OBVIOUS
<1>2. n - 1 \in 0 .. n /\ (n - 1) + 1 = n
  BY <1>1
<1>3. p = a \o b
  BY <1>2, TwoParts
<1>4. /\ 0 \in Nat /\ n - 1 \in Nat /\ 0 <= n - 1 /\ n - 1 <= n /\ n <= n /\ 0 + 1 = 1
      /\ n - (n - 1) = 1 /\ 1 \in 1 .. 1
  BY <1>1
<1>5. a \in Seq(Chr)
  BY <1>4, PartOf
<1>7. b \in Seq(Chr) /\ Len(b) = 1 /\ b[1] = p[n]
  <2>1. b \in Seq(Chr) /\ Len(b) = n - (n - 1) /\ \A i \in 1 .. n - (n - 1) : b[i] = p[(n - 1) + i]
    BY <1>1, <1>4, PartOf
  <2> QED
    BY <1>2, <1>4, <2>1
<1> HIDE DEF a, b
<1>8. b = <<Slash>>
  BY <1>7, SlashText, SameSeq
<1>9. Names(a \o b) = Names(a)
  BY <1>5, <1>8, SlashNames
<1> QED
  BY <1>3, <1>5, <1>9 DEF a

(* The end of two texts in a row.                                          *)
LEMMA LastOf ==
  ASSUME NEW a \in Seq(Chr), NEW b \in Seq(Chr)
  PROVE  /\ a \o b \in Seq(Chr) /\ Len(a \o b) = Len(a) + Len(b)
         /\ a \o b = <<>> => a = <<>> /\ b = <<>>
         /\ b # <<>> => (a \o b)[Len(a \o b)] = b[Len(b)]
         /\ b = <<>> => a \o b = a
<1> DEFINE t == a \o b
<1>1. /\ t \in Seq(Chr) /\ Len(t) = Len(a) + Len(b) /\ Len(a) \in Nat /\ Len(b) \in Nat
      /\ \A i \in 1 .. Len(a) + Len(b) : t[i] = IF i <= Len(a) THEN a[i] ELSE b[i - Len(a)]
  BY ConcatProperties
<1>2. b = <<>> => t = a
  BY ConcatEmptySeq
<1> HIDE DEF t
<1>3. t = <<>> => a = <<>> /\ b = <<>>
  <2> SUFFICES ASSUME t = <<>> PROVE a = <<>> /\ b = <<>>
    OBVIOUS
  <2>1. Len(t) = 0
    OBVIOUS
  <2>2. Len(a) = 0 /\ Len(b) = 0
    BY <1>1, <2>1
  <2> QED
    BY <2>2, EmptySeq
<1>4. b # <<>> => t[Len(t)] = b[Len(b)]
  <2> SUFFICES ASSUME b # <<>> PROVE t[Len(t)] = b[Len(b)]
    OBVIOUS
  <2>1. Len(b) >= 1
    BY <1>1, EmptySeq
  <2>2. Len(t) \in 1 .. Len(a) + Len(b) /\ ~(Len(t) <= Len(a)) /\ Len(t) - Len(a) = Len(b)
    BY <1>1, <2>1
  <2> QED
    BY <1>1, <2>2
<1> QED
  BY <1>1, <1>2, <1>3, <1>4 DEF t

(* What combine builds, and what it leaves of it.                          *)
Full(base, localPath) == Joined(base) \o Rooted(localPath)
Cut(localPath) == CharAt(localPath, Len(localPath)) = Slash
Combined(base, localPath) ==
  LET full == Full(base, localPath)
  IN SubSeq(full, 1, IF Cut(localPath) THEN Len(full) - 1 ELSE Len(full))

(* It names what its parts name, and it ends with a slash if the local     *)
(* path does.                                                              *)
LEMMA FullOK ==
  ASSUME NEW base \in Seq(Chr), NEW localPath \in Seq(Chr)
  PROVE  LET full == Full(base, localPath)
         IN  /\ full \in Seq(Chr) /\ Names(full) = Names(base) \o Names(localPath)
             /\ Len(full) < Room(base, localPath)
             /\ Cut(localPath) /\ full # <<>> => full[Len(full)] = Slash
             /\ Cut(localPath) /\ full = <<>> => base = <<Slash>> /\ localPath = <<Slash>>
<1> DEFINE full == Full(base, localPath)  J == Joined(base)  R == Rooted(localPath)  l == localPath
<1>1. /\ J \in Seq(Chr) /\ Names(J) = Names(base) /\ Len(J) <= Len(base) + 1
      /\ J # <<>> => J[Len(J)] = Slash
      /\ J = <<>> => base = <<Slash>>
  BY JoinedOK
<1>2. /\ R \in Seq(Chr) /\ Names(R) = Names(l) /\ Len(R) <= Len(l)
      /\ R # <<>> => l # <<>> /\ R[Len(R)] = l[Len(l)]
      /\ R = <<>> => l = <<>> \/ l = <<Slash>>
  BY RootedOK
<1>3. full = J \o R
  BY DEF Full
<1> HIDE DEF full, J, R
<1>4. /\ full \in Seq(Chr) /\ Len(full) = Len(J) + Len(R)
      /\ full = <<>> => J = <<>> /\ R = <<>>
      /\ R # <<>> => full[Len(full)] = R[Len(R)]
      /\ R = <<>> => full = J
  BY <1>1, <1>2, <1>3, LastOf
<1>5. Len(J) \in Nat /\ Len(R) \in Nat /\ Len(base) \in Nat /\ Len(l) \in Nat
  BY <1>1, <1>2
<1>6. Apart(J, R)
  <2>1. Len(J) \in Int
    BY <1>5
  <2>2. ~Inside(J, Len(J))
    <3>1. Inside(J, Len(J)) => Len(J) \in 1 .. Len(J) /\ J[Len(J)] # Slash
      BY <1>1, <2>1, CharIs
    <3>2. J = <<>> => Len(J) = 0
      OBVIOUS
    <3>3. J = <<>> => Len(J) \notin 1 .. Len(J)
      BY <3>2
    <3> QED
      BY <1>1, <3>1, <3>3
  <2> QED
    BY <2>2 DEF Apart
<1>7. Names(full) = Names(base) \o Names(l)
  BY <1>1, <1>2, <1>3, <1>6, JoinNames
<1>8. Len(full) < Room(base, l)
  BY <1>1, <1>2, <1>4, <1>5 DEF Room
<1>9. Cut(l) => Len(l) \in 1 .. Len(l) /\ l[Len(l)] = Slash /\ l # <<>>
  <2>1. Len(l) \in Int
    BY <1>5
  <2>2. Cut(l) => Len(l) \in 1 .. Len(l) /\ l[Len(l)] = Slash
    BY <2>1, CharIs DEF Cut, Slash
  <2> QED
    BY <2>2
<1>10. Cut(l) /\ full # <<>> => full[Len(full)] = Slash
  BY <1>1, <1>2, <1>4, <1>9
<1>11. Cut(l) /\ full = <<>> => base = <<Slash>> /\ l = <<Slash>>
  BY <1>1, <1>2, <1>4, <1>9
<1> QED
  BY <1>4, <1>7, <1>8, <1>10, <1>11 DEF full

(* What is left of it is a text that names the same.                       *)
LEMMA CombineOK ==
  ASSUME NEW base \in Seq(Chr), NEW localPath \in Seq(Chr)
  PROVE  /\ Combined(base, localPath) \in Seq(Chr)
         /\ Names(Combined(base, localPath)) = Names(base) \o Names(localPath)
<1> DEFINE full == Full(base, localPath)  c == Cut(localPath)  text == Combined(base, localPath)
<1>1. /\ full \in Seq(Chr) /\ Names(full) = Names(base) \o Names(localPath)
      /\ c /\ full # <<>> => full[Len(full)] = Slash
  BY FullOK
<1>2. text = SubSeq(full, 1, IF c THEN Len(full) - 1 ELSE Len(full))
  BY DEF Combined
<1> HIDE DEF full, c, text
<1>3. CASE ~c
  <2>1. SubSeq(full, 1, Len(full)) = full
    BY <1>1, SubSeqFull
  <2> QED
    BY <1>1, <1>2, <1>3, <2>1 DEF text
<1>4. CASE c /\ full # <<>>
  BY <1>1, <1>2, <1>4, CutSlash DEF text
<1>5. CASE c /\ full = <<>>
  <2>1. Len(full) = 0
    BY <1>5
  <2>2. text = SubSeq(full, 1, 0 - 1)
    BY <1>2, <1>5, <2>1
  <2>3. SubSeq(full, 1, 0 - 1) = <<>>
    BY <1>1, SubSeqEmpty
  <2> QED
    BY <1>1, <1>5, <2>2, <2>3 DEF text
<1> QED
  BY <1>3, <1>4, <1>5

(* The greatest number of a bounded set.                                   *)
LEMMA MaxIsIn ==
  ASSUME NEW n \in Nat, NEW T \in SUBSET (1 .. n), T # {}
  PROVE  Max(T) \in T /\ \A k \in T : k <= Max(T)
<1> DEFINE D == {n - k : k \in T}
<1>1. D \subseteq Nat /\ D # {}
  <2>1. \A k \in T : n - k \in Nat
    OBVIOUS
  <2>2. PICK t \in T : TRUE
    OBVIOUS
  <2>3. n - t \in D
    OBVIOUS
  <2> QED
    BY <2>1, <2>3
<1>2. Min(D) \in D /\ \A d \in D : Min(D) <= d
  <2> HIDE DEF D
  <2> QED
    BY <1>1, MinIsIn
<1>3. PICK m \in T : Min(D) = n - m
  BY <1>2
<1>4. ASSUME NEW k \in T PROVE m >= k
  <2>1. n - m <= n - k
    BY <1>2, <1>3
  <2> QED
    BY <2>1
<1>5. \E x \in T : \A y \in T : x >= y
  BY <1>4
<1>6. Max(T) \in T /\ \A y \in T : Max(T) >= y
  <2> HIDE DEF D
  <2> QED
    BY <1>5 DEF Max
<1> QED
  BY <1>6

(* strrchr gives the last place of a character, or none.                   *)
LEMMA StrrchrIs ==
  ASSUME NEW s \in Seq(Chr), NEW c
  PROVE  LET k == strrchr(s, c)
         IN  /\ k \in 0 .. Len(s)
             /\ k = 0 => \A i \in 1 .. Len(s) : s[i] # c
             /\ k # 0 => k \in 1 .. Len(s) /\ s[k] = c /\ \A i \in 1 .. Len(s) : i > k => s[i] # c
<1> DEFINE I == {i \in 1 .. Len(s) : s[i] = c}  k == strrchr(s, c)
<1>1. Len(s) \in Nat
  OBVIOUS
<1>2. k = IF I # {} THEN Max(I) ELSE 0
  BY DEF strrchr, SelectLastInSeq
<1>3. I \in SUBSET (1 .. Len(s))
  OBVIOUS
<1>4. I # {} => Max(I) \in I /\ \A i \in I : i <= Max(I)
  <2> HIDE DEF I
  <2> QED
    BY <1>1, <1>3, MaxIsIn
<1> HIDE DEF k
<1>5. CASE I = {}
  <2>1. k = 0
    BY <1>2, <1>5
  <2>2. \A i \in 1 .. Len(s) : s[i] # c
    BY <1>5
  <2>3. k \in 0 .. Len(s)
    BY <1>1, <2>1
  <2> QED
    BY <2>1, <2>2, <2>3 DEF k
<1>6. CASE I # {}
  <2>1. k \in I /\ \A i \in I : i <= k
    BY <1>2, <1>4, <1>6
  <2>2. k \in 1 .. Len(s) /\ s[k] = c
    BY <2>1
  <2>3. ASSUME NEW i \in 1 .. Len(s), i > k PROVE s[i] # c
    <3>1. i \notin I
      BY <1>1, <2>1, <2>2, <2>3
    <3> QED
      BY <3>1
  <2>4. k \in 0 .. Len(s) /\ k # 0
    BY <1>1, <2>2
  <2> QED
    BY <2>2, <2>3, <2>4 DEF k
<1> QED
  BY <1>5, <1>6

(* A slash separates the names before it from those behind.                *)
LEMMA SplitAt ==
  ASSUME NEW p \in Seq(Chr), NEW k \in 1 .. Len(p)
  PROVE  LET a == SubSeq(p, 1, k - 1)
             b == SubSeq(p, k + 1, Len(p))
         IN  /\ a \in Seq(Chr) /\ b \in Seq(Chr)
             /\ Len(b) = Len(p) - k /\ \A i \in 1 .. Len(p) - k : b[i] = p[k + i]
             /\ p[k] = Slash => Names(p) = Names(a) \o Names(b)
<1> DEFINE n == Len(p)  a == SubSeq(p, 1, k - 1)  b == SubSeq(p, k + 1, n)  c == SubSeq(p, 1, k)
<1>1. n \in Nat /\ k \in 0 .. n /\ k \in Nat /\ k >= 1 /\ k - 1 \in Nat /\ k - 1 <= n /\ k <= n /\ n <= n
  OBVIOUS
<1>2. 0 \in Nat /\ 0 + 1 = 1 /\ k - 0 = k /\ 0 <= k /\ 0 <= k - 1 /\ 1 \in 1 .. n /\ k \in 1 .. n /\ k \in 1 .. k /\ 0 + k = k
  BY <1>1
<1>3. a \in Seq(Chr)
  BY <1>1, <1>2, PartOf
<1>4. b \in Seq(Chr) /\ Len(b) = n - k /\ \A i \in 1 .. n - k : b[i] = p[k + i]
  BY <1>1, PartOf
<1>5. c \in Seq(Chr) /\ Len(c) = k /\ \A i \in 1 .. k : c[i] = p[0 + i]
  BY <1>1, <1>2, PartOf
<1>6. p = c \o b
  BY <1>1, TwoParts
<1>7. SubSeq(c, 1, k - 1) = a
  <2> DEFINE e == SubSeq(c, 1, k - 1)
  <2>1. k - 1 <= k /\ (k - 1) - 0 = k - 1
    BY <1>1
  <2>2. a \in Seq(Chr) /\ Len(a) = k - 1 /\ \A i \in 1 .. k - 1 : a[i] = p[0 + i]
    BY <1>1, <1>2, <2>1, PartOf
  <2> HIDE DEF a, c
  <2>3. e \in Seq(Chr) /\ Len(e) = k - 1 /\ \A i \in 1 .. k - 1 : e[i] = c[0 + i]
    BY <1>1, <1>2, <1>5, <2>1, PartOf
  <2> HIDE DEF e
  <2>4. ASSUME NEW i \in 1 .. k - 1 PROVE e[i] = a[i]
    <3>1. 0 + i = i /\ i \in 1 .. k
      BY <1>1
    <3> QED
      BY <1>5, <2>2, <2>3, <3>1
  <2>5. e = a
    BY <2>2, <2>3, <2>4, SameSeq
  <2> QED
    BY <2>5 DEF e
<1>8. p[k] = Slash => Names(p) = Names(a) \o Names(b)
  <2> SUFFICES ASSUME p[k] = Slash PROVE Names(p) = Names(a) \o Names(b)
    OBVIOUS
  <2> HIDE DEF a, b, c
  <2>1. c # <<>> /\ c[Len(c)] = Slash
    BY <1>1, <1>2, <1>5
  <2>2. Names(c) = Names(a)
    BY <1>5, <1>7, <2>1, CutSlash
  <2>3. ~Inside(c, Len(c))
    BY <1>1, <1>5, <2>1, CharIs
  <2>4. Names(c \o b) = Names(c) \o Names(b)
    BY <1>4, <1>5, <2>3, JoinNames DEF Apart
  <2> QED
    BY <1>6, <2>2, <2>4
<1> QED
  BY <1>3, <1>4, <1>8

(* The last slash of a path that ends with a name is in front of that name. *)
LEMMA SplitLast ==
  ASSUME NEW p \in Seq(Chr), Len(Names(p)) >= 2, Last(p) # Slash
  PROVE  LET k == strrchr(p, Slash)
         IN  /\ k # 0
             /\ Names(SubSeq(p, 1, k - 1)) = Front(Names(p))
             /\ SubSeq(p, k + 1, Len(p)) = Last(Names(p))
<1> DEFINE k == strrchr(p, Slash)  n == Len(p)  a == SubSeq(p, 1, k - 1)  b == SubSeq(p, k + 1, n)
<1>1. /\ k \in 0 .. n
      /\ k = 0 => \A i \in 1 .. n : p[i] # Slash
      /\ k # 0 => k \in 1 .. n /\ p[k] = Slash /\ \A i \in 1 .. n : i > k => p[i] # Slash
  BY StrrchrIs
<1>2. n \in Nat
  OBVIOUS
<1> HIDE DEF k
<1>3. k # 0
  <2> SUFFICES ASSUME k = 0 PROVE FALSE
    OBVIOUS
  <2>1. CASE p = <<>>
    <3>1. \A i \in 1 .. n : p[i] = Slash
      BY <2>1
    <3>2. Names(p) = <<>>
      BY <3>1, NoNames
    <3>3. Len(<<>>) = 0
      OBVIOUS
    <3> QED
      BY <3>2, <3>3
  <2>2. CASE p # <<>>
    <3>1. Names(p) = <<p>>
      BY <1>1, <2>2, OneName
    <3>2. Len(<<p>>) = 1
      OBVIOUS
    <3> QED
      BY <3>1, <3>2
  <2> QED
    BY <2>1, <2>2
<1>4. k \in 1 .. n /\ p[k] = Slash /\ \A i \in 1 .. n : i > k => p[i] # Slash
  BY <1>1, <1>3
<1>5. /\ a \in Seq(Chr) /\ b \in Seq(Chr)
      /\ Len(b) = n - k /\ \A i \in 1 .. n - k : b[i] = p[k + i]
      /\ Names(p) = Names(a) \o Names(b)
  BY <1>4, SplitAt
<1> HIDE DEF a, b
<1>6. n # k
  BY <1>4 DEF Last
<1>7. b # <<>> /\ \A i \in 1 .. Len(b) : b[i] # Slash
  <2>1. Len(b) >= 1
    BY <1>2, <1>4, <1>5, <1>6
  <2>2. ASSUME NEW i \in 1 .. Len(b) PROVE b[i] # Slash
    <3>1. i \in 1 .. n - k /\ k + i \in 1 .. n /\ k + i > k
      BY <1>2, <1>4, <1>5
    <3> QED
      BY <1>4, <1>5, <3>1
  <2> QED
    BY <2>1, <2>2
<1>8. Names(b) = <<b>>
  BY <1>5, <1>7, OneName
<1> DEFINE A == Names(a)
<1>9. A \in Seq(Seq(Chr)) /\ Names(p) = A \o <<b>>
  BY <1>5, <1>8, NamesTyped
<1> HIDE DEF A
<1>10. Front(A \o <<b>>) = A /\ Last(A \o <<b>>) = b
  <2> DEFINE s == <<b>>  t == A \o s
  <2>1. s \in Seq(Seq(Chr)) /\ Len(s) = 1 /\ s[1] = b
    BY <1>5
  <2> HIDE DEF s
  <2>2. /\ t \in Seq(Seq(Chr)) /\ Len(t) = Len(A) + Len(s)
        /\ \A i \in 1 .. Len(A) + Len(s) : t[i] = IF i <= Len(A) THEN A[i] ELSE s[i - Len(A)]
    <3>1. A \in Seq(Seq(Chr)) /\ s \in Seq(Seq(Chr))
      BY <1>9, <2>1
    <3> QED
      BY ONLY <3>1, ConcatProperties
  <2> HIDE DEF t
  <2>3. Len(A) \in Nat /\ Len(t) = Len(A) + 1 /\ Len(t) - 1 = Len(A)
    BY <1>9, <2>1, <2>2
  <2>4. t[Len(t)] = b
    <3>1. Len(t) \in 1 .. Len(A) + Len(s) /\ ~(Len(t) <= Len(A)) /\ Len(t) - Len(A) = 1
      BY <2>1, <2>3
    <3> QED
      BY <2>1, <2>2, <3>1
  <2>5. SubSeq(t, 1, Len(A)) = A
    <3> DEFINE e == SubSeq(t, 1, Len(A))
    <3>1. 0 \in Nat /\ 0 <= Len(A) /\ Len(A) <= Len(t) /\ 0 + 1 = 1 /\ Len(A) - 0 = Len(A)
      BY <2>3
    <3>2. e \in Seq(Seq(Chr)) /\ Len(e) = Len(A) /\ \A i \in 1 .. Len(A) : e[i] = t[0 + i]
      BY <2>2, <2>3, <3>1, PartOf
    <3> HIDE DEF e
    <3>3. ASSUME NEW i \in 1 .. Len(A) PROVE e[i] = A[i]
      <4>1. 0 + i = i /\ i \in 1 .. Len(A) + Len(s) /\ i <= Len(A)
        BY <2>1, <2>3
      <4> QED
        BY <2>2, <3>2, <4>1
    <3>4. e = A
      BY <1>9, <3>2, <3>3, SameSeq
    <3> QED
      BY <3>4 DEF e
  <2>6. Front(t) = A /\ Last(t) = b
    BY <2>3, <2>4, <2>5 DEF Front, Last
  <2> QED
    BY <2>6 DEF t, s
<1> QED
  BY <1>3, <1>9, <1>10 DEF A, a, b, k

(* The directory and the name of a path, put together, are the path.       *)
LEMMA DirAndNameOK ==
  ASSUME NEW p \in Seq(Chr), Len(Names(p)) >= 2, Last(p) # Slash
  PROVE  Names(dirname(p)) = Front(Names(p)) /\ basename(p) = Last(Names(p))
<1> DEFINE q == Rooted(p)
<1>1. /\ q \in Seq(Chr) /\ Names(q) = Names(p)
      /\ q # <<>> => p # <<>> /\ q[Len(q)] = p[Len(p)]
  BY RootedOK
<1> HIDE DEF q
<1>2. q # <<>>
  <2> SUFFICES ASSUME q = <<>> PROVE FALSE
    OBVIOUS
  <2>1. \A i \in 1 .. Len(q) : q[i] = Slash
    OBVIOUS
  <2>2. Names(q) = <<>>
    BY <1>1, <2>1, NoNames
  <2>3. Len(<<>>) = 0
    OBVIOUS
  <2> QED
    BY <1>1, <2>2, <2>3
<1>3. Last(q) # Slash
  BY <1>1, <1>2 DEF Last
<1>4. strrchr(q, Slash) # 0 /\ Names(SubSeq(q, 1, strrchr(q, Slash) - 1)) = Front(Names(q))
  BY <1>1, <1>3, SplitLast
<1>5. dirname(p) = SubSeq(q, 1, strrchr(q, Slash) - 1)
  BY <1>4 DEF dirname, q
<1>6. basename(p) = Last(Names(p))
  BY SplitLast DEF basename
<1> QED
  BY <1>1, <1>4, <1>5, <1>6

(* Both are texts.                                                         *)
LEMMA PartsTyped ==
  ASSUME NEW p \in Seq(Chr)
  PROVE  dirname(p) \in Seq(Chr) /\ basename(p) \in Seq(Chr)
<1> DEFINE q == Rooted(p)  k == IF strrchr(q, Slash) # 0 THEN strrchr(q, Slash) ELSE strrchr(q, Backslash)
<1>1. q \in Seq(Chr)
  BY RootedOK
<1>2. dirname(p) = IF k = 0 THEN q ELSE SubSeq(q, 1, k - 1)
  BY DEF dirname
<1> HIDE DEF q
<1>3. strrchr(q, Slash) \in 0 .. Len(q) /\ strrchr(q, Backslash) \in 0 .. Len(q)
  BY <1>1, StrrchrIs
<1>4. k \in 0 .. Len(q) /\ Len(q) \in Nat
  BY <1>1, <1>3
<1> HIDE DEF k
<1>5. k # 0 => SubSeq(q, 1, k - 1) \in Seq(Chr)
  <2> SUFFICES ASSUME k # 0 PROVE SubSeq(q, 1, k - 1) \in Seq(Chr)
    OBVIOUS
  <2>1. k \in 1 .. Len(q)
    BY <1>4
  <2> QED
    BY <1>1, <2>1, SplitAt
<1>6. basename(p) \in Seq(Chr)
  <2> DEFINE j == strrchr(p, Slash)
  <2>1. j \in 0 .. Len(p) /\ Len(p) \in Nat
    BY StrrchrIs
  <2> HIDE DEF j
  <2>2. j \in Nat /\ j <= Len(p) /\ Len(p) <= Len(p)
    BY <2>1
  <2>3. SubSeq(p, j + 1, Len(p)) \in Seq(Chr)
    BY <2>1, <2>2, PartOf
  <2> QED
    BY <2>3 DEF basename, j
<1> QED
  BY <1>1, <1>2, <1>5, <1>6

(* The path a program has is a text, and so are those it was made of; what *)
(* combine says of them holds from the call that made it.                  *)
PathInv ==
  /\ made.text \in Seq(Chr) /\ made.base \in Seq(Chr) /\ made.local \in Seq(Chr)
  /\ CombineNames /\ CombineInBuffer

(* The paths a program starts with are texts.                              *)
LEMMA PiecesTyped == Pieces \subseteq Seq(Chr)
<1>1. STRING \ {"NUL"} \subseteq Chr
  BY DEF Chr
<1>2. ASSUME NEW p \in Pieces PROVE p \in Seq(Chr)
  <2> DEFINE T == STRING \ {"NUL"}
  <2>1. p \in Seq(T)
    BY PiecesAssumption
  <2> HIDE DEF T
  <2>2. Len(p) \in Nat /\ p \in [1 .. Len(p) -> T]
    BY <2>1
  <2>3. p \in [1 .. Len(p) -> Chr]
    BY <1>1, <2>2 DEF T
  <2> QED
    BY <2>2, <2>3, SeqDef
<1> QED
  BY <1>2

(* combine makes a path that names what its parts name, in its buffer.     *)
LEMMA CombineKeeps ==
  ASSUME NEW base \in Seq(Chr), NEW localPath \in Seq(Chr), fs_combine(base, localPath)
  PROVE  PathInv'
<1> DEFINE full == Full(base, localPath)  c == Cut(localPath)  n == Len(full)
<1>1. made' = [op |-> "combine", text |-> Combined(base, localPath), base |-> base, local |-> localPath,
               low |-> IF c THEN n - 1 ELSE 0, high |-> n]
  BY DEF fs_combine, Made, Full, Cut, Combined
<1>2. /\ full \in Seq(Chr) /\ n < Room(base, localPath)
      /\ c /\ full = <<>> => base = <<Slash>> /\ localPath = <<Slash>>
  BY FullOK
<1>3. Combined(base, localPath) \in Seq(Chr) /\ Names(Combined(base, localPath)) = Names(base) \o Names(localPath)
  BY CombineOK
<1>4. n \in Nat /\ (n = 0 => full = <<>>)
  BY <1>2, EmptySeq
<1> HIDE DEF full, c, n
<1>5. CombineNames'
  BY <1>1, <1>3 DEF CombineNames
<1>6. CombineInBuffer'
  <2> SUFFICES ASSUME ~(base = <<Slash>> /\ localPath = <<Slash>>)
               PROVE  0 <= made'.low /\ made'.high < Room(base, localPath)
    BY <1>1 DEF CombineInBuffer
  <2>1. c => n # 0
    BY <1>2, <1>4
  <2>2. 0 <= IF c THEN n - 1 ELSE 0
    BY <1>4, <2>1
  <2> QED
    BY <1>1, <1>2, <2>2
<1> QED
  BY <1>1, <1>3, <1>5, <1>6 DEF PathInv

(* Taking a path apart leaves a text.                                      *)
LEMMA PartsKeep ==
  ASSUME PathInv, fs_getName \/ fs_getDir
  PROVE  PathInv'
<1>1. dirname(made.text) \in Seq(Chr) /\ basename(made.text) \in Seq(Chr) /\ made.text \in Seq(Chr)
  BY PartsTyped DEF PathInv
<1>2. <<>> \in Seq(Chr)
  OBVIOUS
<1>3. /\ made'.text \in Seq(Chr) /\ made'.base \in Seq(Chr) /\ made'.local \in Seq(Chr)
      /\ made'.op # "combine"
  <2>1. CASE fs_getName
    BY <1>1, <1>2, <2>1 DEF fs_getName, Made
  <2>2. CASE fs_getDir
    BY <1>1, <1>2, <2>2 DEF fs_getDir, Made
  <2> QED
    BY <2>1, <2>2
<1> QED
  BY <1>3 DEF PathInv, CombineNames, CombineInBuffer

(* fs.combine, fs.getName and fs.getDir, called by a program on what they  *)
(* gave it before, in any order and with slashes anywhere: a combined path *)
(* names what its parts name, a path's directory and its name are all its  *)
(* names, and combine stays inside the buffer it allocated (but for "/"    *)
(* with "/").                                                              *)
THEOREM PathsHold == Spec => []PathsCompose
<1>1. Init => PathInv
  <2> SUFFICES ASSUME Init PROVE PathInv
    OBVIOUS
  <2>1. <<>> \in Seq(Chr)
    OBVIOUS
  <2>2. CASE made = NoPath
    BY <2>1, <2>2 DEF NoPath, PathInv, CombineNames, CombineInBuffer
  <2>3. CASE PathInit
    <3>1. PICK p \in Pieces : made = [NoPath EXCEPT !.op = "given", !.text = p]
      BY <2>3 DEF PathInit
    <3>2. made.op = "given" /\ made.text = p /\ made.base = <<>> /\ made.local = <<>>
      BY <3>1 DEF NoPath
    <3> QED
      BY <2>1, <3>2, PiecesTyped DEF PathInv, CombineNames, CombineInBuffer
  <2> QED
    BY <2>2, <2>3 DEF Init
<1>2. PathInv /\ [Next]_vars => PathInv'
  <2> SUFFICES ASSUME PathInv, [Next]_vars PROVE PathInv'
    OBVIOUS
  <2>1. CASE PathNext
    <3>1. CASE \E p \in Pieces : fs_combine(made.text, p) \/ fs_combine(p, made.text)
      <4>1. PICK p \in Pieces : fs_combine(made.text, p) \/ fs_combine(p, made.text)
        BY <3>1
      <4>2. p \in Seq(Chr) /\ made.text \in Seq(Chr)
        BY PiecesTyped DEF PathInv
      <4> QED
        BY <4>1, <4>2, CombineKeeps
    <3>2. CASE fs_getName \/ fs_getDir
      BY <3>2, PartsKeep
    <3> QED
      BY <2>1, <3>1, <3>2 DEF PathNext
  <2>2. CASE UNCHANGED made
    BY <2>2 DEF PathInv, CombineNames, CombineInBuffer
  <2>3. PathNext \/ UNCHANGED made
    BY DEF Next, vars
  <2> QED
    BY <2>1, <2>2, <2>3
<1>3. PathInv => PathsCompose
  BY DirAndNameOK DEF PathInv, PathsCompose, DirAndName
<1> QED
  BY <1>1, <1>2, <1>3, PTL DEF Spec
=============================================================================

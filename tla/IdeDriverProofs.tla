--------------------------- MODULE IdeDriverProofs ---------------------------
(***************************************************************************)
(* The IDE driver executes its requests once each, in order and on their   *)
(* sectors, for every disk, every contents and every number and size of    *)
(* requests, made in and out of callbacks.                                 *)
(*                                                                         *)
(* DriverInOrder speaks of the answers given and of an empty queue.  The   *)
(* inductive invariant says what the answers to the requests in the queue  *)
(* will be: what a sector will hold once the requests before one are done  *)
(* is what the last write among them puts there, or what the disk holds.   *)
(***************************************************************************)
EXTENDS IdeDriver, TLAPS

Item == [id : Nat, read : BOOLEAN, sector : Nat, position : Nat, total : Nat, buffer : Seq(Content)]

(* A read's buffer holds what was transferred, a write's all it has. *)
ItemOK(it) ==
  /\ it \in Item
  /\ it.position < it.total /\ it.sector + it.total <= num_blocks
  /\ Len(it.buffer) = IF it.read THEN it.position ELSE it.total

Requests ==
  /\ work_queue \in Seq(Item)
  /\ \A i \in 1 .. Len(work_queue) : ItemOK(work_queue[i])
  /\ expected \in Seq(Seq(Content))
  /\ calls \in Seq([id : Nat, buffer : Seq(Content)])

(* Requests are numbered in the order in which they were made, and leave   *)
(* the queue in that order.                                                *)
Numbered ==
  /\ issued = Len(calls) + Len(work_queue) /\ issued = Len(expected)
  /\ \A i \in 1 .. Len(work_queue) : work_queue[i].id = Len(calls) + i

CommandOf(it) == [op |-> IF it.read THEN "read" ELSE "write",
                  lba |-> it.sector + it.position, left |-> it.total - it.position]

(* Only the first request is under way, and only inside the handler.  The  *)
(* device is where that request is; in a callback it may not have been     *)
(* started yet.                                                            *)
Device ==
  /\ \A i \in 1 .. Len(work_queue) : i > 1 \/ pc # "irq" => work_queue[i].position = 0
  /\ pc = "irq" => work_queue # <<>>
  /\ work_queue = <<>> => dev = NoCommand
  /\ work_queue # <<>> => \/ dev = CommandOf(work_queue[1])
                          \/ pc = "callback" /\ dev = NoCommand

(* Request i of the queue q writes block b; what it writes there. *)
Covers(q, i, b) == ~q[i].read /\ q[i].sector <= b /\ b < q[i].sector + q[i].total
Puts(q, i, b) == q[i].buffer[b - q[i].sector + 1]

(* v is what block b holds once the requests before i are done, if the     *)
(* disk is d now.                                                          *)
Latest(q, d, i, b, v) ==
  /\ (\A j \in 1 .. i - 1 : ~Covers(q, j, b)) => v = d[b]
  /\ \A j \in 1 .. i - 1 :
       Covers(q, j, b) /\ (\A k \in j + 1 .. i - 1 : ~Covers(q, k, b)) => v = Puts(q, j, b)

(* What is done of the request under way. *)
UnderWay ==
  work_queue # <<>> =>
    LET it == work_queue[1]
    IN  \A k \in 1 .. it.position :
          IF it.read THEN it.buffer[k] = expected[Len(calls) + 1][k]
          ELSE disk[it.sector + k - 1] = it.buffer[k]

Due(i) == expected[Len(calls) + i]

(* What is to come of the requests in the queue. *)
ToCome ==
  /\ \A b \in Block : Latest(work_queue, disk, Len(work_queue) + 1, b, image[b])
  /\ \A i \in 1 .. Len(work_queue) :
       LET it == work_queue[i]
       IN  /\ Len(Due(i)) = it.total
           /\ ~it.read => Due(i) = it.buffer
           /\ it.read => \A k \in 1 .. it.total : Latest(work_queue, disk, i, it.sector + k - 1, Due(i)[k])

Basics == /\ disk \in [Block -> Content] /\ image \in [Block -> Content]
          /\ pc \in {"idle", "irq", "callback"}

IdeInv == Basics /\ Requests /\ Numbered /\ Device /\ InOrder /\ UnderWay /\ ToCome

-----------------------------------------------------------------------------
(* What a block will hold depends only on the writes before the request    *)
(* and, if none of them is to that block, on the disk.                     *)
LEMMA LatestSame ==
  ASSUME NEW q, NEW r, NEW d, NEW e, NEW i \in Nat, NEW b, NEW v,
         \A j \in 1 .. i - 1 : Covers(r, j, b) <=> Covers(q, j, b),
         \A j \in 1 .. i - 1 : Covers(q, j, b) => Puts(r, j, b) = Puts(q, j, b),
         (\A j \in 1 .. i - 1 : ~Covers(q, j, b)) => e[b] = d[b],
         Latest(q, d, i, b, v)
  PROVE  Latest(r, e, i, b, v)
<1>1. (\A j \in 1 .. i - 1 : ~Covers(r, j, b)) => v = e[b]
  BY DEF Latest
<1>2. ASSUME NEW j \in 1 .. i - 1, Covers(r, j, b), \A k \in j + 1 .. i - 1 : ~Covers(r, k, b)
      PROVE  v = Puts(r, j, b)
  <2>1. Covers(q, j, b) /\ \A k \in j + 1 .. i - 1 : ~Covers(q, k, b)
    BY <1>2
  <2>2. v = Puts(q, j, b)
    BY <2>1 DEF Latest
  <2>3. QED
    BY <2>1, <2>2
<1>3. QED
  BY <1>1, <1>2 DEF Latest

(* A request behind it changes nothing for a request. *)
LEMMA LatestAppend ==
  ASSUME NEW q \in Seq(Item), NEW it \in Item, NEW d, NEW i \in 1 .. Len(q) + 1, NEW b, NEW v,
         Latest(q, d, i, b, v)
  PROVE  Latest(Append(q, it), d, i, b, v)
<1>1. \A j \in 1 .. i - 1 : Append(q, it)[j] = q[j]
  OBVIOUS
<1>2. \A j \in 1 .. i - 1 : (Covers(Append(q, it), j, b) <=> Covers(q, j, b))
                          /\ Puts(Append(q, it), j, b) = Puts(q, j, b)
  BY <1>1 DEF Covers, Puts
<1>3. i \in Nat
  OBVIOUS
<1> HIDE DEF Covers, Puts
<1>4. QED
  BY <1>2, <1>3, LatestSame

(* When the first request has left the queue, and its blocks, if it was a  *)
(* write, hold what it wrote, the others find what they would have found.  *)
LEMMA LatestTail ==
  ASSUME NEW q \in Seq(Item), q # <<>>, NEW d, NEW e, NEW i \in 1 .. Len(q), NEW b, NEW v,
         e[b] = IF Covers(q, 1, b) THEN Puts(q, 1, b) ELSE d[b],
         Latest(q, d, i + 1, b, v)
  PROVE  Latest(Tail(q), e, i, b, v)
<1> DEFINE r == Tail(q)
<1>1. \A j \in 1 .. i - 1 : r[j] = q[j + 1]
  OBVIOUS
<1>2. \A j \in 1 .. i - 1 : (Covers(r, j, b) <=> Covers(q, j + 1, b)) /\ Puts(r, j, b) = Puts(q, j + 1, b)
  BY <1>1 DEF Covers, Puts
<1> HIDE DEF r
<1>3. (\A j \in 1 .. (i + 1) - 1 : ~Covers(q, j, b)) => v = d[b]
  BY DEF Latest
<1>4. \A j \in 1 .. (i + 1) - 1 :
        Covers(q, j, b) /\ (\A k \in j + 1 .. (i + 1) - 1 : ~Covers(q, k, b)) => v = Puts(q, j, b)
  BY DEF Latest
<1>5. i \in Nat /\ 1 <= i /\ (i + 1) - 1 = i
  OBVIOUS
<1>6. ASSUME \A j \in 1 .. i - 1 : ~Covers(r, j, b) PROVE v = e[b]
  <2>1. \A j \in 2 .. i : ~Covers(q, j, b)
    <3> SUFFICES ASSUME NEW j \in 2 .. i PROVE ~Covers(q, j, b)
      OBVIOUS
    <3>1. j - 1 \in 1 .. i - 1 /\ (j - 1) + 1 = j
      BY <1>5
    <3>2. QED
      BY <1>2, <1>6, <3>1
  <2>2. CASE Covers(q, 1, b)
    <3>1. v = Puts(q, 1, b)
      BY <1>4, <1>5, <2>1, <2>2
    <3>2. QED
      BY <2>2, <3>1
  <2>3. CASE ~Covers(q, 1, b)
    <3>1. \A j \in 1 .. i : ~Covers(q, j, b)
      BY <2>1, <2>3
    <3>2. QED
      BY <1>3, <1>5, <2>3, <3>1
  <2>4. QED
    BY <2>2, <2>3
<1>7. ASSUME NEW j \in 1 .. i - 1, Covers(r, j, b), \A k \in j + 1 .. i - 1 : ~Covers(r, k, b)
      PROVE  v = Puts(r, j, b)
  <2>1. j + 1 \in 1 .. i /\ Covers(q, j + 1, b)
    BY <1>2, <1>5, <1>7
  <2>2. \A k \in (j + 1) + 1 .. i : ~Covers(q, k, b)
    <3> SUFFICES ASSUME NEW k \in (j + 1) + 1 .. i PROVE ~Covers(q, k, b)
      OBVIOUS
    <3>1. k - 1 \in j + 1 .. i - 1 /\ k - 1 \in 1 .. i - 1 /\ (k - 1) + 1 = k
      BY <1>5
    <3>2. QED
      BY <1>2, <1>7, <3>1
  <2>3. v = Puts(q, j + 1, b)
    BY <1>4, <1>5, <2>1, <2>2
  <2>4. QED
    BY <1>2, <2>3
<1>8. QED
  BY <1>6, <1>7 DEF Latest, r

-----------------------------------------------------------------------------
(* The device after work_begin_next for a request not yet under way. *)
LEMMA Begun ==
  ASSUME NEW it, ItemOK(it), it.position = 0,
         Command(IF it.read THEN "read" ELSE "write", it.sector, it.total),
         dev = NoCommand \/ dev = CommandOf(it)
  PROVE  dev' = CommandOf(it)
<1>1. CommandOf(it) = [op |-> IF it.read THEN "read" ELSE "write", lba |-> it.sector, left |-> it.total]
  BY DEF CommandOf, ItemOK, Item
<1>2. QED
  BY <1>1 DEF Command, NoCommand

(* A request that is queued: everything but what it will find. *)
LEMMA Queued ==
  ASSUME Requests, Numbered, Device, InOrder, UnderWay, pc \in {"idle", "callback"},
         NEW it, ItemOK(it), it.position = 0, it.id = issued + 1,
         NEW due \in Seq(Content),
         Enqueue(it), expected' = Append(expected, due), UNCHANGED <<disk, pc, calls>>
  PROVE  Requests' /\ Numbered' /\ Device' /\ InOrder' /\ UnderWay'
<1> DEFINE q == work_queue
           r == Append(work_queue, it)
<1>1. it \in Item /\ q \in Seq(Item) /\ Len(q) \in Nat /\ Len(calls) \in Nat
  BY DEF ItemOK, Requests
<1>2. work_queue' = r /\ issued' = issued + 1
  BY DEF Enqueue
<1>3. /\ r \in Seq(Item) /\ Len(r) = Len(q) + 1 /\ r[Len(q) + 1] = it
      /\ \A i \in 1 .. Len(q) : r[i] = q[i]
  BY <1>1
<1>4. /\ expected' \in Seq(Seq(Content)) /\ Len(expected') = Len(expected) + 1
      /\ \A i \in 1 .. Len(expected) : expected'[i] = expected[i]
  BY DEF Requests
<1>5. /\ work_queue' \in Seq(Item) /\ Len(work_queue') = Len(q) + 1 /\ work_queue'[Len(q) + 1] = it
      /\ \A i \in 1 .. Len(q) : work_queue'[i] = q[i]
  BY <1>2, <1>3
<1> HIDE DEF r
<1>6. \A i \in 1 .. Len(work_queue') : i \in 1 .. Len(q) \/ i = Len(q) + 1
  BY <1>1, <1>5
<1>7. Requests'
  BY <1>4, <1>5, <1>6 DEF Requests
<1>8. Numbered'
  <2>1. issued = Len(calls) + Len(q) /\ issued = Len(expected) /\ calls' = calls
    BY DEF Numbered
  <2>2. issued' = Len(calls') + Len(work_queue') /\ issued' = Len(expected')
    BY <1>1, <1>2, <1>4, <1>5, <2>1
  <2>3. ASSUME NEW i \in 1 .. Len(work_queue') PROVE work_queue'[i].id = Len(calls') + i
    <3>1. CASE i \in 1 .. Len(q)
      BY <1>5, <2>1, <3>1 DEF Numbered
    <3>2. CASE i = Len(q) + 1
      BY <1>1, <1>5, <2>1, <3>2
    <3>3. QED
      BY <1>6, <3>1, <3>2
  <2>4. QED
    BY <2>2, <2>3 DEF Numbered
<1>9. Device'
  <2>1. \A i \in 1 .. Len(work_queue') : work_queue'[i].position = 0
    BY <1>5, <1>6 DEF Device
  <2>2. work_queue' # <<>>
    BY <1>1, <1>5
  <2>3. dev' = CommandOf(work_queue'[1]) \/ (pc' = "callback" /\ dev' = NoCommand)
    <3>1. CASE q = <<>>
      <4>1. work_queue'[1] = it
        BY <1>5, <3>1
      <4>2. Command(IF it.read THEN "read" ELSE "write", it.sector, it.total) /\ dev = NoCommand
        BY <3>1 DEF Enqueue, work_begin_next, Device
      <4>3. QED
        BY <4>1, <4>2, Begun
    <3>2. CASE q # <<>>
      <4>1. work_queue'[1] = q[1] /\ dev' = dev
        BY <1>1, <1>5, <3>2 DEF Enqueue
      <4>2. QED
        BY <3>2, <4>1 DEF Device
    <3>3. QED
      BY <3>1, <3>2
  <2>4. QED
    BY <2>1, <2>2, <2>3 DEF Device
<1>10. InOrder'
  <2>1. Len(calls) <= Len(expected)
    BY <1>1 DEF Numbered
  <2>2. QED
    BY <1>1, <1>4, <2>1 DEF InOrder, Requests
<1>11. UnderWay'
  <2>1. work_queue'[1].position = 0
    BY <1>1, <1>5, <1>6 DEF Device
  <2>2. \A k \in 1 .. work_queue'[1].position : FALSE
    BY <2>1
  <2>3. QED
    BY <2>2 DEF UnderWay
<1>12. QED
  BY <1>7, <1>8, <1>9, <1>10, <1>11

(* What the requests already queued will find is not changed by one more. *)
LEMMA OthersDue ==
  ASSUME Requests, Numbered, ToCome, NEW it \in Item, NEW due \in Seq(Content),
         work_queue' = Append(work_queue, it), expected' = Append(expected, due), UNCHANGED <<disk, calls>>
  PROVE  /\ \A i \in 1 .. Len(work_queue) :
              LET w == work_queue'[i]
              IN  /\ Len(Due(i)') = w.total
                  /\ ~w.read => Due(i)' = w.buffer
                  /\ w.read => \A k \in 1 .. w.total : Latest(work_queue', disk', i, w.sector + k - 1, Due(i)'[k])
         /\ expected'[Len(calls) + (Len(work_queue) + 1)] = due
<1>1. /\ work_queue \in Seq(Item) /\ calls \in Seq([id : Nat, buffer : Seq(Content)])
      /\ Len(calls) + Len(work_queue) = Len(expected) /\ expected \in Seq(Seq(Content))
  BY DEF Requests, Numbered
<1>2. ASSUME NEW i \in 1 .. Len(work_queue) PROVE Due(i)' = Due(i) /\ work_queue'[i] = work_queue[i]
  <2>1. Len(calls) + i \in 1 .. Len(expected)
    BY <1>1
  <2>2. QED
    BY <1>1, <2>1 DEF Due
<1>3. expected'[Len(calls) + (Len(work_queue) + 1)] = due
  <2> DEFINE lc == Len(calls)
             lq == Len(work_queue)
             le == Len(expected)
  <2>a. lc \in Nat /\ lq \in Nat /\ le \in Nat /\ lc + lq = le
    BY <1>1
  <2> HIDE DEF lc, lq, le
  <2>b. lc + (lq + 1) = le + 1
    BY <2>a
  <2>1. Len(calls) + (Len(work_queue) + 1) = Len(expected) + 1
    BY <2>b DEF lc, lq, le
  <2>2. QED
    BY <1>1, <2>1
<1>4. ASSUME NEW i \in 1 .. Len(work_queue), work_queue[i].read, NEW k \in 1 .. work_queue[i].total
      PROVE  Latest(work_queue', disk', i, work_queue[i].sector + k - 1, Due(i)[k])
  <2>1. Latest(work_queue, disk, i, work_queue[i].sector + k - 1, Due(i)[k])
    BY <1>4 DEF ToCome
  <2>2. i \in 1 .. Len(work_queue) + 1
    BY <1>1
  <2>3. Latest(Append(work_queue, it), disk, i, work_queue[i].sector + k - 1, Due(i)[k])
    BY <1>1, <2>1, <2>2, LatestAppend
  <2>4. QED
    BY <2>3
<1>5. QED
  BY <1>2, <1>3, <1>4 DEF ToCome

(* One more request: it leaves a block alone or writes it. *)
LEMMA LatestNext ==
  ASSUME NEW q, NEW d, NEW i \in Nat \ {0}, NEW b, NEW v,
         Covers(q, i, b) => v = Puts(q, i, b), ~Covers(q, i, b) => Latest(q, d, i, b, v)
  PROVE  Latest(q, d, i + 1, b, v)
<1>1. (i + 1) - 1 = i /\ i \in 1 .. i /\ \A j \in 1 .. i : j = i \/ j \in 1 .. i - 1
  OBVIOUS
<1>2. CASE Covers(q, i, b)
  <2>1. \A j \in 1 .. i : j # i => i \in j + 1 .. i
    OBVIOUS
  <2>2. QED
    BY <1>1, <1>2, <2>1 DEF Latest
<1>3. CASE ~Covers(q, i, b)
  <2>1. ASSUME \A j \in 1 .. i : ~Covers(q, j, b) PROVE v = d[b]
    BY <1>3, <2>1 DEF Latest
  <2>2. ASSUME NEW j \in 1 .. i, Covers(q, j, b), \A k \in j + 1 .. i : ~Covers(q, k, b)
        PROVE  v = Puts(q, j, b)
    <3>1. j \in 1 .. i - 1 /\ \A k \in j + 1 .. i - 1 : ~Covers(q, k, b)
      BY <1>1, <1>3, <2>2
    <3>2. QED
      BY <1>3, <2>2, <3>1 DEF Latest
  <2>3. QED
    BY <1>1, <2>1, <2>2 DEF Latest
<1>4. QED
  BY <1>2, <1>3

(* What is expected of a request is a buffer of its size. *)
LEMMA SectorsType ==
  ASSUME NEW d \in [Block -> Content], NEW blk \in Nat, NEW count \in Nat, blk + count <= num_blocks
  PROVE  /\ Sectors(d, blk, count) \in Seq(Content) /\ Len(Sectors(d, blk, count)) = count
         /\ \A k \in 1 .. count : blk + k - 1 \in Block /\ Sectors(d, blk, count)[k] = d[blk + k - 1]
<1>1. \A k \in 1 .. count : blk + k - 1 \in Block
  BY IdeAssumption DEF Block
<1>2. Sectors(d, blk, count) \in [1 .. count -> Content]
  BY <1>1 DEF Sectors
<1>3. Sectors(d, blk, count) \in Seq(Content) /\ Len(Sectors(d, blk, count)) = count
  BY <1>2
<1>4. QED
  BY <1>1, <1>3 DEF Sectors

(* The data a program writes. *)
LEMMA DataType ==
  ASSUME NEW data \in Data
  PROVE  data \in Seq(Content) /\ Len(data) \in Nat \ {0} /\ \A k \in 1 .. Len(data) : data[k] \in Content
<1>1. PICK l \in 1 .. MaxCount : data \in [1 .. l -> Content]
  BY DEF Data
<1>2. l \in Nat \ {0}
  BY IdeAssumption
<1>3. QED
  BY <1>1, <1>2

(* The disk after a write. *)
LEMMA OverwriteType ==
  ASSUME NEW d \in [Block -> Content], NEW blk \in Nat, NEW data \in Data, blk + Len(data) <= num_blocks
  PROVE  /\ Overwrite(d, blk, data) \in [Block -> Content]
         /\ \A b \in Block : Overwrite(d, blk, data)[b] =
              IF blk <= b /\ b < blk + Len(data) THEN data[b - blk + 1] ELSE d[b]
<1>1. Len(data) \in Nat \ {0} /\ \A k \in 1 .. Len(data) : data[k] \in Content
  BY DataType
<1>2. \A b \in Block : b \in Int /\ (b \in blk .. blk + Len(data) - 1 <=> blk <= b /\ b < blk + Len(data))
  BY <1>1 DEF Block
<1>3. \A b \in Block : blk <= b /\ b < blk + Len(data) => b - blk + 1 \in 1 .. Len(data)
  BY <1>1 DEF Block
<1>4. QED
  BY <1>1, <1>2, <1>3 DEF Overwrite

(* A read is queued (IDE::read). *)
LEMMA ReadQueued ==
  ASSUME IdeInv, NEW blk \in Block, NEW count \in 0 .. MaxCount, read(blk, count)
  PROVE  IdeInv'
<1> DEFINE it == ReadItem(blk, count)
           due == Sectors(image, blk, count)
           q == work_queue
           new == Len(work_queue) + 1
<1>1. /\ blk \in Nat /\ count \in Nat \ {0} /\ blk + count <= num_blocks /\ pc \in {"idle", "callback"}
      /\ Enqueue(it) /\ expected' = Append(expected, due) /\ UNCHANGED <<disk, pc, image, calls>>
  BY IdeAssumption DEF read, CallerRuns, Block
<1>2. q \in Seq(Item) /\ Len(q) \in Nat /\ issued \in Nat /\ image \in [Block -> Content]
  BY DEF IdeInv, Basics, Requests, Numbered
<1>3. /\ it \in Item /\ it.read /\ it.position = 0 /\ it.total = count /\ it.sector = blk
      /\ it.id = issued + 1 /\ ItemOK(it)
  BY <1>1, <1>2 DEF ReadItem, Item, ItemOK
<1>4. /\ due \in Seq(Content) /\ Len(due) = count
      /\ \A k \in 1 .. count : blk + k - 1 \in Block /\ due[k] = image[blk + k - 1]
  BY <1>1, <1>2, SectorsType
<1> HIDE DEF it, due
<1>5. Requests' /\ Numbered' /\ Device' /\ InOrder' /\ UnderWay'
  BY <1>1, <1>3, <1>4, Queued DEF IdeInv
<1>6. work_queue' = Append(q, it)
  BY <1>1 DEF Enqueue
<1>7. new \in Nat \ {0} /\ work_queue'[new] = it /\ Len(work_queue') = new
  BY <1>2, <1>3, <1>6
<1>8. \A b \in Block : Latest(work_queue', disk', new, b, image[b])
  <2> SUFFICES ASSUME NEW b \in Block PROVE Latest(work_queue', disk', new, b, image[b])
    OBVIOUS
  <2>1. Latest(q, disk, new, b, image[b])
    BY DEF IdeInv, ToCome
  <2>2. new \in 1 .. Len(q) + 1
    BY <1>2
  <2>3. Latest(Append(q, it), disk, new, b, image[b])
    BY <1>2, <1>3, <2>1, <2>2, LatestAppend
  <2>4. QED
    BY <1>1, <1>6, <2>3
<1>9. ToCome'
  <2>1. \A b \in Block : Latest(work_queue', disk', Len(work_queue') + 1, b, image'[b])
    <3>1. \A b \in Block : ~Covers(work_queue', new, b)
      BY <1>3, <1>7 DEF Covers
    <3>2. QED
      BY <1>1, <1>7, <1>8, <3>1, LatestNext
  <2>2. ASSUME NEW i \in 1 .. Len(work_queue')
        PROVE  LET w == work_queue'[i]
               IN  /\ Len(Due(i)') = w.total
                   /\ ~w.read => Due(i)' = w.buffer
                   /\ w.read => \A k \in 1 .. w.total : Latest(work_queue', disk', i, w.sector + k - 1, Due(i)'[k])
    <3>1. /\ \A j \in 1 .. Len(q) :
                LET w == work_queue'[j]
                IN  /\ Len(Due(j)') = w.total
                    /\ ~w.read => Due(j)' = w.buffer
                    /\ w.read => \A k \in 1 .. w.total : Latest(work_queue', disk', j, w.sector + k - 1, Due(j)'[k])
          /\ expected'[Len(calls) + new] = due
      BY <1>1, <1>3, <1>4, <1>6, OthersDue DEF IdeInv
    <3>2. CASE i = new
      <4>1. Due(i)' = due /\ work_queue'[i] = it
        BY <1>1, <1>7, <3>1, <3>2 DEF Due
      <4>2. \A k \in 1 .. count : Latest(work_queue', disk', i, blk + k - 1, due[k])
        BY <1>4, <1>8, <3>2
      <4>3. QED
        BY <1>3, <1>4, <4>1, <4>2
    <3>3. CASE i # new
      <4>1. i \in 1 .. Len(q)
        BY <1>2, <1>7, <3>3
      <4>2. QED
        BY <3>1, <4>1
    <3>4. QED
      BY <3>2, <3>3
  <2>3. QED
    BY <2>1, <2>2 DEF ToCome
<1>10. QED
  BY <1>1, <1>5, <1>9 DEF IdeInv, Basics

(* A write is queued (IDE::write). *)
LEMMA WriteQueued ==
  ASSUME IdeInv, NEW blk \in Block, NEW data \in Data, write(blk, data)
  PROVE  IdeInv'
<1> DEFINE it == WriteItem(blk, data)
           q == work_queue
           new == Len(work_queue) + 1
<1>1. /\ blk \in Nat /\ blk + Len(data) <= num_blocks /\ pc \in {"idle", "callback"}
      /\ Enqueue(it) /\ expected' = Append(expected, data)
      /\ image' = Overwrite(image, blk, data) /\ UNCHANGED <<disk, pc, calls>>
  BY IdeAssumption DEF write, CallerRuns, Block
<1>2. q \in Seq(Item) /\ Len(q) \in Nat /\ issued \in Nat /\ image \in [Block -> Content]
  BY DEF IdeInv, Basics, Requests, Numbered
<1>3. data \in Seq(Content) /\ Len(data) \in Nat \ {0}
  BY DataType
<1>4. /\ it \in Item /\ ~it.read /\ it.position = 0 /\ it.total = Len(data) /\ it.sector = blk
      /\ it.buffer = data /\ it.id = issued + 1 /\ ItemOK(it)
  BY <1>1, <1>2, <1>3 DEF WriteItem, Item, ItemOK
<1>5. /\ image' \in [Block -> Content]
      /\ \A b \in Block : image'[b] = IF blk <= b /\ b < blk + Len(data) THEN data[b - blk + 1] ELSE image[b]
  BY <1>1, <1>2, OverwriteType
<1> HIDE DEF it
<1>6. Requests' /\ Numbered' /\ Device' /\ InOrder' /\ UnderWay'
  BY <1>1, <1>3, <1>4, Queued DEF IdeInv
<1>7. work_queue' = Append(q, it)
  BY <1>1 DEF Enqueue
<1>8. new \in Nat \ {0} /\ work_queue'[new] = it /\ Len(work_queue') = new
  BY <1>2, <1>4, <1>7
<1>9. ToCome'
  <2>1. \A b \in Block : Latest(work_queue', disk', Len(work_queue') + 1, b, image'[b])
    <3> SUFFICES ASSUME NEW b \in Block PROVE Latest(work_queue', disk', new + 1, b, image'[b])
      BY <1>8
    <3>1. Covers(work_queue', new, b) <=> blk <= b /\ b < blk + Len(data)
      BY <1>4, <1>8 DEF Covers
    <3>2. Puts(work_queue', new, b) = data[b - blk + 1]
      BY <1>4, <1>8 DEF Puts
    <3>3. Covers(work_queue', new, b) => image'[b] = Puts(work_queue', new, b)
      BY <1>5, <3>1, <3>2
    <3>4. ASSUME ~Covers(work_queue', new, b) PROVE Latest(work_queue', disk', new, b, image'[b])
      <4>1. Latest(q, disk, new, b, image[b]) /\ image'[b] = image[b]
        BY <1>5, <3>1, <3>4 DEF IdeInv, ToCome
      <4>2. new \in 1 .. Len(q) + 1
        BY <1>2
      <4>3. Latest(Append(q, it), disk, new, b, image[b])
        BY <1>2, <1>4, <4>1, <4>2, LatestAppend
      <4>4. QED
        BY <1>1, <1>7, <4>1, <4>3
    <3>5. QED
      BY <1>8, <3>3, <3>4, LatestNext
  <2>2. ASSUME NEW i \in 1 .. Len(work_queue')
        PROVE  LET w == work_queue'[i]
               IN  /\ Len(Due(i)') = w.total
                   /\ ~w.read => Due(i)' = w.buffer
                   /\ w.read => \A k \in 1 .. w.total : Latest(work_queue', disk', i, w.sector + k - 1, Due(i)'[k])
    <3>1. /\ \A j \in 1 .. Len(q) :
                LET w == work_queue'[j]
                IN  /\ Len(Due(j)') = w.total
                    /\ ~w.read => Due(j)' = w.buffer
                    /\ w.read => \A k \in 1 .. w.total : Latest(work_queue', disk', j, w.sector + k - 1, Due(j)'[k])
          /\ expected'[Len(calls) + new] = data
      BY <1>1, <1>3, <1>4, <1>7, OthersDue DEF IdeInv
    <3>2. CASE i = new
      <4>1. Due(i)' = data /\ work_queue'[i] = it
        BY <1>1, <1>8, <3>1, <3>2 DEF Due
      <4>2. QED
        BY <1>4, <4>1
    <3>3. CASE i # new
      <4>1. i \in 1 .. Len(q)
        BY <1>2, <1>8, <3>3
      <4>2. QED
        BY <3>1, <4>1
    <3>4. QED
      BY <3>2, <3>3
  <2>3. QED
    BY <2>1, <2>2 DEF ToCome
<1>10. QED
  BY <1>1, <1>5, <1>6, <1>9 DEF IdeInv, Basics

(* With nothing queued, disk and image agree. *)
LEMMA NothingToCome ==
  ASSUME IdeInv, work_queue = <<>>
  PROVE  disk = image
<1>1. Len(work_queue) = 0
  OBVIOUS
<1>2. \A b \in Block : Latest(work_queue, disk, 0 + 1, b, image[b])
  BY <1>1 DEF IdeInv, ToCome
<1>3. \A b \in Block : image[b] = disk[b]
  BY <1>2 DEF Latest
<1>4. QED
  BY <1>3 DEF IdeInv, Basics

(* A synchronous operation: nothing is queued, and it is answered as soon  *)
(* as it is made (IDE::read_sync, IDE::write_sync).                        *)
LEMMA Synchronous ==
  ASSUME IdeInv, work_queue = <<>>, pc \in {"idle", "callback"},
         NEW due \in Seq(Content),
         issued' = issued + 1, dev' = NoCommand, expected' = Append(expected, due),
         Called(issued + 1, due), disk' = image', disk' \in [Block -> Content], UNCHANGED <<work_queue, pc>>
  PROVE  IdeInv'
<1> DEFINE last == [id |-> issued + 1, buffer |-> due]
<1>1. /\ expected \in Seq(Seq(Content)) /\ calls \in Seq([id : Nat, buffer : Seq(Content)])
      /\ Len(calls) \in Nat /\ Len(expected) = Len(calls) /\ issued = Len(calls)
  BY DEF IdeInv, Requests, Numbered
<1>2. calls' = Append(calls, last) /\ last \in [id : Nat, buffer : Seq(Content)]
  BY <1>1 DEF Called
<1> HIDE DEF last
<1>3. /\ calls' \in Seq([id : Nat, buffer : Seq(Content)]) /\ Len(calls') = Len(calls) + 1
      /\ calls'[Len(calls) + 1] = last /\ \A i \in 1 .. Len(calls) : calls'[i] = calls[i]
  BY <1>1, <1>2
<1>4. /\ expected' \in Seq(Seq(Content)) /\ Len(expected') = Len(calls) + 1
      /\ expected'[Len(calls) + 1] = due /\ \A i \in 1 .. Len(calls) : expected'[i] = expected[i]
  BY <1>1
<1>5. Len(work_queue') = 0 /\ work_queue' = <<>> /\ work_queue' \in Seq(Item)
  OBVIOUS
<1>6. Requests'
  BY <1>3, <1>4, <1>5 DEF Requests
<1>7. Numbered'
  BY <1>1, <1>3, <1>4, <1>5 DEF Numbered
<1>8. InOrder'
  <2>1. \A i \in 1 .. Len(calls') : i \in 1 .. Len(calls) \/ i = Len(calls) + 1
    BY <1>1, <1>3
  <2>2. last.id = Len(calls) + 1 /\ last.buffer = due
    BY <1>1 DEF last
  <2>3. QED
    BY <1>3, <1>4, <2>1, <2>2 DEF InOrder, IdeInv
<1>9. Device' /\ UnderWay'
  BY <1>5 DEF Device, UnderWay
<1>10. ToCome'
  <2>1. \A b \in Block : Latest(work_queue', disk', 0 + 1, b, image'[b])
    BY DEF Latest
  <2>2. QED
    BY <1>5, <2>1 DEF ToCome
<1>11. QED
  BY <1>6, <1>7, <1>8, <1>9, <1>10 DEF IdeInv, Basics

-----------------------------------------------------------------------------
(* The first request, inside irq_handler. *)
LEMMA First ==
  ASSUME IdeInv, pc = "irq"
  PROVE  /\ work_queue # <<>> /\ work_queue \in Seq(Item) /\ Len(work_queue) \in Nat \ {0}
         /\ item = work_queue[1] /\ ItemOK(item) /\ dev = CommandOf(item)
         /\ Len(calls) \in Nat /\ item.id = Len(calls) + 1
         /\ Due(1) \in Seq(Content) /\ Len(Due(1)) = item.total
<1>1. work_queue # <<>> /\ work_queue \in Seq(Item) /\ calls \in Seq([id : Nat, buffer : Seq(Content)])
  BY DEF IdeInv, Device, Requests
<1>2. Len(work_queue) \in Nat \ {0} /\ item = work_queue[1] /\ 1 \in 1 .. Len(work_queue)
  BY <1>1 DEF item
<1>3. ItemOK(item) /\ dev = CommandOf(item) /\ item.id = Len(calls) + 1
  BY <1>1, <1>2 DEF IdeInv, Requests, Device, Numbered
<1>4. Len(calls) + 1 \in 1 .. Len(expected) /\ expected \in Seq(Seq(Content))
  BY <1>1, <1>2 DEF IdeInv, Numbered, Requests
<1>5. Due(1) \in Seq(Content)
  BY <1>4 DEF Due
<1>6. Len(Due(1)) = item.total
  BY <1>2 DEF IdeInv, ToCome
<1>7. QED
  BY <1>1, <1>2, <1>3, <1>5, <1>6

(* The last sector of a request: it is answered and leaves the queue. *)
LEMMA Finished ==
  ASSUME IdeInv, pc = "irq", Finish(Due(1)), dev' = NoCommand, disk' \in [Block -> Content],
         \A b \in Block : disk'[b] = IF Covers(work_queue, 1, b) THEN Puts(work_queue, 1, b) ELSE disk[b],
         UNCHANGED <<issued, image, expected>>
  PROVE  IdeInv'
<1> DEFINE q == work_queue
           last == [id |-> item.id, buffer |-> Due(1)]
<1>1. /\ q # <<>> /\ q \in Seq(Item) /\ Len(q) \in Nat \ {0} /\ item = q[1] /\ ItemOK(item)
      /\ Len(calls) \in Nat /\ item.id = Len(calls) + 1 /\ Due(1) \in Seq(Content)
  BY First
<1>2. /\ calls \in Seq([id : Nat, buffer : Seq(Content)])
      /\ issued = Len(calls) + Len(q) /\ issued = Len(expected)
  BY DEF IdeInv, Requests, Numbered
<1>3. work_queue' = Tail(q) /\ calls' = Append(calls, last) /\ pc' = "callback"
  BY DEF Finish, Called
<1>4. last \in [id : Nat, buffer : Seq(Content)] /\ last.id = Len(calls) + 1 /\ last.buffer = Due(1)
  BY <1>1
<1> HIDE DEF last
<1>5. /\ calls' \in Seq([id : Nat, buffer : Seq(Content)]) /\ Len(calls') = Len(calls) + 1
      /\ calls'[Len(calls) + 1] = last /\ \A i \in 1 .. Len(calls) : calls'[i] = calls[i]
  BY <1>2, <1>3, <1>4
<1>6. /\ work_queue' \in Seq(Item) /\ Len(work_queue') = Len(q) - 1
      /\ \A i \in 1 .. Len(work_queue') : i + 1 \in 1 .. Len(q) /\ i + 1 > 1 /\ work_queue'[i] = q[i + 1]
  BY <1>1, <1>3
<1>7. Requests'
  <2>1. \A i \in 1 .. Len(work_queue') : ItemOK(work_queue'[i])
    BY <1>6 DEF IdeInv, Requests
  <2>2. QED
    BY <1>5, <1>6, <2>1 DEF IdeInv, Requests
<1>8. Numbered'
  <2>1. issued' = Len(calls') + Len(work_queue') /\ issued' = Len(expected')
    BY <1>1, <1>2, <1>5, <1>6
  <2>2. ASSUME NEW i \in 1 .. Len(work_queue') PROVE work_queue'[i].id = Len(calls') + i
    <3>1. q[i + 1].id = Len(calls) + (i + 1)
      BY <1>6 DEF IdeInv, Numbered
    <3>2. QED
      BY <1>1, <1>5, <1>6, <3>1
  <2>3. QED
    BY <2>1, <2>2 DEF Numbered
<1>9. Device'
  <2>1. \A i \in 1 .. Len(work_queue') : work_queue'[i].position = 0
    BY <1>6 DEF IdeInv, Device
  <2>2. QED
    BY <1>3, <2>1 DEF Device
<1>10. InOrder'
  <2>1. \A i \in 1 .. Len(calls') : i \in 1 .. Len(calls) \/ i = Len(calls) + 1
    BY <1>1, <1>5
  <2>2. Due(1) = expected[Len(calls) + 1]
    BY DEF Due
  <2>3. QED
    BY <1>4, <1>5, <2>1, <2>2 DEF InOrder, IdeInv
<1>11. UnderWay'
  <2>1. ASSUME work_queue' # <<>> PROVE work_queue'[1].position = 0
    <3>1. 1 \in 1 .. Len(work_queue')
      BY <1>6, <2>1
    <3>2. QED
      BY <1>6, <3>1 DEF IdeInv, Device
  <2>2. work_queue' # <<>> => \A k \in 1 .. work_queue'[1].position : FALSE
    BY <2>1
  <2>3. QED
    BY <2>2 DEF UnderWay
<1>12. ASSUME NEW i \in 1 .. Len(q), NEW b \in Block, NEW v, Latest(q, disk, i + 1, b, v)
       PROVE  Latest(work_queue', disk', i, b, v)
  <2>1. Latest(Tail(q), disk', i, b, v)
    BY <1>1, <1>12, LatestTail
  <2>2. QED
    BY <1>3, <2>1
<1>13. ToCome'
  <2>1. \A b \in Block : Latest(work_queue', disk', Len(work_queue') + 1, b, image'[b])
    <3>1. Len(work_queue') + 1 = Len(q) /\ Len(q) \in 1 .. Len(q)
      BY <1>1, <1>6
    <3>2. \A b \in Block : Latest(q, disk, Len(q) + 1, b, image[b])
      BY DEF IdeInv, ToCome
    <3>3. QED
      BY <1>12, <3>1, <3>2
  <2>2. ASSUME NEW i \in 1 .. Len(work_queue')
        PROVE  LET w == work_queue'[i]
               IN  /\ Len(Due(i)') = w.total
                   /\ ~w.read => Due(i)' = w.buffer
                   /\ w.read => \A k \in 1 .. w.total : Latest(work_queue', disk', i, w.sector + k - 1, Due(i)'[k])
    <3>1. i + 1 \in 1 .. Len(q) /\ work_queue'[i] = q[i + 1] /\ i \in 1 .. Len(q) /\ i \in Nat
      BY <1>1, <1>6
    <3>2. Due(i)' = Due(i + 1)
      <4>1. Len(calls') + i = Len(calls) + (i + 1)
        BY <1>1, <1>5, <3>1
      <4>2. QED
        BY <4>1 DEF Due
    <3>3. LET w == q[i + 1]
          IN  /\ Len(Due(i + 1)) = w.total
              /\ ~w.read => Due(i + 1) = w.buffer
              /\ w.read => \A k \in 1 .. w.total : Latest(q, disk, i + 1, w.sector + k - 1, Due(i + 1)[k])
      BY <3>1 DEF IdeInv, ToCome
    <3>4. ItemOK(q[i + 1])
      BY <3>1 DEF IdeInv, Requests
    <3>5. \A k \in 1 .. q[i + 1].total : q[i + 1].sector + k - 1 \in Block
      BY <3>4, IdeAssumption DEF ItemOK, Item, Block
    <3>6. QED
      BY <1>12, <3>1, <3>2, <3>3, <3>5
  <2>3. QED
    BY <2>1, <2>2 DEF ToCome
<1>14. QED
  BY <1>3, <1>7, <1>8, <1>9, <1>10, <1>11, <1>13 DEF IdeInv, Basics

(* The queue after one sector of a request that has more. *)
LEMMA ProgressQueue ==
  ASSUME IdeInv, pc = "irq", NEW buffer \in Seq(Content), Progress(buffer)
  PROVE  /\ work_queue' \in Seq(Item) /\ Len(work_queue') = Len(work_queue)
         /\ work_queue'[1] \in Item
         /\ LET new == work_queue'[1]
            IN  /\ new.id = item.id /\ new.read = item.read /\ new.sector = item.sector
                /\ new.position = item.position + 1 /\ new.total = item.total /\ new.buffer = buffer
         /\ \A i \in 1 .. Len(work_queue) : i # 1 => work_queue'[i] = work_queue[i]
<1> DEFINE next == item.position + 1
           w == [item EXCEPT !.position = next, !.buffer = buffer]
<1>1. /\ work_queue \in Seq(Item) /\ Len(work_queue) \in Nat \ {0}
      /\ item = work_queue[1] /\ item \in Item
  BY First DEF ItemOK
<1>2. work_queue' = [work_queue EXCEPT ![1] = w]
  BY <1>1 DEF Progress
<1>3. next \in Nat
  BY <1>1 DEF Item
<1> HIDE DEF next
<1>4. w \in Item
  BY <1>1, <1>3, ZenonT(30) DEF Item
<1>5. w.id = item.id /\ w.sector = item.sector /\ w.position = next /\ w.total = item.total /\ w.buffer = buffer
  BY <1>1 DEF Item
<1>6. w.read = item.read
  BY <1>1 DEF Item
<1> HIDE DEF w
<1>7. /\ work_queue' \in Seq(Item) /\ Len(work_queue') = Len(work_queue)
      /\ work_queue'[1] = w
      /\ \A i \in 1 .. Len(work_queue) : i # 1 => work_queue'[i] = work_queue[i]
  BY <1>1, <1>2, <1>4
<1>8. QED
  BY <1>4, <1>5, <1>6, <1>7 DEF next

(* One sector of a request that has more. *)
LEMMA Progressed ==
  ASSUME IdeInv, pc = "irq", NEW buffer \in Seq(Content), Progress(buffer),
         item.position + 1 < item.total,
         Len(buffer) = IF item.read THEN item.position + 1 ELSE item.total,
         item.read => disk' = disk /\ \A k \in 1 .. item.position + 1 : buffer[k] = Due(1)[k],
         ~item.read => /\ buffer = item.buffer
                       /\ \A k \in 1 .. item.position + 1 : disk'[item.sector + k - 1] = buffer[k],
         disk' \in [Block -> Content],
         \A b \in Block : ~Covers(work_queue, 1, b) => disk'[b] = disk[b],
         dev' = [CommandOf(item) EXCEPT !.lba = @ + 1, !.left = @ - 1],
         UNCHANGED <<issued, image, expected>>
  PROVE  IdeInv'
<1> DEFINE q == work_queue
           new == work_queue'[1]
<1>1. /\ q # <<>> /\ q \in Seq(Item) /\ Len(q) \in Nat \ {0} /\ item = q[1] /\ ItemOK(item)
      /\ Len(calls) \in Nat
  BY First
<1>2. /\ work_queue' \in Seq(Item) /\ Len(work_queue') = Len(q)
      /\ \A i \in 1 .. Len(q) : i # 1 => work_queue'[i] = q[i]
  BY ProgressQueue
<1>3. calls' = calls /\ pc' = pc
  BY DEF Progress
<1>4. /\ new.id = item.id /\ new.read = item.read /\ new.sector = item.sector
      /\ new.position = item.position + 1 /\ new.total = item.total /\ new.buffer = buffer
  BY ProgressQueue
<1> HIDE DEF new
<1>a. /\ item.position \in Nat /\ item.total \in Nat /\ item.sector \in Nat
      /\ item.sector + item.total <= num_blocks
  BY <1>1 DEF ItemOK, Item
<1>5. ItemOK(new)
  <2>1. new \in Item
    BY ProgressQueue DEF new
  <2>2. new.position < new.total /\ new.sector + new.total <= num_blocks
    BY <1>4, <1>a
  <2>3. Len(new.buffer) = IF new.read THEN new.position ELSE new.total
    BY <1>4
  <2>4. QED
    BY <2>1, <2>2, <2>3 DEF ItemOK
<1>6. Requests'
  <2>1. \A i \in 1 .. Len(work_queue') : ItemOK(work_queue'[i])
    BY <1>2, <1>5 DEF IdeInv, Requests, new
  <2>2. QED
    BY <1>2, <1>3, <2>1 DEF IdeInv, Requests
<1>7. Numbered'
  <2>1. issued' = Len(calls') + Len(work_queue') /\ issued' = Len(expected')
    BY <1>2, <1>3 DEF IdeInv, Numbered
  <2>2. ASSUME NEW i \in 1 .. Len(work_queue') PROVE work_queue'[i].id = q[i].id
    <3>1. CASE i = 1
      BY <1>1, <1>4, <3>1 DEF new
    <3>2. CASE i # 1
      BY <1>2, <3>2
    <3>3. QED
      BY <3>1, <3>2
  <2>3. \A i \in 1 .. Len(work_queue') : q[i].id = Len(calls') + i
    BY <1>2, <1>3 DEF IdeInv, Numbered
  <2>4. QED
    BY <2>1, <2>2, <2>3 DEF Numbered
<1>8. Device'
  <2>1. dev' = CommandOf(new)
    <3>1. dev' = [op |-> IF item.read THEN "read" ELSE "write",
                  lba |-> (item.sector + item.position) + 1, left |-> (item.total - item.position) - 1]
      BY DEF CommandOf
    <3>2. /\ (item.sector + item.position) + 1 = item.sector + (item.position + 1)
          /\ (item.total - item.position) - 1 = item.total - (item.position + 1)
      <4> DEFINE x == item.sector
                 y == item.position
                 z == item.total
      <4>1. x \in Nat /\ y \in Nat /\ z \in Nat
        BY <1>a
      <4> HIDE DEF x, y, z
      <4>2. (x + y) + 1 = x + (y + 1) /\ (z - y) - 1 = z - (y + 1)
        BY <4>1
      <4>3. QED
        BY <4>2 DEF x, y, z
    <3>3. CommandOf(new) = [op |-> IF item.read THEN "read" ELSE "write",
                            lba |-> item.sector + (item.position + 1), left |-> item.total - (item.position + 1)]
      BY <1>4 DEF CommandOf
    <3>4. QED
      BY <3>1, <3>2, <3>3
  <2>2. ASSUME NEW i \in 1 .. Len(work_queue'), i > 1 PROVE work_queue'[i].position = 0
    <3>1. i \in 1 .. Len(q) /\ work_queue'[i] = q[i]
      BY <1>2, <2>2
    <3>2. QED
      BY <2>2, <3>1 DEF IdeInv, Device
  <2>3. work_queue' # <<>>
    BY <1>1, <1>2
  <2>4. QED
    BY <1>3, <2>1, <2>2, <2>3 DEF Device, new
<1>9. InOrder'
  BY <1>3 DEF IdeInv, InOrder
<1>10. UnderWay'
  <2>1. expected'[Len(calls') + 1] = Due(1)
    BY <1>3 DEF Due
  <2>2. \A k \in 1 .. new.position :
          IF new.read THEN new.buffer[k] = expected'[Len(calls') + 1][k]
          ELSE disk'[new.sector + k - 1] = new.buffer[k]
    <3>1. CASE new.read
      BY <1>4, <2>1, <3>1
    <3>2. CASE ~new.read
      BY <1>4, <3>2
    <3>3. QED
      BY <3>1, <3>2
  <2>3. QED
    BY <2>2 DEF UnderWay, new
<1>11. \A j \in 1 .. Len(q), b \in Block :
         /\ Covers(work_queue', j, b) <=> Covers(q, j, b)
         /\ Covers(q, j, b) => Puts(work_queue', j, b) = Puts(q, j, b)
  <2> SUFFICES ASSUME NEW j \in 1 .. Len(q), NEW b \in Block
               PROVE  /\ Covers(work_queue', j, b) <=> Covers(q, j, b)
                      /\ Covers(q, j, b) => Puts(work_queue', j, b) = Puts(q, j, b)
    OBVIOUS
  <2>1. CASE j = 1
    BY <1>1, <1>4, <2>1 DEF Covers, Puts, new
  <2>2. CASE j # 1
    BY <1>2, <2>2 DEF Covers, Puts
  <2>3. QED
    BY <2>1, <2>2
<1>12. ASSUME NEW i \in 1 .. Len(q) + 1, NEW b \in Block, NEW v, Latest(q, disk, i, b, v), i > 1 \/ item.read
       PROVE  Latest(work_queue', disk', i, b, v)
  <2>1. \A j \in 1 .. i - 1 : j \in 1 .. Len(q)
    BY <1>1
  <2>2. (\A j \in 1 .. i - 1 : ~Covers(q, j, b)) => disk'[b] = disk[b]
    <3>1. CASE i > 1
      BY <1>1, <3>1
    <3>2. CASE item.read
      BY <3>2
    <3>3. QED
      BY <1>12, <3>1, <3>2
  <2>3. i \in Nat
    BY <1>1
  <2>4. QED
    BY <1>11, <1>12, <2>1, <2>2, <2>3, LatestSame
<1>13. ToCome'
  <2>1. \A b \in Block : Latest(work_queue', disk', Len(work_queue') + 1, b, image'[b])
    <3>1. Len(q) + 1 \in 1 .. Len(q) + 1 /\ Len(q) + 1 > 1
      BY <1>1
    <3>2. \A b \in Block : Latest(q, disk, Len(q) + 1, b, image[b])
      BY DEF IdeInv, ToCome
    <3>3. QED
      BY <1>2, <1>12, <3>1, <3>2
  <2>2. ASSUME NEW i \in 1 .. Len(work_queue')
        PROVE  LET w == work_queue'[i]
               IN  /\ Len(Due(i)') = w.total
                   /\ ~w.read => Due(i)' = w.buffer
                   /\ w.read => \A k \in 1 .. w.total : Latest(work_queue', disk', i, w.sector + k - 1, Due(i)'[k])
    <3>1. i \in 1 .. Len(q) /\ i \in 1 .. Len(q) + 1 /\ Due(i)' = Due(i)
      BY <1>1, <1>2, <1>3 DEF Due
    <3>2. /\ work_queue'[i].read = q[i].read /\ work_queue'[i].total = q[i].total
          /\ work_queue'[i].sector = q[i].sector
          /\ ~q[i].read => work_queue'[i].buffer = q[i].buffer
      <4>1. CASE i = 1
        BY <1>1, <1>4, <4>1 DEF new
      <4>2. CASE i # 1
        BY <1>2, <3>1, <4>2
      <4>3. QED
        BY <4>1, <4>2
    <3>3. LET w == q[i]
          IN  /\ Len(Due(i)) = w.total
              /\ ~w.read => Due(i) = w.buffer
              /\ w.read => \A k \in 1 .. w.total : Latest(q, disk, i, w.sector + k - 1, Due(i)[k])
      BY <3>1 DEF IdeInv, ToCome
    <3>4. ItemOK(q[i])
      BY <3>1 DEF IdeInv, Requests
    <3>5. \A k \in 1 .. q[i].total : q[i].sector + k - 1 \in Block
      <4> DEFINE a == q[i].sector
                 n == q[i].total
      <4>1. a \in Nat /\ n \in Nat /\ a + n <= num_blocks
        BY <3>4 DEF ItemOK, Item
      <4> HIDE DEF a, n
      <4>2. \A k \in 1 .. n : a + k - 1 \in Block
        BY <4>1, IdeAssumption DEF Block
      <4>3. QED
        BY <4>2 DEF a, n
    <3>6. q[i].read => i > 1 \/ item.read
      BY <1>1, <3>1
    <3>7. QED
      BY <1>12, <3>1, <3>2, <3>3, <3>5, <3>6
  <2>3. QED
    BY <2>1, <2>2 DEF ToCome
<1>14. QED
  BY <1>3, <1>6, <1>7, <1>8, <1>9, <1>10, <1>13 DEF IdeInv, Basics

(* The device, and what it is left with when a sector has been transferred. *)
LEMMA DeviceThere ==
  ASSUME IdeInv, pc = "irq"
  PROVE  /\ item.position \in Nat /\ item.total \in Nat /\ item.sector \in Nat
         /\ item.position < item.total /\ item.sector + item.total <= num_blocks
         /\ dev.op = IF item.read THEN "read" ELSE "write"
         /\ dev.lba = item.sector + item.position /\ dev.lba \in Block
         /\ item.position + 1 = item.total => Transferred = NoCommand
         /\ item.position + 1 # item.total =>
              Transferred = [CommandOf(item) EXCEPT !.lba = @ + 1, !.left = @ - 1]
<1>1. ItemOK(item) /\ dev = CommandOf(item)
  BY First
<1>2. /\ item.position \in Nat /\ item.total \in Nat /\ item.sector \in Nat
      /\ item.position < item.total /\ item.sector + item.total <= num_blocks
  BY <1>1 DEF ItemOK, Item
<1>3. /\ dev.op = IF item.read THEN "read" ELSE "write"
      /\ dev.lba = item.sector + item.position /\ dev.left = item.total - item.position
  BY <1>1 DEF CommandOf
<1>4. item.sector + item.position \in Block
  BY <1>2, IdeAssumption DEF Block
<1>5. ASSUME item.position + 1 = item.total PROVE Transferred = NoCommand
  <2>1. ~(item.total - item.position > 1)
    BY <1>2, <1>5
  <2>2. QED
    BY <1>3, <2>1 DEF Transferred
<1>6. ASSUME item.position + 1 # item.total
      PROVE  Transferred = [CommandOf(item) EXCEPT !.lba = @ + 1, !.left = @ - 1]
  <2>1. item.total - item.position > 1
    BY <1>2, <1>6
  <2>2. QED
    BY <1>1, <1>3, <2>1 DEF Transferred
<1>7. QED
  BY <1>2, <1>3, <1>4, <1>5, <1>6

(* One sector of a read (irq_handler): the sector the device gives is the  *)
(* one the request is to get next.                                         *)
LEMMA ReadStep ==
  ASSUME IdeInv, ReadSector
  PROVE  IdeInv'
<1> DEFINE q == work_queue
           p == item.position
           buffer == Append(item.buffer, PortValue)
<1>1. /\ pc = "irq" /\ item.read /\ dev' = Transferred
      /\ disk' = disk /\ UNCHANGED <<issued, image, expected>>
      /\ IF item.position + 1 = item.total THEN Finish(buffer) ELSE Progress(buffer)
  BY DEF ReadSector
<1>2. /\ q # <<>> /\ Len(q) \in Nat \ {0} /\ item = q[1] /\ ItemOK(item)
      /\ Due(1) \in Seq(Content) /\ Len(Due(1)) = item.total /\ Len(calls) \in Nat
  BY <1>1, First
<1>3. /\ p \in Nat /\ item.total \in Nat /\ item.sector \in Nat /\ p < item.total
      /\ dev.op = "read" /\ dev.lba = item.sector + p /\ dev.lba \in Block
  BY <1>1, DeviceThere
<1>4. PortValue = disk[item.sector + p] /\ disk \in [Block -> Content] /\ PortValue \in Content
  BY <1>3 DEF PortValue, IdeInv, Basics
<1>5. Due(1)[p + 1] = PortValue
  <2>1. 1 \in 1 .. Len(q) /\ p + 1 \in 1 .. item.total
    BY <1>2, <1>3
  <2>2. Latest(q, disk, 1, item.sector + (p + 1) - 1, Due(1)[p + 1])
    BY <1>1, <1>2, <2>1 DEF IdeInv, ToCome
  <2>3. item.sector + (p + 1) - 1 = item.sector + p
    BY <1>3
  <2>4. \A j \in 1 .. 1 - 1 : ~Covers(q, j, item.sector + p)
    OBVIOUS
  <2>5. QED
    BY <1>4, <2>2, <2>3, <2>4 DEF Latest
<1>6. item.buffer \in Seq(Content) /\ Len(item.buffer) = p
  BY <1>1, <1>2 DEF ItemOK, Item
<1>7. \A k \in 1 .. p : item.buffer[k] = Due(1)[k]
  BY <1>1, <1>2 DEF IdeInv, UnderWay, Due
<1>8. /\ buffer \in Seq(Content) /\ Len(buffer) = p + 1
      /\ buffer[p + 1] = PortValue /\ \A k \in 1 .. p : buffer[k] = item.buffer[k]
  BY <1>3, <1>4, <1>6
<1>9. \A k \in 1 .. p + 1 : buffer[k] = Due(1)[k]
  <2> SUFFICES ASSUME NEW k \in 1 .. p + 1 PROVE buffer[k] = Due(1)[k]
    OBVIOUS
  <2>1. CASE k = p + 1
    BY <1>5, <1>8, <2>1
  <2>2. CASE k # p + 1
    <3>1. k \in 1 .. p
      BY <1>3, <2>2
    <3>2. QED
      BY <1>7, <1>8, <3>1
  <2>3. QED
    BY <2>1, <2>2
<1> HIDE DEF buffer
<1>10. \A b \in Block : ~Covers(q, 1, b)
  BY <1>1, <1>2 DEF Covers
<1>11. CASE p + 1 = item.total
  <2>1. buffer = Due(1)
    <3> DEFINE d == Due(1)
               n == p + 1
    <3>1. /\ buffer \in Seq(Content) /\ d \in Seq(Content) /\ Len(buffer) = n /\ Len(d) = n
          /\ \A k \in 1 .. n : buffer[k] = d[k]
      BY <1>2, <1>8, <1>9, <1>11
    <3> HIDE DEF d, n
    <3>2. buffer = d
      BY <3>1
    <3>3. QED
      BY <3>2 DEF d
  <2>2. Finish(Due(1)) /\ dev' = NoCommand
    BY <1>1, <1>11, <2>1, DeviceThere
  <2>3. /\ disk' \in [Block -> Content]
        /\ \A b \in Block : disk'[b] = IF Covers(q, 1, b) THEN Puts(q, 1, b) ELSE disk[b]
    BY <1>1, <1>4, <1>10
  <2>4. QED
    BY <1>1, <2>2, <2>3, Finished
<1>12. CASE p + 1 # item.total
  <2>1. p + 1 < item.total
    BY <1>3, <1>12
  <2>2. Progress(buffer) /\ dev' = [CommandOf(item) EXCEPT !.lba = @ + 1, !.left = @ - 1]
    BY <1>1, <1>12, DeviceThere
  <2>3. Len(buffer) = IF item.read THEN p + 1 ELSE item.total
    BY <1>1, <1>8
  <2>4. disk' \in [Block -> Content] /\ \A b \in Block : ~Covers(q, 1, b) => disk'[b] = disk[b]
    BY <1>1, <1>4
  <2>5. QED
    BY <1>1, <1>8, <1>9, <2>1, <2>2, <2>3, <2>4, Progressed
<1>13. QED
  BY <1>11, <1>12

(* One sector of a write (irq_handler). *)
LEMMA WriteStep ==
  ASSUME IdeInv, WriteSector
  PROVE  IdeInv'
<1> DEFINE q == work_queue
           p == item.position
           s == item.sector
<1>1. /\ pc = "irq" /\ ~item.read /\ dev' = Transferred /\ UNCHANGED <<issued, image, expected>>
      /\ IF item.position + 1 = item.total THEN Finish(item.buffer) ELSE Progress(item.buffer)
  BY DEF WriteSector
<1>2. /\ q # <<>> /\ Len(q) \in Nat \ {0} /\ item = q[1] /\ ItemOK(item) /\ Len(calls) \in Nat
  BY <1>1, First
<1>3. /\ p \in Nat /\ item.total \in Nat /\ s \in Nat /\ p < item.total
      /\ dev.op = "write" /\ dev.lba = s + p /\ dev.lba \in Block /\ s + item.total <= num_blocks
  BY <1>1, DeviceThere
<1>4. disk \in [Block -> Content]
  BY DEF IdeInv, Basics
<1>5. disk' = [disk EXCEPT ![s + p] = item.buffer[p + 1]]
  BY <1>3 DEF WriteSector
<1>6. item.buffer \in Seq(Content) /\ Len(item.buffer) = item.total
  BY <1>1, <1>2 DEF ItemOK, Item
<1>7. item.buffer[p + 1] \in Content
  BY <1>3, <1>6
<1>8. /\ disk' \in [Block -> Content] /\ disk'[s + p] = item.buffer[p + 1]
      /\ \A b \in Block : b # s + p => disk'[b] = disk[b]
  BY <1>3, <1>4, <1>5, <1>7
<1>9. \A k \in 1 .. p : disk[s + k - 1] = item.buffer[k]
  BY <1>1, <1>2 DEF IdeInv, UnderWay
<1>10. \A k \in 1 .. p + 1 : disk'[s + k - 1] = item.buffer[k]
  <2> SUFFICES ASSUME NEW k \in 1 .. p + 1 PROVE disk'[s + k - 1] = item.buffer[k]
    OBVIOUS
  <2>1. CASE k = p + 1
    <3>1. s + k - 1 = s + p
      BY <1>3, <2>1
    <3>2. QED
      BY <1>8, <2>1, <3>1
  <2>2. CASE k # p + 1
    <3>1. k \in 1 .. p /\ s + k - 1 # s + p
      BY <1>3, <2>2
    <3>2. s + k - 1 \in Block
      BY <1>3, <3>1, IdeAssumption DEF Block
    <3>3. QED
      BY <1>8, <1>9, <3>1, <3>2
  <2>3. QED
    BY <2>1, <2>2
<1>11. \A b \in Block : Covers(q, 1, b) <=> s <= b /\ b < s + item.total
  BY <1>1, <1>2 DEF Covers
<1>12. \A b \in Block : ~Covers(q, 1, b) => disk'[b] = disk[b]
  <2> SUFFICES ASSUME NEW b \in Block, ~Covers(q, 1, b) PROVE disk'[b] = disk[b]
    OBVIOUS
  <2>1. ~(s <= b /\ b < s + item.total)
    BY <1>11
  <2>2. s <= s + p /\ s + p < s + item.total
    BY <1>3
  <2>3. b # s + p
    BY <2>1, <2>2
  <2>4. QED
    BY <1>8, <2>3
<1>13. CASE p + 1 = item.total
  <2>1. item.buffer = Due(1)
    BY <1>1, <1>2 DEF IdeInv, ToCome
  <2>2. Finish(Due(1)) /\ dev' = NoCommand
    BY <1>1, <1>13, <2>1, DeviceThere
  <2>3. \A b \in Block : disk'[b] = IF Covers(q, 1, b) THEN Puts(q, 1, b) ELSE disk[b]
    <3> SUFFICES ASSUME NEW b \in Block, Covers(q, 1, b) PROVE disk'[b] = Puts(q, 1, b)
      BY <1>12
    <3>1. b \in Nat
      BY IdeAssumption DEF Block
    <3>2. b - s + 1 \in 1 .. p + 1 /\ s + (b - s + 1) - 1 = b
      BY <1>3, <1>11, <1>13, <3>1
    <3>3. disk'[b] = item.buffer[b - s + 1]
      BY <1>10, <3>2
    <3>4. QED
      BY <1>2, <3>3 DEF Puts
  <2>4. QED
    BY <1>1, <1>8, <2>2, <2>3, Finished
<1>14. CASE p + 1 # item.total
  <2>1. p + 1 < item.total
    BY <1>3, <1>14
  <2>2. Progress(item.buffer) /\ dev' = [CommandOf(item) EXCEPT !.lba = @ + 1, !.left = @ - 1]
    BY <1>1, <1>14, DeviceThere
  <2>3. Len(item.buffer) = IF item.read THEN p + 1 ELSE item.total
    BY <1>1, <1>6
  <2>4. QED
    BY <1>1, <1>6, <1>8, <1>10, <1>12, <2>1, <2>2, <2>3, Progressed
<1>15. QED
  BY <1>13, <1>14

-----------------------------------------------------------------------------
(* The callback returns (irq_handler): work_begin_next starts the next     *)
(* request, or leaves the device at its start if it has been started.      *)
LEMMA ReturnStep ==
  ASSUME IdeInv, Return
  PROVE  IdeInv'
<1>1. /\ pc = "callback" /\ work_begin_next(work_queue)
      /\ pc' = (IF work_queue = <<>> THEN "idle" ELSE "irq")
      /\ UNCHANGED <<disk, work_queue, issued, image, expected, calls>>
  BY DEF Return, aux
<1>2. work_queue # <<>> => dev' = CommandOf(work_queue[1])
  <2> SUFFICES ASSUME work_queue # <<>> PROVE dev' = CommandOf(work_queue[1])
    OBVIOUS
  <2>1. work_queue \in Seq(Item) /\ 1 \in 1 .. Len(work_queue) /\ Head(work_queue) = work_queue[1]
    BY DEF IdeInv, Requests
  <2>2. ItemOK(work_queue[1]) /\ work_queue[1].position = 0
    BY <1>1, <2>1 DEF IdeInv, Requests, Device
  <2>3. dev = NoCommand \/ dev = CommandOf(work_queue[1])
    BY DEF IdeInv, Device
  <2>4. Command(IF work_queue[1].read THEN "read" ELSE "write", work_queue[1].sector, work_queue[1].total)
    BY <1>1, <2>1 DEF work_begin_next
  <2>5. QED
    BY <2>2, <2>3, <2>4, Begun
<1>3. work_queue = <<>> => dev' = NoCommand
  BY <1>1 DEF work_begin_next, IdeInv, Device
<1>4. Device'
  BY <1>1, <1>2, <1>3 DEF IdeInv, Device
<1>5. Basics' /\ Requests' /\ Numbered' /\ InOrder' /\ UnderWay'
  BY <1>1 DEF IdeInv, Basics, Requests, Numbered, InOrder, UnderWay
<1>6. ToCome'
  BY <1>1 DEF IdeInv, ToCome, Due
<1>7. QED
  BY <1>4, <1>5, <1>6 DEF IdeInv

(* The device interrupts (irq_handler): there is a request for it. *)
LEMMA InterruptStep ==
  ASSUME IdeInv, Interrupt
  PROVE  IdeInv'
<1>1. /\ pc = "idle" /\ dev.op # "none" /\ UNCHANGED <<disk, dev, work_queue, issued, image, expected, calls>>
      /\ pc' = (IF work_queue = <<>> THEN "idle" ELSE "irq")
  BY DEF Interrupt, aux
<1>2. work_queue # <<>>
  BY <1>1 DEF IdeInv, Device, NoCommand
<1>3. Device'
  BY <1>1, <1>2 DEF IdeInv, Device
<1>4. Basics' /\ Requests' /\ Numbered' /\ InOrder' /\ UnderWay'
  BY <1>1 DEF IdeInv, Basics, Requests, Numbered, InOrder, UnderWay
<1>5. ToCome'
  BY <1>1 DEF IdeInv, ToCome, Due
<1>6. QED
  BY <1>3, <1>4, <1>5 DEF IdeInv

(* IDE::write_sync. *)
LEMMA WriteSyncStep ==
  ASSUME IdeInv, work_queue = <<>>, NEW blk \in Block, NEW data \in Data, write_sync(blk, data)
  PROVE  IdeInv'
<1>1. /\ pc \in {"idle", "callback"} /\ blk + Len(data) <= num_blocks /\ issued' = issued + 1 /\ dev' = NoCommand
      /\ disk' = Overwrite(disk, blk, data) /\ image' = Overwrite(image, blk, data)
      /\ expected' = Append(expected, data) /\ Called(issued + 1, data) /\ UNCHANGED <<work_queue, pc>>
  BY DEF write_sync, CallerRuns
<1>2. disk = image /\ disk \in [Block -> Content] /\ blk \in Nat /\ data \in Seq(Content)
  BY NothingToCome, DataType DEF IdeInv, Basics, Block
<1>3. disk' = image' /\ disk' \in [Block -> Content]
  BY <1>1, <1>2, OverwriteType
<1>4. QED
  BY <1>1, <1>2, <1>3, Synchronous

(* IDE::read_sync. *)
LEMMA ReadSyncStep ==
  ASSUME IdeInv, work_queue = <<>>, NEW blk \in Block, NEW count \in 1 .. MaxCount,
         blk + count <= num_blocks, read_sync(blk, count)
  PROVE  IdeInv'
<1> DEFINE due == Sectors(disk, blk, count)
<1>1. /\ pc \in {"idle", "callback"} /\ issued' = issued + 1 /\ dev' = NoCommand
      /\ expected' = Append(expected, Sectors(image, blk, count)) /\ Called(issued + 1, due)
      /\ UNCHANGED <<disk, work_queue, pc, image>>
  BY DEF read_sync, CallerRuns
<1>2. disk = image /\ disk \in [Block -> Content] /\ blk \in Nat /\ count \in Nat
  BY NothingToCome DEF IdeInv, Basics, Block
<1>3. due \in Seq(Content)
  BY <1>2, SectorsType
<1>4. expected' = Append(expected, due) /\ disk' = image' /\ disk' \in [Block -> Content]
  BY <1>1, <1>2
<1> HIDE DEF due
<1>5. QED
  BY <1>1, <1>3, <1>4, Synchronous

(* Initially nothing is queued. *)
LEMMA InitIde == Init => IdeInv
<1> SUFFICES ASSUME Init PROVE IdeInv
  OBVIOUS
<1>1. /\ disk \in [Block -> Content] /\ image = disk /\ dev = NoCommand /\ pc = "idle" /\ issued = 0
      /\ work_queue = <<>> /\ expected = <<>> /\ calls = <<>>
  BY DEF Init
<1>2. Len(work_queue) = 0 /\ Len(calls) = 0 /\ Len(expected) = 0
  BY <1>1
<1>3. Basics /\ Requests /\ Numbered /\ Device /\ InOrder /\ UnderWay
  BY <1>1, <1>2 DEF Basics, Requests, Numbered, Device, InOrder, UnderWay
<1>4. \A b \in Block : Latest(work_queue, disk, 0 + 1, b, image[b])
  BY <1>1 DEF Latest
<1>5. ToCome
  BY <1>2, <1>4 DEF ToCome
<1>6. QED
  BY <1>3, <1>5 DEF IdeInv

(* Every step of driver and device keeps the invariant. *)
LEMMA StepIde == IdeInv /\ [Next]_vars => IdeInv'
<1> SUFFICES ASSUME IdeInv, [Next]_vars PROVE IdeInv'
  OBVIOUS
<1>1. CASE Request
  <2>1. ASSUME NEW blk \in Block, NEW count \in 0 .. MaxCount, read(blk, count) PROVE IdeInv'
    BY <2>1, ReadQueued
  <2>2. ASSUME NEW blk \in Block, NEW data \in Data, write(blk, data) PROVE IdeInv'
    BY <2>2, WriteQueued
  <2>3. ASSUME work_queue = <<>>, NEW blk \in Block, NEW data \in Data, write_sync(blk, data) PROVE IdeInv'
    BY <2>3, WriteSyncStep
  <2>4. ASSUME work_queue = <<>>, NEW blk \in Block, NEW count \in 1 .. MaxCount,
               blk + count <= num_blocks, read_sync(blk, count)
        PROVE  IdeInv'
    BY <2>4, ReadSyncStep
  <2>5. QED
    BY <1>1, <2>1, <2>2, <2>3, <2>4 DEF Request
<1>2. CASE Handler
  BY <1>2, InterruptStep, ReadStep, WriteStep, ReturnStep DEF Handler
<1>3. CASE UNCHANGED vars
  <2>1. UNCHANGED <<disk, dev, work_queue, pc, issued, image, expected, calls>>
    BY <1>3 DEF vars, aux
  <2>2. Basics' /\ Requests' /\ Numbered' /\ Device' /\ InOrder' /\ UnderWay'
    BY <2>1 DEF IdeInv, Basics, Requests, Numbered, Device, InOrder, UnderWay
  <2>3. ToCome'
    BY <2>1 DEF IdeInv, ToCome, Due
  <2>4. QED
    BY <2>2, <2>3 DEF IdeInv
<1>4. QED
  BY <1>1, <1>2, <1>3 DEF Next

(* What the inductive invariant says of the driver as it is seen. *)
LEMMA IdeServes == IdeInv => DriverInOrder
<1> SUFFICES ASSUME IdeInv PROVE DriverInOrder
  OBVIOUS
<1>1. DiskUpToDate
  BY NothingToCome DEF DiskUpToDate
<1>2. work_queue \in Seq(Item) /\ calls \in Seq([id : Nat, buffer : Seq(Content)])
  BY DEF IdeInv, Requests
<1>3. ASSUME NEW i \in 1 .. Len(work_queue)
      PROVE  /\ work_queue[i].position < work_queue[i].total /\ work_queue[i].sector \in Block
             /\ work_queue[i].position \in Nat /\ work_queue[i].total \in Nat /\ work_queue[i].sector \in Nat
  <2>1. ItemOK(work_queue[i])
    BY DEF IdeInv, Requests
  <2>2. QED
    BY <2>1, IdeAssumption DEF ItemOK, Item, Block
<1>4. work_queue # <<>> => item = work_queue[1] /\ 1 \in 1 .. Len(work_queue)
  BY <1>2 DEF item
<1>5. DeviceOnFirst
  <2> SUFFICES ASSUME pc # "irq", work_queue # <<>>
               PROVE  /\ item.position = 0
                      /\ pc = "idle" => dev = [op |-> IF item.read THEN "read" ELSE "write",
                                               lba |-> item.sector, left |-> item.total]
    BY DEF DeviceOnFirst
  <2>1. item.position = 0 /\ item.sector \in Nat /\ item.total \in Nat
    BY <1>3, <1>4 DEF IdeInv, Device
  <2>2. pc = "idle" => dev = CommandOf(item)
    BY <1>4 DEF IdeInv, Device
  <2>3. item.sector + item.position = item.sector /\ item.total - item.position = item.total
    BY <2>1
  <2>4. QED
    BY <2>1, <2>2, <2>3 DEF CommandOf
<1>6. dev \in Command_
  <2>1. CASE dev = NoCommand
    BY <2>1 DEF NoCommand, Command_
  <2>2. CASE work_queue # <<>> /\ dev = CommandOf(work_queue[1])
    BY <1>3, <1>4, <2>2 DEF CommandOf, Command_
  <2>3. QED
    BY <2>1, <2>2 DEF IdeInv, Device
<1>7. issued \in Nat
  BY <1>2 DEF IdeInv, Numbered
<1>8. TypeOK
  BY <1>3, <1>6, <1>7 DEF TypeOK, IdeInv, Basics
<1>9. QED
  BY <1>1, <1>5, <1>8 DEF DriverInOrder, IdeInv

(* The driver serves its queue (IDE::read, IDE::write, irq_handler): every *)
(* request is answered once and in the order in which it was made, a read  *)
(* with what the writes before it made of the disk, and the device is      *)
(* outside the handler at the start of the first request of the queue.     *)
THEOREM DriverServes == Spec => []DriverInOrder
<1>1. QED
  BY InitIde, StepIde, IdeServes, PTL DEF Spec
=============================================================================

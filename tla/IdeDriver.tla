------------------------------ MODULE IdeDriver ------------------------------
(***************************************************************************)
(* The IDE block driver of includeos-patch/ide.cpp: the asynchronous work  *)
(* queue with its interrupt handler, and the synchronous reads and writes. *)
(*                                                                         *)
(* A sector's contents is one value.  The device executes one command at a *)
(* time; the data port gives or takes the next sector of it.  A callback   *)
(* of a finished request may call the driver again: booting does, from the *)
(* MBR to the volume's boot record to the synchronous reads of the file    *)
(* system, all from within irq_handler.                                    *)
(***************************************************************************)
EXTENDS Integers, Sequences

CONSTANTS
  num_blocks,     \* sectors of the disk
  Content,        \* what a sector can hold
  Garbage,        \* what the data port gives when no sector is ready
  MaxCount,       \* bound: sectors of one request
  MaxRequests     \* bound: asynchronous requests accepted

ASSUME IdeAssumption ==
  /\ num_blocks \in Nat \ {0}
  /\ Garbage \notin Content
  /\ MaxCount \in 1 .. 255
  /\ MaxRequests \in Nat

VARIABLES
  disk,           \* contents of every sector
  dev,            \* the command the device executes
  work_queue,     \* requests not finished, oldest first
  pc,             \* "idle", "irq" in irq_handler, "callback" in a callback
  issued,         \* requests accepted so far
  image,          \* auxiliary: the disk, had every request been done at once
  expected,       \* auxiliary: what each read accepted should deliver
  calls           \* auxiliary: the callbacks called, oldest first

aux == <<image, expected, calls>>
vars == <<disk, dev, work_queue, pc, issued, aux>>

Block == 0 .. num_blocks - 1
NoCommand == [op |-> "none", lba |-> 0, left |-> 0]

Init ==
  /\ disk \in [Block -> Content]
  /\ dev = NoCommand
  /\ work_queue = <<>>
  /\ pc = "idle"
  /\ issued = 0
  /\ image = disk
  /\ expected = <<>>
  /\ calls = <<>>

Sectors(d, blk, count) == [i \in 1 .. count |-> d[blk + i - 1]]

Overwrite(d, blk, data) ==
  [b \in Block |-> IF b \in blk .. blk + Len(data) - 1 THEN data[b - blk + 1]
                   ELSE d[b]]

-----------------------------------------------------------------------------
(* The device.                                                             *)

(* set_nbsectors, set_blocknum and set_command: a device with data to      *)
(* transfer may ignore a command or drop what it was doing.                *)
Command(op, blk, count) ==
  \/ dev' = [op |-> op, lba |-> blk, left |-> count]
  \/ dev.left > 0 /\ UNCHANGED dev

Transferred == IF dev.left > 1 THEN [dev EXCEPT !.lba = @ + 1, !.left = @ - 1]
               ELSE NoCommand

(* The data port, one sector. *)
PortValue == IF dev.op = "read" /\ dev.lba \in Block THEN disk[dev.lba] ELSE Garbage

-----------------------------------------------------------------------------
(* workq_item: a read has an empty buffer, a write its data.               *)

ReadItem(blk, count) ==
  [id |-> issued + 1, read |-> TRUE, sector |-> blk, position |-> 0,
   total |-> count, buffer |-> <<>>]

WriteItem(blk, data) ==
  [id |-> issued + 1, read |-> FALSE, sector |-> blk, position |-> 0,
   total |-> Len(data), buffer |-> data]

(* work_begin_next: the command of the first request, if there is one. *)
work_begin_next(queue) ==
  IF queue = <<>> THEN UNCHANGED dev
  ELSE LET item == Head(queue)
       IN  Command(IF item.read THEN "read" ELSE "write", item.sector, item.total)

(* A request is queued; the device is started for it if it is the only one. *)
Enqueue(item) ==
  /\ work_queue' = Append(work_queue, item)
  /\ issued' = issued + 1
  /\ IF work_queue = <<>> THEN work_begin_next(<<item>>) ELSE UNCHANGED dev

Called(id, buffer) == calls' = Append(calls, [id |-> id, buffer |-> buffer])

(* Drivers are called by the program, which runs in no handler or in a     *)
(* callback.                                                               *)
CallerRuns == pc \in {"idle", "callback"} /\ issued < MaxRequests

(* IDE::read.  A refused read calls back at once, which changes nothing    *)
(* here.  The last sector of the disk is refused as well.                  *)
read(blk, count) ==
  /\ CallerRuns
  /\ blk + count < num_blocks /\ count # 0
  /\ Enqueue(ReadItem(blk, count))
  /\ expected' = Append(expected, Sectors(image, blk, count))
  /\ UNCHANGED <<disk, pc, image, calls>>

(* IDE::write. *)
write(blk, data) ==
  /\ CallerRuns
  /\ blk + Len(data) <= num_blocks
  /\ Enqueue(WriteItem(blk, data))
  /\ image' = Overwrite(image, blk, data)
  /\ expected' = Append(expected, data)
  /\ UNCHANGED <<disk, pc, calls>>

(* IDE::read_sync and IDE::write_sync transfer the whole request before    *)
(* they return, whatever the device was doing.                             *)
read_sync(blk, count) ==
  /\ CallerRuns
  /\ blk < num_blocks
  /\ issued' = issued + 1
  /\ dev' = NoCommand
  /\ expected' = Append(expected, Sectors(image, blk, count))
  /\ Called(issued + 1, Sectors(disk, blk, count))
  /\ UNCHANGED <<disk, work_queue, pc, image>>

write_sync(blk, data) ==
  /\ CallerRuns
  /\ blk + Len(data) <= num_blocks
  /\ issued' = issued + 1
  /\ dev' = NoCommand
  /\ disk' = Overwrite(disk, blk, data)
  /\ image' = Overwrite(image, blk, data)
  /\ expected' = Append(expected, data)
  /\ Called(issued + 1, data)
  /\ UNCHANGED <<work_queue, pc>>

-----------------------------------------------------------------------------
(* irq_handler.                                                            *)

(* The device interrupts once it has a command; the handler's loop ends    *)
(* when the queue is empty.                                                *)
Interrupt ==
  /\ pc = "idle" /\ dev.op # "none"
  /\ pc' = IF work_queue = <<>> THEN "idle" ELSE "irq"
  /\ UNCHANGED <<disk, dev, work_queue, issued, aux>>

item == Head(work_queue)

(* Mutant: the request leaves the queue and nobody is told. *)
FinishSilently(buffer) ==
  /\ work_queue' = Tail(work_queue)
  /\ pc' = "callback"
  /\ UNCHANGED calls

(* The request is done: it leaves the queue and its callback runs. *)
Finish(buffer) ==
  /\ work_queue' = Tail(work_queue)
  /\ Called(item.id, buffer)
  /\ pc' = "callback"

Progress(buffer) ==
  /\ work_queue' = [work_queue EXCEPT ![1].position = @ + 1, ![1].buffer = buffer]
  /\ UNCHANGED <<pc, calls>>

(* One sector of a read. *)
ReadSector ==
  /\ pc = "irq" /\ item.read
  /\ dev' = Transferred
  /\ LET buffer == Append(item.buffer, PortValue)
     IN  IF item.position + 1 = item.total THEN Finish(buffer) ELSE Progress(buffer)
  /\ UNCHANGED <<disk, issued, image, expected>>

(* One sector of a write. *)
WriteSector ==
  /\ pc = "irq" /\ ~item.read
  /\ disk' = IF dev.op = "write" /\ dev.lba \in Block
             THEN [disk EXCEPT ![dev.lba] = item.buffer[item.position + 1]]
             ELSE disk
  /\ dev' = Transferred
  /\ IF item.position + 1 = item.total THEN Finish(item.buffer) ELSE Progress(item.buffer)
  /\ UNCHANGED <<issued, image, expected>>

(* Mutant: nothing starts the next request. *)
ReturnWithoutNext ==
  /\ pc = "callback"
  /\ pc' = IF work_queue = <<>> THEN "idle" ELSE "irq"
  /\ UNCHANGED <<dev, disk, work_queue, issued, aux>>

(* The callback has returned: the next request is started, also when the   *)
(* callback's own request already was, and the loop goes on.               *)
Return ==
  /\ pc = "callback"
  /\ work_begin_next(work_queue)
  /\ pc' = IF work_queue = <<>> THEN "idle" ELSE "irq"
  /\ UNCHANGED <<disk, work_queue, issued, aux>>

Data == UNION {[1 .. n -> Content] : n \in 1 .. MaxCount}

(* The callers' part of the contract: the synchronous operations are used  *)
(* only while no asynchronous request is queued (the device has one        *)
(* command at a time) and, in reads, for sectors the disk has.  main2 and  *)
(* the file system keep to both.                                           *)
Request ==
  \/ \E blk \in Block, count \in 0 .. MaxCount : read(blk, count)
  \/ \E blk \in Block, data \in Data : write(blk, data)
  \/ /\ work_queue = <<>>
     /\ \/ \E blk \in Block, data \in Data : write_sync(blk, data)
        \/ \E blk \in Block, count \in 1 .. MaxCount :
             blk + count <= num_blocks /\ read_sync(blk, count)

Handler == Interrupt \/ ReadSector \/ WriteSector \/ Return

Next == Request \/ Handler \/ (work_queue = <<>> /\ UNCHANGED vars)

(* The device answers and the handler goes on; callbacks return. *)
Spec == Init /\ [][Next]_vars /\ WF_vars(Handler)

-----------------------------------------------------------------------------
Command_ == [op : {"none", "read", "write"}, lba : Nat, left : Nat]

TypeOK ==
  /\ disk \in [Block -> Content]
  /\ dev \in Command_
  /\ pc \in {"idle", "irq", "callback"}
  /\ issued \in Nat
  /\ image \in [Block -> Content]
  /\ \A i \in 1 .. Len(work_queue) :
       /\ work_queue[i].position < work_queue[i].total
       /\ work_queue[i].sector \in Block

(* Requests are executed as if at once and in the order in which they were *)
(* made, each exactly once: a read delivers what the disk held when it was *)
(* asked for, with every earlier write done and no later one.              *)
InOrder ==
  /\ \A i \in 1 .. Len(calls) : calls[i].id = i
  /\ \A i \in 1 .. Len(calls) : calls[i].buffer = expected[i]

(* When nothing is queued the disk is what the writes made of it. *)
DiskUpToDate == work_queue = <<>> => disk = image

(* Outside the handler the device works on the first request of the queue  *)
(* and on no other, and has not begun to transfer it: work_begin_next may  *)
(* assert that position is 0 (ide.cpp:340).                                *)
DeviceOnFirst ==
  pc # "irq" /\ work_queue # <<>> =>
    /\ item.position = 0
    /\ pc = "idle" => dev = [op |-> IF item.read THEN "read" ELSE "write",
                             lba |-> item.sector, left |-> item.total]

(* Every request is answered in the end. *)
Answered == \A n \in 1 .. MaxRequests : issued >= n ~> Len(calls) >= n

(* The driver serves its queue: answers, disk and device agree with the    *)
(* requests in the order in which they were made.                          *)
DriverInOrder == TypeOK /\ InOrder /\ DiskUpToDate /\ DeviceOnFirst
=============================================================================

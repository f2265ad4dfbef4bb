------------------------------- MODULE Disk -------------------------------
(***************************************************************************)
(* A disk as a file: the system calls read, write and seek on a descriptor *)
(* of /dev/sdX (syscall/sys_fs.c), the loops of ata_read and ata_write     *)
(* that cut a request into blocks (fs/ata_fs.c), and the block commands    *)
(* with their retries and the search for a drive (drivers/ata.c).          *)
(*                                                                         *)
(* The driver polls and the kernel is not preempted: on one CPU a call     *)
(* runs to its end.  A command's registers are abstracted to how long the  *)
(* drive is busy with it, which the driver waits out, and to whether the   *)
(* drive accepts it.  Bytes are numbers modulo Values; a write stores a    *)
(* run of consecutive ones, so that a byte in the wrong place shows.       *)
(***************************************************************************)
EXTENDS Naturals

CONSTANTS
    BlockSize,   \* bytes in a block
    NumBlocks,   \* blocks of the drive
    MaxRequest,  \* bound: the longest read or write
    Values,      \* how many values a byte has
    Retries,     \* attempts at reading a block
    LBA,         \* 2^28: block numbers that a command can hold
    Junk         \* what an uninitialised byte of memory holds

ASSUME DiskAssumption ==
    /\ BlockSize \in Nat \ {0}
    /\ NumBlocks \in Nat \ {0}
    /\ MaxRequest \in Nat
    /\ Values \in Nat \ {0}
    /\ Retries \in Nat \ {0}
    /\ LBA \in Nat /\ LBA >= NumBlocks
    /\ Junk \notin 0..(Values - 1)

Capacity == BlockSize * NumBlocks
Byte     == 0..(Values - 1)
Bytes(len) == [0..(len - 1) -> Byte \cup {Junk}]

VARIABLES
    exists,    \* drive->exists
    drive,     \* what the drive does, as its status shows it
    faults,    \* "passing": reads may fail, never Retries in a row; "lasting": anything may fail
    disk,      \* the drive's contents
    pos,       \* fp[fd].pos
    pc,        \* where the call is
    op,        \* "read" or "write"
    nbyte,     \* the request
    buffer,    \* the caller's buffer
    offset,    \* ata_read's and ata_write's variables
    count,
    blk_buf,
    retries,   \* ata_read_block's variable
    image      \* history: what the drive should hold, by the writes before this one

vars == <<exists, drive, faults, disk, pos, pc, op, nbyte, buffer, offset, count, blk_buf, retries,
          image>>
request == <<exists, faults, pos, op, nbyte, image>>

(* A command waits for its answer, an answer for its data, and what was written is stored *)
DriveState == {"ready", "command", "answer", "storing"}

(* ATA_BSY *)
Busy == drive \in {"command", "storing"}

NoBlock == [b \in 0..(BlockSize - 1) |-> Junk]

(* The controller keeps what is written to it, the drive is ready when selected,    *)
(* and it answers IDENTIFY; the kernel does not boot with one that is busy for ever *)
init_drive(echoes, ready, answers) == echoes /\ ready /\ answers

Init ==
    /\ \E echoes, ready, answers \in BOOLEAN : exists = init_drive(echoes, ready, answers)
    /\ drive = "ready"
    /\ faults \in {"passing", "lasting"}
    /\ disk = [b \in 0..(Capacity - 1) |-> 0]
    /\ pos = 0
    /\ pc = "idle"
    /\ op = "read"
    /\ nbyte = 0
    /\ buffer = <<>>
    /\ offset = 0
    /\ count = 0
    /\ blk_buf = NoBlock
    /\ retries = 0
    /\ image = disk

-----------------------------------------------------------------------------
(* The system calls *)

seek(p) ==
    /\ pc = "idle"
    /\ pos' = p
    /\ UNCHANGED <<exists, drive, faults, disk, pc, op, nbyte, buffer, offset, count, blk_buf,
                   retries, image>>

(* read and write call the driver at pos *)
Call(kind, n, buf) ==
    /\ pc = "idle"
    /\ op' = kind
    /\ nbyte' = n
    /\ buffer' = buf
    /\ offset' = pos
    /\ count' = 0
    /\ pc' = "loop"
    /\ UNCHANGED <<exists, drive, faults, disk, pos, blk_buf, retries, image>>

read(n) == Call("read", n, [j \in 0..(n - 1) |-> Junk])

(* The caller writes the values first, first + 1, ... *)
write(n, first) == Call("write", n, [j \in 0..(n - 1) |-> (first + j) % Values])

(* What the caller asked to be on the drive *)
Written ==
    [b \in 0..(Capacity - 1) |->
        IF op = "write" /\ b \in pos..(pos + nbyte - 1) THEN buffer[b - pos] ELSE image[b]]

(***************************************************************************)
(* The driver returns count, 0 at once if there is no drive, and the       *)
(* system call moves pos by it.  Nothing is asked of the contents of a     *)
(* drive with lasting faults.                                              *)
(***************************************************************************)
Return ==
    /\ pc = "loop"
    /\ count = nbyte \/ ~exists
    /\ pos' = pos + count
    /\ pc' = "idle"
    /\ image' = IF exists /\ faults = "passing" THEN Written ELSE disk
    /\ nbyte' = 0 /\ buffer' = <<>> /\ offset' = 0 /\ count' = 0
    /\ blk_buf' = NoBlock
    /\ UNCHANGED <<exists, drive, faults, disk, op, retries>>

-----------------------------------------------------------------------------
(* ata_read and ata_write, one block at a time *)

block == offset \div BlockSize
bloff == offset % BlockSize

(* What of the block's number goes into a command *)
lba == block % LBA

(* Mutant: the rest of the request is not looked at in the first block *)
len_ToBlockEnd ==
    IF nbyte - count > BlockSize THEN BlockSize - bloff
    ELSE IF count = 0 THEN BlockSize - bloff ELSE nbyte - count

len ==
    IF nbyte - count > BlockSize - bloff THEN BlockSize - bloff ELSE nbyte - count

Whole == len = BlockSize

(* A write of a whole block needs no read first *)
Start ==
    /\ pc = "loop" /\ exists
    /\ count < nbyte
    /\ IF op = "write" /\ Whole
       THEN pc' = "write" /\ UNCHANGED retries
       ELSE pc' = "read" /\ retries' = Retries
    /\ UNCHANGED <<drive, disk, buffer, offset, count, blk_buf, request>>

(* Mutant: the part of the block is taken from its start *)
CopyOut_FromStart(from) ==
    [j \in DOMAIN buffer |-> IF j \in count..(count + len - 1) THEN from[j - count] ELSE buffer[j]]

(* The caller's buffer with this block's bytes in it *)
CopyOut(from) ==
    [j \in DOMAIN buffer |->
        IF j \in count..(count + len - 1) THEN from[bloff + j - count] ELSE buffer[j]]

(* Mutant: the bytes are taken from the start of the caller's buffer *)
CopyIn_FromStart(to) ==
    [b \in DOMAIN to |-> IF b \in bloff..(bloff + len - 1) THEN buffer[b - bloff] ELSE to[b]]

(* The block with the caller's bytes in it *)
CopyIn(to) ==
    [b \in DOMAIN to |->
        IF b \in bloff..(bloff + len - 1) THEN buffer[count + b - bloff] ELSE to[b]]

Advance ==
    /\ count' = count + len
    /\ offset' = offset + len
    /\ pc' = "loop"

(* What follows ata_read_block, which has put data in its buffer or left it alone *)
AfterRead(data) ==
    \/ /\ op = "read"
       /\ buffer' = CopyOut(data)
       /\ blk_buf' = IF Whole THEN blk_buf ELSE data
       /\ Advance
    \/ /\ op = "write"
       /\ blk_buf' = CopyIn(data)
       /\ pc' = "write"
       /\ UNCHANGED <<buffer, offset, count>>

(* Both loops on ATA_BSY have no end of their own: the first before the command, *)
(* the second after it                                                            *)
SendCommand ==
    /\ pc \in {"read", "write"}
    /\ drive = "ready"
    /\ drive' = "command"
    /\ UNCHANGED <<disk, pc, buffer, offset, count, blk_buf, retries, request>>

(* The drive is done with a command, or with what was written *)
DriveDone ==
    /\ Busy
    /\ drive' = IF drive = "command" THEN "answer" ELSE "ready"
    /\ UNCHANGED <<disk, pc, buffer, offset, count, blk_buf, retries, request>>

(* The answer is taken; the drive is then busy with the data or not *)
Answered(kind, next) ==
    /\ pc = kind
    /\ drive = "answer"
    /\ drive' = next

OnDisk(bl) == [b \in 0..(BlockSize - 1) |-> disk[bl * BlockSize + b]]

ReadBlock ==
    /\ Answered("read", "ready")
    /\ lba < NumBlocks
    /\ AfterRead(OnDisk(lba))
    /\ retries' = 0
    /\ UNCHANGED <<disk, request>>

(* The drive may answer a read with an error now, and must where it has no such block *)
Refuses ==
    \/ faults = "lasting"
    \/ faults = "passing" /\ retries > 1
    \/ lba >= NumBlocks

(* Mutant: the attempts are not counted *)
ReadRetry_NoCount ==
    /\ Answered("read", "ready")
    /\ Refuses
    /\ UNCHANGED <<disk, pc, buffer, offset, count, blk_buf, retries, request>>

ReadRetry ==
    /\ Answered("read", "ready")
    /\ Refuses
    /\ retries > 1
    /\ retries' = retries - 1
    /\ UNCHANGED <<disk, pc, buffer, offset, count, blk_buf, request>>

(***************************************************************************)
(* The last attempt fails: ata_read_block returns -1, which nobody looks   *)
(* at, and the caller goes on with what was in the buffer before.          *)
(***************************************************************************)
ReadGiveUp ==
    /\ Answered("read", "ready")
    /\ Refuses
    /\ retries = 1
    /\ retries' = 0
    /\ IF op = "read" /\ Whole
       THEN Advance /\ UNCHANGED <<buffer, blk_buf>>
       ELSE AfterRead(blk_buf)
    /\ UNCHANGED <<disk, request>>

(* What ata_write hands to ata_write_block *)
ToWrite == IF Whole THEN CopyIn(blk_buf) ELSE blk_buf

WriteBlock ==
    /\ Answered("write", "storing")
    /\ lba < NumBlocks
    /\ disk' = [b \in DOMAIN disk |->
                    IF b \div BlockSize = lba THEN ToWrite[b % BlockSize] ELSE disk[b]]
    /\ Advance
    /\ UNCHANGED <<buffer, blk_buf, retries, request>>

(* ata_write_block reports an error on the console and returns 0 *)
WriteFails ==
    /\ Answered("write", "ready")
    /\ faults = "lasting" \/ lba >= NumBlocks
    /\ Advance
    /\ UNCHANGED <<disk, buffer, blk_buf, retries, request>>

(* Requests inside the drive, or also beyond its end and beyond the numbers of *)
(* blocks if faults are "lasting"                                               *)
Limit == IF faults = "lasting" THEN (LBA + 1) * BlockSize ELSE Capacity

Step ==
    \/ Start \/ SendCommand \/ ReadBlock \/ ReadRetry \/ ReadGiveUp \/ WriteBlock \/ WriteFails
    \/ Return

Next ==
    \/ \E p \in 0..Limit : p # pos /\ seek(p)
    \/ \E n \in 0..MaxRequest :
        /\ pos + n <= Limit
        /\ read(n) \/ \E first \in Byte : write(n, first)
    \/ Step
    \/ DriveDone

Spec == Init /\ [][Next]_vars

(* Fairness: the kernel goes on with a call.  Nothing is said of the drive *)
FairSpec == Spec /\ WF_vars(Step)

-----------------------------------------------------------------------------
(* Type invariant of the calls on a disk. *)
TypeOK ==
    /\ exists \in BOOLEAN
    /\ drive \in DriveState
    /\ faults \in {"passing", "lasting"}
    /\ disk \in Bytes(Capacity)
    /\ image \in Bytes(Capacity)
    /\ pos \in 0..Limit
    /\ pc \in {"idle", "loop", "read", "write"}
    /\ op \in {"read", "write"}
    /\ nbyte \in 0..MaxRequest
    /\ buffer \in Bytes(nbyte)
    /\ offset \in 0..Limit
    /\ count \in 0..nbyte
    /\ blk_buf \in Bytes(BlockSize)
    /\ retries \in 0..Retries

(* The blocks that the request under way covers, as commands number them *)
Covered == {bl % LBA : bl \in (pos \div BlockSize)..((pos + nbyte - 1) \div BlockSize)}

(***************************************************************************)
(* A write changes the bytes it covers and no others, whatever its offset  *)
(* and length: at every step of ata_write the drive holds the new bytes up *)
(* to count and the old ones everywhere else.  A drive that fails, so that *)
(* the read before a write brings nothing, may lose bytes only in blocks   *)
(* that the write covers (ata_fs.c:51-66).                                 *)
(***************************************************************************)
WriteExact ==
    \A b \in 0..(Capacity - 1) :
        IF faults = "passing"
        THEN disk[b] = IF b < pos + count THEN Written[b] ELSE image[b]
        ELSE disk[b] = image[b] \/ (op = "write" /\ b \div BlockSize \in Covered)

(***************************************************************************)
(* A read returns what the writes before it stored, although blocks are    *)
(* read several times when the drive is busy failing, and although only    *)
(* parts of the first and the last block are wanted (ata_fs.c:18-35).      *)
(***************************************************************************)
ReadExact ==
    faults = "passing" /\ op = "read" => \A j \in 0..(count - 1) : buffer[j] = image[pos + j]

(***************************************************************************)
(* Every call returns, also when the drive refuses every command, provided *)
(* that it does not stay busy: the loops of ata_send_command wait for that *)
(* without a limit (ata_fs.c:18, ata.c:31, 38, 101).                       *)
(***************************************************************************)
CallReturns == []<>~Busy => ((pc # "idle") ~> (pc = "idle"))
=============================================================================

----------------------------- MODULE DiskProof -----------------------------
(***************************************************************************)
(* Proofs about Disk, for every size of a block, of the drive and of a     *)
(* request: the calls keep their types, a write stores the caller's bytes  *)
(* where they belong and changes no others, and a read returns what is     *)
(* stored.  The invariant needs where the loop over the blocks is between  *)
(* two of its steps, and what the block under way holds.                   *)
(***************************************************************************)
EXTENDS Disk, TLAPS

-----------------------------------------------------------------------------
(* The inductive invariant *)

(* Between two calls nothing is under way, and the history is what the drive holds. *)
IdleOK ==
    pc = "idle" =>
        /\ nbyte = 0
        /\ count = 0
        /\ offset = 0
        /\ disk = image

(* The driver's variables agree with each other and with the request. *)
LoopOK ==
    pc # "idle" =>
        /\ offset = pos + count
        /\ pos + nbyte <= Limit
        /\ ~exists => count = 0 /\ disk = image

(* A block is under way only while bytes of the request are left. *)
BlockOK ==
    /\ pc \in {"read", "write"} => exists /\ count < nbyte
    /\ pc = "read" => retries \in 1..Retries
    /\ pc = "write" => op = "write"

(* Before a part of a block is written, the buffer has the rest of it from the drive. *)
PartOK ==
    faults = "passing" /\ pc = "write" /\ ~Whole => blk_buf = CopyIn(OnDisk(block))

IInv ==
    /\ TypeOK
    /\ IdleOK
    /\ LoopOK
    /\ BlockOK
    /\ PartOK
    /\ WriteExact
    /\ ReadExact

-----------------------------------------------------------------------------
(* Division by the size of a block *)

(* What division and remainder are. *)
LEMMA DivRange ==
    ASSUME NEW a \in Nat
    PROVE  /\ a \div BlockSize \in Nat
           /\ a % BlockSize \in 0..(BlockSize - 1)
           /\ a = BlockSize * (a \div BlockSize) + (a % BlockSize)
  BY DiskAssumption

(* A byte's block and its place in the block are determined by the byte. *)
LEMMA DivUnique ==
    ASSUME NEW q \in Nat, NEW r \in 0..(BlockSize - 1)
    PROVE  /\ (BlockSize * q + r) \div BlockSize = q
           /\ (BlockSize * q + r) % BlockSize = r
  BY DiskAssumption

(* A later byte is in the same or a later block. *)
LEMMA DivMono ==
    ASSUME NEW a \in Nat, NEW b \in Nat, a <= b
    PROVE  a \div BlockSize <= b \div BlockSize
  <1> DEFINE p == a \div BlockSize
             q == b \div BlockSize
             r == a % BlockSize
             s == b % BlockSize
  <1>1. p \in Nat /\ q \in Nat /\ r \in 0..(BlockSize - 1) /\ s \in 0..(BlockSize - 1)
    BY DivRange
  <1>2. a = BlockSize * p + r /\ b = BlockSize * q + s
    BY DivRange
  <1> HIDE DEF p, q, r, s
  <1>3. SUFFICES ASSUME q < p PROVE FALSE
    BY <1>1 DEF p, q
  <1>4. PICK k \in Nat : p = q + 1 + k
    <2>1. p - q - 1 \in Nat /\ p = q + 1 + (p - q - 1)
      BY <1>1, <1>3
    <2> QED BY <2>1
  <1>5. BlockSize * p = BlockSize * q + BlockSize + BlockSize * k
    BY <1>1, <1>4, DiskAssumption
  <1>6. BlockSize * k \in Nat /\ BlockSize * q \in Nat
    BY <1>1, <1>4, DiskAssumption
  <1> QED BY <1>1, <1>2, <1>5, <1>6, DiskAssumption

(* The bytes of the drive's blocks are the drive's bytes. *)
LEMMA InCapacity ==
    ASSUME NEW q \in Nat, q < NumBlocks, NEW r \in 0..(BlockSize - 1)
    PROVE  q * BlockSize + r \in 0..(Capacity - 1)
  <1>1. PICK k \in Nat : NumBlocks = q + 1 + k
    <2>1. NumBlocks - q - 1 \in Nat /\ NumBlocks = q + 1 + (NumBlocks - q - 1)
      BY DiskAssumption
    <2> QED BY <2>1
  <1>2. BlockSize * NumBlocks = q * BlockSize + BlockSize + BlockSize * k
    BY <1>1, DiskAssumption
  <1>3. BlockSize * k \in Nat /\ q * BlockSize \in Nat
    BY <1>1, DiskAssumption
  <1> QED BY <1>2, <1>3, DiskAssumption DEF Capacity

(* And a byte of the drive is in one of its blocks. *)
LEMMA DivCapacity ==
    ASSUME NEW a \in 0..(Capacity - 1)
    PROVE  a \div BlockSize \in Nat /\ a \div BlockSize < NumBlocks
  <1>1. Capacity \in Nat /\ a \in Nat
    BY DiskAssumption DEF Capacity
  <1> DEFINE q == a \div BlockSize
             r == a % BlockSize
  <1>2. q \in Nat /\ r \in 0..(BlockSize - 1) /\ a = BlockSize * q + r
    BY <1>1, DivRange
  <1> HIDE DEF q, r
  <1>3. SUFFICES ASSUME NumBlocks <= q PROVE FALSE
    BY <1>2, DiskAssumption DEF q
  <1>4. PICK k \in Nat : q = NumBlocks + k
    <2>1. q - NumBlocks \in Nat /\ q = NumBlocks + (q - NumBlocks)
      BY <1>2, <1>3, DiskAssumption
    <2> QED BY <2>1
  <1>5. BlockSize * q = Capacity + BlockSize * k /\ BlockSize * k \in Nat
    BY <1>4, DiskAssumption DEF Capacity
  <1> QED BY <1>1, <1>2, <1>5

-----------------------------------------------------------------------------
(* The operators of the loop *)

(* The numbers that the constants give. *)
LEMMA Sizes ==
    /\ BlockSize \in Nat /\ BlockSize > 0
    /\ Capacity \in Nat
    /\ Limit \in Nat
  BY DiskAssumption DEF Capacity, Limit

(* Two contents of the drive that agree on every byte are the same. *)
LEMMA SameBytes ==
    ASSUME NEW f \in Bytes(Capacity), NEW g \in Bytes(Capacity),
           \A b \in 0..(Capacity - 1) : f[b] = g[b]
    PROVE  f = g
  <1>1. f = [b \in 0..(Capacity - 1) |-> f[b]] /\ g = [b \in 0..(Capacity - 1) |-> g[b]]
    BY DEF Bytes
  <1>2. [b \in 0..(Capacity - 1) |-> f[b]] = [b \in 0..(Capacity - 1) |-> g[b]]
    OBVIOUS
  <1> QED BY <1>1, <1>2

(* The part of a block that a round of the loop moves: at least one byte, *)
(* within the block and within the request.                                *)
LEMMA PartLemma ==
    ASSUME TypeOK, count < nbyte
    PROVE  /\ nbyte \in Nat /\ count \in Nat /\ offset \in Nat /\ pos \in Nat
           /\ block \in Nat
           /\ bloff \in 0..(BlockSize - 1)
           /\ offset = BlockSize * block + bloff
           /\ len \in 1..(nbyte - count)
           /\ len <= BlockSize - bloff
           /\ Whole => bloff = 0
  <1>1. nbyte \in Nat /\ count \in Nat /\ offset \in Nat /\ pos \in Nat
    BY Sizes, DiskAssumption DEF TypeOK
  <1>2. block \in Nat /\ bloff \in 0..(BlockSize - 1) /\ offset = BlockSize * block + bloff
    BY <1>1, DivRange DEF block, bloff
  <1>3. len = IF nbyte - count > BlockSize - bloff THEN BlockSize - bloff ELSE nbyte - count
    BY DEF len
  <1>4. len \in 1..(nbyte - count) /\ len <= BlockSize - bloff
    BY <1>1, <1>2, <1>3, Sizes
  <1>5. Whole => bloff = 0
    BY <1>2, <1>4, Sizes DEF Whole
  <1> QED BY <1>1, <1>2, <1>4, <1>5

(* The buffers keep their types when bytes are copied between them. *)
LEMMA CopyOutType ==
    ASSUME TypeOK, count < nbyte, NEW data \in Bytes(BlockSize)
    PROVE  CopyOut(data) \in Bytes(nbyte)
  <1>1. buffer \in [0..(nbyte - 1) -> Byte \cup {Junk}] /\ DOMAIN buffer = 0..(nbyte - 1)
    BY DEF TypeOK, Bytes
  <1>2. SUFFICES ASSUME NEW j \in 0..(nbyte - 1), j \in count..(count + len - 1)
                 PROVE  data[bloff + j - count] \in Byte \cup {Junk}
    BY <1>1 DEF CopyOut, Bytes
  <1>3. bloff + j - count \in 0..(BlockSize - 1)
    BY <1>2, PartLemma, Sizes
  <1> QED BY <1>3 DEF Bytes

LEMMA CopyInType ==
    ASSUME TypeOK, count < nbyte, NEW data \in Bytes(BlockSize)
    PROVE  CopyIn(data) \in Bytes(BlockSize)
  <1>1. data \in [0..(BlockSize - 1) -> Byte \cup {Junk}] /\ DOMAIN data = 0..(BlockSize - 1)
    BY DEF Bytes
  <1>2. SUFFICES ASSUME NEW b \in 0..(BlockSize - 1), b \in bloff..(bloff + len - 1)
                 PROVE  buffer[count + b - bloff] \in Byte \cup {Junk}
    BY <1>1 DEF CopyIn, Bytes
  <1>3. count + b - bloff \in 0..(nbyte - 1)
    BY <1>2, PartLemma, Sizes
  <1> QED BY <1>3 DEF TypeOK, Bytes

LEMMA OnDiskType ==
    ASSUME TypeOK, NEW bl \in Nat, bl < NumBlocks
    PROVE  OnDisk(bl) \in Bytes(BlockSize)
  BY InCapacity DEF OnDisk, Bytes, TypeOK

(* The block that a command names. *)
LEMMA LbaLemma ==
    ASSUME TypeOK
    PROVE  lba \in Nat /\ block \in Nat
  <1>1. offset \in Nat
    BY Sizes DEF TypeOK
  <1>2. block \in Nat
    BY <1>1, DivRange DEF block
  <1>3. LBA \in Nat /\ LBA > 0
    BY DiskAssumption
  <1> QED BY <1>2, <1>3 DEF lba

(* A request inside the drive is for blocks that the drive has and a command can name. *)
LEMMA PassingBlock ==
    ASSUME TypeOK, LoopOK, pc # "idle", count < nbyte, faults = "passing"
    PROVE  lba = block /\ block \in Nat /\ block < NumBlocks
  <1>1. offset \in 0..(Capacity - 1)
    BY PartLemma, Sizes DEF LoopOK, Limit
  <1>2. block \in Nat /\ block < NumBlocks
    BY <1>1, DivCapacity DEF block
  <1>3. block < LBA /\ LBA \in Nat
    BY <1>2, DiskAssumption
  <1>4. lba = block
    BY <1>2, <1>3 DEF lba
  <1> QED BY <1>2, <1>4

(* The block under way is one that the request covers. *)
LEMMA CoveredBlock ==
    ASSUME TypeOK, LoopOK, pc # "idle", count < nbyte
    PROVE  lba \in Covered
  <1>1. /\ pos \in Nat /\ offset \in Nat /\ pos + nbyte - 1 \in Nat
        /\ pos <= offset /\ offset <= pos + nbyte - 1
    BY PartLemma DEF LoopOK
  <1>2. /\ pos \div BlockSize <= block
        /\ block <= (pos + nbyte - 1) \div BlockSize
    BY <1>1, DivMono DEF block
  <1>3. /\ pos \div BlockSize \in Nat /\ block \in Nat
        /\ (pos + nbyte - 1) \div BlockSize \in Nat
    BY <1>1, DivRange DEF block
  <1>4. block \in (pos \div BlockSize)..((pos + nbyte - 1) \div BlockSize)
    BY <1>2, <1>3
  <1> QED BY <1>4 DEF Covered, lba

-----------------------------------------------------------------------------
(* The steps *)

(* Before the first call the drive is as its history says. *)
LEMMA InitInv == Init => IInv
  <1> SUFFICES ASSUME Init PROVE IInv
    OBVIOUS
  <1>1. exists \in BOOLEAN
    BY DEF Init, init_drive
  <1>2. 0 \in Byte
    BY DiskAssumption DEF Byte
  <1>3. disk \in Bytes(Capacity) /\ image = disk
    BY <1>2 DEF Init, Bytes
  <1>4. buffer \in Bytes(0)
    BY DEF Init, Bytes
  <1>5. blk_buf \in Bytes(BlockSize)
    BY DEF Init, Bytes, NoBlock
  <1>6. TypeOK
    BY <1>1, <1>3, <1>4, <1>5, Sizes, DiskAssumption DEF Init, TypeOK, DriveState
  <1>7. IdleOK /\ LoopOK /\ BlockOK /\ PartOK
    BY <1>3 DEF Init, IdleOK, LoopOK, BlockOK, PartOK
  <1>8. \A b \in 0..(Capacity - 1) : Written[b] = image[b]
    BY DEF Init, Written
  <1>9. WriteExact
    BY <1>3, <1>8 DEF WriteExact
  <1>10. ReadExact
    BY DEF Init, ReadExact
  <1> QED BY <1>6, <1>7, <1>9, <1>10 DEF IInv

(* A seek moves pos and nothing else. *)
LEMMA SeekStep ==
    ASSUME IInv, NEW p \in 0..Limit, seek(p)
    PROVE  IInv'
  <1> USE DEF IInv
  <1>1. pc = "idle" /\ nbyte = 0 /\ count = 0 /\ disk = image /\ pos' = p /\ p \in Nat
    BY Sizes DEF seek, IdleOK
  <1>2. TypeOK'
    BY DEF seek, TypeOK, Limit
  <1>3. IdleOK' /\ LoopOK' /\ BlockOK' /\ PartOK'
    BY <1>1 DEF seek, IdleOK, LoopOK, BlockOK, PartOK
  <1>4. \A b \in 0..(Capacity - 1) : Written'[b] = image[b]
    BY <1>1, Sizes DEF seek, Written
  <1>5. WriteExact'
    BY <1>1, <1>4 DEF WriteExact, seek
  <1>6. ReadExact'
    BY <1>1 DEF ReadExact, seek
  <1> QED BY <1>2, <1>3, <1>5, <1>6

(* A call starts at pos with nothing done yet. *)
LEMMA CallStep ==
    ASSUME IInv, NEW kind \in {"read", "write"}, NEW n \in 0..MaxRequest, pos + n <= Limit,
           NEW buf \in Bytes(n), Call(kind, n, buf)
    PROVE  IInv'
  <1> USE DEF IInv
  <1>1. /\ pc = "idle" /\ pc' = "loop" /\ disk = image /\ count' = 0 /\ nbyte' = n
        /\ n \in Nat /\ pos \in Nat
    BY Sizes, DiskAssumption DEF Call, IdleOK, TypeOK
  <1>2. TypeOK'
    BY <1>1 DEF Call, TypeOK, Limit
  <1>3. IdleOK' /\ LoopOK' /\ BlockOK' /\ PartOK'
    BY <1>1 DEF Call, IdleOK, LoopOK, BlockOK, PartOK, Limit
  <1>4. \A b \in 0..(Capacity - 1) : b < pos => Written'[b] = image[b]
    BY <1>1, Sizes DEF Call, Written
  <1>5. WriteExact'
    BY <1>1, <1>4 DEF WriteExact, Call
  <1>6. ReadExact'
    BY <1>1 DEF ReadExact, Call
  <1> QED BY <1>2, <1>3, <1>5, <1>6

LEMMA ReadCallStep ==
    ASSUME IInv, NEW n \in 0..MaxRequest, pos + n <= Limit, read(n)
    PROVE  IInv'
  <1> DEFINE buf == [j \in 0..(n - 1) |-> Junk]
  <1>1. buf \in Bytes(n)
    BY DEF Bytes
  <1>2. Call("read", n, buf)
    BY DEF read
  <1> HIDE DEF buf
  <1> QED BY <1>1, <1>2, CallStep

LEMMA WriteCallStep ==
    ASSUME IInv, NEW n \in 0..MaxRequest, pos + n <= Limit, NEW first \in Byte, write(n, first)
    PROVE  IInv'
  <1> DEFINE buf == [j \in 0..(n - 1) |-> (first + j) % Values]
  <1>1. ASSUME NEW j \in 0..(n - 1) PROVE (first + j) % Values \in Byte
    <2>1. first + j \in Nat /\ Values \in Nat /\ Values > 0
      BY DiskAssumption DEF Byte
    <2> QED BY <2>1 DEF Byte
  <1>2. buf \in Bytes(n)
    BY <1>1 DEF Bytes
  <1>3. Call("write", n, buf)
    BY DEF write
  <1> HIDE DEF buf
  <1> QED BY <1>2, <1>3, CallStep

(* A call that returns has stored all that it was asked to store. *)
LEMMA ReturnStep ==
    ASSUME IInv, Return
    PROVE  IInv'
  <1> USE DEF IInv
  <1>1. /\ pc = "loop" /\ pc' = "idle" /\ nbyte' = 0 /\ count' = 0 /\ offset' = 0
        /\ pos \in Nat /\ nbyte \in Nat /\ count \in Nat
    BY Sizes, DiskAssumption DEF Return, TypeOK
  <1>2. Written \in Bytes(Capacity)
    <2> SUFFICES ASSUME NEW b \in 0..(Capacity - 1), b \in pos..(pos + nbyte - 1)
                 PROVE  buffer[b - pos] \in Byte \cup {Junk}
      BY DEF Written, Bytes, TypeOK
    <2>1. b - pos \in 0..(nbyte - 1)
      BY <1>1
    <2> QED BY <2>1 DEF TypeOK, Bytes
  <1>3. disk' = image' /\ image' \in Bytes(Capacity) /\ disk' = disk
    <2>1. CASE exists /\ faults = "passing"
      <3>1. image' = Written /\ disk' = disk /\ count = nbyte
        BY <2>1 DEF Return
      <3>2. ASSUME NEW b \in 0..(Capacity - 1) PROVE disk[b] = Written[b]
        <4>1. CASE b < pos + count
          BY <2>1, <4>1 DEF WriteExact
        <4>2. CASE ~(b < pos + count)
          <5>1. disk[b] = image[b]
            BY <2>1, <4>2 DEF WriteExact
          <5>2. Written[b] = image[b]
            BY <3>1, <4>2, <1>1, Sizes DEF Written
          <5> QED BY <5>1, <5>2
        <4> QED BY <4>1, <4>2
      <3>3. disk = Written
        <4>1. disk \in Bytes(Capacity)
          BY DEF TypeOK
        <4> QED BY <3>2, <4>1, <1>2, SameBytes
      <3> QED BY <3>1, <3>3, <1>2
    <2>2. CASE ~(exists /\ faults = "passing")
      BY <2>2 DEF Return, TypeOK
    <2> QED BY <2>1, <2>2
  <1>4. pos' \in 0..Limit
    BY <1>1, Sizes DEF Return, LoopOK, TypeOK
  <1>5. buffer' \in Bytes(0)
    BY DEF Return, Bytes
  <1>6. blk_buf' \in Bytes(BlockSize)
    BY DEF Return, Bytes, NoBlock
  <1>7. TypeOK'
    BY <1>1, <1>3, <1>4, <1>5, <1>6, Sizes, DiskAssumption DEF Return, TypeOK, Limit
  <1>8. IdleOK' /\ LoopOK' /\ BlockOK' /\ PartOK'
    BY <1>1, <1>3 DEF IdleOK, LoopOK, BlockOK, PartOK
  <1>9. \A b \in 0..(Capacity - 1) : Written'[b] = image'[b]
    <2>1. pos' \in Nat
      BY <1>4, Sizes
    <2>2. \A b \in 0..(Capacity - 1) : b \notin pos'..(pos' + nbyte' - 1)
      <3>1. pos' + nbyte' - 1 = pos' - 1
        BY <1>1, <2>1
      <3> QED BY <2>1, <3>1, Sizes
    <2> QED BY <2>2 DEF Written
  <1>10. WriteExact'
    BY <1>3, <1>9 DEF WriteExact
  <1>11. ReadExact'
    BY <1>1 DEF ReadExact
  <1> QED BY <1>7, <1>8, <1>10, <1>11

(* What a write will have stored does not change while the call is under way. *)
LEMMA WrittenKept ==
    ASSUME UNCHANGED request, buffer' = buffer
    PROVE  Written' = Written
  BY DEF request, Written

(* A round of the loop starts, with a read unless the whole block is written. *)
LEMMA StartStep ==
    ASSUME IInv, Start
    PROVE  IInv'
  <1> USE DEF IInv
  <1>1. /\ pc = "loop" /\ pc' \in {"read", "write"} /\ exists /\ count < nbyte
        /\ UNCHANGED <<drive, disk, buffer, offset, count, blk_buf>> /\ UNCHANGED request
        /\ UNCHANGED <<exists, faults, pos, op, nbyte, image>>
    BY DEF Start, request
  <1>2. retries' \in 0..Retries
    BY DiskAssumption DEF Start, TypeOK
  <1>3. TypeOK'
    BY <1>1, <1>2 DEF TypeOK, Limit
  <1>4. IdleOK' /\ LoopOK'
    BY <1>1 DEF IdleOK, LoopOK, Limit
  <1>5. BlockOK'
    BY <1>1, DiskAssumption DEF Start, BlockOK
  <1>6. PartOK'
    <2>1. Whole' = Whole
      BY <1>1 DEF Whole, len, bloff
    <2>2. pc' = "write" => Whole
      BY DEF Start
    <2> QED BY <2>1, <2>2 DEF PartOK
  <1>7. Written' = Written
    BY <1>1, WrittenKept
  <1>8. WriteExact'
    <2>1. Covered' = Covered
      BY <1>1 DEF Covered
    <2> QED BY <1>1, <1>7, <2>1 DEF WriteExact
  <1>9. ReadExact'
    BY <1>1 DEF ReadExact
  <1> QED BY <1>3, <1>4, <1>5, <1>6, <1>8, <1>9

(* Another attempt changes only the number of those left. *)
LEMMA ReadRetryStep ==
    ASSUME IInv, ReadRetry
    PROVE  IInv'
  <1> USE DEF IInv
  <1>1. /\ pc = "read" /\ UNCHANGED <<disk, pc, buffer, offset, count, blk_buf>>
        /\ UNCHANGED request /\ UNCHANGED <<exists, faults, pos, op, nbyte, image>>
        /\ drive' \in DriveState
    BY DEF ReadRetry, Answered, request, DriveState
  <1>2. retries' \in 1..Retries
    BY <1>1, DiskAssumption DEF ReadRetry, BlockOK, TypeOK
  <1>3. TypeOK'
    BY <1>1, <1>2, DiskAssumption DEF TypeOK, Limit
  <1>4. IdleOK' /\ LoopOK' /\ PartOK'
    BY <1>1 DEF IdleOK, LoopOK, PartOK, Limit
  <1>5. BlockOK'
    BY <1>1, <1>2 DEF BlockOK
  <1>6. Written' = Written
    BY <1>1, WrittenKept
  <1>7. WriteExact'
    <2>1. Covered' = Covered
      BY <1>1 DEF Covered
    <2> QED BY <1>1, <1>6, <2>1 DEF WriteExact
  <1>8. ReadExact'
    BY <1>1 DEF ReadExact
  <1> QED BY <1>3, <1>4, <1>5, <1>7, <1>8

(* The loop's variables after a round that is complete. *)
LEMMA AdvanceLemma ==
    ASSUME TypeOK, LoopOK, pc # "idle", count < nbyte, exists, Advance, UNCHANGED request
    PROVE  /\ pc' = "loop"
           /\ count' \in 0..nbyte /\ count' = count + len
           /\ offset' \in 0..Limit /\ offset' = pos + count'
           /\ UNCHANGED <<exists, faults, pos, op, nbyte, image>>
           /\ Limit' = Limit
           /\ IdleOK' /\ LoopOK' /\ BlockOK' /\ PartOK'
  <1>1. UNCHANGED <<exists, faults, pos, op, nbyte, image>> /\ pc' = "loop" /\ Limit' = Limit
    BY DEF request, Advance, Limit
  <1>2. count' \in 0..nbyte /\ count' = count + len
    BY PartLemma DEF Advance
  <1>3. offset' = pos + count'
    BY PartLemma DEF Advance, LoopOK
  <1>4. offset' \in 0..Limit
    BY <1>2, <1>3, PartLemma, Sizes DEF LoopOK
  <1>5. IdleOK' /\ LoopOK' /\ BlockOK' /\ PartOK'
    BY <1>1, <1>3 DEF IdleOK, LoopOK, BlockOK, PartOK
  <1> QED BY <1>1, <1>2, <1>3, <1>4, <1>5

(* A read leaves the drive alone, and the drive is what its history says. *)
LEMMA ReadLeavesDisk ==
    ASSUME IInv, op = "read"
    PROVE  \A b \in 0..(Capacity - 1) : disk[b] = image[b] /\ Written[b] = image[b]
  BY DEF IInv, WriteExact, Written

(* A round of ata_read is complete: the caller's buffer has changed, the drive has not. *)
LEMMA ReadRound ==
    ASSUME IInv, pc = "read", op = "read", Advance, disk' = disk, UNCHANGED request,
           drive' \in DriveState, retries' = 0,
           blk_buf' \in Bytes(BlockSize), buffer' \in Bytes(nbyte),
           faults = "passing" => \A j \in 0..(count + len - 1) : buffer'[j] = image[pos + j]
    PROVE  IInv'
  <1> USE DEF IInv
  <1>1. exists /\ count < nbyte /\ pc # "idle"
    BY DEF BlockOK
  <1>2. /\ pc' = "loop"
        /\ count' \in 0..nbyte /\ count' = count + len
        /\ offset' \in 0..Limit /\ offset' = pos + count'
        /\ UNCHANGED <<exists, faults, pos, op, nbyte, image>>
        /\ Limit' = Limit
        /\ IdleOK' /\ LoopOK' /\ BlockOK' /\ PartOK'
    BY <1>1, AdvanceLemma
  <1>3. TypeOK'
    BY <1>2, DiskAssumption DEF TypeOK
  <1>4. \A b \in 0..(Capacity - 1) : disk[b] = image[b]
    BY ReadLeavesDisk
  <1>5. op' # "write"
    BY <1>2
  <1>6. \A b \in 0..(Capacity - 1) : Written'[b] = image[b]
    BY <1>2, <1>5 DEF Written
  <1>7. WriteExact'
    BY <1>2, <1>4, <1>6 DEF WriteExact
  <1>8. ReadExact'
    <2>1. faults' = "passing" => \A j \in 0..(count' - 1) : buffer'[j] = image'[pos' + j]
      <3>1. count' - 1 = count + len - 1
        BY <1>1, <1>2, PartLemma
      <3>2. faults' = faults /\ image' = image /\ pos' = pos
        BY <1>2
      <3> QED BY <3>1, <3>2
    <2> QED BY <2>1 DEF ReadExact
  <1> QED BY <1>2, <1>3, <1>7, <1>8

(* The block has been read before a part of it is written. *)
LEMMA ReadBeforeWrite ==
    ASSUME IInv, pc = "read", op = "write", pc' = "write", NEW data \in Bytes(BlockSize),
           blk_buf' = CopyIn(data), UNCHANGED <<buffer, offset, count, disk>>,
           UNCHANGED request, drive' \in DriveState, retries' = 0,
           faults = "passing" => data = OnDisk(block)
    PROVE  IInv'
  <1> USE DEF IInv
  <1>1. exists /\ count < nbyte /\ UNCHANGED <<exists, faults, pos, op, nbyte, image>>
    BY DEF BlockOK, request
  <1>2. blk_buf' \in Bytes(BlockSize)
    BY <1>1, CopyInType
  <1>3. TypeOK'
    BY <1>1, <1>2, DiskAssumption DEF TypeOK, Limit
  <1>4. IdleOK' /\ LoopOK' /\ BlockOK'
    BY <1>1 DEF IdleOK, LoopOK, BlockOK, Limit
  <1>5. PartOK'
    <2>1. OnDisk(block)' = OnDisk(block)
      BY DEF OnDisk, block
    <2>2. CopyIn(OnDisk(block))' = CopyIn(OnDisk(block))
      BY <1>1, <2>1 DEF CopyIn, len, bloff
    <2> QED BY <1>1, <2>2 DEF PartOK
  <1>6. Written' = Written
    BY <1>1, WrittenKept
  <1>7. WriteExact'
    <2>1. Covered' = Covered
      BY <1>1 DEF Covered
    <2> QED BY <1>1, <1>6, <2>1 DEF WriteExact
  <1>8. ReadExact'
    BY <1>1 DEF ReadExact
  <1> QED BY <1>3, <1>4, <1>5, <1>7, <1>8

(* A block has been read: its part of it is what the caller asked for. *)
LEMMA ReadBlockStep ==
    ASSUME IInv, ReadBlock
    PROVE  IInv'
  <1> USE DEF IInv
  <1> DEFINE data == OnDisk(lba)
  <1>1. pc = "read" /\ exists /\ count < nbyte /\ pc # "idle"
    BY DEF ReadBlock, Answered, BlockOK
  <1>2. lba \in Nat /\ lba < NumBlocks /\ data \in Bytes(BlockSize)
    BY LbaLemma, OnDiskType DEF ReadBlock
  <1>3. /\ AfterRead(data) /\ disk' = disk /\ UNCHANGED request /\ retries' = 0
        /\ drive' \in DriveState
    BY DEF ReadBlock, Answered, DriveState
  <1>4. faults = "passing" => data = OnDisk(block)
    BY <1>1, PassingBlock
  <1>5. CASE op = "read"
    <2>1. buffer' = CopyOut(data) /\ blk_buf' = (IF Whole THEN blk_buf ELSE data) /\ Advance
      BY <1>3, <1>5 DEF AfterRead
    <2>2. blk_buf' \in Bytes(BlockSize)
      BY <1>2, <2>1 DEF TypeOK
    <2>3. buffer' \in Bytes(nbyte)
      BY <1>1, <1>2, <2>1, CopyOutType
    <2>4. ASSUME faults = "passing", NEW j \in 0..(count + len - 1)
          PROVE  buffer'[j] = image[pos + j]
      <3>1. /\ count \in Nat /\ nbyte \in Nat /\ pos \in Nat /\ block \in Nat
            /\ bloff \in 0..(BlockSize - 1) /\ offset = BlockSize * block + bloff
            /\ len \in 1..(nbyte - count) /\ len <= BlockSize - bloff
        BY <1>1, PartLemma
      <3>2. j \in 0..(nbyte - 1) /\ j \in DOMAIN buffer
        BY <3>1 DEF TypeOK, Bytes
      <3>3. CASE j < count
        <4>1. buffer'[j] = buffer[j]
          BY <2>1, <3>1, <3>2, <3>3 DEF CopyOut
        <4> QED BY <1>5, <2>4, <3>1, <3>3, <4>1 DEF ReadExact
      <3>4. CASE ~(j < count)
        <4>1. j \in count..(count + len - 1)
          BY <3>1, <3>4
        <4>2. buffer'[j] = data[bloff + j - count]
          BY <2>1, <3>2, <4>1 DEF CopyOut
        <4>3. bloff + j - count \in 0..(BlockSize - 1)
          BY <3>1, <4>1, Sizes
        <4>4. data[bloff + j - count] = disk[block * BlockSize + (bloff + j - count)]
          BY <1>4, <2>4, <4>3 DEF OnDisk
        <4>5. BlockSize * block = block * BlockSize /\ BlockSize * block \in Nat
          BY <3>1, Sizes
        <4>6. offset = pos + count
          BY <1>1 DEF LoopOK
        <4>7. block * BlockSize + (bloff + j - count) = pos + j
          BY <3>1, <4>1, <4>5, <4>6
        <4>8. pos + j \in 0..(Capacity - 1)
          BY <1>1, <2>4, <3>1, <3>2, Sizes DEF LoopOK, Limit
        <4>9. disk[pos + j] = image[pos + j]
          BY <1>5, <4>8, ReadLeavesDisk
        <4> QED BY <4>2, <4>4, <4>7, <4>9
      <3> QED BY <3>3, <3>4
    <2> QED BY <1>1, <1>3, <1>5, <2>1, <2>2, <2>3, <2>4, ReadRound
  <1>6. CASE op = "write"
    <2>1. blk_buf' = CopyIn(data) /\ pc' = "write" /\ UNCHANGED <<buffer, offset, count>>
      BY <1>3, <1>6 DEF AfterRead
    <2> HIDE DEF data
    <2> QED BY <1>1, <1>2, <1>3, <1>4, <1>6, <2>1, ReadBeforeWrite DEF data
  <1> QED BY <1>5, <1>6 DEF TypeOK

(* The last attempt fails: only on a drive of which nothing is asked. *)
LEMMA ReadGiveUpStep ==
    ASSUME IInv, ReadGiveUp
    PROVE  IInv'
  <1> USE DEF IInv
  <1>1. pc = "read" /\ exists /\ count < nbyte /\ pc # "idle"
    BY DEF ReadGiveUp, Answered, BlockOK
  <1>2. faults # "passing"
    <2> SUFFICES ASSUME faults = "passing" PROVE FALSE
      OBVIOUS
    <2>1. lba \in Nat /\ lba < NumBlocks
      BY <1>1, PassingBlock
    <2>2. ~(lba >= NumBlocks)
      BY <2>1, DiskAssumption
    <2>3. retries = 1 /\ ~(retries > 1)
      BY DEF ReadGiveUp
    <2> QED BY <2>2, <2>3 DEF ReadGiveUp, Refuses
  <1>3. disk' = disk /\ UNCHANGED request /\ retries' = 0
        /\ drive' \in DriveState
    BY DEF ReadGiveUp, Answered, DriveState
  <1>4. blk_buf \in Bytes(BlockSize) /\ buffer \in Bytes(nbyte)
    BY DEF TypeOK
  <1>5. CASE op = "read" /\ Whole
    <2>1. Advance /\ buffer' = buffer /\ blk_buf' = blk_buf
      BY <1>5 DEF ReadGiveUp
    <2> QED BY <1>1, <1>2, <1>3, <1>4, <1>5, <2>1, ReadRound
  <1>6. CASE op = "read" /\ ~Whole
    <2>1. Advance /\ buffer' = CopyOut(blk_buf) /\ blk_buf' = blk_buf
      BY <1>6 DEF ReadGiveUp, AfterRead
    <2>2. buffer' \in Bytes(nbyte)
      BY <1>1, <1>4, <2>1, CopyOutType
    <2> QED BY <1>1, <1>2, <1>3, <1>4, <1>6, <2>1, <2>2, ReadRound
  <1>7. CASE op = "write"
    <2>1. blk_buf' = CopyIn(blk_buf) /\ pc' = "write" /\ UNCHANGED <<buffer, offset, count>>
      BY <1>7 DEF ReadGiveUp, AfterRead
    <2> QED BY <1>1, <1>2, <1>3, <1>4, <1>7, <2>1, ReadBeforeWrite
  <1> QED BY <1>5, <1>6, <1>7 DEF TypeOK

(* A round of ata_write is complete: the drive has changed in the block under way at most. *)
LEMMA WriteRound ==
    ASSUME IInv, pc = "write", Advance, UNCHANGED <<buffer, blk_buf, retries>>,
           UNCHANGED request, drive' \in DriveState, disk' \in Bytes(Capacity),
           faults = "passing" =>
               \A b \in 0..(Capacity - 1) :
                   disk'[b] = IF b < pos + count + len THEN Written[b] ELSE image[b],
           faults # "passing" =>
               \A b \in 0..(Capacity - 1) : disk'[b] = disk[b] \/ b \div BlockSize = lba
    PROVE  IInv'
  <1> USE DEF IInv
  <1>1. op = "write" /\ exists /\ count < nbyte /\ pc # "idle"
    BY DEF BlockOK
  <1>2. /\ pc' = "loop"
        /\ count' \in 0..nbyte /\ count' = count + len
        /\ offset' \in 0..Limit /\ offset' = pos + count'
        /\ UNCHANGED <<exists, faults, pos, op, nbyte, image>>
        /\ Limit' = Limit
        /\ IdleOK' /\ LoopOK' /\ BlockOK' /\ PartOK'
    BY <1>1, AdvanceLemma
  <1>3. TypeOK'
    BY <1>2, DiskAssumption DEF TypeOK
  <1>4. Written' = Written /\ Covered' = Covered /\ op' = "write" /\ faults' = faults
        /\ image' = image
    BY <1>1, <1>2, WrittenKept DEF Covered
  <1>5. lba \in Covered
    BY <1>1, CoveredBlock
  <1>6. WriteExact'
    <2>1. CASE faults = "passing"
      <3>1. pos' + count' = pos + count + len
        BY <1>1, <1>2, PartLemma
      <3> QED BY <1>4, <2>1, <3>1 DEF WriteExact
    <2>2. CASE faults # "passing"
      BY <1>1, <1>4, <1>5, <2>2 DEF WriteExact
    <2> QED BY <2>1, <2>2
  <1>7. ReadExact'
    BY <1>4 DEF ReadExact
  <1> QED BY <1>2, <1>3, <1>6, <1>7

(* The block that ata_write hands to the drive has the caller's bytes where the *)
(* request wants them, and what the drive has everywhere else.                  *)
LEMMA ToWriteLemma ==
    ASSUME IInv, pc = "write", faults = "passing", NEW b \in 0..(Capacity - 1),
           b \div BlockSize = block
    PROVE  /\ b \in offset..(offset + len - 1) => ToWrite[b % BlockSize] = buffer[b - pos]
           /\ b \notin offset..(offset + len - 1) => ToWrite[b % BlockSize] = disk[b]
  <1> USE DEF IInv
  <1> DEFINE r == b % BlockSize
  <1>1. op = "write" /\ exists /\ count < nbyte /\ pc # "idle"
    BY DEF BlockOK
  <1>2. /\ count \in Nat /\ nbyte \in Nat /\ pos \in Nat /\ block \in Nat /\ offset \in Nat
        /\ bloff \in 0..(BlockSize - 1) /\ offset = BlockSize * block + bloff
        /\ len \in 1..(nbyte - count) /\ len <= BlockSize - bloff
        /\ (Whole => bloff = 0)
    BY <1>1, PartLemma
  <1>3. b \in Nat
    BY Sizes
  <1>4. r \in 0..(BlockSize - 1) /\ b = BlockSize * block + r
    BY <1>3, DivRange
  <1>5. offset = pos + count
    BY <1>1 DEF LoopOK
  <1>6. BlockSize * block \in Nat /\ BlockSize * block = block * BlockSize
    BY <1>2, Sizes
  <1> HIDE DEF r
  <1>7. /\ b \in offset..(offset + len - 1) <=> r \in bloff..(bloff + len - 1)
        /\ count + r - bloff = b - pos
    BY <1>2, <1>3, <1>4, <1>5, <1>6
  <1>8. CASE Whole
    <2>1. r \in bloff..(bloff + len - 1)
      BY <1>2, <1>4, <1>8, Sizes DEF Whole
    <2>2. DOMAIN blk_buf = 0..(BlockSize - 1)
      BY DEF TypeOK, Bytes
    <2>3. ToWrite = CopyIn(blk_buf)
      BY <1>8 DEF ToWrite
    <2>4. CopyIn(blk_buf)[r] = buffer[count + r - bloff]
      BY <1>4, <2>1, <2>2 DEF CopyIn
    <2> QED BY <1>7, <2>1, <2>3, <2>4 DEF r
  <1>9. CASE ~Whole
    <2>1. ToWrite = CopyIn(OnDisk(block))
      BY <1>9 DEF ToWrite, PartOK
    <2>2. DOMAIN OnDisk(block) = 0..(BlockSize - 1) /\ OnDisk(block)[r] = disk[b]
      BY <1>4, <1>6 DEF OnDisk
    <2>3. CopyIn(OnDisk(block))[r] =
              IF r \in bloff..(bloff + len - 1) THEN buffer[count + r - bloff] ELSE disk[b]
      BY <1>4, <2>2 DEF CopyIn
    <2> QED BY <1>7, <2>1, <2>3 DEF r
  <1> QED BY <1>8, <1>9

(* A block has been written. *)
LEMMA WriteBlockStep ==
    ASSUME IInv, WriteBlock
    PROVE  IInv'
  <1> USE DEF IInv
  <1>1. pc = "write" /\ op = "write" /\ exists /\ count < nbyte /\ pc # "idle"
    BY DEF WriteBlock, Answered, BlockOK
  <1>2. /\ Advance /\ UNCHANGED <<buffer, blk_buf, retries>> /\ UNCHANGED request
        /\ drive' \in DriveState
    BY DEF WriteBlock, Answered, DriveState
  <1>3. DOMAIN disk = 0..(Capacity - 1)
    BY DEF TypeOK, Bytes
  <1>4. disk' = [b \in 0..(Capacity - 1) |->
                    IF b \div BlockSize = lba THEN ToWrite[b % BlockSize] ELSE disk[b]]
    BY <1>3 DEF WriteBlock
  <1>5. ToWrite \in Bytes(BlockSize)
    BY <1>1, CopyInType DEF ToWrite, TypeOK
  <1>6. disk' \in Bytes(Capacity)
    <2>1. ASSUME NEW b \in 0..(Capacity - 1)
          PROVE  ToWrite[b % BlockSize] \in Byte \cup {Junk} /\ disk[b] \in Byte \cup {Junk}
      <3>1. b % BlockSize \in 0..(BlockSize - 1)
        BY Sizes, DivRange
      <3> QED BY <1>5, <3>1 DEF TypeOK, Bytes
    <2> QED BY <1>4, <2>1 DEF Bytes
  <1>7. ASSUME faults = "passing", NEW b \in 0..(Capacity - 1)
        PROVE  disk'[b] = IF b < pos + count + len THEN Written[b] ELSE image[b]
    <2>1. lba = block
      BY <1>1, <1>7, PassingBlock
    <2>2. /\ count \in Nat /\ nbyte \in Nat /\ pos \in Nat /\ offset \in Nat
          /\ len \in 1..(nbyte - count)
      BY <1>1, PartLemma
    <2>3. offset = pos + count
      BY <1>1 DEF LoopOK
    <2>4. disk[b] = IF b < pos + count THEN Written[b] ELSE image[b]
      BY <1>7 DEF WriteExact
    <2>5. b \in Nat
      BY Sizes
    <2>6. b \in offset..(offset + len - 1) => Written[b] = buffer[b - pos]
      <3> SUFFICES ASSUME b \in offset..(offset + len - 1) PROVE Written[b] = buffer[b - pos]
        OBVIOUS
      <3>1. b \in pos..(pos + nbyte - 1)
        BY <2>2, <2>3, <2>5
      <3> QED BY <1>1, <3>1 DEF Written
    <2>7. b \in offset..(offset + len - 1) => b \div BlockSize = block
      <3> SUFFICES ASSUME b \in offset..(offset + len - 1) PROVE b \div BlockSize = block
        OBVIOUS
      <3>1. /\ block \in Nat /\ bloff \in 0..(BlockSize - 1) /\ offset = BlockSize * block + bloff
            /\ len <= BlockSize - bloff
        BY <1>1, PartLemma
      <3>2. BlockSize * block \in Nat
        BY <3>1, Sizes
      <3>3. b - BlockSize * block \in 0..(BlockSize - 1)
            /\ b = BlockSize * block + (b - BlockSize * block)
        BY <2>2, <2>5, <3>1, <3>2, Sizes
      <3> QED BY <3>1, <3>3, DivUnique
    <2>8. CASE b \in offset..(offset + len - 1)
      <3>1. b < pos + count + len
        BY <2>2, <2>3, <2>5, <2>8
      <3>2. disk'[b] = ToWrite[b % BlockSize]
        BY <1>4, <2>1, <2>7, <2>8
      <3>3. ToWrite[b % BlockSize] = buffer[b - pos]
        BY <1>1, <1>7, <2>7, <2>8, ToWriteLemma
      <3> QED BY <2>6, <2>8, <3>1, <3>2, <3>3
    <2>9. CASE b \notin offset..(offset + len - 1)
      <3>1. b < pos + count + len <=> b < pos + count
        BY <2>2, <2>3, <2>5, <2>9
      <3>2. b \div BlockSize = block => ToWrite[b % BlockSize] = disk[b]
        BY <1>1, <1>7, <2>9, ToWriteLemma
      <3>3. disk'[b] = disk[b]
        BY <1>4, <2>1, <3>2
      <3> QED BY <2>4, <3>1, <3>3
    <2> QED BY <2>8, <2>9
  <1>8. \A b \in 0..(Capacity - 1) : disk'[b] = disk[b] \/ b \div BlockSize = lba
    BY <1>4
  <1> QED BY <1>1, <1>2, <1>6, <1>7, <1>8, WriteRound

(* A write that fails leaves the drive as it was: only on one of which nothing is asked. *)
LEMMA WriteFailsStep ==
    ASSUME IInv, WriteFails
    PROVE  IInv'
  <1> USE DEF IInv
  <1>1. pc = "write" /\ exists /\ count < nbyte /\ pc # "idle"
    BY DEF WriteFails, Answered, BlockOK
  <1>2. faults # "passing"
    <2> SUFFICES ASSUME faults = "passing" PROVE FALSE
      OBVIOUS
    <2>1. lba \in Nat /\ lba < NumBlocks
      BY <1>1, PassingBlock
    <2>2. ~(lba >= NumBlocks)
      BY <2>1, DiskAssumption
    <2> QED BY <2>2 DEF WriteFails
  <1>3. Advance /\ disk' = disk /\ UNCHANGED <<buffer, blk_buf, retries>> /\ UNCHANGED request
        /\ drive' \in DriveState
    BY DEF WriteFails, Answered, DriveState
  <1>4. disk' \in Bytes(Capacity)
    BY <1>3 DEF TypeOK
  <1> QED BY <1>1, <1>2, <1>3, <1>4, WriteRound

(* A command is sent, or the drive is done with one: nothing else changes. *)
LEMMA DriveStep ==
    ASSUME IInv, drive' \in DriveState, UNCHANGED request,
           UNCHANGED <<disk, pc, buffer, offset, count, blk_buf, retries>>
    PROVE  IInv'
  <1> USE DEF IInv
  <1>1. UNCHANGED <<exists, faults, pos, op, nbyte, image>>
    BY DEF request
  <1>2. TypeOK' /\ IdleOK' /\ LoopOK' /\ BlockOK'
    BY <1>1 DEF TypeOK, IdleOK, LoopOK, BlockOK, Limit
  <1>3. PartOK'
    BY <1>1 DEF PartOK, Whole, CopyIn, OnDisk, block, bloff, len
  <1>4. WriteExact'
    <2>1. Written' = Written /\ Covered' = Covered
      BY <1>1 DEF Written, Covered
    <2> QED BY <1>1, <2>1 DEF WriteExact
  <1>5. ReadExact'
    BY <1>1 DEF ReadExact
  <1> QED BY <1>2, <1>3, <1>4, <1>5

(* Every step preserves the invariant. *)
LEMMA NextInv == IInv /\ [Next]_vars => IInv'
  <1> SUFFICES ASSUME IInv, [Next]_vars PROVE IInv'
    OBVIOUS
  <1>1. CASE UNCHANGED vars
    <2>1. drive' \in DriveState
      BY <1>1 DEF vars, IInv, TypeOK
    <2> QED BY <1>1, <2>1, DriveStep DEF vars, request
  <1>2. CASE \E p \in 0..Limit : p # pos /\ seek(p)
    BY <1>2, SeekStep
  <1>3. ASSUME NEW n \in 0..MaxRequest, pos + n <= Limit,
               read(n) \/ \E first \in Byte : write(n, first)
        PROVE  IInv'
    BY <1>3, ReadCallStep, WriteCallStep
  <1>4. CASE SendCommand \/ DriveDone
    <2>1. drive' \in DriveState
      BY <1>4 DEF SendCommand, DriveDone, DriveState
    <2> QED BY <1>4, <2>1, DriveStep DEF SendCommand, DriveDone
  <1>5. CASE Step
    BY <1>4, <1>5, StartStep, ReadBlockStep, ReadRetryStep, ReadGiveUpStep, WriteBlockStep,
       WriteFailsStep, ReturnStep DEF Step
  <1> QED BY <1>1, <1>2, <1>3, <1>4, <1>5 DEF Next

-----------------------------------------------------------------------------
(* The theorems *)

(* The invariant holds of the calls on a disk, whatever the sizes (ata_fs.c, ata.c). *)
THEOREM Invariant == Spec => []IInv
  BY InitInv, NextInv, PTL DEF Spec

(* The variables of the calls keep their types: no loop over the blocks leaves the *)
(* caller's buffer, the block's or the drive (ata_fs.c:18-35, 51-66).              *)
THEOREM TypeCorrect == Spec => []TypeOK
  <1>1. IInv => TypeOK
    BY DEF IInv
  <1> QED BY <1>1, Invariant, PTL

(* A write stores the caller's bytes where they belong and changes no others, for every *)
(* size of a block, offset and length; a drive that fails loses bytes only in blocks    *)
(* that the write covers (ata_fs.c:51-66).                                              *)
THEOREM WritesExact == Spec => []WriteExact
  <1>1. IInv => WriteExact
    BY DEF IInv
  <1> QED BY <1>1, Invariant, PTL

(* A read returns what the writes before it stored, for every size of a block, offset *)
(* and length, and for every number of attempts (ata_fs.c:18-35, ata.c:96-116).       *)
THEOREM ReadsExact == Spec => []ReadExact
  <1>1. IInv => ReadExact
    BY DEF IInv
  <1> QED BY <1>1, Invariant, PTL
=============================================================================

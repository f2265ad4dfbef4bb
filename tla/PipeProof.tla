----------------------------- MODULE PipeProof -----------------------------
(***************************************************************************)
(* Theorems about Pipe, for any number of readers and writers, any buffer  *)
(* size and requests of any length: the ring buffer is a FIFO.             *)
(***************************************************************************)
EXTENDS Pipe, SequenceTheorems, TLAPS

-----------------------------------------------------------------------------
(* Indices modulo the size of the buffer *)

(* A position modulo the size is an index of the buffer. *)
LEMMA ModRange ==
    ASSUME NEW a \in Nat
    PROVE  /\ a % Size \in 0..(Size - 1)
           /\ a \div Size \in Nat
           /\ a = Size * (a \div Size) + (a % Size)
  BY PipeAssumption

(* The remainder is the one of Euclidean division. *)
LEMMA ModUnique ==
    ASSUME NEW q \in Nat, NEW r \in 0..(Size - 1)
    PROVE  (Size * q + r) % Size = r
  BY PipeAssumption

(* Moving on by j either stays before the end of the buffer or wraps once. *)
LEMMA ModShift ==
    ASSUME NEW a \in Nat, NEW j \in 0..Size
    PROVE  (a + j) % Size = IF (a % Size) + j < Size THEN (a % Size) + j ELSE (a % Size) + j - Size
  <1> DEFINE q == a \div Size
             r == a % Size
  <1>1. q \in Nat /\ r \in 0..(Size - 1) /\ a = Size * q + r
    BY ModRange
  <1> HIDE DEF q, r
  <1>2. CASE r + j < Size
    <2>1. a + j = Size * q + (r + j) /\ r + j \in 0..(Size - 1)
      BY <1>1, <1>2, PipeAssumption
    <2>2. (a + j) % Size = r + j
      BY <1>1, <2>1, ModUnique
    <2> QED BY <1>2, <2>2 DEF r
  <1>3. CASE ~(r + j < Size)
    <2>1. a + j = Size * (q + 1) + (r + j - Size) /\ r + j - Size \in 0..(Size - 1)
      BY <1>1, <1>3, PipeAssumption
    <2>2. (a + j) % Size = r + j - Size
      BY <1>1, <2>1, ModUnique
    <2> QED BY <1>3, <2>2 DEF r
  <1> QED BY <1>2, <1>3

(* The two cases of it, for an index that is known. *)
LEMMA ModStay ==
    ASSUME NEW a \in Nat, NEW j \in 0..Size, NEW at, at = a % Size, at + j < Size
    PROVE  (a + j) % Size = at + j
  <1>1. (a % Size) + j < Size
    OBVIOUS
  <1>2. (a + j) % Size = (a % Size) + j
    BY <1>1, ModShift, Zenon
  <1> QED BY <1>2

LEMMA ModWrap ==
    ASSUME NEW a \in Nat, NEW j \in 0..Size, NEW at, at = a % Size, ~(at + j < Size)
    PROVE  (a + j) % Size = at + j - Size
  <1>1. ~((a % Size) + j < Size)
    OBVIOUS
  <1>2. (a + j) % Size = (a % Size) + j - Size
    BY <1>1, ModShift, Zenon
  <1> QED BY <1>2

(* Positions less than a buffer apart have different indices. *)
LEMMA ModDistinct ==
    ASSUME NEW a \in Nat, NEW b \in Nat, a < b, b < a + Size
    PROVE  a % Size # b % Size
  <1>1. b - a \in 0..Size /\ a + (b - a) = b /\ 0 < b - a /\ b - a < Size
    BY PipeAssumption
  <1>2. b % Size = IF (a % Size) + (b - a) < Size THEN (a % Size) + (b - a)
                   ELSE (a % Size) + (b - a) - Size
    BY <1>1, ModShift
  <1> QED BY <1>1, <1>2, ModRange, PipeAssumption

(* A copied array is a sequence. *)
LEMMA FunctionIsSeq ==
    ASSUME NEW S, NEW m \in Nat, NEW f \in [1..m -> S]
    PROVE  f \in Seq(S) /\ Len(f) = m
  <1>1. f \in Seq(S)
    BY SeqDef
  <1>2. Len(f) = m
    BY <1>1, LenProperties
  <1> QED BY <1>1, <1>2

-----------------------------------------------------------------------------
(* The inductive invariant *)

(* What has been received is the first part of what was sent. *)
HistoryOK ==
    /\ Len(sent) = write_pos
    /\ Len(rcvd) = read_pos
    /\ \A i \in 1..read_pos : rcvd[i] = sent[i]

(* The rest of it is in the ring, each byte at its position. *)
StoredOK ==
    \A i \in read_pos..(write_pos - 1) : buffer[i % Size] = sent[i + 1]

(* A thread in a transfer of bytes[t] at pos has computed its locals from the
   positions as they still are, and moves at most room bytes. *)
TransferOK(t, pos, room) ==
    /\ bytes[t] <= room
    /\ bytes[t] <= nbyte[t]
    /\ buf_pos[t] = pos % Size
    /\ n[t] = Min2(Size - buf_pos[t], bytes[t])

(* A reader has copied the oldest bytes of the ring. *)
ReadOK ==
    \A r \in Reader :
        /\ pc[r] \in {"copy1", "copy2", "advance"} => TransferOK(r, read_pos, write_pos - read_pos)
        /\ pc[r] = "copy2" => n[r] < bytes[r] /\ Len(buf[r]) = n[r]
        /\ pc[r] = "advance" => Len(buf[r]) = bytes[r]
        /\ pc[r] \in {"copy2", "advance"} =>
                \A i \in 1..Len(buf[r]) : buf[r][i] = sent[read_pos + i]

(* A writer has put its next bytes after the newest byte of the ring. *)
WriteOK ==
    \A w \in Writer :
        /\ pc[w] \in {"copy1", "copy2", "advance"} =>
                /\ TransferOK(w, write_pos, Size - (write_pos - read_pos))
                /\ bytes[w] > 0
        /\ pc[w] = "copy2" =>
                /\ n[w] < bytes[w]
                /\ \A j \in 0..(n[w] - 1) :
                        buffer[(write_pos + j) % Size] = <<w, taken[w] + j + 1>>
        /\ pc[w] = "advance" =>
                \A j \in 0..(bytes[w] - 1) :
                        buffer[(write_pos + j) % Size] = <<w, taken[w] + j + 1>>

PInv ==
    /\ TypeOK
    /\ Exclusive
    /\ InWindow
    /\ HistoryOK
    /\ StoredOK
    /\ ReadOK
    /\ WriteOK

-----------------------------------------------------------------------------
(* What the invariant says of one thread in a transfer *)

(* A reader that copies is within what the ring holds and within the buffer. *)
LEMMA ReaderFacts ==
    ASSUME PInv, NEW r \in Reader, pc[r] \in {"copy1", "copy2", "advance"}
    PROVE  /\ read_pos \in Nat /\ write_pos \in Nat
           /\ read_pos <= write_pos /\ write_pos <= read_pos + Size
           /\ bytes[r] \in 0..(write_pos - read_pos) /\ n[r] \in 0..bytes[r]
           /\ buf_pos[r] = read_pos % Size /\ buf_pos[r] \in 0..(Size - 1)
           /\ buf_pos[r] + n[r] <= Size
           /\ n[r] < bytes[r] => buf_pos[r] + n[r] = Size
  <1>1. r \in Thread
    BY DEF Thread
  <1>2. /\ bytes[r] <= write_pos - read_pos
        /\ buf_pos[r] = read_pos % Size
        /\ n[r] = Min2(Size - buf_pos[r], bytes[r])
    BY DEF PInv, ReadOK, TransferOK
  <1>3. /\ read_pos \in Nat /\ write_pos \in Nat /\ bytes[r] \in 0..Size
        /\ n[r] \in 0..Size /\ buf_pos[r] \in 0..(Size - 1)
    BY <1>1 DEF PInv, TypeOK
  <1>4. read_pos <= write_pos /\ write_pos <= read_pos + Size
    BY DEF PInv, InWindow
  <1>5. /\ n[r] <= bytes[r] /\ n[r] + buf_pos[r] <= Size
        /\ n[r] < bytes[r] => buf_pos[r] + n[r] = Size
    <2>1. n[r] = IF Size - buf_pos[r] < bytes[r] THEN Size - buf_pos[r] ELSE bytes[r]
      BY <1>2 DEF Min2
    <2> QED BY <1>3, <2>1, PipeAssumption
  <1>6. bytes[r] \in 0..(write_pos - read_pos) /\ n[r] \in 0..bytes[r] /\ buf_pos[r] + n[r] <= Size
    BY <1>2, <1>3, <1>4, <1>5, PipeAssumption
  <1> QED BY <1>2, <1>3, <1>4, <1>5, <1>6

(* A writer that copies is within the room that is left and within the buffer. *)
LEMMA WriterFacts ==
    ASSUME PInv, NEW w \in Writer, pc[w] \in {"copy1", "copy2", "advance"}
    PROVE  /\ read_pos \in Nat /\ write_pos \in Nat
           /\ read_pos <= write_pos /\ write_pos <= read_pos + Size
           /\ bytes[w] \in 1..(Size - (write_pos - read_pos)) /\ n[w] \in 0..bytes[w]
           /\ buf_pos[w] = write_pos % Size /\ buf_pos[w] \in 0..(Size - 1)
           /\ buf_pos[w] + n[w] <= Size
           /\ n[w] < bytes[w] => buf_pos[w] + n[w] = Size
           /\ taken[w] \in Nat
           /\ nbyte[w] \in Nat /\ bytes[w] <= nbyte[w]
  <1>1. w \in Thread
    BY DEF Thread
  <1>2. /\ bytes[w] <= Size - (write_pos - read_pos) /\ bytes[w] > 0 /\ bytes[w] <= nbyte[w]
        /\ buf_pos[w] = write_pos % Size
        /\ n[w] = Min2(Size - buf_pos[w], bytes[w])
    BY DEF PInv, WriteOK, TransferOK
  <1>3. /\ read_pos \in Nat /\ write_pos \in Nat /\ bytes[w] \in 0..Size
        /\ n[w] \in 0..Size /\ buf_pos[w] \in 0..(Size - 1)
        /\ taken[w] \in Nat /\ nbyte[w] \in Nat
    BY <1>1 DEF PInv, TypeOK
  <1>4. read_pos <= write_pos /\ write_pos <= read_pos + Size
    BY DEF PInv, InWindow
  <1>5. /\ n[w] <= bytes[w] /\ n[w] + buf_pos[w] <= Size
        /\ n[w] < bytes[w] => buf_pos[w] + n[w] = Size
    <2>1. n[w] = IF Size - buf_pos[w] < bytes[w] THEN Size - buf_pos[w] ELSE bytes[w]
      BY <1>2 DEF Min2
    <2> QED BY <1>3, <2>1, PipeAssumption
  <1>6. /\ bytes[w] \in 1..(Size - (write_pos - read_pos)) /\ n[w] \in 0..bytes[w]
        /\ buf_pos[w] + n[w] <= Size
    BY <1>2, <1>3, <1>4, <1>5, PipeAssumption
  <1> QED BY <1>2, <1>3, <1>4, <1>5, <1>6

(* The other threads are outside their transfers. *)
LEMMA OthersOutside ==
    ASSUME PInv, NEW t \in Thread, pc[t] \in Critical
    PROVE  \A u \in Thread : u # t => pc[u] \notin Critical
  BY DEF PInv, Exclusive

-----------------------------------------------------------------------------
(* Every action keeps the invariant *)

(* A read starts. *)
LEMMA ReadCallStep ==
    ASSUME PInv, NEW r \in Reader, NEW k \in Nat, ReadCall(r, k)
    PROVE  PInv'
  <1>1. TypeOK'
    BY PipeAssumption DEF ReadCall, Goto, locals, history, PInv, TypeOK, Pc, Thread
  <1>2. Exclusive'
    BY PipeAssumption DEF ReadCall, Goto, locals, history, PInv, Exclusive, TypeOK,
       Critical, Thread
  <1>3. InWindow'
    BY PipeAssumption DEF ReadCall, Goto, locals, history, PInv, InWindow, TypeOK
  <1>4. HistoryOK'
    BY PipeAssumption DEF ReadCall, Goto, locals, history, PInv, HistoryOK, TypeOK
  <1>5. StoredOK'
    BY PipeAssumption DEF ReadCall, Goto, locals, history, PInv, StoredOK, TypeOK
  <1>6. ReadOK'
    BY PipeAssumption DEF ReadCall, Goto, locals, history, PInv, ReadOK, TypeOK,
       TransferOK, Exclusive, Critical, Thread
  <1>7. WriteOK'
    BY PipeAssumption DEF ReadCall, Goto, locals, history, PInv, WriteOK, TypeOK,
       TransferOK, Exclusive, Critical, Thread
  <1> QED BY <1>1, <1>2, <1>3, <1>4, <1>5, <1>6, <1>7 DEF PInv

(* A write starts. *)
LEMMA WriteCallStep ==
    ASSUME PInv, NEW w \in Writer, NEW k \in Nat, WriteCall(w, k)
    PROVE  PInv'
  <1>1. TypeOK'
    BY PipeAssumption DEF WriteCall, Goto, locals, history, PInv, TypeOK, Pc, Thread
  <1>2. Exclusive'
    BY PipeAssumption DEF WriteCall, Goto, locals, history, PInv, Exclusive, TypeOK,
       Critical, Thread
  <1>3. InWindow'
    BY PipeAssumption DEF WriteCall, Goto, locals, history, PInv, InWindow, TypeOK
  <1>4. HistoryOK'
    BY PipeAssumption DEF WriteCall, Goto, locals, history, PInv, HistoryOK, TypeOK
  <1>5. StoredOK'
    BY PipeAssumption DEF WriteCall, Goto, locals, history, PInv, StoredOK, TypeOK
  <1>6. ReadOK'
    BY PipeAssumption DEF WriteCall, Goto, locals, history, PInv, ReadOK, TypeOK,
       TransferOK, Exclusive, Critical, Thread
  <1>7. WriteOK'
    BY PipeAssumption DEF WriteCall, Goto, locals, history, PInv, WriteOK, TypeOK,
       TransferOK, Exclusive, Critical, Thread
  <1> QED BY <1>1, <1>2, <1>3, <1>4, <1>5, <1>6, <1>7 DEF PInv

(* A thread takes the lock. *)
LEMMA LockStep ==
    ASSUME PInv, NEW t \in Thread, Lock(t)
    PROVE  PInv'
  <1>1. TypeOK'
    BY PipeAssumption DEF Lock, Goto, locals, history, PInv, TypeOK, Pc, Thread
  <1>2. Exclusive'
    BY PipeAssumption DEF Lock, Goto, locals, history, PInv, Exclusive, TypeOK,
       Critical, Thread
  <1>3. InWindow'
    BY PipeAssumption DEF Lock, Goto, locals, history, PInv, InWindow, TypeOK
  <1>4. HistoryOK'
    BY PipeAssumption DEF Lock, Goto, locals, history, PInv, HistoryOK, TypeOK
  <1>5. StoredOK'
    BY PipeAssumption DEF Lock, Goto, locals, history, PInv, StoredOK, TypeOK
  <1>6. ReadOK'
    BY PipeAssumption DEF Lock, Goto, locals, history, PInv, ReadOK, TypeOK,
       TransferOK, Exclusive, Critical, Thread
  <1>7. WriteOK'
    BY PipeAssumption DEF Lock, Goto, locals, history, PInv, WriteOK, TypeOK,
       TransferOK, Exclusive, Critical, Thread
  <1> QED BY <1>1, <1>2, <1>3, <1>4, <1>5, <1>6, <1>7 DEF PInv

(* A thread releases the lock to wait. *)
LEMMA WaitStep ==
    ASSUME PInv, NEW t \in Thread, pc[t] = "check", Wait(t)
    PROVE  PInv'
  <1>1. TypeOK'
    BY PipeAssumption DEF Wait, Goto, locals, history, PInv, TypeOK, Pc, Thread
  <1>2. Exclusive'
    BY PipeAssumption DEF Wait, Goto, locals, history, PInv, Exclusive, TypeOK,
       Critical, Thread
  <1>3. InWindow'
    BY PipeAssumption DEF Wait, Goto, locals, history, PInv, InWindow, TypeOK
  <1>4. HistoryOK'
    BY PipeAssumption DEF Wait, Goto, locals, history, PInv, HistoryOK, TypeOK
  <1>5. StoredOK'
    BY PipeAssumption DEF Wait, Goto, locals, history, PInv, StoredOK, TypeOK
  <1>6. ReadOK'
    BY PipeAssumption DEF Wait, Goto, locals, history, PInv, ReadOK, TypeOK,
       TransferOK, Exclusive, Critical, Thread
  <1>7. WriteOK'
    BY PipeAssumption DEF Wait, Goto, locals, history, PInv, WriteOK, TypeOK,
       TransferOK, Exclusive, Critical, Thread
  <1> QED BY <1>1, <1>2, <1>3, <1>4, <1>5, <1>6, <1>7 DEF PInv

(* A write returns. *)
LEMMA WriteReturnStep ==
    ASSUME PInv, NEW w \in Writer, WriteReturn(w)
    PROVE  PInv'
  <1>1. TypeOK'
    BY PipeAssumption DEF WriteReturn, Goto, locals, history, PInv, TypeOK, Pc, Thread
  <1>2. Exclusive'
    BY PipeAssumption DEF WriteReturn, Goto, locals, history, PInv, Exclusive, TypeOK,
       Critical, Thread
  <1>3. InWindow'
    BY PipeAssumption DEF WriteReturn, Goto, locals, history, PInv, InWindow, TypeOK
  <1>4. HistoryOK'
    BY PipeAssumption DEF WriteReturn, Goto, locals, history, PInv, HistoryOK, TypeOK
  <1>5. StoredOK'
    BY PipeAssumption DEF WriteReturn, Goto, locals, history, PInv, StoredOK, TypeOK
  <1>6. ReadOK'
    BY PipeAssumption DEF WriteReturn, Goto, locals, history, PInv, ReadOK, TypeOK,
       TransferOK, Exclusive, Critical, Thread
  <1>7. WriteOK'
    BY PipeAssumption DEF WriteReturn, Goto, locals, history, PInv, WriteOK, TypeOK,
       TransferOK, Exclusive, Critical, Thread
  <1> QED BY <1>1, <1>2, <1>3, <1>4, <1>5, <1>6, <1>7 DEF PInv

(* A read computes how much to copy from where. *)
LEMMA ReadPrepareStep ==
    ASSUME PInv, NEW r \in Reader, ReadPrepare(r)
    PROVE  PInv'
  <1>a. read_pos % Size \in 0..(Size - 1)
    BY ModRange DEF PInv, TypeOK
  <1>b. /\ r \in Thread
        /\ read_pos \in Nat /\ write_pos \in Nat /\ nbyte[r] \in Nat
        /\ read_pos <= write_pos /\ write_pos <= read_pos + Size
    BY DEF PInv, TypeOK, InWindow, Thread
  <1> DEFINE b == Min2(write_pos - read_pos, nbyte[r])
             at == read_pos % Size
             m == Min2(Size - at, b)
  <1>c. read_pos < write_pos
    BY <1>b, PipeAssumption DEF ReadPrepare, Empty
  <1>d. b \in 0..Size /\ b <= write_pos - read_pos /\ b <= nbyte[r]
    BY <1>b, <1>c, PipeAssumption DEF Min2
  <1>e. /\ pc[r] = "check" /\ pc' = [pc EXCEPT ![r] = "copy1"]
        /\ bytes' = [bytes EXCEPT ![r] = b] /\ n' = [n EXCEPT ![r] = m]
        /\ buf_pos' = [buf_pos EXCEPT ![r] = at]
        /\ UNCHANGED <<buffer, lock, read_pos, write_pos, nbyte, buf, taken, history>>
    BY DEF ReadPrepare, Prepare, Goto
  <1> HIDE DEF b
  <1>f. m \in 0..Size
    BY <1>a, <1>d, PipeAssumption DEF Min2
  <1>g. at \in 0..(Size - 1) /\ at = read_pos % Size /\ m = Min2(Size - at, b)
    BY <1>a
  <1> HIDE DEF m, at
  <1>h. \A u \in Thread : u # r => pc[u] \notin Critical
    BY <1>b, <1>e, OthersOutside DEF Critical
  <1>1. TypeOK'
    BY <1>b, <1>d, <1>e, <1>f, <1>g DEF PInv, TypeOK, Pc, history
  <1>2. Exclusive'
    BY <1>b, <1>e DEF PInv, TypeOK, Exclusive, Critical
  <1>3. InWindow'
    BY <1>e DEF PInv, InWindow
  <1>4. HistoryOK'
    BY <1>e DEF PInv, HistoryOK, history
  <1>5. StoredOK'
    BY <1>e DEF PInv, StoredOK, history
  <1>6. ReadOK'
    <2>1. TransferOK(r, read_pos, write_pos - read_pos)'
      BY <1>b, <1>d, <1>e, <1>g DEF PInv, TypeOK, TransferOK
    <2> QED BY <1>b, <1>d, <1>e, <1>h, <2>1 DEF PInv, TypeOK, ReadOK, TransferOK, Critical, Thread, history
  <1>7. WriteOK'
    BY <1>b, <1>e, <1>h, PipeAssumption DEF PInv, TypeOK, WriteOK, TransferOK, Critical, Thread, history
  <1> QED BY <1>1, <1>2, <1>3, <1>4, <1>5, <1>6, <1>7 DEF PInv

(* A write computes how much to copy where. *)
LEMMA WritePrepareStep ==
    ASSUME PInv, NEW w \in Writer, WritePrepare(w)
    PROVE  PInv'
  <1>a. write_pos % Size \in 0..(Size - 1)
    BY ModRange DEF PInv, TypeOK
  <1>b. /\ w \in Thread
        /\ read_pos \in Nat /\ write_pos \in Nat /\ nbyte[w] \in Nat
        /\ read_pos <= write_pos /\ write_pos <= read_pos + Size
    BY DEF PInv, TypeOK, InWindow, Thread
  <1> DEFINE b == Min2(Size - (write_pos - read_pos), nbyte[w])
             at == write_pos % Size
             m == Min2(Size - at, b)
  <1>c. nbyte[w] > 0 /\ write_pos < read_pos + Size
    BY <1>b, PipeAssumption DEF WritePrepare, Full
  <1>d. b \in 0..Size /\ b <= Size - (write_pos - read_pos) /\ b <= nbyte[w] /\ b > 0
    BY <1>b, <1>c, PipeAssumption DEF Min2
  <1>e. /\ pc[w] = "check" /\ pc' = [pc EXCEPT ![w] = "copy1"]
        /\ bytes' = [bytes EXCEPT ![w] = b] /\ n' = [n EXCEPT ![w] = m]
        /\ buf_pos' = [buf_pos EXCEPT ![w] = at]
        /\ UNCHANGED <<buffer, lock, read_pos, write_pos, nbyte, buf, taken, history>>
    BY DEF WritePrepare, Prepare, Goto
  <1> HIDE DEF b
  <1>f. m \in 0..Size
    BY <1>a, <1>d, PipeAssumption DEF Min2
  <1>g. at \in 0..(Size - 1) /\ at = write_pos % Size /\ m = Min2(Size - at, b)
    BY <1>a
  <1> HIDE DEF m, at
  <1>h. \A u \in Thread : u # w => pc[u] \notin Critical
    BY <1>b, <1>e, OthersOutside DEF Critical
  <1>1. TypeOK'
    BY <1>b, <1>d, <1>e, <1>f, <1>g DEF PInv, TypeOK, Pc, history
  <1>2. Exclusive'
    BY <1>b, <1>e DEF PInv, TypeOK, Exclusive, Critical
  <1>3. InWindow'
    BY <1>e DEF PInv, InWindow
  <1>4. HistoryOK'
    BY <1>e DEF PInv, HistoryOK, history
  <1>5. StoredOK'
    BY <1>e DEF PInv, StoredOK, history
  <1>6. ReadOK'
    BY <1>b, <1>e, <1>h, PipeAssumption DEF PInv, TypeOK, ReadOK, TransferOK, Critical, Thread, history
  <1>7. WriteOK'
    <2>1. TransferOK(w, write_pos, Size - (write_pos - read_pos))'
      BY <1>b, <1>d, <1>e, <1>g DEF PInv, TypeOK, TransferOK
    <2> QED BY <1>b, <1>d, <1>e, <1>h, <2>1 DEF PInv, TypeOK, WriteOK, TransferOK, Critical, Thread, history
  <1> QED BY <1>1, <1>2, <1>3, <1>4, <1>5, <1>6, <1>7 DEF PInv

(* The first memcpy of a read. *)
LEMMA ReadCopy1Step ==
    ASSUME PInv, NEW r \in Reader, ReadCopy1(r)
    PROVE  PInv'
  <1>e. /\ pc' = [pc EXCEPT ![r] = IF bytes[r] > n[r] THEN "copy2" ELSE "advance"]
        /\ pc[r] = "copy1"
        /\ UNCHANGED <<buffer, lock, read_pos, write_pos, nbyte, locals, taken, history>>
    BY DEF ReadCopy1, Goto, AfterCopy1
  <1>a. /\ bytes[r] \in 0..(write_pos - read_pos) /\ n[r] \in 0..bytes[r]
        /\ buf_pos[r] = read_pos % Size /\ buf_pos[r] \in 0..(Size - 1)
        /\ buf_pos[r] + n[r] <= Size
        /\ read_pos \in Nat /\ write_pos \in Nat /\ write_pos <= read_pos + Size
    BY <1>e, ReaderFacts
  <1>b. ASSUME NEW i \in 1..n[r]
        PROVE  buffer[buf_pos[r] + i - 1] = sent[read_pos + i] /\ sent[read_pos + i] \in Byte
    <2>1. /\ i - 1 \in 0..Size /\ buf_pos[r] + (i - 1) < Size
          /\ read_pos + (i - 1) \in read_pos..(write_pos - 1)
          /\ buf_pos[r] + i - 1 = buf_pos[r] + (i - 1) /\ (read_pos + (i - 1)) + 1 = read_pos + i
      BY <1>a, PipeAssumption
    <2>2. (read_pos + (i - 1)) % Size = buf_pos[r] + (i - 1)
      BY <1>a, <2>1, ModStay, Zenon
    <2>3. buffer[(read_pos + (i - 1)) % Size] = sent[(read_pos + (i - 1)) + 1]
      BY <2>1 DEF PInv, StoredOK
    <2>4. Len(sent) = write_pos /\ sent \in Seq(Byte)
      BY DEF PInv, HistoryOK, TypeOK
    <2>5. read_pos + i \in 1..Len(sent)
      BY <1>a, <2>4
    <2>6. sent[read_pos + i] \in Byte
      BY <2>4, <2>5
    <2> QED BY <2>1, <2>2, <2>3, <2>6
  <1> DEFINE new == [i \in 1..n[r] |-> buffer[buf_pos[r] + i - 1]]
  <1>c. /\ new \in Seq(Byte)
        /\ Len(new) = n[r]
        /\ \A i \in 1..n[r] : new[i] = sent[read_pos + i]
    <2>1. new \in [1..n[r] -> Byte] /\ n[r] \in Nat
      BY <1>a, <1>b
    <2>2. \A i \in 1..n[r] : new[i] = sent[read_pos + i]
      BY <1>b
    <2> HIDE DEF new
    <2> QED BY <2>1, <2>2, FunctionIsSeq
  <1>d. buf' = [buf EXCEPT ![r] = new]
    BY DEF ReadCopy1
  <1> HIDE DEF new
  <1>f. r \in Thread /\ r \notin Writer
    BY PipeAssumption DEF Thread
  <1>h. \A u \in Thread : u # r => pc[u] \notin Critical
    BY <1>e, <1>f, OthersOutside DEF Critical
  <1>1. TypeOK'
    BY <1>c, <1>d, <1>e, <1>f DEF PInv, TypeOK, Pc, locals, history
  <1>2. Exclusive'
    BY <1>e, <1>f DEF PInv, TypeOK, Exclusive, Critical
  <1>3. InWindow'
    BY <1>e DEF PInv, InWindow
  <1>4. HistoryOK'
    BY <1>e DEF PInv, HistoryOK, history
  <1>5. StoredOK'
    BY <1>e DEF PInv, StoredOK, history
  <1>6. ReadOK'
    <2>1. TransferOK(r, read_pos, write_pos - read_pos)'
      BY <1>e DEF PInv, ReadOK, TransferOK, locals
    <2>2. buf'[r] = new
      BY <1>d DEF PInv, TypeOK
    <2>3. ASSUME NEW u \in Reader, u # r PROVE pc'[u] \notin {"copy1", "copy2", "advance"}
      BY <1>e, <1>h, <2>3 DEF PInv, TypeOK, Critical, Thread
    <2>4. pc'[r] = (IF bytes[r] > n[r] THEN "copy2" ELSE "advance")
      BY <1>e, <1>f DEF PInv, TypeOK
    <2> QED BY SMTT(30), <1>a, <1>c, <1>e, <2>1, <2>2, <2>3, <2>4 DEF ReadOK, locals, history
  <1>7. WriteOK'
    <2>1. ASSUME NEW u \in Writer PROVE pc'[u] \notin {"copy1", "copy2", "advance"}
      BY <1>e, <1>f, <1>h DEF PInv, TypeOK, Critical, Thread
    <2> QED BY <2>1 DEF WriteOK
  <1> QED BY <1>1, <1>2, <1>3, <1>4, <1>5, <1>6, <1>7 DEF PInv

(* The second memcpy of a read, from the start of the buffer. *)
LEMMA ReadCopy2Step ==
    ASSUME PInv, NEW r \in Reader, ReadCopy2(r)
    PROVE  PInv'
  <1>e. /\ pc' = [pc EXCEPT ![r] = "advance"]
        /\ pc[r] = "copy2"
        /\ UNCHANGED <<buffer, lock, read_pos, write_pos, nbyte, locals, taken, history>>
    BY DEF ReadCopy2, Goto
  <1>p. n[r] < bytes[r] /\ Len(buf[r]) = n[r] /\ \A i \in 1..Len(buf[r]) : buf[r][i] = sent[read_pos + i]
    BY <1>e DEF PInv, ReadOK
  <1>a. /\ bytes[r] \in 0..(write_pos - read_pos) /\ n[r] \in 0..bytes[r]
        /\ buf_pos[r] = read_pos % Size /\ buf_pos[r] \in 0..(Size - 1)
        /\ buf_pos[r] + n[r] = Size
        /\ read_pos \in Nat /\ write_pos \in Nat /\ write_pos <= read_pos + Size
    BY <1>e, <1>p, ReaderFacts
  <1> DEFINE new == [i \in 1..bytes[r] |-> IF i <= n[r] THEN buf[r][i] ELSE buffer[i - n[r] - 1]]
  <1>b. ASSUME NEW i \in 1..bytes[r]
        PROVE  new[i] = sent[read_pos + i] /\ sent[read_pos + i] \in Byte
    <2>1. Len(sent) = write_pos /\ sent \in Seq(Byte)
      BY DEF PInv, HistoryOK, TypeOK
    <2>2. read_pos + i \in 1..Len(sent)
      <3>1. i \in Nat /\ 1 <= i /\ i <= bytes[r] /\ bytes[r] \in Nat
        BY <1>a
      <3>2. bytes[r] <= write_pos - read_pos /\ read_pos \in Nat /\ write_pos \in Nat
        BY <1>a
      <3> QED BY <2>1, <3>1, <3>2
    <2>3. sent[read_pos + i] \in Byte
      BY <2>1, <2>2, ElementOfSeq, Zenon
    <2>4. CASE i <= n[r]
      <3>1. i \in 1..Len(buf[r])
        BY <1>a, <1>p, <2>4
      <3> QED BY <1>p, <2>3, <2>4, <3>1
    <2>5. CASE ~(i <= n[r])
      <3>1. /\ i - 1 \in 0..Size /\ ~(buf_pos[r] + (i - 1) < Size)
            /\ read_pos + (i - 1) \in read_pos..(write_pos - 1)
            /\ buf_pos[r] + (i - 1) - Size = i - n[r] - 1 /\ (read_pos + (i - 1)) + 1 = read_pos + i
        BY <1>a, <2>5, PipeAssumption
      <3>2. (read_pos + (i - 1)) % Size = buf_pos[r] + (i - 1) - Size
        BY <1>a, <3>1, ModWrap, Zenon
      <3>3. buffer[(read_pos + (i - 1)) % Size] = sent[(read_pos + (i - 1)) + 1]
        BY <3>1 DEF PInv, StoredOK
      <3> QED BY <2>3, <2>5, <3>1, <3>2, <3>3
    <2> QED BY <2>4, <2>5
  <1>c. /\ new \in Seq(Byte)
        /\ Len(new) = bytes[r]
        /\ \A i \in 1..bytes[r] : new[i] = sent[read_pos + i]
    <2>1. new \in [1..bytes[r] -> Byte] /\ bytes[r] \in Nat
      <3>1. \A i \in 1..bytes[r] : (IF i <= n[r] THEN buf[r][i] ELSE buffer[i - n[r] - 1]) \in Byte
        BY <1>b
      <3> QED BY <1>a, <3>1
    <2>2. \A i \in 1..bytes[r] : new[i] = sent[read_pos + i]
      BY <1>b
    <2> HIDE DEF new
    <2> QED BY <2>1, <2>2, FunctionIsSeq
  <1>d. buf' = [buf EXCEPT ![r] = new]
    BY DEF ReadCopy2
  <1> HIDE DEF new
  <1>f. r \in Thread /\ r \notin Writer
    BY PipeAssumption DEF Thread
  <1>h. \A u \in Thread : u # r => pc[u] \notin Critical
    BY <1>e, <1>f, OthersOutside DEF Critical
  <1>1. TypeOK'
    BY <1>c, <1>d, <1>e, <1>f DEF PInv, TypeOK, Pc, locals, history
  <1>2. Exclusive'
    BY <1>e, <1>f DEF PInv, TypeOK, Exclusive, Critical
  <1>3. InWindow'
    BY <1>e DEF PInv, InWindow
  <1>4. HistoryOK'
    BY <1>e DEF PInv, HistoryOK, history
  <1>5. StoredOK'
    BY <1>e DEF PInv, StoredOK, history
  <1>6. ReadOK'
    <2>1. TransferOK(r, read_pos, write_pos - read_pos)'
      BY <1>e DEF PInv, ReadOK, TransferOK, locals
    <2>2. buf'[r] = new
      BY <1>d DEF PInv, TypeOK
    <2>3. ASSUME NEW u \in Reader, u # r PROVE pc'[u] \notin {"copy1", "copy2", "advance"}
      BY <1>e, <1>h, <2>3 DEF PInv, TypeOK, Critical, Thread
    <2>4. pc'[r] = "advance"
      BY <1>e, <1>f DEF PInv, TypeOK
    <2> QED BY <1>a, <1>c, <1>e, <2>1, <2>2, <2>3, <2>4 DEF ReadOK, locals, history
  <1>7. WriteOK'
    <2>1. ASSUME NEW u \in Writer PROVE pc'[u] \notin {"copy1", "copy2", "advance"}
      BY <1>e, <1>f, <1>h DEF PInv, TypeOK, Critical, Thread
    <2> QED BY <2>1 DEF WriteOK
  <1> QED BY <1>1, <1>2, <1>3, <1>4, <1>5, <1>6, <1>7 DEF PInv

(* The first memcpy of a write. *)
LEMMA WriteCopy1Step ==
    ASSUME PInv, NEW w \in Writer, WriteCopy1(w)
    PROVE  PInv'
  <1>e. /\ pc' = [pc EXCEPT ![w] = IF bytes[w] > n[w] THEN "copy2" ELSE "advance"]
        /\ pc[w] = "copy1"
        /\ UNCHANGED <<lock, read_pos, write_pos, nbyte, locals, buf, taken, history>>
    BY DEF WriteCopy1, Goto, AfterCopy1
  <1>a. /\ bytes[w] \in 1..(Size - (write_pos - read_pos)) /\ n[w] \in 0..bytes[w]
        /\ buf_pos[w] = write_pos % Size /\ buf_pos[w] \in 0..(Size - 1)
        /\ buf_pos[w] + n[w] <= Size
        /\ read_pos \in Nat /\ write_pos \in Nat
        /\ read_pos <= write_pos /\ write_pos <= read_pos + Size
        /\ taken[w] \in Nat
    BY <1>e, WriterFacts
  <1>b. \A x \in 0..(Size - 1) :
            buffer'[x] = IF buf_pos[w] <= x /\ x < buf_pos[w] + n[w]
                         THEN <<w, taken[w] + (x - buf_pos[w]) + 1>> ELSE buffer[x]
    BY DEF WriteCopy1
  <1>g. ASSUME NEW j \in 0..(n[w] - 1)
        PROVE  (write_pos + j) % Size = buf_pos[w] + j
    <2>1. j \in 0..Size /\ buf_pos[w] + j < Size
      BY <1>a, PipeAssumption
    <2> QED BY <1>a, <2>1, ModStay, Zenon
  <1>c. \A x \in 0..(Size - 1) : buffer'[x] # buffer[x] =>
            \E j \in 0..(bytes[w] - 1) : x = (write_pos + j) % Size
    <2> SUFFICES ASSUME NEW x \in 0..(Size - 1), buffer'[x] # buffer[x]
                 PROVE  \E j \in 0..(bytes[w] - 1) : x = (write_pos + j) % Size
      OBVIOUS
    <2>1. buf_pos[w] <= x /\ x < buf_pos[w] + n[w]
      BY <1>b
    <2>2. x - buf_pos[w] \in 0..(n[w] - 1) /\ x - buf_pos[w] \in 0..(bytes[w] - 1)
          /\ buf_pos[w] + (x - buf_pos[w]) = x
      BY <1>a, <2>1
    <2>3. (write_pos + (x - buf_pos[w])) % Size = x
      BY <1>g, <2>2
    <2> QED BY <2>2, <2>3
  <1>d. ASSUME NEW i \in read_pos..(write_pos - 1), NEW j \in 0..(bytes[w] - 1)
        PROVE  i % Size # (write_pos + j) % Size
    <2>1. /\ i \in Nat /\ write_pos + j \in Nat
          /\ i < write_pos + j /\ write_pos + j < i + Size
      BY <1>a, PipeAssumption
    <2> QED BY <2>1, ModDistinct, Zenon
  <1>i. w \in Thread /\ w \notin Reader
    BY PipeAssumption DEF Thread
  <1>j. \A u \in Thread : u # w => pc[u] \notin Critical
    BY <1>e, <1>i, OthersOutside DEF Critical
  <1>f. ASSUME NEW j \in 0..(n[w] - 1)
        PROVE  buffer'[(write_pos + j) % Size] = <<w, taken[w] + j + 1>>
    <2>1. /\ buf_pos[w] + j \in 0..(Size - 1)
          /\ buf_pos[w] <= buf_pos[w] + j /\ buf_pos[w] + j < buf_pos[w] + n[w]
          /\ taken[w] + ((buf_pos[w] + j) - buf_pos[w]) + 1 = taken[w] + j + 1
      BY <1>a, PipeAssumption
    <2>2. buffer'[buf_pos[w] + j] = <<w, taken[w] + j + 1>>
      BY <1>b, <2>1
    <2> QED BY <1>g, <2>2
  <1>h. buffer' \in [0..(Size - 1) -> Byte \cup {Zero}]
    <2>1. ASSUME NEW x \in 0..(Size - 1), buf_pos[w] <= x /\ x < buf_pos[w] + n[w]
          PROVE  <<w, taken[w] + (x - buf_pos[w]) + 1>> \in Byte
      <3>1. taken[w] + (x - buf_pos[w]) + 1 \in Nat
        BY <1>a, <2>1
      <3> QED BY <3>1 DEF Byte
    <2>2. buffer \in [0..(Size - 1) -> Byte \cup {Zero}]
      BY DEF PInv, TypeOK
    <2> QED BY <2>1, <2>2 DEF WriteCopy1
  <1>1. TypeOK'
    BY <1>e, <1>h, <1>i DEF PInv, TypeOK, Pc, locals, history
  <1>2. Exclusive'
    BY <1>e, <1>i DEF PInv, TypeOK, Exclusive, Critical
  <1>3. InWindow'
    BY <1>e DEF PInv, InWindow
  <1>4. HistoryOK'
    BY <1>e DEF PInv, HistoryOK, history
  <1>5. StoredOK'
    <2>1. ASSUME NEW i \in read_pos..(write_pos - 1) PROVE buffer'[i % Size] = sent[i + 1]
      <3>1. i \in Nat
        BY <1>a
      <3>2. i % Size \in 0..(Size - 1)
        BY <3>1, ModRange
      <3>3. buffer[i % Size] = sent[i + 1]
        BY DEF PInv, StoredOK
      <3>4. buffer'[i % Size] = buffer[i % Size]
        BY <1>c, <1>d, <3>2, Zenon
      <3> QED BY <3>3, <3>4
    <2> QED BY <1>e, <2>1 DEF StoredOK, history
  <1>6. ReadOK'
    <2>1. ASSUME NEW u \in Reader PROVE pc'[u] \notin {"copy1", "copy2", "advance"}
      BY <1>e, <1>i, <1>j DEF PInv, TypeOK, Critical, Thread
    <2> QED BY <2>1 DEF ReadOK
  <1>7. WriteOK'
    <2>1. TransferOK(w, write_pos, Size - (write_pos - read_pos))'
      BY <1>e DEF PInv, WriteOK, TransferOK, locals
    <2>2. ASSUME NEW u \in Writer, u # w PROVE pc'[u] \notin {"copy1", "copy2", "advance"}
      BY <1>e, <1>j, <2>2 DEF PInv, TypeOK, Critical, Thread
    <2>3. pc'[w] = (IF bytes[w] > n[w] THEN "copy2" ELSE "advance")
      BY <1>e, <1>i DEF PInv, TypeOK
    <2>4. bytes'[w] > 0 /\ bytes' = bytes /\ n' = n /\ write_pos' = write_pos /\ taken' = taken
      BY <1>a, <1>e DEF locals
    <2>5. bytes[w] > n[w] \/ bytes[w] = n[w]
      BY <1>a
    <2> QED BY <1>a, <1>f, <2>1, <2>2, <2>3, <2>4, <2>5 DEF WriteOK
  <1> QED BY <1>1, <1>2, <1>3, <1>4, <1>5, <1>6, <1>7 DEF PInv

(* The second memcpy of a write, to the start of the buffer. *)
LEMMA WriteCopy2Step ==
    ASSUME PInv, NEW w \in Writer, WriteCopy2(w)
    PROVE  PInv'
  <1>e. /\ pc' = [pc EXCEPT ![w] = "advance"]
        /\ pc[w] = "copy2"
        /\ UNCHANGED <<lock, read_pos, write_pos, nbyte, locals, buf, taken, history>>
    BY DEF WriteCopy2, Goto
  <1>p. /\ n[w] < bytes[w]
        /\ \A j \in 0..(n[w] - 1) : buffer[(write_pos + j) % Size] = <<w, taken[w] + j + 1>>
    BY <1>e DEF PInv, WriteOK
  <1>a. /\ bytes[w] \in 1..(Size - (write_pos - read_pos)) /\ n[w] \in 0..bytes[w]
        /\ buf_pos[w] = write_pos % Size /\ buf_pos[w] \in 0..(Size - 1)
        /\ buf_pos[w] + n[w] = Size
        /\ read_pos \in Nat /\ write_pos \in Nat
        /\ read_pos <= write_pos /\ write_pos <= read_pos + Size
        /\ taken[w] \in Nat
    BY <1>e, <1>p, WriterFacts
  <1>b. \A x \in 0..(Size - 1) :
            buffer'[x] = IF x < bytes[w] - n[w] THEN <<w, taken[w] + n[w] + x + 1>> ELSE buffer[x]
    BY DEF WriteCopy2
  <1>g. ASSUME NEW j \in 0..(bytes[w] - 1)
        PROVE  (write_pos + j) % Size = IF j < n[w] THEN buf_pos[w] + j ELSE j - n[w]
    <2>1. j \in 0..Size
      BY <1>a, PipeAssumption
    <2>2. CASE j < n[w]
      <3>1. buf_pos[w] + j < Size
        BY <1>a, <2>2
      <3> QED BY <1>a, <2>1, <2>2, <3>1, ModStay
    <2>3. CASE ~(j < n[w])
      <3>1. ~(buf_pos[w] + j < Size) /\ buf_pos[w] + j - Size = j - n[w]
        BY <1>a, <2>3, PipeAssumption
      <3>2. (write_pos + j) % Size = buf_pos[w] + j - Size
        BY <1>a, <2>1, <3>1, ModWrap, Zenon
      <3> QED BY <2>3, <3>1, <3>2
    <2> QED BY <2>2, <2>3
  <1>c. \A x \in 0..(Size - 1) : buffer'[x] # buffer[x] =>
            \E j \in 0..(bytes[w] - 1) : x = (write_pos + j) % Size
    <2> SUFFICES ASSUME NEW x \in 0..(Size - 1), buffer'[x] # buffer[x]
                 PROVE  \E j \in 0..(bytes[w] - 1) : x = (write_pos + j) % Size
      OBVIOUS
    <2>1. x < bytes[w] - n[w]
      BY <1>b
    <2>2. /\ n[w] + x \in 0..(bytes[w] - 1) /\ ~(n[w] + x < n[w]) /\ (n[w] + x) - n[w] = x
      BY <1>a, <2>1
    <2>3. (write_pos + (n[w] + x)) % Size = x
      BY <1>g, <2>2
    <2> QED BY <2>2, <2>3
  <1>d. ASSUME NEW i \in read_pos..(write_pos - 1), NEW j \in 0..(bytes[w] - 1)
        PROVE  i % Size # (write_pos + j) % Size
    <2>1. /\ i \in Nat /\ write_pos + j \in Nat
          /\ i < write_pos + j /\ write_pos + j < i + Size
      BY <1>a, PipeAssumption
    <2> QED BY <2>1, ModDistinct, Zenon
  <1>i. w \in Thread /\ w \notin Reader
    BY PipeAssumption DEF Thread
  <1>j. \A u \in Thread : u # w => pc[u] \notin Critical
    BY <1>e, <1>i, OthersOutside DEF Critical
  <1>f. ASSUME NEW j \in 0..(bytes[w] - 1)
        PROVE  buffer'[(write_pos + j) % Size] = <<w, taken[w] + j + 1>>
    <2>1. CASE j < n[w]
      <3>0. j \in 0..(n[w] - 1)
        BY <1>a, <2>1
      <3>1. buffer[(write_pos + j) % Size] = <<w, taken[w] + j + 1>>
        BY <1>p, <3>0
      <3>2. (write_pos + j) % Size = buf_pos[w] + j
        BY <1>g, <2>1
      <3>3. buf_pos[w] + j \in 0..(Size - 1) /\ ~(buf_pos[w] + j < bytes[w] - n[w])
        BY <1>a, <3>0, PipeAssumption
      <3> QED BY <1>b, <3>1, <3>2, <3>3
    <2>2. CASE ~(j < n[w])
      <3>1. (write_pos + j) % Size = j - n[w]
        BY <1>g, <2>2
      <3>2. /\ j - n[w] \in 0..(Size - 1) /\ j - n[w] < bytes[w] - n[w]
            /\ taken[w] + n[w] + (j - n[w]) + 1 = taken[w] + j + 1
        BY <1>a, <2>2, PipeAssumption
      <3> QED BY <1>b, <3>1, <3>2
    <2> QED BY <2>1, <2>2
  <1>h. buffer' \in [0..(Size - 1) -> Byte \cup {Zero}]
    <2>1. ASSUME NEW x \in 0..(Size - 1), x < bytes[w] - n[w]
          PROVE  <<w, taken[w] + n[w] + x + 1>> \in Byte
      <3>1. taken[w] + n[w] + x + 1 \in Nat
        BY <1>a, <2>1
      <3> QED BY <3>1 DEF Byte
    <2>2. buffer \in [0..(Size - 1) -> Byte \cup {Zero}]
      BY DEF PInv, TypeOK
    <2> QED BY <2>1, <2>2 DEF WriteCopy2
  <1>1. TypeOK'
    BY <1>e, <1>h, <1>i DEF PInv, TypeOK, Pc, locals, history
  <1>2. Exclusive'
    BY <1>e, <1>i DEF PInv, TypeOK, Exclusive, Critical
  <1>3. InWindow'
    BY <1>e DEF PInv, InWindow
  <1>4. HistoryOK'
    BY <1>e DEF PInv, HistoryOK, history
  <1>5. StoredOK'
    <2>1. ASSUME NEW i \in read_pos..(write_pos - 1) PROVE buffer'[i % Size] = sent[i + 1]
      <3>1. i \in Nat
        BY <1>a
      <3>2. i % Size \in 0..(Size - 1)
        BY <3>1, ModRange
      <3>3. buffer[i % Size] = sent[i + 1]
        BY DEF PInv, StoredOK
      <3>4. buffer'[i % Size] = buffer[i % Size]
        BY <1>c, <1>d, <3>2, Zenon
      <3> QED BY <3>3, <3>4
    <2> QED BY <1>e, <2>1 DEF StoredOK, history
  <1>6. ReadOK'
    <2>1. ASSUME NEW u \in Reader PROVE pc'[u] \notin {"copy1", "copy2", "advance"}
      BY <1>e, <1>i, <1>j DEF PInv, TypeOK, Critical, Thread
    <2> QED BY <2>1 DEF ReadOK
  <1>7. WriteOK'
    <2>1. TransferOK(w, write_pos, Size - (write_pos - read_pos))'
      BY <1>e DEF PInv, WriteOK, TransferOK, locals
    <2>2. ASSUME NEW u \in Writer, u # w PROVE pc'[u] \notin {"copy1", "copy2", "advance"}
      BY <1>e, <1>j, <2>2 DEF PInv, TypeOK, Critical, Thread
    <2>3. pc'[w] = "advance"
      BY <1>e, <1>i DEF PInv, TypeOK
    <2>4. bytes'[w] > 0 /\ bytes' = bytes /\ n' = n /\ write_pos' = write_pos /\ taken' = taken
      BY <1>a, <1>e DEF locals
    <2> QED BY <1>a, <1>f, <2>1, <2>2, <2>3, <2>4 DEF WriteOK
  <1> QED BY <1>1, <1>2, <1>3, <1>4, <1>5, <1>6, <1>7 DEF PInv

(* The bytes that were copied leave the ring. *)
LEMMA ReadAdvanceStep ==
    ASSUME PInv, NEW r \in Reader, ReadAdvance(r)
    PROVE  PInv'
  <1>e. /\ pc[r] = "advance" /\ pc' = [pc EXCEPT ![r] = "idle"]
        /\ read_pos' = read_pos + bytes[r] /\ lock' = Free
        /\ nbyte' = [nbyte EXCEPT ![r] = 0] /\ buf' = [buf EXCEPT ![r] = <<>>]
        /\ bytes' = [bytes EXCEPT ![r] = 0] /\ n' = [n EXCEPT ![r] = 0]
        /\ buf_pos' = [buf_pos EXCEPT ![r] = 0]
        /\ UNCHANGED <<buffer, write_pos, taken, sent>>
    BY DEF ReadAdvance, Goto, Forget
  <1>a. /\ bytes[r] \in 0..(write_pos - read_pos)
        /\ read_pos \in Nat /\ write_pos \in Nat
        /\ read_pos <= write_pos /\ write_pos <= read_pos + Size
    BY <1>e, ReaderFacts
  <1>p. Len(buf[r]) = bytes[r] /\ \A i \in 1..bytes[r] : buf[r][i] = sent[read_pos + i]
    BY <1>e DEF PInv, ReadOK
  <1>b. /\ rcvd' \in Seq(Byte)
        /\ Len(rcvd') = read_pos + bytes[r]
        /\ \A i \in 1..(read_pos + bytes[r]) : rcvd'[i] = sent[i]
    <2>1. rcvd \in Seq(Byte) /\ buf[r] \in Seq(Byte) /\ rcvd' = rcvd \o buf[r] /\ Len(rcvd) = read_pos
      BY DEF ReadAdvance, PInv, TypeOK, HistoryOK
    <2>2. /\ rcvd' \in Seq(Byte)
          /\ Len(rcvd') = Len(rcvd) + Len(buf[r])
          /\ \A i \in 1..(Len(rcvd) + Len(buf[r])) :
                rcvd'[i] = IF i <= Len(rcvd) THEN rcvd[i] ELSE buf[r][i - Len(rcvd)]
      BY <2>1, ConcatProperties, Zenon
    <2>3. ASSUME NEW i \in 1..(read_pos + bytes[r]) PROVE rcvd'[i] = sent[i]
      <3>1. CASE i <= read_pos
        <4>1. i \in 1..read_pos
          BY <1>a, <3>1
        <4>2. rcvd[i] = sent[i]
          BY <4>1 DEF PInv, HistoryOK
        <4> QED BY <1>p, <2>1, <2>2, <3>1, <4>2
      <3>2. CASE ~(i <= read_pos)
        <4>1. i - read_pos \in 1..bytes[r] /\ read_pos + (i - read_pos) = i
          BY <1>a, <3>2
        <4>2. rcvd'[i] = buf[r][i - read_pos]
          BY <1>p, <2>1, <2>2, <3>2
        <4> QED BY <1>p, <4>1, <4>2
      <3> QED BY <3>1, <3>2
    <2> QED BY <1>p, <2>1, <2>2, <2>3
  <1>f. r \in Thread /\ r \notin Writer
    BY PipeAssumption DEF Thread
  <1>h. \A u \in Thread : u # r => pc[u] \notin Critical
    BY <1>e, <1>f, OthersOutside DEF Critical
  <1>i. \A u \in Thread : pc'[u] \notin Critical
    BY <1>e, <1>f, <1>h DEF PInv, TypeOK, Critical
  <1>1. TypeOK'
    <2>1. read_pos' \in Nat /\ 0 \in 0..Size /\ 0 \in 0..(Size - 1) /\ 0 \in Nat
      BY <1>a, <1>e, PipeAssumption
    <2>2. <<>> \in Seq(Byte) /\ "idle" \in Pc
      BY DEF Pc
    <2> QED BY <1>b, <1>e, <1>f, <2>1, <2>2 DEF PInv, TypeOK
  <1>2. Exclusive'
    BY <1>e, <1>i, PipeAssumption DEF Exclusive
  <1>3. InWindow'
    BY <1>a, <1>e, PipeAssumption DEF InWindow
  <1>4. HistoryOK'
    BY <1>a, <1>b, <1>e DEF PInv, HistoryOK
  <1>5. StoredOK'
    BY <1>a, <1>e DEF PInv, StoredOK
  <1>6. ReadOK'
    BY <1>i DEF ReadOK, Critical, Thread
  <1>7. WriteOK'
    BY <1>i DEF WriteOK, Critical, Thread
  <1> QED BY <1>1, <1>2, <1>3, <1>4, <1>5, <1>6, <1>7 DEF PInv

(* What a write adds to the history. *)
LEMMA WriteAdvanceSent ==
    ASSUME PInv, NEW w \in Writer, WriteAdvance(w)
    PROVE  /\ sent' \in Seq(Byte)
           /\ Len(sent') = write_pos + bytes[w]
           /\ \A i \in 1..write_pos : sent'[i] = sent[i]
           /\ \A i \in 1..bytes[w] : sent'[write_pos + i] = <<w, taken[w] + i>>
  <1>a. bytes[w] \in Nat /\ write_pos \in Nat /\ taken[w] \in Nat
    BY WriterFacts DEF WriteAdvance
  <1> DEFINE new == [i \in 1..bytes[w] |-> <<w, taken[w] + i>>]
  <1>0. ASSUME NEW i \in 1..bytes[w] PROVE <<w, taken[w] + i>> \in Byte
    <2>1. taken[w] + i \in Nat
      BY <1>a
    <2> QED BY <2>1 DEF Byte
  <1>1. new \in [1..bytes[w] -> Byte] /\ bytes[w] \in Nat
    BY <1>a, <1>0
  <1>2. \A i \in 1..bytes[w] : new[i] = <<w, taken[w] + i>>
    OBVIOUS
  <1>3. sent \in Seq(Byte) /\ sent' = sent \o new /\ Len(sent) = write_pos
    BY DEF WriteAdvance, PInv, TypeOK, HistoryOK
  <1> HIDE DEF new
  <1>4. new \in Seq(Byte) /\ Len(new) = bytes[w]
    BY <1>1, FunctionIsSeq
  <1>5. /\ sent' \in Seq(Byte)
        /\ Len(sent') = Len(sent) + Len(new)
        /\ \A i \in 1..(Len(sent) + Len(new)) :
              sent'[i] = IF i <= Len(sent) THEN sent[i] ELSE new[i - Len(sent)]
    BY <1>3, <1>4, ConcatProperties, Zenon
  <1>6. ASSUME NEW i \in 1..bytes[w] PROVE sent'[write_pos + i] = <<w, taken[w] + i>>
    <2>1. /\ write_pos + i \in 1..(Len(sent) + Len(new)) /\ ~(write_pos + i <= Len(sent))
          /\ (write_pos + i) - Len(sent) = i
      BY <1>a, <1>3, <1>4
    <2> QED BY <1>2, <1>5, <2>1
  <1>7. ASSUME NEW i \in 1..write_pos PROVE sent'[i] = sent[i]
    <2>1. i \in 1..(Len(sent) + Len(new)) /\ i <= Len(sent)
      BY <1>a, <1>3, <1>4
    <2> QED BY <1>5, <2>1
  <1> QED BY <1>3, <1>4, <1>5, <1>6, <1>7

(* The bytes that were copied enter the ring. *)
LEMMA WriteAdvanceStep ==
    ASSUME PInv, NEW w \in Writer, WriteAdvance(w)
    PROVE  PInv'
  <1>e. /\ pc[w] = "advance" /\ pc' = [pc EXCEPT ![w] = "check"]
        /\ write_pos' = write_pos + bytes[w]
        /\ nbyte' = [nbyte EXCEPT ![w] = nbyte[w] - bytes[w]]
        /\ taken' = [taken EXCEPT ![w] = taken[w] + bytes[w]]
        /\ bytes' = [bytes EXCEPT ![w] = 0] /\ n' = [n EXCEPT ![w] = 0]
        /\ buf_pos' = [buf_pos EXCEPT ![w] = 0]
        /\ UNCHANGED <<buffer, lock, read_pos, buf, rcvd>>
    BY DEF WriteAdvance, Goto, Forget
  <1>a. /\ bytes[w] \in 1..(Size - (write_pos - read_pos)) /\ bytes[w] <= nbyte[w]
        /\ read_pos \in Nat /\ write_pos \in Nat
        /\ read_pos <= write_pos /\ write_pos <= read_pos + Size
        /\ taken[w] \in Nat /\ nbyte[w] \in Nat
    BY <1>e, WriterFacts
  <1>p. \A j \in 0..(bytes[w] - 1) : buffer[(write_pos + j) % Size] = <<w, taken[w] + j + 1>>
    BY <1>e DEF PInv, WriteOK
  <1>b. /\ sent' \in Seq(Byte)
        /\ Len(sent') = write_pos + bytes[w]
        /\ \A i \in 1..write_pos : sent'[i] = sent[i]
        /\ \A i \in 1..bytes[w] : sent'[write_pos + i] = <<w, taken[w] + i>>
    BY WriteAdvanceSent
  <1>i. w \in Thread /\ w \notin Reader
    BY PipeAssumption DEF Thread
  <1>j. \A u \in Thread : u # w => pc[u] \notin Critical
    BY <1>e, <1>i, OthersOutside DEF Critical
  <1>k. \A u \in Thread : pc'[u] \notin {"copy1", "copy2", "advance"}
    BY <1>e, <1>i, <1>j DEF PInv, TypeOK, Critical
  <1>1. TypeOK'
    <2>1. /\ write_pos' \in Nat /\ 0 \in 0..Size /\ 0 \in 0..(Size - 1)
          /\ nbyte[w] - bytes[w] \in Nat /\ taken[w] + bytes[w] \in Nat
      BY <1>a, <1>e, PipeAssumption
    <2>2. "check" \in Pc
      BY DEF Pc
    <2> QED BY <1>b, <1>e, <1>i, <2>1, <2>2 DEF PInv, TypeOK
  <1>2. Exclusive'
    BY <1>e, <1>i DEF PInv, TypeOK, Exclusive, Critical
  <1>3. InWindow'
    BY <1>a, <1>e, PipeAssumption DEF InWindow
  <1>4. HistoryOK'
    <2>1. Len(rcvd) = read_pos /\ \A i \in 1..read_pos : rcvd[i] = sent[i]
      BY DEF PInv, HistoryOK
    <2>2. \A i \in 1..read_pos : i \in 1..write_pos
      BY <1>a
    <2> QED BY <1>b, <1>e, <2>1, <2>2 DEF HistoryOK
  <1>5. StoredOK'
    <2>1. ASSUME NEW i \in read_pos..(write_pos + bytes[w] - 1)
          PROVE  buffer[i % Size] = sent'[i + 1]
      <3>1. CASE i < write_pos
        <4>1. i \in read_pos..(write_pos - 1) /\ i + 1 \in 1..write_pos
          BY <1>a, <3>1
        <4> QED BY <1>b, <4>1 DEF PInv, StoredOK
      <3>2. CASE ~(i < write_pos)
        <4>1. /\ i - write_pos \in 0..(bytes[w] - 1) /\ write_pos + (i - write_pos) = i
              /\ (i - write_pos) + 1 \in 1..bytes[w] /\ write_pos + ((i - write_pos) + 1) = i + 1
              /\ taken[w] + (i - write_pos) + 1 = taken[w] + ((i - write_pos) + 1)
          BY <1>a, <3>2
        <4>2. buffer[i % Size] = <<w, taken[w] + (i - write_pos) + 1>>
          BY <1>p, <4>1
        <4>3. sent'[i + 1] = <<w, taken[w] + ((i - write_pos) + 1)>>
          BY <1>b, <4>1
        <4> QED BY <4>1, <4>2, <4>3
      <3> QED BY <3>1, <3>2
    <2> QED BY <1>a, <1>e, <2>1 DEF StoredOK
  <1>6. ReadOK'
    BY <1>k DEF ReadOK, Thread
  <1>7. WriteOK'
    BY <1>k DEF WriteOK, Thread
  <1> QED BY <1>1, <1>2, <1>3, <1>4, <1>5, <1>6, <1>7 DEF PInv
-----------------------------------------------------------------------------
(* The invariant holds in every state *)

(* A new pipe is empty. *)
LEMMA InitInv == Init => PInv
  <1> SUFFICES ASSUME Init PROVE PInv
    OBVIOUS
  <1> USE PipeAssumption DEF Init
  <1>1. TypeOK
    BY DEF TypeOK, Pc
  <1>2. Exclusive
    BY DEF Exclusive, Critical
  <1>3. InWindow /\ HistoryOK /\ StoredOK
    BY DEF InWindow, HistoryOK, StoredOK
  <1>4. ReadOK /\ WriteOK
    BY DEF ReadOK, WriteOK, Thread
  <1> QED BY <1>1, <1>2, <1>3, <1>4 DEF PInv

(* Every step keeps it. *)
LEMMA NextInv == PInv /\ [Next]_vars => PInv'
  <1> SUFFICES ASSUME PInv, [Next]_vars PROVE PInv'
    OBVIOUS
  <1>1. CASE UNCHANGED vars
    BY SMTT(30), <1>1 DEF PInv, TypeOK, Exclusive, InWindow, HistoryOK, StoredOK, ReadOK, WriteOK,
       TransferOK, vars, locals, history
  <1>2. ASSUME NEW r \in Reader, ReadStep(r) PROVE PInv'
    <2>1. r \in Thread
      BY DEF Thread
    <2>2. CASE ReadWait(r)
      BY <2>1, <2>2, WaitStep DEF ReadWait
    <2>3. CASE ReadPrepare(r)
      BY <2>3, ReadPrepareStep
    <2>4. CASE ReadCopy1(r)
      BY <2>4, ReadCopy1Step
    <2>5. CASE ReadCopy2(r)
      BY <2>5, ReadCopy2Step
    <2>6. CASE ReadAdvance(r)
      BY <2>6, ReadAdvanceStep
    <2> QED BY <1>2, <2>2, <2>3, <2>4, <2>5, <2>6 DEF ReadStep
  <1>3. ASSUME NEW w \in Writer, WriteStep(w) PROVE PInv'
    <2>1. w \in Thread
      BY DEF Thread
    <2>2. CASE WriteWait(w)
      BY <2>1, <2>2, WaitStep DEF WriteWait
    <2>3. CASE WritePrepare(w)
      BY <2>3, WritePrepareStep
    <2>4. CASE WriteCopy1(w)
      BY <2>4, WriteCopy1Step
    <2>5. CASE WriteCopy2(w)
      BY <2>5, WriteCopy2Step
    <2>6. CASE WriteAdvance(w)
      BY <2>6, WriteAdvanceStep
    <2>7. CASE WriteReturn(w)
      BY <2>7, WriteReturnStep
    <2> QED BY <1>3, <2>2, <2>3, <2>4, <2>5, <2>6, <2>7 DEF WriteStep
  <1>4. \A k \in 0..MaxRequest : k \in Nat
    BY PipeAssumption
  <1>5. ASSUME NEW r \in Reader, NEW k \in 0..MaxRequest, ReadCall(r, k) PROVE PInv'
    BY <1>4, <1>5, ReadCallStep
  <1>6. ASSUME NEW w \in Writer, NEW k \in 0..MaxRequest, WriteCall(w, k) PROVE PInv'
    BY <1>4, <1>6, WriteCallStep
  <1>7. ASSUME NEW t \in Thread, Lock(t) PROVE PInv'
    BY <1>7, LockStep
  <1> QED BY <1>1, <1>2, <1>3, <1>5, <1>6, <1>7 DEF Next

(* PInv is an inductive invariant of the pipe. *)
THEOREM Invariance == Spec => []PInv
  BY InitInv, NextInv, PTL DEF Spec

(* The locals and the positions of every call have their types: in particular
   no memcpy of pipe_read or pipe_write is longer than the buffer or starts
   outside it. *)
THEOREM TypeCorrect == Spec => []TypeOK
  <1>1. PInv => TypeOK
    BY DEF PInv
  <1> QED BY <1>1, Invariance, PTL

(* d->lock excludes: at most one thread is between spin_lock and spin_unlock. *)
THEOREM LockExcludes == Spec => []Exclusive
  <1>1. PInv => Exclusive
    BY DEF PInv
  <1> QED BY <1>1, Invariance, PTL

(* Neither end overtakes the other, whatever the interleaving of the waits. *)
THEOREM WindowHolds == Spec => []InWindow
  <1>1. PInv => InWindow
    BY DEF PInv
  <1> QED BY <1>1, Invariance, PTL

(* The ring neither loses, nor repeats, nor reorders a byte: what was received
   followed by what is in the ring is what was sent. *)
THEOREM RingConserves == Spec => []Conserved
  <1>1. ASSUME PInv PROVE Conserved
    <2>1. /\ rcvd \in Seq(Byte) /\ sent \in Seq(Byte) /\ read_pos \in Nat /\ write_pos \in Nat
          /\ Len(sent) = write_pos /\ Len(rcvd) = read_pos /\ read_pos <= write_pos
          /\ \A i \in 1..read_pos : rcvd[i] = sent[i]
      BY <1>1 DEF PInv, TypeOK, InWindow, HistoryOK
    <2>2. ASSUME NEW i \in 1..(write_pos - read_pos)
          PROVE  Content[i] = sent[read_pos + i] /\ sent[read_pos + i] \in Byte
      <3>1. /\ read_pos + i - 1 \in read_pos..(write_pos - 1)
            /\ (read_pos + i - 1) + 1 = read_pos + i
            /\ read_pos + i \in 1..Len(sent)
        BY <2>1
      <3>2. buffer[(read_pos + i - 1) % Size] = sent[(read_pos + i - 1) + 1]
        BY <1>1, <3>1 DEF PInv, StoredOK
      <3>3. sent[read_pos + i] \in Byte
        BY <2>1, <3>1, ElementOfSeq, Zenon
      <3> QED BY <3>1, <3>2, <3>3 DEF Content
    <2>3. Content \in [1..(write_pos - read_pos) -> Byte]
      <3>1. \A i \in 1..(write_pos - read_pos) : buffer[(read_pos + i - 1) % Size] \in Byte
        BY <2>2 DEF Content
      <3> QED BY <3>1 DEF Content
    <2>4. write_pos - read_pos \in Nat
      BY <2>1
    <2>5. Content \in Seq(Byte) /\ Len(Content) = write_pos - read_pos
      BY <2>3, <2>4, FunctionIsSeq
    <2>6. /\ rcvd \o Content \in Seq(Byte)
          /\ Len(rcvd \o Content) = Len(rcvd) + Len(Content)
          /\ \A i \in 1..(Len(rcvd) + Len(Content)) :
                (rcvd \o Content)[i] = IF i <= Len(rcvd) THEN rcvd[i] ELSE Content[i - Len(rcvd)]
      BY <2>1, <2>5, ConcatProperties, Zenon
    <2> DEFINE whole == rcvd \o Content
    <2> HIDE DEF whole
    <2>7. whole \in Seq(Byte) /\ Len(whole) = Len(sent)
      BY <2>1, <2>5, <2>6 DEF whole
    <2>8. ASSUME NEW i \in 1..Len(sent) PROVE whole[i] = sent[i]
      <3>1. i \in 1..(Len(rcvd) + Len(Content))
        BY <2>1, <2>5
      <3>2. whole[i] = IF i <= Len(rcvd) THEN rcvd[i] ELSE Content[i - Len(rcvd)]
        BY <2>6, <3>1 DEF whole
      <3>3. CASE i <= Len(rcvd)
        BY <2>1, <3>2, <3>3
      <3>4. CASE ~(i <= Len(rcvd))
        <4>1. i - read_pos \in 1..(write_pos - read_pos) /\ read_pos + (i - read_pos) = i
          BY <2>1, <3>4
        <4> QED BY <2>1, <2>2, <3>2, <3>4, <4>1
      <3> QED BY <3>3, <3>4
    <2>9. whole = sent
      BY <2>1, <2>7, <2>8, SeqEqual
    <2> QED BY <2>9 DEF Conserved, whole
  <1> QED BY <1>1, Invariance, PTL

-----------------------------------------------------------------------------
(* The order of one writer's bytes *)

(* A chunk that a writer adds carries on where its last one ended, and is not *)
(* mixed up with the others' (pipe.c:111-117).                                *)
LEMMA OrderStep ==
    ASSUME PInv, WriterOrder, NEW w \in Writer, WriteAdvance(w)
    PROVE  WriterOrder'
  <1>1. /\ bytes[w] \in Nat /\ write_pos \in Nat /\ taken[w] \in Nat
    BY WriterFacts DEF WriteAdvance
  <1>2. /\ sent' \in Seq(Byte) /\ Len(sent') = write_pos + bytes[w]
        /\ \A i \in 1..write_pos : sent'[i] = sent[i]
        /\ \A i \in 1..bytes[w] : sent'[write_pos + i] = <<w, taken[w] + i>>
    BY WriteAdvanceSent
  <1>3. DOMAIN sent = 1..write_pos /\ sent \in Seq(Byte)
    BY DEF PInv, TypeOK, HistoryOK
  <1>4. DOMAIN sent' = 1..(write_pos + bytes[w])
    BY <1>2
  <1>5. /\ taken \in [Writer -> Nat]
        /\ taken' = [taken EXCEPT ![w] = taken[w] + bytes[w]]
    BY DEF WriteAdvance, PInv, TypeOK
  <1>6. ASSUME NEW i \in 1..(write_pos + bytes[w]), ~(i <= write_pos)
        PROVE  /\ i - write_pos \in 1..bytes[w]
               /\ sent'[i] = <<w, taken[w] + (i - write_pos)>>
    <2>1. i - write_pos \in 1..bytes[w] /\ write_pos + (i - write_pos) = i
      BY <1>1, <1>6
    <2> QED BY <1>2, <2>1
  <1>7. ASSUME NEW v \in Writer, NEW i \in 1..(write_pos + bytes[w]), NEW j \in 1..(write_pos + bytes[w]),
               i < j, sent'[i][1] = v, sent'[j][1] = v
        PROVE  sent'[i][2] < sent'[j][2]
    <2>1. CASE j <= write_pos
      <3>1. i \in 1..write_pos /\ j \in 1..write_pos
        BY <1>1, <1>7, <2>1
      <3>2. sent'[i] = sent[i] /\ sent'[j] = sent[j]
        BY <1>2, <3>1
      <3> QED BY <1>3, <1>7, <3>1, <3>2 DEF WriterOrder
    <2>2. CASE ~(j <= write_pos) /\ i <= write_pos
      <3>1. j - write_pos \in 1..bytes[w] /\ sent'[j] = <<w, taken[w] + (j - write_pos)>>
        BY <1>6, <2>2
      <3>2. i \in 1..write_pos
        BY <1>1, <2>2
      <3>3. sent'[i] = sent[i]
        BY <1>2, <3>2
      <3>4. v = w
        BY <1>7, <3>1
      <3>5. sent[i][2] \in 1..taken[w]
        BY <1>3, <1>7, <3>2, <3>3, <3>4 DEF WriterOrder
      <3>6. sent'[j][2] = taken[w] + (j - write_pos)
        BY <3>1
      <3> QED BY <1>1, <3>1, <3>3, <3>5, <3>6
    <2>3. CASE ~(j <= write_pos) /\ ~(i <= write_pos)
      <3>1. sent'[j][2] = taken[w] + (j - write_pos) /\ sent'[i][2] = taken[w] + (i - write_pos)
        BY <1>6, <2>3
      <3> QED BY <1>1, <1>7, <3>1
    <2> QED BY <2>1, <2>2, <2>3
  <1>8. ASSUME NEW v \in Writer, NEW i \in 1..(write_pos + bytes[w]), sent'[i][1] = v
        PROVE  sent'[i][2] \in 1..taken'[v]
    <2>1. CASE i <= write_pos
      <3>1. i \in 1..write_pos /\ sent'[i] = sent[i]
        BY <1>1, <1>2, <2>1
      <3>2. sent[i][2] \in 1..taken[v] /\ taken[v] \in Nat
        BY <1>3, <1>5, <1>8, <3>1 DEF WriterOrder
      <3>3. taken'[v] \in Nat /\ taken[v] <= taken'[v]
        BY <1>1, <1>5, <3>2
      <3> QED BY <3>1, <3>2, <3>3
    <2>2. CASE ~(i <= write_pos)
      <3>1. i - write_pos \in 1..bytes[w] /\ sent'[i] = <<w, taken[w] + (i - write_pos)>>
        BY <1>6, <2>2
      <3>2. v = w /\ sent'[i][2] = taken[w] + (i - write_pos)
        BY <1>8, <3>1
      <3>3. taken'[v] = taken[w] + bytes[w]
        BY <1>5, <3>2
      <3> QED BY <1>1, <3>1, <3>2, <3>3
    <2> QED BY <2>1, <2>2
  <1>9. ASSUME NEW v \in Writer, NEW k \in 1..taken'[v]
         PROVE  \E i \in 1..(write_pos + bytes[w]) : sent'[i] = <<v, k>>
    <2>1. CASE k <= taken[v]
      <3>1. k \in 1..taken[v]
        BY <1>5, <2>1
      <3>2. PICK i \in 1..write_pos : sent[i] = <<v, k>>
        BY <1>3, <3>1 DEF WriterOrder
      <3>3. i \in 1..(write_pos + bytes[w]) /\ sent'[i] = <<v, k>>
        BY <1>1, <1>2, <3>2
      <3> QED BY <3>3
    <2>2. CASE ~(k <= taken[v])
      <3>1. v = w
        BY <1>5, <2>2
      <3>2. taken'[v] = taken[w] + bytes[w]
        BY <1>5, <3>1
      <3>3. /\ k - taken[w] \in 1..bytes[w] /\ taken[w] + (k - taken[w]) = k
            /\ write_pos + (k - taken[w]) \in 1..(write_pos + bytes[w])
        BY <1>1, <2>2, <3>1, <3>2
      <3>4. sent'[write_pos + (k - taken[w])] = <<w, k>>
        BY <1>2, <3>3
      <3> QED BY <3>1, <3>3, <3>4
    <2> QED BY <2>1, <2>2
  <1> QED BY <1>4, <1>7, <1>8, <1>9 DEF WriterOrder

(* The bytes of one writer are sent in order, each of them once and none left out,  *)
(* however writers take turns and however often a write has to wait: for every      *)
(* number of readers and writers, every size of the buffer and of the requests.     *)
THEOREM WritersInOrder == Spec => []WriterOrder
  <1>1. Init => WriterOrder
    BY DEF Init, WriterOrder
  <1>2. PInv /\ WriterOrder /\ [Next]_vars => WriterOrder'
    <2> SUFFICES ASSUME PInv, WriterOrder, [Next]_vars PROVE WriterOrder'
      OBVIOUS
    <2>1. ASSUME sent' = sent, taken' = taken PROVE WriterOrder'
      BY <2>1 DEF WriterOrder
    <2>2. CASE UNCHANGED vars
      BY <2>1, <2>2 DEF vars, history
    <2>3. ASSUME NEW r \in Reader, ReadStep(r) PROVE WriterOrder'
      BY <2>1, <2>3 DEF ReadStep, ReadWait, Wait, ReadPrepare, Prepare, ReadCopy1, ReadCopy2,
         ReadAdvance, history
    <2>4. ASSUME NEW w \in Writer, WriteStep(w) PROVE WriterOrder'
      <3>1. CASE WriteAdvance(w)
        BY <3>1, OrderStep
      <3>2. CASE WriteWait(w) \/ WritePrepare(w) \/ WriteCopy1(w) \/ WriteCopy2(w) \/ WriteReturn(w)
        BY <2>1, <3>2 DEF WriteWait, Wait, WritePrepare, Prepare, WriteCopy1, WriteCopy2,
           WriteReturn, history
      <3> QED BY <2>4, <3>1, <3>2 DEF WriteStep
    <2>5. ASSUME NEW r \in Reader, NEW k, ReadCall(r, k) PROVE WriterOrder'
      BY <2>1, <2>5 DEF ReadCall, history
    <2>6. ASSUME NEW w \in Writer, NEW k, WriteCall(w, k) PROVE WriterOrder'
      BY <2>1, <2>6 DEF WriteCall, history
    <2>7. ASSUME NEW t \in Thread, Lock(t) PROVE WriterOrder'
      BY <2>1, <2>7 DEF Lock, history
    <2> QED BY <2>2, <2>3, <2>4, <2>5, <2>6, <2>7 DEF Next
  <1> QED BY <1>1, <1>2, Invariance, PTL DEF Spec

-----------------------------------------------------------------------------
(* The pipe implements the abstract byte stream *)

(* What a read returns is the next part of what was sent, or nothing. *)
LEMMA ReceiveStep ==
    ASSUME PInv, PInv', NEW r \in Reader, ReadAdvance(r)
    PROVE  Stream!Receive \/ UNCHANGED <<sent, rcvd>>
  <1>1. sent' = sent /\ read_pos' = read_pos + bytes[r]
    BY DEF ReadAdvance
  <1>2. bytes[r] \in Nat /\ read_pos \in Nat /\ write_pos \in Nat
    BY ReaderFacts DEF ReadAdvance
  <1>3. /\ rcvd \in Seq(Byte) /\ Len(rcvd) = read_pos /\ Len(sent) = write_pos
        /\ sent \in Seq(Byte) /\ \A i \in 1..read_pos : rcvd[i] = sent[i]
    BY DEF PInv, TypeOK, HistoryOK
  <1>4. /\ rcvd' \in Seq(Byte) /\ Len(rcvd') = read_pos' /\ Len(sent') = write_pos'
        /\ read_pos' <= write_pos' /\ \A i \in 1..read_pos' : rcvd'[i] = sent'[i]
    BY DEF PInv, TypeOK, HistoryOK, InWindow
  <1>5. CASE bytes[r] = 0
    <2>1. Len(rcvd') = Len(rcvd) /\ \A i \in 1..Len(rcvd) : rcvd'[i] = rcvd[i]
      BY <1>1, <1>2, <1>3, <1>4, <1>5
    <2>2. rcvd' = rcvd
      BY <1>3, <1>4, <2>1, SeqEqual
    <2> QED BY <1>1, <2>2
  <1>6. CASE bytes[r] # 0
    <2>1. /\ bytes[r] \in 1..(Len(sent) - Len(rcvd)) /\ Len(rcvd) + bytes[r] \in 0..Len(sent)
          /\ Len(rcvd') = Len(rcvd) + bytes[r]
      BY <1>1, <1>2, <1>3, <1>4, <1>6
    <2> DEFINE part == SubSeq(sent, 1, Len(rcvd) + bytes[r])
    <2>2. /\ part \in Seq(Byte) /\ Len(part) = Len(rcvd) + bytes[r]
          /\ \A i \in 1..(Len(rcvd) + bytes[r]) : part[i] = sent[i]
      BY <1>2, <1>3, <2>1
    <2> HIDE DEF part
    <2>3. Len(rcvd') = Len(part) /\ \A i \in 1..Len(rcvd') : rcvd'[i] = part[i]
      BY <1>1, <1>3, <1>4, <2>1, <2>2
    <2>4. rcvd' = part
      BY <1>4, <2>2, <2>3, SeqEqual
    <2> QED BY <1>1, <2>1, <2>4 DEF Stream!Receive, part
  <1> QED BY <1>5, <1>6

(* What a write adds to the ring is sent, and fits. *)
LEMMA SendStep ==
    ASSUME PInv, PInv', NEW w \in Writer, WriteAdvance(w)
    PROVE  Stream!Send
  <1>1. rcvd' = rcvd /\ read_pos' = read_pos /\ write_pos' = write_pos + bytes[w]
    BY DEF WriteAdvance
  <1>2. bytes[w] \in Nat /\ bytes[w] > 0 /\ read_pos \in Nat /\ write_pos \in Nat
    BY WriterFacts DEF WriteAdvance
  <1>3. sent \in Seq(Byte) /\ Len(sent) = write_pos /\ Len(rcvd) = read_pos
    BY DEF PInv, TypeOK, HistoryOK
  <1>4. /\ sent' \in Seq(Byte) /\ Len(sent') = write_pos + bytes[w]
        /\ \A i \in 1..write_pos : sent'[i] = sent[i]
    BY WriteAdvanceSent
  <1>5. write_pos' <= read_pos' + Size
    BY DEF PInv, InWindow
  <1>6. Len(sent) < Len(sent') /\ Len(sent') - Len(rcvd) <= Size
    BY <1>1, <1>2, <1>3, <1>4, <1>5, PipeAssumption
  <1> DEFINE part == SubSeq(sent', 1, Len(sent))
  <1>7. part \in Seq(Byte) /\ Len(part) = Len(sent) /\ \A i \in 1..Len(sent) : part[i] = sent'[i]
    <2>1. Len(sent) \in 0..Len(sent')
      BY <1>2, <1>3, <1>4
    <2> QED BY <1>4, <2>1
  <1> HIDE DEF part
  <1>8. part = sent
    <2>1. \A i \in 1..Len(part) : part[i] = sent[i]
      BY <1>3, <1>4, <1>7
    <2> QED BY <1>3, <1>7, <2>1, SeqEqual
  <1> QED BY <1>1, <1>4, <1>6, <1>8 DEF Stream!Send, part

(* A step of the pipe is a step of the stream or changes nothing that it shows. *)
LEMMA StreamStep ==
    ASSUME PInv, PInv', [Next]_vars
    PROVE  [Stream!Next]_(Stream!svars)
  <1>1. CASE UNCHANGED vars
    BY <1>1 DEF vars, history, Stream!svars
  <1>2. ASSUME NEW r \in Reader, ReadStep(r) PROVE [Stream!Next]_(Stream!svars)
    <2>1. CASE ReadAdvance(r)
      BY <2>1, ReceiveStep DEF Stream!Next, Stream!svars
    <2>2. CASE ReadWait(r) \/ ReadPrepare(r) \/ ReadCopy1(r) \/ ReadCopy2(r)
      BY <2>2 DEF ReadWait, Wait, ReadPrepare, Prepare, ReadCopy1, ReadCopy2, history, Stream!svars
    <2> QED BY <1>2, <2>1, <2>2 DEF ReadStep
  <1>3. ASSUME NEW w \in Writer, WriteStep(w) PROVE [Stream!Next]_(Stream!svars)
    <2>1. CASE WriteAdvance(w)
      BY <2>1, SendStep DEF Stream!Next
    <2>2. CASE WriteWait(w) \/ WritePrepare(w) \/ WriteCopy1(w) \/ WriteCopy2(w) \/ WriteReturn(w)
      BY <2>2 DEF WriteWait, Wait, WritePrepare, Prepare, WriteCopy1, WriteCopy2, WriteReturn,
         history, Stream!svars
    <2> QED BY <1>3, <2>1, <2>2 DEF WriteStep
  <1>4. ASSUME NEW r \in Reader, NEW k, ReadCall(r, k) PROVE UNCHANGED Stream!svars
    BY <1>4 DEF ReadCall, history, Stream!svars
  <1>5. ASSUME NEW w \in Writer, NEW k, WriteCall(w, k) PROVE UNCHANGED Stream!svars
    BY <1>5 DEF WriteCall, history, Stream!svars
  <1>6. ASSUME NEW t \in Thread, Lock(t) PROVE UNCHANGED Stream!svars
    BY <1>6 DEF Lock, history, Stream!svars
  <1> QED BY <1>1, <1>2, <1>3, <1>4, <1>5, <1>6 DEF Next

(* The ring buffer with its lock, its waits and its two memcpys is a bounded
   FIFO of bytes: every behaviour of pipe_read and pipe_write is one of
   ByteStream. *)
THEOREM PipeIsByteStream == Spec => ImplementsByteStream
  <1>1. Init => Stream!Init
    BY DEF Init, Stream!Init
  <1>2. PInv /\ PInv' /\ [Next]_vars => [Stream!Next]_(Stream!svars)
    BY StreamStep
  <1> QED BY <1>1, <1>2, Invariance, PTL DEF Spec, ImplementsByteStream, Stream!Spec
=============================================================================

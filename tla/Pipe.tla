------------------------------- MODULE Pipe -------------------------------
(***************************************************************************)
(* The data path of a pipe, fs/pipe.c: pipe_read and pipe_write on the     *)
(* ring buffer of one struct pipe_data, called by threads on several CPUs. *)
(*                                                                         *)
(* A thread that must wait drops the lock, calls schedule() and takes the  *)
(* lock again; nothing wakes it, it polls.  Bytes are abstract: the byte   *)
(* <<w, k>> is the k-th one that writer w ever writes.                     *)
(***************************************************************************)
EXTENDS Naturals, FiniteSets, Sequences

CONSTANTS
    Reader, Writer,   \* the threads that use each end
    Size,             \* PIPE_SIZE
    MaxRequest,       \* bound: the longest read or write
    MaxBytes,         \* bound: what one writer writes in all
    Free              \* the value of a lock that nobody holds

Thread == Reader \cup Writer
Byte   == Writer \X Nat

ASSUME PipeAssumption ==
    /\ Reader \cap Writer = {}
    /\ Free \notin Thread
    /\ Size \in Nat \ {0}
    /\ MaxRequest \in Nat
    /\ MaxBytes \in Nat

Zero == <<>>    \* what kcalloc has put in the buffer

VARIABLES
    buffer,      \* d->buffer
    lock,        \* d->lock, the thread that holds it
    read_pos,    \* d->read_pos
    write_pos,   \* d->write_pos
    pc,          \* where each thread is
    nbyte,       \* the request: in a write, what is left of it
    bytes,       \* the locals bytes, n and buf_pos of the call
    n,
    buf_pos,
    buf,         \* what a read has copied so far
    taken,       \* the bytes a writer has put in the pipe, over all its writes
    sent, rcvd   \* history: the bytes that entered the pipe, that left it

locals  == <<bytes, n, buf_pos>>
history == <<sent, rcvd>>
vars    == <<buffer, lock, read_pos, write_pos, pc, nbyte, locals, buf, taken, history>>

Pc == {"idle", "lock", "check", "copy1", "copy2", "advance"}
Critical == {"check", "copy1", "copy2", "advance"}

Min2(a, b) == IF a < b THEN a ELSE b

(* pipe(): a zeroed structure, both positions at 0, the lock free *)
Init ==
    /\ buffer = [i \in 0..(Size - 1) |-> Zero]
    /\ lock = Free
    /\ read_pos = 0
    /\ write_pos = 0
    /\ pc = [t \in Thread |-> "idle"]
    /\ nbyte = [t \in Thread |-> 0]
    /\ bytes = [t \in Thread |-> 0]
    /\ n = [t \in Thread |-> 0]
    /\ buf_pos = [t \in Thread |-> 0]
    /\ buf = [r \in Reader |-> <<>>]
    /\ taken = [w \in Writer |-> 0]
    /\ sent = <<>>
    /\ rcvd = <<>>

Goto(t, l) == pc' = [pc EXCEPT ![t] = l]

(* The locals of a transfer go out of scope *)
Forget(t) ==
    /\ bytes' = [bytes EXCEPT ![t] = 0]
    /\ n' = [n EXCEPT ![t] = 0]
    /\ buf_pos' = [buf_pos EXCEPT ![t] = 0]

(* A thread enters pipe_read or pipe_write *)
ReadCall(r, k) ==
    /\ pc[r] = "idle"
    /\ nbyte' = [nbyte EXCEPT ![r] = k]
    /\ Goto(r, "lock")
    /\ UNCHANGED <<buffer, lock, read_pos, write_pos, locals, buf, taken, history>>

WriteCall(w, k) ==
    /\ pc[w] = "idle"
    /\ taken[w] + k <= MaxBytes
    /\ nbyte' = [nbyte EXCEPT ![w] = k]
    /\ Goto(w, "lock")
    /\ UNCHANGED <<buffer, lock, read_pos, write_pos, locals, buf, taken, history>>

(* spin_lock(&d->lock) *)
Lock(t) ==
    /\ pc[t] = "lock"
    /\ lock = Free
    /\ lock' = t
    /\ Goto(t, "check")
    /\ UNCHANGED <<buffer, read_pos, write_pos, nbyte, locals, buf, taken, history>>

(* The loops that wait: spin_unlock, schedule(), and spin_lock again *)
Wait(t) ==
    /\ lock' = Free
    /\ Goto(t, "lock")
    /\ UNCHANGED <<buffer, read_pos, write_pos, nbyte, locals, buf, taken, history>>

(* Mutants: the last byte is never read, the last slot is never filled *)
Empty_OffByOne == read_pos + 1 >= write_pos
Full_OffByOne  == write_pos + 1 >= read_pos + Size

(* The conditions of the two loops that wait *)
Empty == read_pos >= write_pos
Full  == write_pos >= read_pos + Size

ReadWait(r) ==
    /\ pc[r] = "check"
    /\ Empty
    /\ Wait(r)

WriteWait(w) ==
    /\ pc[w] = "check"
    /\ nbyte[w] > 0
    /\ Full
    /\ Wait(w)

(* Mutant: the request is not cut down to what is there *)
Prepare_NotCut(t, pos, avail) ==
    LET at == pos % Size IN
    /\ bytes' = [bytes EXCEPT ![t] = nbyte[t]]
    /\ buf_pos' = [buf_pos EXCEPT ![t] = at]
    /\ n' = [n EXCEPT ![t] = Min2(Size - at, nbyte[t])]
    /\ Goto(t, "copy1")
    /\ UNCHANGED <<buffer, lock, read_pos, write_pos, nbyte, buf, taken, history>>

(* bytes, buf_pos and n for a transfer at pos of at most avail bytes *)
Prepare(t, pos, avail) ==
    LET b  == Min2(avail, nbyte[t])
        at == pos % Size
    IN
    /\ bytes' = [bytes EXCEPT ![t] = b]
    /\ buf_pos' = [buf_pos EXCEPT ![t] = at]
    /\ n' = [n EXCEPT ![t] = Min2(Size - at, b)]
    /\ Goto(t, "copy1")
    /\ UNCHANGED <<buffer, lock, read_pos, write_pos, nbyte, buf, taken, history>>

ReadPrepare(r) ==
    /\ pc[r] = "check"
    /\ ~Empty
    /\ Prepare(r, read_pos, write_pos - read_pos)

WritePrepare(w) ==
    /\ pc[w] = "check"
    /\ nbyte[w] > 0
    /\ ~Full
    /\ Prepare(w, write_pos, Size - (write_pos - read_pos))

(* The memcpy up to the end of the buffer, and the one from its start *)
AfterCopy1(t) == IF bytes[t] > n[t] THEN "copy2" ELSE "advance"

ReadCopy1(r) ==
    /\ pc[r] = "copy1"
    /\ buf' = [buf EXCEPT ![r] = [i \in 1..n[r] |-> buffer[buf_pos[r] + i - 1]]]
    /\ Goto(r, AfterCopy1(r))
    /\ UNCHANGED <<buffer, lock, read_pos, write_pos, nbyte, locals, taken, history>>

(* Mutant: the second copy does not start at the beginning of the buffer *)
ReadCopy2_NoWrap(r) ==
    /\ pc[r] = "copy2"
    /\ buf' = [buf EXCEPT ![r] = [i \in 1..bytes[r] |->
                    IF i <= n[r] THEN buf[r][i] ELSE buffer[i - 1]]]
    /\ Goto(r, "advance")
    /\ UNCHANGED <<buffer, lock, read_pos, write_pos, nbyte, locals, taken, history>>

ReadCopy2(r) ==
    /\ pc[r] = "copy2"
    /\ buf' = [buf EXCEPT ![r] = [i \in 1..bytes[r] |->
                    IF i <= n[r] THEN buf[r][i] ELSE buffer[i - n[r] - 1]]]
    /\ Goto(r, "advance")
    /\ UNCHANGED <<buffer, lock, read_pos, write_pos, nbyte, locals, taken, history>>

WriteCopy1(w) ==
    /\ pc[w] = "copy1"
    /\ buffer' = [i \in 0..(Size - 1) |->
                    IF buf_pos[w] <= i /\ i < buf_pos[w] + n[w]
                    THEN <<w, taken[w] + (i - buf_pos[w]) + 1>>
                    ELSE buffer[i]]
    /\ Goto(w, AfterCopy1(w))
    /\ UNCHANGED <<lock, read_pos, write_pos, nbyte, locals, buf, taken, history>>

(* Mutant: the second copy starts over in the caller's buffer *)
WriteCopy2_FromStart(w) ==
    /\ pc[w] = "copy2"
    /\ buffer' = [i \in 0..(Size - 1) |->
                    IF i < bytes[w] - n[w]
                    THEN <<w, taken[w] + i + 1>>
                    ELSE buffer[i]]
    /\ Goto(w, "advance")
    /\ UNCHANGED <<lock, read_pos, write_pos, nbyte, locals, buf, taken, history>>

WriteCopy2(w) ==
    /\ pc[w] = "copy2"
    /\ buffer' = [i \in 0..(Size - 1) |->
                    IF i < bytes[w] - n[w]
                    THEN <<w, taken[w] + n[w] + i + 1>>
                    ELSE buffer[i]]
    /\ Goto(w, "advance")
    /\ UNCHANGED <<lock, read_pos, write_pos, nbyte, locals, buf, taken, history>>

(* d->read_pos += bytes; the lock is released and the call returns *)
ReadAdvance(r) ==
    /\ pc[r] = "advance"
    /\ read_pos' = read_pos + bytes[r]
    /\ lock' = Free
    /\ rcvd' = rcvd \o buf[r]
    /\ nbyte' = [nbyte EXCEPT ![r] = 0]
    /\ buf' = [buf EXCEPT ![r] = <<>>]
    /\ Forget(r)
    /\ Goto(r, "idle")
    /\ UNCHANGED <<buffer, write_pos, taken, sent>>

(* Mutant: `written` is not advanced *)
WriteAdvance_SameStart(w) ==
    /\ pc[w] = "advance"
    /\ write_pos' = write_pos + bytes[w]
    /\ nbyte' = [nbyte EXCEPT ![w] = @ - bytes[w]]
    /\ sent' = sent \o [i \in 1..bytes[w] |-> <<w, taken[w] + i>>]
    /\ Forget(w)
    /\ Goto(w, "check")
    /\ UNCHANGED <<buffer, lock, read_pos, buf, taken, rcvd>>

(* The end of the write loop's body; the loop goes on with the lock held *)
WriteAdvance(w) ==
    /\ pc[w] = "advance"
    /\ write_pos' = write_pos + bytes[w]
    /\ nbyte' = [nbyte EXCEPT ![w] = @ - bytes[w]]
    /\ taken' = [taken EXCEPT ![w] = @ + bytes[w]]
    /\ sent' = sent \o [i \in 1..bytes[w] |-> <<w, taken[w] + i>>]
    /\ Forget(w)
    /\ Goto(w, "check")
    /\ UNCHANGED <<buffer, lock, read_pos, buf, rcvd>>

(* while(nbyte) ends: spin_unlock and return *)
WriteReturn(w) ==
    /\ pc[w] = "check"
    /\ nbyte[w] = 0
    /\ lock' = Free
    /\ Goto(w, "idle")
    /\ UNCHANGED <<buffer, read_pos, write_pos, nbyte, locals, buf, taken, history>>

ReadStep(r) ==
    ReadWait(r) \/ ReadPrepare(r) \/ ReadCopy1(r) \/ ReadCopy2(r) \/ ReadAdvance(r)

WriteStep(w) ==
    \/ WriteWait(w) \/ WritePrepare(w) \/ WriteCopy1(w) \/ WriteCopy2(w)
    \/ WriteAdvance(w) \/ WriteReturn(w)

Next ==
    \/ \E r \in Reader : ReadStep(r) \/ \E k \in 0..MaxRequest : ReadCall(r, k)
    \/ \E w \in Writer : WriteStep(w) \/ \E k \in 0..MaxRequest : WriteCall(w, k)
    \/ \E t \in Thread : Lock(t)

Spec == Init /\ [][Next]_vars

(***************************************************************************)
(* Fairness: a thread inside a call is scheduled again and again (property *)
(* ReadyRuns of Scheduler), and one that spins on a lock which is released *)
(* again and again gets it.  No call is ever forced.                       *)
(***************************************************************************)
Fairness ==
    /\ \A r \in Reader : WF_vars(ReadStep(r))
    /\ \A w \in Writer : WF_vars(WriteStep(w))
    /\ \A t \in Thread : SF_vars(Lock(t))

FairSpec == Spec /\ Fairness

-----------------------------------------------------------------------------
(* Type invariant of the pipe and of the threads' locals. *)
TypeOK ==
    /\ buffer \in [0..(Size - 1) -> Byte \cup {Zero}]
    /\ lock \in Thread \cup {Free}
    /\ read_pos \in Nat
    /\ write_pos \in Nat
    /\ pc \in [Thread -> Pc]
    /\ nbyte \in [Thread -> Nat]
    /\ bytes \in [Thread -> 0..Size]
    /\ n \in [Thread -> 0..Size]
    /\ buf_pos \in [Thread -> 0..(Size - 1)]
    /\ buf \in [Reader -> Seq(Byte)]
    /\ taken \in [Writer -> Nat]
    /\ sent \in Seq(Byte)
    /\ rcvd \in Seq(Byte)

(***************************************************************************)
(* The lock protects the buffer and the positions: a thread between        *)
(* spin_lock and spin_unlock is the one the lock names (pipe.c:62-83,      *)
(* 94-120), also after it has waited.                                      *)
(***************************************************************************)
Exclusive ==
    \A t \in Thread : pc[t] \in Critical <=> lock = t

(***************************************************************************)
(* The reader never overtakes the writer and the writer is never more than *)
(* the buffer's size ahead, although both test the positions before a wait *)
(* and move them after it (pipe.c:63, 81, 97, 116).                        *)
(***************************************************************************)
InWindow ==
    read_pos <= write_pos /\ write_pos <= read_pos + Size

(* The bytes between read_pos and write_pos, in order *)
Content == [i \in 1..(write_pos - read_pos) |-> buffer[(read_pos + i - 1) % Size]]

(***************************************************************************)
(* Nothing is lost, duplicated, overwritten or reordered in the ring: what *)
(* readers have received, followed by what is between the two positions,   *)
(* is what writers have sent (the two memcpys at the wrap, pipe.c:73-79,   *)
(* 107-113).                                                               *)
(***************************************************************************)
Conserved == rcvd \o Content = sent

(***************************************************************************)
(* Writers interleave chunk by chunk, but the bytes of one writer keep     *)
(* their order and none is skipped or sent twice when a write resumes      *)
(* after a wait (the sum `written`, pipe.c:111-117).                       *)
(***************************************************************************)
WriterOrder ==
    \A w \in Writer :
        /\ \A i, j \in DOMAIN sent :
                i < j /\ sent[i][1] = w /\ sent[j][1] = w => sent[i][2] < sent[j][2]
        /\ \A i \in DOMAIN sent : sent[i][1] = w => sent[i][2] \in 1..taken[w]
        /\ \A k \in 1..taken[w] : \E i \in DOMAIN sent : sent[i] = <<w, k>>

(* The pipe is a bounded FIFO of bytes: it implements ByteStream. *)
Stream == INSTANCE ByteStream WITH Byte <- Byte, Size <- Size, sent <- sent, rcvd <- rcvd
ImplementsByteStream == Stream!Spec

(* The values that the positions can have under the model's bounds *)
Position == 0..(MaxBytes * Cardinality(Writer))

(***************************************************************************)
(* While there is data and somebody is reading, data is taken: nobody has  *)
(* to wake a reader that found the pipe empty (pipe.c:63-68).              *)
(***************************************************************************)
ReadProgress ==
    \A p \in Position :
        (read_pos = p /\ p < write_pos /\ \E r \in Reader : nbyte[r] > 0)
            ~> (read_pos > p)

(***************************************************************************)
(* While there is room and somebody has bytes left to write, bytes go in   *)
(* (pipe.c:97-102).                                                        *)
(***************************************************************************)
WriteProgress ==
    \A p \in Position :
        (write_pos = p /\ p < read_pos + Size /\ \E w \in Writer : nbyte[w] > 0)
            ~> (write_pos > p)
=============================================================================

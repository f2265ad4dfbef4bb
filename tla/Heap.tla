------------------------------- MODULE Heap -------------------------------
(***************************************************************************)
(* The kernel heap, mem/heap.c: a doubly linked list of chunks, each with  *)
(* a header in front of its data, searched first-fit by kmalloc, split     *)
(* when a chunk is too large, and joined again by kfree.                   *)
(*                                                                         *)
(* The heap has no lock.  On a machine with one CPU its functions never    *)
(* interleave, for the kernel is not preempted; with more CPUs they do, at *)
(* any chunk that the search of a kmalloc has come to.                     *)
(* Addresses are counted from 1 so that 0 is the null pointer.             *)
(***************************************************************************)
EXTENDS Naturals

CONSTANTS
    Cpu,
    HDR,        \* sizeof(chunk_t)
    PAGE,       \* PAGE_SIZE
    MaxSize,    \* bound: the largest request
    MaxHeap     \* bound: how far the heap may grow

ASSUME HeapAssumption ==
    /\ HDR \in Nat \ {0}
    /\ PAGE \in Nat \ {0}
    /\ MaxSize \in Nat
    /\ MaxHeap \in Nat \ {0}

KERNEL_HEAP_S == 1
Null == 0

VARIABLES
    chunk,      \* the headers in the list: address -> [n, p, free, size]
    heap,       \* the first chunk
    heap_max,   \* the end of the heap
    brk,        \* the end of the memory mapped for it
    live,       \* the blocks callers hold: data address -> size asked for
    pc,         \* where each CPU is
    req,        \* the size that a kmalloc is for
    c,          \* kmalloc's c: the chunk that its search has come to
    p,          \* kmalloc's p: the one before it
    ptr         \* the block krealloc frees at its end

vars == <<chunk, heap, heap_max, brk, live, pc, req, c, p, ptr>>

Init ==
    /\ chunk = <<>>
    /\ heap = Null
    /\ heap_max = KERNEL_HEAP_S
    /\ brk = KERNEL_HEAP_S
    /\ live = <<>>
    /\ pc = [k \in Cpu |-> "idle"]
    /\ req = [k \in Cpu |-> 0]
    /\ c = [k \in Cpu |-> Null]
    /\ p = [k \in Cpu |-> Null]
    /\ ptr = [k \in Cpu |-> Null]

Data(a) == a + HDR                  \* a->data
End(h, a) == a + HDR + h[a].size    \* where the chunk at a ends

(* f with v at x *)
Put(f, x, v) == [y \in DOMAIN f \cup {x} |-> IF y = x THEN v ELSE f[y]]

SetPrev(h, a, v) == IF a = Null THEN h ELSE [h EXCEPT ![a].p = v]

(* Mutant: the header of the chunk that disappears is not counted *)
Absorb_NoHeader(h, a, b) ==
    SetPrev([x \in DOMAIN h \ {b} |->
                IF x = a THEN [h[a] EXCEPT !.size = @ + h[b].size, !.n = h[b].n]
                         ELSE h[x]],
            h[b].n, a)

(* Chunk b, which follows a in the list, becomes part of a *)
Absorb(h, a, b) ==
    SetPrev([x \in DOMAIN h \ {b} |->
                IF x = a THEN [h[a] EXCEPT !.size = @ + h[b].size + HDR, !.n = h[b].n]
                         ELSE h[x]],
            h[b].n, a)

IsFree(h, a) == a # Null /\ h[a].free

(* Mutant: only the next chunk is looked at *)
merge_chunk_NextOnly(h, a) ==
    IF IsFree(h, h[a].n) THEN Absorb(h, a, h[a].n) ELSE h

merge_chunk(h, a) ==
    LET h1 == IF IsFree(h, h[a].n) THEN Absorb(h, a, h[a].n) ELSE h
    IN  IF IsFree(h1, h1[a].p) THEN Absorb(h1, h1[a].p, a) ELSE h1

(* Mutant: no room is kept for the header of the rest *)
split_chunk_NoHeaderRoom(h, a, size) ==
    LET c2 == a + HDR + size
        new == [n |-> h[a].n, p |-> a, free |-> TRUE, size |-> h[a].size - size - HDR]
    IN  IF h[a].size <= size
        THEN h
        ELSE SetPrev(Put([h EXCEPT ![a].n = c2, ![a].size = size], c2, new), h[a].n, c2)

split_chunk(h, a, size) ==
    LET c2 == a + HDR + size
        new == [n |-> h[a].n, p |-> a, free |-> TRUE, size |-> h[a].size - size - HDR]
    IN  IF h[a].size <= size + HDR
        THEN h
        ELSE SetPrev(Put([h EXCEPT ![a].n = c2, ![a].size = size], c2, new), h[a].n, c2)

(* Mutant: the header counts as room *)
Fits_CountHeader(a, size) == chunk[a].free /\ chunk[a].size + HDR >= size

(* What kmalloc's search looks for *)
Fits(a, size) == chunk[a].free /\ chunk[a].size >= size

-----------------------------------------------------------------------------
(***************************************************************************)
(* A caller asks for a block (kmalloc, kcalloc), or for a block to replace *)
(* the live one at old (krealloc, old # Null).  Requests for which the     *)
(* heap would have to grow past MaxHeap are not made.                      *)
(***************************************************************************)
Call(k, size, old) ==
    /\ pc[k] = "idle"
    /\ (\E a \in DOMAIN chunk : Fits(a, size)) \/ heap_max + HDR + size <= MaxHeap
    /\ req' = [req EXCEPT ![k] = size]
    /\ ptr' = [ptr EXCEPT ![k] = old]
    /\ c' = [c EXCEPT ![k] = heap]
    /\ pc' = [pc EXCEPT ![k] = "search"]
    /\ UNCHANGED <<chunk, heap, heap_max, brk, live, p>>

(* kmalloc's linear search passes a chunk that is used or too small *)
Pass(k) ==
    /\ pc[k] = "search"
    /\ c[k] # Null
    /\ ~Fits(c[k], req[k])
    /\ p' = [p EXCEPT ![k] = c[k]]
    /\ c' = [c EXCEPT ![k] = chunk[c[k]].n]
    /\ UNCHANGED <<chunk, heap, heap_max, brk, live, pc, req, ptr>>

(* Mutant: the last page is not rounded up *)
MappedTo_RoundDown(goal) ==
    IF brk >= goal THEN brk ELSE brk + PAGE * ((goal - brk) \div PAGE)

(* ksbrk maps pages until brk is past the new end *)
MappedTo(goal) ==
    IF brk >= goal THEN brk ELSE brk + PAGE * ((goal - brk + PAGE - 1) \div PAGE)

(* The search has found nothing: the heap grows, and kmalloc starts over *)
Grow(k) ==
    LET q   == p[k]
        new == IF q = Null THEN heap_max ELSE End(chunk, q)
        end == heap_max + req[k] + HDR
        hdr == [n |-> IF q = Null THEN Null ELSE chunk[q].n, p |-> q,
                free |-> TRUE, size |-> end - Data(new)]
    IN
    /\ pc[k] = "search"
    /\ c[k] = Null
    /\ heap' = IF q = Null THEN new ELSE heap
    /\ heap_max' = end
    /\ brk' = MappedTo(end)
    /\ chunk' = Put(IF q = Null THEN chunk ELSE [chunk EXCEPT ![q].n = new], new, hdr)
    /\ c' = [c EXCEPT ![k] = heap']
    /\ p' = [p EXCEPT ![k] = Null]
    /\ UNCHANGED <<live, pc, req, ptr>>

(* kmalloc splits the chunk found and marks it used; krealloc goes on *)
Take(k) ==
    LET h == split_chunk(chunk, c[k], req[k]) IN
    /\ pc[k] = "search"
    /\ c[k] # Null
    /\ Fits(c[k], req[k])
    /\ chunk' = [h EXCEPT ![c[k]].free = FALSE]
    /\ live' = Put(live, Data(c[k]), req[k])
    /\ pc' = [pc EXCEPT ![k] = IF ptr[k] = Null THEN "idle" ELSE "free"]
    /\ c' = [c EXCEPT ![k] = Null]
    /\ p' = [p EXCEPT ![k] = Null]
    /\ req' = [req EXCEPT ![k] = 0]
    /\ UNCHANGED <<heap, heap_max, brk, ptr>>

(* Mutant: the end of the heap is refused *)
Outside_EndRefused(a) == a < KERNEL_HEAP_S \/ a >= heap_max

(* The test at the top of kfree *)
Outside(a) == a < KERNEL_HEAP_S \/ a > heap_max

(* kfree(a): the panic loop, or the block's chunk joins its free neighbours *)
kfree(k, a) ==
    /\ IF Outside(a)
       THEN /\ pc' = [pc EXCEPT ![k] = "panic"]
            /\ UNCHANGED <<chunk, live>>
       ELSE /\ chunk' = merge_chunk([chunk EXCEPT ![a - HDR].free = TRUE], a - HDR)
            /\ live' = [x \in DOMAIN live \ {a} |-> live[x]]
            /\ pc' = [pc EXCEPT ![k] = "idle"]
    /\ ptr' = [ptr EXCEPT ![k] = Null]
    /\ UNCHANGED <<heap, heap_max, brk, req, c, p>>

(* A block that krealloc is replacing is no longer the caller's to free *)
Owned == DOMAIN live \ {ptr[k] : k \in Cpu}

Free(k, a) == pc[k] = "idle" /\ kfree(k, a)

ReallocFree(k) == pc[k] = "free" /\ kfree(k, ptr[k])

Next ==
    \E k \in Cpu :
        \/ \E size \in 0..MaxSize :
            Call(k, size, Null) \/ \E old \in Owned : Call(k, size, old)
        \/ Pass(k) \/ Grow(k) \/ Take(k) \/ ReallocFree(k)
        \/ \E a \in Owned : Free(k, a)

Spec == Init /\ [][Next]_vars

-----------------------------------------------------------------------------
(* Type invariant of the heap's globals and of the CPUs' locals. *)
TypeOK ==
    /\ DOMAIN chunk \subseteq KERNEL_HEAP_S..heap_max
    /\ \A a \in DOMAIN chunk :
        chunk[a] \in [n : Nat, p : Nat, free : BOOLEAN, size : Nat]
    /\ heap \in DOMAIN chunk \cup {Null}
    /\ heap_max \in KERNEL_HEAP_S..MaxHeap
    /\ brk \in Nat
    /\ \A a \in DOMAIN live : live[a] \in 0..MaxSize
    /\ pc \in [Cpu -> {"idle", "search", "free", "panic"}]
    /\ req \in [Cpu -> 0..MaxSize]
    /\ c \in [Cpu -> DOMAIN chunk \cup {Null}]
    /\ p \in [Cpu -> DOMAIN chunk \cup {Null}]
    /\ ptr \in [Cpu -> DOMAIN live \cup {Null}]

(***************************************************************************)
(* The chunks tile the heap: the list starts at its first byte, each chunk *)
(* ends where its successor starts and is the successor's predecessor, and *)
(* the last one ends at heap_max.  kmalloc relies on it when it places a   *)
(* new chunk right after the last one (heap.c:117).  And whenever no call  *)
(* is under way no two neighbours are both free, also after a request that *)
(* had to grow the heap (heap.c:36).                                       *)
(***************************************************************************)
Tiled ==
    /\ heap = (IF heap_max = KERNEL_HEAP_S THEN Null ELSE KERNEL_HEAP_S)
    /\ \A a \in DOMAIN chunk :
        /\ a # heap => chunk[a].p \in DOMAIN chunk /\ chunk[chunk[a].p].n = a
        /\ IF chunk[a].n = Null
           THEN End(chunk, a) = heap_max
           ELSE /\ chunk[a].n \in DOMAIN chunk
                /\ chunk[a].n = End(chunk, a)
                /\ chunk[chunk[a].n].p = a
    /\ (\A k \in Cpu : pc[k] \in {"idle", "free"}) =>
        \A a \in DOMAIN chunk : ~(chunk[a].free /\ IsFree(chunk, chunk[a].n))

(***************************************************************************)
(* The blocks that callers hold are the used chunks, one each, and every   *)
(* chunk is as large as its caller asked for: no two blocks overlap and no *)
(* header lies in a block (heap.c:94-132).  kfree refuses none of them,    *)
(* not even the empty block at the very end of the heap (heap.c:82).       *)
(***************************************************************************)
BlocksAreChunks ==
    /\ DOMAIN live = {Data(a) : a \in {x \in DOMAIN chunk : ~chunk[x].free}}
    /\ \A a \in DOMAIN live : chunk[a - HDR].size >= live[a]
    /\ \A k \in Cpu : pc[k] # "panic"

(***************************************************************************)
(* The heap is backed by mapped pages to its end, and by less than a page  *)
(* more (heap.c:25-29).                                                    *)
(***************************************************************************)
Backed == heap_max <= brk /\ brk < heap_max + PAGE
=============================================================================

----------------------------- MODULE HeapProof -----------------------------
(***************************************************************************)
(* Proofs about Heap on a machine with one CPU, for every size of header   *)
(* and page and every sequence of calls: the chunks tile the heap, what    *)
(* callers hold are the used chunks, no two free chunks are neighbours     *)
(* between calls, and the heap is backed by mapped pages.                  *)
(***************************************************************************)
EXTENDS Heap, TLAPS

-----------------------------------------------------------------------------
(* The inductive invariant *)

Header == [n : Nat, p : Nat, free : BOOLEAN, size : Nat]

(* The chunks of h lie in a heap that ends at e, and do not overlap *)
Placed(h, e) ==
    /\ h \in [DOMAIN h -> Header]
    /\ e \in Nat
    /\ \A a \in DOMAIN h : a \in Nat /\ a >= KERNEL_HEAP_S /\ End(h, a) <= e
    /\ \A a, b \in DOMAIN h : a < b => End(h, a) <= b

(* They form a list without gaps, from the start of the heap to e *)
Linked(h, e) ==
    /\ IF DOMAIN h = {} THEN e = KERNEL_HEAP_S ELSE KERNEL_HEAP_S \in DOMAIN h
    /\ \A a \in DOMAIN h :
        IF a = KERNEL_HEAP_S THEN h[a].p = Null
        ELSE h[a].p \in DOMAIN h /\ h[h[a].p].n = a
    /\ \A a \in DOMAIN h :
        IF h[a].n = Null THEN End(h, a) = e
        ELSE /\ h[a].n \in DOMAIN h /\ h[a].n = End(h, a)
             /\ h[h[a].n].p = a

Chain(h, e) == Placed(h, e) /\ Linked(h, e)

(* Chunk a and the next are both free *)
Pair(h, a) == h[a].free /\ IsFree(h, h[a].n)

(* The variables have their types, and heap is the first chunk *)
Globals ==
    /\ heap_max \in KERNEL_HEAP_S..MaxHeap
    /\ heap = IF DOMAIN chunk = {} THEN Null ELSE KERNEL_HEAP_S
    /\ brk \in Nat /\ heap_max <= brk /\ brk < heap_max + PAGE
    /\ pc \in [Cpu -> {"idle", "search", "free"}]
    /\ req \in [Cpu -> 0..MaxSize]
    /\ c \in [Cpu -> DOMAIN chunk \cup {Null}]
    /\ p \in [Cpu -> DOMAIN chunk \cup {Null}]
    /\ ptr \in [Cpu -> DOMAIN live \cup {Null}]

(* The used chunks of h are the blocks of l, and large enough *)
Blocks(h, l) ==
    /\ l \in [DOMAIN l -> 0..MaxSize]
    /\ \A x \in DOMAIN l :
        \E a \in DOMAIN h : x = Data(a) /\ ~h[a].free /\ h[a].size >= l[x]
    /\ \A a \in DOMAIN h : ~h[a].free => Data(a) \in DOMAIN l

(***************************************************************************)
(* The search of k: what it has passed does not fit, and if it finds       *)
(* nothing there is room to grow.  Two free neighbours exist only after    *)
(* the heap has grown, and then the second is the new chunk, of the size   *)
(* wanted and the only one that fits.                                      *)
(***************************************************************************)
Searching(k) ==
    /\ IF p[k] = Null THEN c[k] = heap ELSE chunk[p[k]].n = c[k]
    /\ \A a \in DOMAIN chunk : c[k] = Null \/ a < c[k] => ~Fits(a, req[k])
    /\ (\E a \in DOMAIN chunk : Fits(a, req[k])) \/ heap_max + HDR + req[k] <= MaxHeap
    /\ \A a \in DOMAIN chunk :
        Pair(chunk, a) =>
            /\ chunk[chunk[a].n].n = Null
            /\ chunk[chunk[a].n].size = req[k]
            /\ \A x \in DOMAIN chunk : x # chunk[a].n => ~Fits(x, req[k])

(* Between calls the locals are not in use and no two free chunks are neighbours *)
CpuOK(k) ==
    /\ IF pc[k] = "search" THEN Searching(k)
       ELSE c[k] = Null /\ p[k] = Null /\ \A a \in DOMAIN chunk : ~Pair(chunk, a)
    /\ pc[k] = "idle" => ptr[k] = Null
    /\ pc[k] = "free" => ptr[k] # Null

IInv ==
    /\ Chain(chunk, heap_max)
    /\ Globals
    /\ Blocks(chunk, live)
    /\ \A k \in Cpu : CpuOK(k)

(***************************************************************************)
(* The kernel is not preempted, so that with one CPU the heap's functions  *)
(* do not interleave.  heap.c takes no lock: two CPUs that find the heap   *)
(* empty both grow it, and Tiled is lost.                                  *)
(***************************************************************************)
OneCpu == \E k : Cpu = {k}

-----------------------------------------------------------------------------
(* Lists of chunks *)

(* The parts of a header have their types, and a chunk ends after its header. *)
LEMMA HeaderFacts ==
    ASSUME NEW h, NEW e, Placed(h, e), NEW a \in DOMAIN h
    PROVE  /\ a \in Nat /\ a >= 1 /\ a # Null /\ e \in Nat
           /\ h[a].n \in Nat /\ h[a].p \in Nat /\ h[a].size \in Nat
           /\ End(h, a) = a + HDR + h[a].size
           /\ End(h, a) \in Nat /\ End(h, a) > a /\ End(h, a) <= e
  <1>1. HDR \in Nat /\ HDR > 0
    BY HeapAssumption
  <1>2. h[a] \in Header
    BY DEF Placed
  <1>3. h[a].n \in Nat /\ h[a].p \in Nat /\ h[a].size \in Nat
    BY <1>2 DEF Header
  <1>4. a \in Nat /\ a >= 1 /\ e \in Nat /\ End(h, a) <= e
    BY DEF Placed, KERNEL_HEAP_S
  <1> QED BY <1>1, <1>3, <1>4 DEF End, Null

(* The flag of a chunk. *)
LEMMA FlagFacts ==
    ASSUME NEW h, NEW e, Placed(h, e), NEW a \in DOMAIN h
    PROVE  h[a].free \in BOOLEAN
  <1>1. h[a] \in Header
    BY DEF Placed
  <1> QED BY <1>1, Zenon DEF Header

(* There is nothing between a chunk and the next. *)
LEMMA NextFacts ==
    ASSUME NEW h, NEW e, Chain(h, e), NEW a \in DOMAIN h, NEW b \in DOMAIN h
    PROVE  /\ h[a].n = Null => b <= a /\ End(h, a) = e
           /\ h[a].n # Null =>
                /\ h[a].n \in DOMAIN h /\ h[a].n = End(h, a) /\ h[h[a].n].p = a
                /\ h[a].n > a /\ (b <= a \/ b >= h[a].n)
           /\ b = h[a].n => h[b].p = a
  <1>1. Placed(h, e) /\ Linked(h, e)
    BY DEF Chain
  <1>2. /\ a \in Nat /\ End(h, a) \in Nat /\ End(h, a) > a /\ a # Null
        /\ b \in Nat /\ End(h, b) \in Nat /\ End(h, b) > b /\ End(h, b) <= e /\ e \in Nat /\ b # Null
    BY <1>1, HeaderFacts
  <1>3. a < b => End(h, a) <= b
    BY <1>1 DEF Placed
  <1>4. h[a].n = Null => End(h, a) = e
    BY <1>1 DEF Linked
  <1>5. h[a].n # Null => h[a].n \in DOMAIN h /\ h[a].n = End(h, a) /\ h[h[a].n].p = a
    BY <1>1 DEF Linked
  <1>6. h[a].n = Null => b <= a
    BY <1>2, <1>3, <1>4
  <1>7. h[a].n # Null => h[a].n > a /\ (b <= a \/ b >= h[a].n)
    BY <1>2, <1>3, <1>5
  <1> QED BY <1>2, <1>4, <1>5, <1>6, <1>7

(* In m chunk b of h is part of chunk a *)
Absorbed(h, a, b, m) ==
    /\ DOMAIN m = DOMAIN h \ {b}
    /\ m \in [DOMAIN m -> Header]
    /\ a \in DOMAIN m
    /\ \A x \in DOMAIN m :
        /\ m[x].n = IF x = a THEN h[b].n ELSE h[x].n
        /\ m[x].p = IF x = h[b].n THEN a ELSE h[x].p
        /\ (m[x].free <=> h[x].free)
        /\ m[x].size = IF x = a THEN h[a].size + h[b].size + HDR ELSE h[x].size

(* The headers after a chunk has become part of the one before. *)
LEMMA AbsorbFields ==
    ASSUME NEW h, NEW e, Chain(h, e), NEW a \in DOMAIN h, NEW b, b = h[a].n, b # Null
    PROVE  Absorbed(h, a, b, Absorb(h, a, b))
  <1>0. PICK m : m = Absorb(h, a, b)
    OBVIOUS
  <1> DEFINE D == DOMAIN h \ {b}
             grown == [h[a] EXCEPT !.size = @ + h[b].size + HDR, !.n = h[b].n]
             g == [x \in D |-> IF x = a THEN grown ELSE h[x]]
  <1>1. Placed(h, e) /\ HDR \in Nat
    BY HeapAssumption DEF Chain
  <1>2. b \in DOMAIN h /\ b > a
    BY NextFacts
  <1>3. a \in Nat /\ b \in Nat /\ h[b].n \in Nat /\ h[b].size \in Nat /\ h[a].size \in Nat
    BY <1>1, <1>2, HeaderFacts
  <1>4. a \in D
    BY <1>2, <1>3
  <1>5. \A x \in DOMAIN h : h[x] \in Header
    BY <1>1 DEF Placed
  <1>6. h[a] \in Header
    BY <1>5
  <1>7. grown = [n |-> h[b].n, p |-> h[a].p, free |-> h[a].free,
                 size |-> h[a].size + h[b].size + HDR]
    <2>1. PICK r : r = h[a]
      OBVIOUS
    <2>2. r = [n |-> r.n, p |-> r.p, free |-> r.free, size |-> r.size]
      BY <1>6, <2>1 DEF Header
    <2>3. PICK s : s = r.size + h[b].size + HDR
      OBVIOUS
    <2>4. PICK q : q = [r EXCEPT !.size = s]
      OBVIOUS
    <2>5. q = [n |-> r.n, p |-> r.p, free |-> r.free, size |-> s]
      BY <2>2, <2>4
    <2>6. grown = [q EXCEPT !.n = h[b].n]
      BY <2>1, <2>3, <2>4
    <2>7. [q EXCEPT !.n = h[b].n] = [n |-> h[b].n, p |-> r.p, free |-> r.free, size |-> s]
      BY <2>5
    <2> QED BY <2>1, <2>3, <2>6, <2>7
  <1>8. grown \in Header
    <2>1. h[a].size + h[b].size + HDR \in Nat
      BY <1>1, <1>3
    <2> QED BY <1>3, <1>6, <1>7, <2>1 DEF Header
  <1>9. g \in [D -> Header]
    BY <1>5, <1>8
  <1>10. m = SetPrev(g, h[b].n, a)
    BY <1>0 DEF Absorb
  <1>11. \A x \in D : /\ g[x].n = IF x = a THEN h[b].n ELSE h[x].n
                      /\ g[x].p = h[x].p /\ (g[x].free <=> h[x].free)
                      /\ g[x].size = IF x = a THEN h[a].size + h[b].size + HDR ELSE h[x].size
    BY <1>7
  <1> HIDE DEF g
  <1>12. ASSUME h[b].n = Null PROVE Absorbed(h, a, b, m)
    <2>1. m = g
      BY <1>10, <1>12 DEF SetPrev
    <2>2. \A x \in D : x # h[b].n
      BY <1>1, <1>12, HeaderFacts
    <2> QED BY <1>4, <1>9, <1>11, <2>1, <2>2 DEF Absorbed
  <1>13. ASSUME h[b].n # Null PROVE Absorbed(h, a, b, m)
    <2>1. m = [g EXCEPT ![h[b].n].p = a]
      BY <1>10, <1>13 DEF SetPrev
    <2>2. h[b].n \in D
      <3>1. h[b].n \in DOMAIN h /\ h[b].n > b
        BY <1>2, <1>13, NextFacts
      <3> QED BY <1>3, <3>1
    <2>3. m \in [D -> Header]
      <3>1. [g[h[b].n] EXCEPT !.p = a] \in Header
        BY <1>3, <1>9, <2>2 DEF Header
      <3> QED BY <1>9, <2>1, <2>2, <3>1
    <2>4. \A x \in D : /\ m[x].n = g[x].n /\ (m[x].free <=> g[x].free) /\ m[x].size = g[x].size
                       /\ m[x].p = IF x = h[b].n THEN a ELSE g[x].p
      <3> SUFFICES ASSUME NEW x \in D
                   PROVE  /\ m[x].n = g[x].n /\ (m[x].free <=> g[x].free) /\ m[x].size = g[x].size
                          /\ m[x].p = IF x = h[b].n THEN a ELSE g[x].p
        OBVIOUS
      <3>1. g[x] \in Header
        BY <1>9
      <3>2. CASE x = h[b].n
        <4>1. m[x] = [g[x] EXCEPT !.p = a]
          BY <1>9, <2>1, <2>2, <3>2
        <4> QED BY <3>1, <3>2, <4>1 DEF Header
      <3>3. CASE x # h[b].n
        <4>1. m[x] = g[x]
          BY <1>9, <2>1, <2>2, <3>3
        <4> QED BY <3>3, <4>1
      <3> QED BY <3>2, <3>3
    <2> QED BY <1>4, <1>11, <2>3, <2>4 DEF Absorbed
  <1> QED BY <1>0, <1>12, <1>13

(* A chunk that becomes part of the one before leaves a list that still tiles the heap *)
(* (heap.c:38-46, 47-55).                                                              *)
LEMMA AbsorbChain ==
    ASSUME NEW h, NEW e, Chain(h, e), NEW a \in DOMAIN h, NEW b, b = h[a].n, b # Null
    PROVE  Chain(Absorb(h, a, b), e)
  <1>0. PICK m : m = Absorb(h, a, b)
    OBVIOUS
  <1>1. Placed(h, e) /\ Linked(h, e) /\ HDR \in Nat
    BY HeapAssumption DEF Chain
  <1>2. /\ DOMAIN m = DOMAIN h \ {b}
        /\ m \in [DOMAIN m -> Header]
        /\ a \in DOMAIN m
        /\ \A x \in DOMAIN m :
            /\ m[x].n = IF x = a THEN h[b].n ELSE h[x].n
            /\ m[x].p = IF x = h[b].n THEN a ELSE h[x].p
            /\ m[x].size = IF x = a THEN h[a].size + h[b].size + HDR ELSE h[x].size
    <2>1. Absorbed(h, a, b, m)
      BY <1>0, AbsorbFields
    <2> QED BY <2>1 DEF Absorbed
  <1>3. /\ b \in DOMAIN h /\ b = End(h, a) /\ b > a /\ h[b].p = a
    BY NextFacts
  <1>4. /\ a \in Nat /\ b \in Nat /\ a # Null /\ h[a].size \in Nat /\ h[b].size \in Nat
        /\ End(h, a) = a + HDR + h[a].size /\ End(h, b) = b + HDR + h[b].size
    BY <1>1, <1>3, HeaderFacts
  <1>5. \A x \in DOMAIN m : End(m, x) = IF x = a THEN End(h, b) ELSE End(h, x)
    <2>1. End(m, a) = End(h, b)
      BY <1>1, <1>2, <1>3, <1>4 DEF End
    <2>2. \A x \in DOMAIN m : x # a => End(m, x) = End(h, x)
      BY <1>2 DEF End
    <2> QED BY <2>1, <2>2
  <1>6. Placed(m, e)
    <2>1. \A x \in DOMAIN m : x \in Nat /\ x >= KERNEL_HEAP_S /\ End(m, x) <= e
      BY <1>1, <1>2, <1>3, <1>5 DEF Placed
    <2>2. ASSUME NEW x \in DOMAIN m, NEW y \in DOMAIN m, x < y PROVE End(m, x) <= y
      <3>1. x \in DOMAIN h /\ y \in DOMAIN h /\ y # b /\ x \in Nat /\ y \in Nat
        BY <1>1, <1>2 DEF Placed
      <3>2. End(h, x) <= y
        BY <1>1, <2>2, <3>1 DEF Placed
      <3>3. CASE x = a
        <4>1. b <= y
          BY <1>3, <3>2, <3>3
        <4>2. b < y
          BY <1>4, <3>1, <4>1
        <4>3. End(h, b) <= y
          BY <1>1, <1>3, <3>1, <4>2 DEF Placed
        <4> QED BY <1>5, <3>3, <4>3
      <3>4. CASE x # a
        BY <1>5, <3>2, <3>4
      <3> QED BY <3>3, <3>4
    <2>3. e \in Nat
      BY <1>1 DEF Placed
    <2> QED BY <1>2, <2>1, <2>2, <2>3 DEF Placed
  <1>7. KERNEL_HEAP_S \in DOMAIN m
    <2>1. KERNEL_HEAP_S \in DOMAIN h
      BY <1>1 DEF Linked
    <2>2. b # KERNEL_HEAP_S
      <3>1. a >= 1
        BY <1>1, HeaderFacts
      <3> QED BY <1>3, <1>4, <3>1 DEF KERNEL_HEAP_S
    <2> QED BY <1>2, <2>1, <2>2
  <1>8. ASSUME NEW x \in DOMAIN m
        PROVE  IF m[x].n = Null THEN End(m, x) = e
               ELSE m[x].n \in DOMAIN m /\ m[x].n = End(m, x) /\ m[m[x].n].p = x
    <2>1. CASE x = a
      <3>1. m[x].n = h[b].n /\ End(m, x) = End(h, b)
        BY <1>2, <1>5, <2>1
      <3>2. CASE h[b].n = Null
        BY <1>1, <1>3, <3>1, <3>2 DEF Linked
      <3>3. CASE h[b].n # Null
        <4>1. h[b].n \in DOMAIN h /\ h[b].n = End(h, b) /\ h[b].n > b
          BY <1>3, <3>3, NextFacts
        <4>2. h[b].n \in DOMAIN m
          BY <1>2, <1>4, <4>1
        <4> QED BY <1>2, <2>1, <3>1, <3>3, <4>1, <4>2
      <3> QED BY <3>2, <3>3
    <2>2. CASE x # a
      <3>1. m[x].n = h[x].n /\ End(m, x) = End(h, x) /\ x \in DOMAIN h /\ x # b
        BY <1>2, <1>5, <2>2
      <3>2. CASE h[x].n = Null
        BY <1>1, <3>1, <3>2 DEF Linked
      <3>3. CASE h[x].n # Null
        <4>1. h[x].n \in DOMAIN h /\ h[x].n = End(h, x) /\ h[h[x].n].p = x
          BY <3>1, <3>3, NextFacts
        <4>2. h[x].n # b /\ h[x].n # h[b].n
          <5>1. h[x].n # b
            BY <1>3, <2>2, <4>1
          <5>2. h[b].n # Null => h[h[b].n].p = b
            BY <1>3, NextFacts
          <5> QED BY <3>1, <3>3, <4>1, <5>1, <5>2
        <4>3. h[x].n \in DOMAIN m
          BY <1>2, <4>1, <4>2
        <4> QED BY <1>2, <3>1, <3>3, <4>1, <4>2, <4>3
      <3> QED BY <3>2, <3>3
    <2> QED BY <2>1, <2>2
  <1>9. ASSUME NEW x \in DOMAIN m
        PROVE  IF x = KERNEL_HEAP_S THEN m[x].p = Null
               ELSE m[x].p \in DOMAIN m /\ m[m[x].p].n = x
    <2>1. x \in DOMAIN h /\ x # b
      BY <1>2
    <2>2. CASE x = h[b].n
      <3>1. m[x].p = a /\ m[a].n = h[b].n
        BY <1>2, <2>2
      <3>2. x # KERNEL_HEAP_S
        <4>1. x # Null
          BY <1>1, <2>1, HeaderFacts
        <4>2. h[b].n > b
          BY <1>3, <2>1, <2>2, <4>1, NextFacts
        <4>3. b >= 1
          BY <1>1, <1>3, HeaderFacts
        <4>4. x \in Nat
          BY <1>1, <2>1, HeaderFacts
        <4> QED BY <1>4, <2>2, <4>2, <4>3, <4>4 DEF KERNEL_HEAP_S
      <3> QED BY <1>2, <2>2, <3>1, <3>2
    <2>3. CASE x # h[b].n
      <3>1. m[x].p = h[x].p
        BY <1>2, <2>3
      <3>2. CASE x = KERNEL_HEAP_S
        BY <1>1, <2>1, <3>1, <3>2 DEF Linked
      <3>3. CASE x # KERNEL_HEAP_S
        <4>1. h[x].p \in DOMAIN h /\ h[h[x].p].n = x
          BY <1>1, <2>1, <3>3 DEF Linked
        <4>2. h[x].p # b /\ h[x].p # a
          BY <2>1, <2>3, <4>1
        <4>3. h[x].p \in DOMAIN m
          BY <1>2, <4>1, <4>2
        <4> QED BY <1>2, <3>1, <3>3, <4>1, <4>2, <4>3
      <3> QED BY <3>2, <3>3
    <2> QED BY <2>2, <2>3
  <1>10. Linked(m, e)
    BY <1>7, <1>8, <1>9 DEF Linked
  <1> QED BY <1>0, <1>6, <1>10 DEF Chain

(* In m chunk a of h is split: the rest of it is a chunk of its own, at b *)
Split(h, a, size, b, m) ==
    /\ DOMAIN m = DOMAIN h \cup {b}
    /\ b \notin DOMAIN h
    /\ m \in [DOMAIN m -> Header]
    /\ m[b].n = h[a].n /\ m[b].p = a /\ m[b].free /\ m[b].size = h[a].size - size - HDR
    /\ \A x \in DOMAIN h :
        /\ m[x].n = IF x = a THEN b ELSE h[x].n
        /\ m[x].p = IF x = h[a].n THEN b ELSE h[x].p
        /\ (m[x].free <=> h[x].free)
        /\ m[x].size = IF x = a THEN size ELSE h[x].size

(* The headers that split_chunk leaves behind. *)
LEMMA SplitFields ==
    ASSUME NEW h, NEW e, Chain(h, e), NEW a \in DOMAIN h, NEW size \in Nat, NEW b,
           b = a + HDR + size, size + HDR < h[a].size
    PROVE  Split(h, a, size, b, split_chunk(h, a, size))
  <1> DEFINE new == [n |-> h[a].n, p |-> a, free |-> TRUE, size |-> h[a].size - size - HDR]
             g == [h EXCEPT ![a].n = b, ![a].size = size]
             f == Put(g, b, new)
  <1>0. PICK m : m = split_chunk(h, a, size)
    OBVIOUS
  <1>1. Placed(h, e) /\ HDR \in Nat /\ HDR > 0
    BY HeapAssumption DEF Chain
  <1>2. /\ a \in Nat /\ h[a].n \in Nat /\ h[a].p \in Nat /\ h[a].size \in Nat /\ a # Null
        /\ End(h, a) = a + HDR + h[a].size
    BY <1>1, HeaderFacts
  <1>3. b \in Nat /\ b > a /\ b < End(h, a)
    BY <1>1, <1>2
  <1>4. b \notin DOMAIN h
    BY <1>1, <1>2, <1>3 DEF Placed
  <1>5. new \in Header
    <2>1. h[a].size - size - HDR \in Nat
      BY <1>1, <1>2
    <2> QED BY <1>2, <2>1 DEF Header
  <1>6. h \in [DOMAIN h -> Header] /\ h[a] \in Header
    BY <1>1 DEF Placed
  <1>7. PICK r : r = [n |-> b, p |-> h[a].p, free |-> h[a].free, size |-> size]
    OBVIOUS
  <1>8. r \in Header
    BY <1>3, <1>6, <1>7 DEF Header
  <1>9. g = [h EXCEPT ![a] = r]
    <2>1. PICK g1 : g1 = [h EXCEPT ![a].n = b]
      OBVIOUS
    <2>2. PICK r1 : r1 = [n |-> b, p |-> h[a].p, free |-> h[a].free, size |-> h[a].size]
      OBVIOUS
    <2>3. [h[a] EXCEPT !.n = b] = r1
      BY <1>6, <2>2 DEF Header
    <2>4. g1 = [h EXCEPT ![a] = r1]
      BY <2>1, <2>3
    <2>5. g = [g1 EXCEPT ![a].size = size]
      BY <2>1
    <2>6. [r1 EXCEPT !.size = size] = r
      BY <1>7, <2>2
    <2>7. g1[a] = r1 /\ DOMAIN g1 = DOMAIN h
      BY <1>6, <2>4
    <2>8. [g1 EXCEPT ![a].size = size] = [g1 EXCEPT ![a] = r]
      BY <2>6, <2>7
    <2>9. [g1 EXCEPT ![a] = r] = [h EXCEPT ![a] = r]
      BY <2>4
    <2> QED BY <2>5, <2>8, <2>9
  <1> HIDE DEF g
  <1>10. /\ DOMAIN g = DOMAIN h /\ g \in [DOMAIN g -> Header]
         /\ \A x \in DOMAIN h : g[x] = IF x = a THEN r ELSE h[x]
    BY <1>6, <1>8, <1>9
  <1>11. \A x \in DOMAIN h : /\ g[x].n = IF x = a THEN b ELSE h[x].n
                             /\ g[x].p = h[x].p /\ (g[x].free <=> h[x].free)
                             /\ g[x].size = IF x = a THEN size ELSE h[x].size
    BY <1>7, <1>10
  <1>12. /\ DOMAIN f = DOMAIN h \cup {b}
         /\ f \in [DOMAIN h \cup {b} -> Header]
         /\ f[b] = new
         /\ \A x \in DOMAIN h : f[x] = g[x]
    <2> HIDE DEF new
    <2>1. /\ DOMAIN f = DOMAIN g \cup {b}
          /\ f \in [DOMAIN g \cup {b} -> Header]
          /\ f[b] = new
          /\ \A x \in DOMAIN g : f[x] = g[x]
      BY <1>4, <1>5, <1>10 DEF Put
    <2> QED BY <1>10, <2>1
  <1>13. m = SetPrev(f, h[a].n, b)
    <2>1. ~(h[a].size <= size + HDR)
      BY <1>1, <1>2
    <2> QED BY <1>0, <2>1 DEF split_chunk, g
  <1>14. /\ f[b].n = h[a].n /\ f[b].p = a /\ f[b].free /\ f[b].size = h[a].size - size - HDR
    BY <1>12
  <1> HIDE DEF f, new
  <1>15. ASSUME h[a].n = Null PROVE Split(h, a, size, b, m)
    <2>1. m = f
      BY <1>13, <1>15 DEF SetPrev
    <2>2. \A x \in DOMAIN h : x # h[a].n
      BY <1>1, <1>15, HeaderFacts
    <2>3. \A x \in DOMAIN h : /\ m[x].n = IF x = a THEN b ELSE h[x].n
                              /\ m[x].p = IF x = h[a].n THEN b ELSE h[x].p
                              /\ (m[x].free <=> h[x].free)
                              /\ m[x].size = IF x = a THEN size ELSE h[x].size
      BY <1>11, <1>12, <2>1, <2>2
    <2> QED BY <1>4, <1>12, <1>14, <2>1, <2>3 DEF Split
  <1>16. ASSUME h[a].n # Null PROVE Split(h, a, size, b, m)
    <2>1. m = [f EXCEPT ![h[a].n].p = b]
      BY <1>13, <1>16 DEF SetPrev
    <2>2. h[a].n \in DOMAIN h /\ h[a].n # b
      BY <1>4, <1>16, NextFacts
    <2>3. PICK y : y = h[a].n
      OBVIOUS
    <2>4. f[y] \in Header /\ y \in DOMAIN f
      BY <1>12, <2>2, <2>3
    <2>5. [f[y] EXCEPT !.p = b] \in Header
      BY <1>3, <2>4 DEF Header
    <2>6. m = [f EXCEPT ![y] = [f[y] EXCEPT !.p = b]]
      BY <2>1, <2>3
    <2>7. m \in [DOMAIN h \cup {b} -> Header] /\ DOMAIN m = DOMAIN h \cup {b}
      BY <1>12, <2>4, <2>5, <2>6
    <2>8. m[b] = f[b]
      BY <1>12, <2>2, <2>3, <2>6
    <2>9. ASSUME NEW x \in DOMAIN h
          PROVE  /\ m[x].n = f[x].n /\ (m[x].free <=> f[x].free) /\ m[x].size = f[x].size
                 /\ m[x].p = IF x = y THEN b ELSE f[x].p
      <3>1. CASE x = y
        <4>1. m[x] = [f[x] EXCEPT !.p = b]
          BY <2>4, <2>6, <3>1
        <4> QED BY <2>4, <3>1, <4>1 DEF Header
      <3>2. CASE x # y
        <4>1. m[x] = f[x]
          BY <1>12, <2>6, <3>2
        <4> QED BY <3>2, <4>1
      <3> QED BY <3>1, <3>2
    <2>10. \A x \in DOMAIN h : /\ m[x].n = IF x = a THEN b ELSE h[x].n
                               /\ m[x].p = IF x = h[a].n THEN b ELSE h[x].p
                               /\ (m[x].free <=> h[x].free)
                               /\ m[x].size = IF x = a THEN size ELSE h[x].size
      BY <1>11, <1>12, <2>3, <2>9
    <2> QED BY <1>4, <1>14, <2>7, <2>8, <2>10 DEF Split
  <1> QED BY <1>0, <1>15, <1>16

(* A list in which a chunk is split still tiles the heap (heap.c:66-77). *)
LEMMA SplitChain ==
    ASSUME NEW h, NEW e, Chain(h, e), NEW a \in DOMAIN h, NEW size \in Nat, NEW b,
           b = a + HDR + size, size + HDR < h[a].size, NEW m, Split(h, a, size, b, m)
    PROVE  Chain(m, e)
  <1>1. Placed(h, e) /\ Linked(h, e) /\ HDR \in Nat /\ HDR > 0
    BY HeapAssumption DEF Chain
  <1>2. /\ DOMAIN m = DOMAIN h \cup {b}
        /\ b \notin DOMAIN h
        /\ m \in [DOMAIN m -> Header]
        /\ m[b].n = h[a].n /\ m[b].p = a /\ m[b].size = h[a].size - size - HDR
        /\ \A x \in DOMAIN h :
            /\ m[x].n = IF x = a THEN b ELSE h[x].n
            /\ m[x].p = IF x = h[a].n THEN b ELSE h[x].p
            /\ m[x].size = IF x = a THEN size ELSE h[x].size
    BY DEF Split
  <1>3. /\ a \in Nat /\ a >= 1 /\ h[a].size \in Nat /\ End(h, a) = a + HDR + h[a].size
        /\ End(h, a) <= e /\ e \in Nat /\ End(h, a) \in Nat
    BY <1>1, HeaderFacts
  <1>4. b \in Nat /\ b > a /\ b < End(h, a) /\ b # Null
    BY <1>1, <1>3 DEF Null
  <1>5. End(m, b) = End(h, a) /\ End(m, a) = b
    BY <1>1, <1>2, <1>3 DEF End
  <1>6. \A x \in DOMAIN h : x # a => End(m, x) = End(h, x)
    BY <1>2 DEF End
  <1>7. \A x \in DOMAIN h : x \in Nat /\ x >= KERNEL_HEAP_S /\ End(h, x) <= e
    BY <1>1 DEF Placed
  <1>8. \A x, y \in DOMAIN h : x < y => End(h, x) <= y
    BY <1>1 DEF Placed
  <1>9. Placed(m, e)
    <2>1. \A x \in DOMAIN m : x \in Nat /\ x >= KERNEL_HEAP_S /\ End(m, x) <= e
      BY <1>2, <1>3, <1>4, <1>5, <1>6, <1>7 DEF KERNEL_HEAP_S
    <2>2. ASSUME NEW x \in DOMAIN m, NEW y \in DOMAIN m, x < y PROVE End(m, x) <= y
      <3>1. CASE x = b
        <4>1. y \in DOMAIN h /\ a < y /\ y \in Nat
          BY <1>2, <1>3, <1>4, <1>7, <2>2, <3>1
        <4> QED BY <1>5, <1>8, <3>1, <4>1
      <3>2. CASE y = b /\ x \in DOMAIN h
        <4>1. CASE x = a
          BY <1>4, <1>5, <3>2, <4>1
        <4>2. CASE x # a
          <5>1. x \in Nat /\ End(h, x) \in Nat
            BY <1>1, <3>2, HeaderFacts
          <5>2. x < a
            <6>1. a < x => End(h, a) <= x
              BY <1>8, <3>2
            <6> QED BY <1>3, <1>4, <2>2, <3>2, <4>2, <5>1, <6>1
          <5>3. End(h, x) <= a
            BY <1>8, <3>2, <5>2
          <5> QED BY <1>3, <1>4, <1>6, <3>2, <4>2, <5>1, <5>3
        <4> QED BY <4>1, <4>2
      <3>3. CASE x \in DOMAIN h /\ y \in DOMAIN h
        <4>1. End(h, x) <= y
          BY <1>8, <2>2, <3>3
        <4>2. y \in Nat
          BY <1>7, <3>3
        <4> QED BY <1>3, <1>4, <1>5, <1>6, <3>3, <4>1, <4>2
      <3> QED BY <1>2, <3>1, <3>2, <3>3
    <2> QED BY <1>2, <1>3, <2>1, <2>2 DEF Placed
  <1>10. KERNEL_HEAP_S \in DOMAIN m
    BY <1>1, <1>2 DEF Linked
  <1>11. ASSUME NEW x \in DOMAIN m
         PROVE  IF m[x].n = Null THEN End(m, x) = e
                ELSE m[x].n \in DOMAIN m /\ m[x].n = End(m, x) /\ m[m[x].n].p = x
    <2>1. CASE x = a
      BY <1>2, <1>4, <1>5, <2>1
    <2>2. CASE x = b
      <3>1. CASE h[a].n = Null
        BY <1>1, <1>2, <1>5, <2>2, <3>1 DEF Linked
      <3>2. CASE h[a].n # Null
        <4>1. h[a].n \in DOMAIN h /\ h[a].n = End(h, a)
          BY <3>2, NextFacts
        <4> QED BY <1>2, <1>5, <2>2, <3>2, <4>1
      <3> QED BY <3>1, <3>2
    <2>3. CASE x \in DOMAIN h /\ x # a
      <3>1. m[x].n = h[x].n /\ End(m, x) = End(h, x)
        BY <1>2, <1>6, <2>3
      <3>2. CASE h[x].n = Null
        BY <1>1, <2>3, <3>1, <3>2 DEF Linked
      <3>3. CASE h[x].n # Null
        <4>1. h[x].n \in DOMAIN h /\ h[x].n = End(h, x) /\ h[h[x].n].p = x
          BY <2>3, <3>3, NextFacts
        <4>2. h[x].n # h[a].n
          <5>1. h[a].n # Null => h[h[a].n].p = a
            BY NextFacts
          <5> QED BY <2>3, <3>3, <4>1, <5>1
        <4> QED BY <1>2, <3>1, <3>3, <4>1, <4>2
      <3> QED BY <3>2, <3>3
    <2> QED BY <1>2, <2>1, <2>2, <2>3
  <1>12. ASSUME NEW x \in DOMAIN m
         PROVE  IF x = KERNEL_HEAP_S THEN m[x].p = Null
                ELSE m[x].p \in DOMAIN m /\ m[m[x].p].n = x
    <2>1. CASE x = b
      <3>1. x # KERNEL_HEAP_S
        BY <1>3, <1>4, <2>1 DEF KERNEL_HEAP_S
      <3> QED BY <1>2, <2>1, <3>1
    <2>2. CASE x \in DOMAIN h /\ x = h[a].n
      <3>1. x # KERNEL_HEAP_S
        <4>1. x # Null /\ x \in Nat
          BY <1>1, <2>2, HeaderFacts
        <4>2. x > a
          BY <2>2, <4>1, NextFacts
        <4> QED BY <1>3, <4>1, <4>2 DEF KERNEL_HEAP_S
      <3> QED BY <1>2, <2>2, <3>1
    <2>3. CASE x \in DOMAIN h /\ x # h[a].n
      <3>1. m[x].p = h[x].p
        BY <1>2, <2>3
      <3>2. CASE x = KERNEL_HEAP_S
        BY <1>1, <2>3, <3>1, <3>2 DEF Linked
      <3>3. CASE x # KERNEL_HEAP_S
        <4>1. h[x].p \in DOMAIN h /\ h[h[x].p].n = x
          BY <1>1, <2>3, <3>3 DEF Linked
        <4>2. h[x].p # a
          BY <2>3, <4>1
        <4> QED BY <1>2, <3>1, <3>3, <4>1, <4>2
      <3> QED BY <3>2, <3>3
    <2> QED BY <1>2, <2>1, <2>2, <2>3
  <1>13. Linked(m, e)
    BY <1>10, <1>11, <1>12 DEF Linked
  <1> QED BY <1>9, <1>13 DEF Chain

(* In m the flag of chunk a is v, and all else as in h *)
Marked(h, a, v, m) ==
    /\ DOMAIN m = DOMAIN h
    /\ m \in [DOMAIN m -> Header]
    /\ (m[a].free <=> v)
    /\ \A x \in DOMAIN h : /\ m[x].n = h[x].n /\ m[x].p = h[x].p /\ m[x].size = h[x].size
                           /\ x # a => (m[x].free <=> h[x].free)

(* The headers after a flag has changed. *)
LEMMA MarkFields ==
    ASSUME NEW h, h \in [DOMAIN h -> Header], NEW a \in DOMAIN h, NEW v \in BOOLEAN
    PROVE  Marked(h, a, v, [h EXCEPT ![a].free = v])
  <1>1. PICK r : r = [n |-> h[a].n, p |-> h[a].p, free |-> v, size |-> h[a].size]
    OBVIOUS
  <1>2. h[a] \in Header
    OBVIOUS
  <1>3. [h[a] EXCEPT !.free = v] = r
    BY <1>1, <1>2 DEF Header
  <1>4. PICK m : m = [h EXCEPT ![a].free = v]
    OBVIOUS
  <1>5. m = [h EXCEPT ![a] = r]
    BY <1>3, <1>4
  <1>6. r \in Header
    BY <1>1, <1>2 DEF Header
  <1>7. DOMAIN m = DOMAIN h /\ m \in [DOMAIN m -> Header] /\ m[a] = r
    BY <1>5, <1>6
  <1>8. \A x \in DOMAIN h : x # a => m[x] = h[x]
    BY <1>5
  <1>9. m[a].free <=> v
    BY <1>1, <1>7
  <1>10. \A x \in DOMAIN h : m[x].n = h[x].n /\ m[x].p = h[x].p /\ m[x].size = h[x].size
    BY <1>1, <1>7, <1>8
  <1> QED BY <1>4, <1>7, <1>8, <1>9, <1>10 DEF Marked

(* The flags have no part in how the chunks are placed and linked. *)
LEMMA MarkChain ==
    ASSUME NEW h, NEW e, Chain(h, e), NEW a \in DOMAIN h, NEW v, NEW m, Marked(h, a, v, m)
    PROVE  Chain(m, e)
  <1>1. Placed(h, e) /\ Linked(h, e)
    BY DEF Chain
  <1>2. /\ DOMAIN m = DOMAIN h /\ m \in [DOMAIN m -> Header]
        /\ \A x \in DOMAIN h : m[x].n = h[x].n /\ m[x].p = h[x].p /\ m[x].size = h[x].size
    BY DEF Marked
  <1>3. \A x \in DOMAIN h : End(m, x) = End(h, x)
    BY <1>2 DEF End
  <1>4. Placed(m, e)
    BY <1>1, <1>2, <1>3 DEF Placed
  <1>5. Linked(m, e)
    BY <1>1, <1>2, <1>3 DEF Linked
  <1> QED BY <1>4, <1>5 DEF Chain

(* In m there is a chunk more, at the end of the list, after chunk q *)
Grown(h, q, e, size, m) ==
    /\ DOMAIN m = DOMAIN h \cup {e}
    /\ m \in [DOMAIN m -> Header]
    /\ m[e].n = Null /\ m[e].p = q /\ m[e].free /\ m[e].size = size
    /\ \A x \in DOMAIN h :
        /\ m[x].n = IF x = q THEN e ELSE h[x].n
        /\ m[x].p = h[x].p /\ (m[x].free <=> h[x].free) /\ m[x].size = h[x].size

(* A chunk added at the end of the heap, of which it is the new end (heap.c:115-129). *)
LEMMA GrowChain ==
    ASSUME NEW h, NEW e, Chain(h, e), NEW q, NEW size \in Nat, NEW m, Grown(h, q, e, size, m),
           IF q = Null THEN DOMAIN h = {} ELSE q \in DOMAIN h /\ h[q].n = Null
    PROVE  Chain(m, e + size + HDR) /\ e \notin DOMAIN h
  <1> DEFINE f == e + size + HDR
  <1>1. Placed(h, e) /\ Linked(h, e) /\ HDR \in Nat /\ HDR > 0
    BY HeapAssumption DEF Chain
  <1>2. /\ DOMAIN m = DOMAIN h \cup {e} /\ m \in [DOMAIN m -> Header]
        /\ m[e].n = Null /\ m[e].p = q /\ m[e].size = size
        /\ \A x \in DOMAIN h :
            /\ m[x].n = IF x = q THEN e ELSE h[x].n
            /\ m[x].p = h[x].p /\ m[x].size = h[x].size
    BY DEF Grown
  <1>3. e \in Nat /\ f \in Nat /\ f > e /\ End(m, e) = f
    <2>1. e \in Nat
      BY <1>1 DEF Placed
    <2> QED BY <1>1, <1>2, <2>1 DEF End
  <1> HIDE DEF f
  <1>4. \A x \in DOMAIN h : /\ x \in Nat /\ x >= 1 /\ End(m, x) = End(h, x) /\ End(h, x) <= e
                            /\ x < e /\ End(h, x) \in Nat
    <2> SUFFICES ASSUME NEW x \in DOMAIN h
                 PROVE  /\ x \in Nat /\ x >= 1 /\ End(m, x) = End(h, x) /\ End(h, x) <= e
                        /\ x < e /\ End(h, x) \in Nat
      OBVIOUS
    <2>1. /\ x \in Nat /\ x >= 1 /\ End(h, x) \in Nat /\ End(h, x) > x /\ End(h, x) <= e
      BY <1>1, HeaderFacts
    <2>2. End(m, x) = End(h, x)
      BY <1>2 DEF End
    <2> QED BY <1>3, <2>1, <2>2
  <1>5. e >= 1 /\ (e = 1 <=> DOMAIN h = {})
    <2>1. CASE DOMAIN h = {}
      BY <1>1, <2>1 DEF Linked, KERNEL_HEAP_S
    <2>2. CASE DOMAIN h # {}
      <3>1. 1 \in DOMAIN h
        BY <1>1, <2>2 DEF Linked, KERNEL_HEAP_S
      <3> QED BY <1>3, <1>4, <2>2, <3>1
    <2> QED BY <2>1, <2>2
  <1>6. Placed(m, f)
    <2>1. \A x \in DOMAIN m : x \in Nat /\ x >= KERNEL_HEAP_S /\ End(m, x) <= f
      BY <1>2, <1>3, <1>4, <1>5 DEF KERNEL_HEAP_S
    <2>2. ASSUME NEW x \in DOMAIN m, NEW y \in DOMAIN m, x < y PROVE End(m, x) <= y
      <3>1. x \in DOMAIN h
        BY <1>2, <1>3, <1>4, <2>2
      <3>2. CASE y = e
        BY <1>4, <3>1, <3>2
      <3>3. CASE y \in DOMAIN h
        BY <1>1, <1>4, <2>2, <3>1, <3>3 DEF Placed
      <3> QED BY <1>2, <3>2, <3>3
    <2> QED BY <1>2, <1>3, <2>1, <2>2 DEF Placed
  <1>7. KERNEL_HEAP_S \in DOMAIN m
    <2>1. CASE DOMAIN h = {}
      BY <1>2, <1>5, <2>1 DEF KERNEL_HEAP_S
    <2>2. CASE DOMAIN h # {}
      BY <1>1, <1>2, <2>2 DEF Linked
    <2> QED BY <2>1, <2>2
  <1>8. ASSUME NEW x \in DOMAIN m
        PROVE  IF m[x].n = Null THEN End(m, x) = f
               ELSE m[x].n \in DOMAIN m /\ m[x].n = End(m, x) /\ m[m[x].n].p = x
    <2>1. CASE x = e
      BY <1>2, <1>3, <2>1
    <2>2. CASE x \in DOMAIN h /\ x = q
      <3>1. x # Null
        BY <1>1, <2>2, HeaderFacts
      <3>2. h[x].n = Null /\ m[x].n = e
        BY <1>2, <2>2, <3>1
      <3>3. End(h, x) = e
        BY <1>1, <2>2, <3>2 DEF Linked
      <3>4. e # Null
        BY <1>3, <1>5 DEF Null
      <3> QED BY <1>2, <1>4, <2>2, <3>2, <3>3, <3>4
    <2>3. CASE x \in DOMAIN h /\ x # q
      <3>1. q # Null
        BY <2>3
      <3>2. q \in DOMAIN h /\ h[q].n = Null
        BY <3>1
      <3>3. m[x].n = h[x].n /\ h[x].n # Null
        <4>1. h[x].n = Null => q <= x
          BY <2>3, <3>2, NextFacts
        <4>2. x <= q
          BY <2>3, <3>2, NextFacts
        <4> QED BY <1>2, <1>4, <2>3, <3>2, <4>1, <4>2
      <3>4. h[x].n \in DOMAIN h /\ h[x].n = End(h, x) /\ h[h[x].n].p = x
        BY <2>3, <3>3, NextFacts
      <3> QED BY <1>2, <1>4, <2>3, <3>3, <3>4
    <2> QED BY <1>2, <2>1, <2>2, <2>3
  <1>9. ASSUME NEW x \in DOMAIN m
        PROVE  IF x = KERNEL_HEAP_S THEN m[x].p = Null
               ELSE m[x].p \in DOMAIN m /\ m[m[x].p].n = x
    <2>1. CASE x = e /\ q = Null
      <3>1. x = KERNEL_HEAP_S
        BY <1>5, <2>1 DEF KERNEL_HEAP_S
      <3> QED BY <1>2, <2>1, <3>1
    <2>2. CASE x = e /\ q # Null
      <3>1. q \in DOMAIN h /\ x # KERNEL_HEAP_S
        BY <1>5, <2>2 DEF KERNEL_HEAP_S
      <3> QED BY <1>2, <2>2, <3>1
    <2>3. CASE x \in DOMAIN h /\ x = KERNEL_HEAP_S
      BY <1>1, <1>2, <2>3 DEF Linked
    <2>4. CASE x \in DOMAIN h /\ x # KERNEL_HEAP_S
      <3>1. h[x].p \in DOMAIN h /\ h[h[x].p].n = x /\ m[x].p = h[x].p
        BY <1>1, <1>2, <2>4 DEF Linked
      <3>2. x # Null
        BY <1>1, <2>4, HeaderFacts
      <3>3. h[x].p # q
        BY <2>4, <3>1, <3>2
      <3> QED BY <1>2, <2>4, <3>1, <3>3
    <2> QED BY <1>2, <2>1, <2>2, <2>3, <2>4
  <1>10. Linked(m, f)
    BY <1>7, <1>8, <1>9 DEF Linked
  <1>11. e \notin DOMAIN h
    BY <1>3, <1>4
  <1> QED BY <1>6, <1>10, <1>11 DEF Chain, f

(* In m chunk a is free and part of a free chunk that has no free neighbour *)
Freed(h, a, m) ==
    /\ \A x \in DOMAIN m : ~Pair(m, x)
    /\ \A x : (x \in DOMAIN m /\ ~m[x].free) <=> (x \in DOMAIN h /\ ~h[x].free /\ x # a)
    /\ \A x \in DOMAIN m : ~m[x].free => m[x].size = h[x].size
    /\ DOMAIN m # {}

(***************************************************************************)
(* merge_chunk joins a chunk that becomes free with the next and with the  *)
(* previous one: the list still tiles the heap, there are no two free      *)
(* neighbours, and the chunks in use are the same (heap.c:34-56, 88-91).   *)
(***************************************************************************)
LEMMA MergeChain ==
    ASSUME NEW h, NEW e, Chain(h, e), NEW a \in DOMAIN h, ~h[a].free,
           \A x \in DOMAIN h : ~Pair(h, x),
           NEW g, Marked(h, a, TRUE, g)
    PROVE  Chain(merge_chunk(g, a), e) /\ Freed(h, a, merge_chunk(g, a))
  <1>0. PICK b, k, m : /\ b = g[a].n
                       /\ k = IF IsFree(g, g[a].n) THEN Absorb(g, a, g[a].n) ELSE g
                       /\ m = merge_chunk(g, a)
    OBVIOUS
  <1>1. Chain(g, e) /\ Placed(g, e) /\ Linked(g, e)
    BY MarkChain DEF Chain
  <1>2. /\ DOMAIN g = DOMAIN h /\ g[a].free
        /\ \A x \in DOMAIN h : /\ g[x].n = h[x].n /\ g[x].p = h[x].p /\ g[x].size = h[x].size
                               /\ x # a => (g[x].free <=> h[x].free)
    BY DEF Marked
  <1>3. m = IF IsFree(k, k[a].p) THEN Absorb(k, k[a].p, a) ELSE k
    BY <1>0 DEF merge_chunk
  <1>4. ASSUME NEW x \in DOMAIN g, Pair(g, x), x # a PROVE g[x].n = a
    <2>1. g[x].free /\ g[x].n # Null /\ g[g[x].n].free
      BY <1>4 DEF Pair, IsFree
    <2>2. g[x].n \in DOMAIN g
      BY <1>1, <2>1, NextFacts
    <2>3. ~Pair(h, x) /\ h[x].free
      BY <1>2, <1>4, <2>1
    <2>4. h[g[x].n].free => FALSE
      BY <1>2, <2>1, <2>3 DEF Pair, IsFree
    <2> QED BY <1>2, <2>1, <2>2, <2>4
  <1> DEFINE Half ==
        /\ Chain(k, e) /\ a \in DOMAIN k /\ k[a].free /\ ~IsFree(k, k[a].n)
        /\ \A x \in DOMAIN k : Pair(k, x) => k[x].n = a
        /\ \A x : (x \in DOMAIN k /\ ~k[x].free) <=> (x \in DOMAIN g /\ ~g[x].free)
        /\ \A x \in DOMAIN k : x # a => k[x].size = g[x].size
  <1>5. ASSUME IsFree(g, b) PROVE Half
    <2>1. k = Absorb(g, a, b) /\ b # Null
      BY <1>0, <1>5 DEF IsFree
    <2>2. b \in DOMAIN g /\ b > a /\ g[b].free
      BY <1>0, <1>1, <1>2, <1>5, <2>1, NextFacts DEF IsFree
    <2>3. Absorbed(g, a, b, k)
      BY <1>0, <1>1, <1>2, <2>1, AbsorbFields
    <2>4. Chain(k, e)
      BY <1>0, <1>1, <1>2, <2>1, AbsorbChain
    <2>5. /\ DOMAIN k = DOMAIN g \ {b} /\ a \in DOMAIN k
          /\ \A x \in DOMAIN k :
              /\ k[x].n = IF x = a THEN g[b].n ELSE g[x].n
              /\ (k[x].free <=> g[x].free)
              /\ x # a => k[x].size = g[x].size
      BY <2>3 DEF Absorbed
    <2>6. ~IsFree(k, k[a].n)
      <3> SUFFICES ASSUME g[b].n # Null, k[g[b].n].free PROVE FALSE
        BY <2>5 DEF IsFree
      <3>1. g[b].n \in DOMAIN g /\ g[b].n > b
        BY <1>1, <2>2, NextFacts
      <3>2. b \in Nat /\ a \in Nat /\ g[b].n \in Nat
        BY <1>1, <1>2, <2>2, <3>1, HeaderFacts
      <3>3. g[b].n # b /\ g[b].n # a /\ b # a
        BY <2>2, <3>1, <3>2
      <3>4. g[g[b].n].free
        BY <2>5, <3>1, <3>3
      <3>5. Pair(g, b)
        BY <2>2, <3>4 DEF Pair, IsFree
      <3> QED BY <1>4, <2>2, <3>3, <3>5
    <2>7. ASSUME NEW x \in DOMAIN k, Pair(k, x) PROVE k[x].n = a
      <3>1. k[x].free /\ k[x].n # Null /\ k[k[x].n].free /\ x # a
        BY <2>6, <2>7 DEF Pair, IsFree
      <3>2. k[x].n \in DOMAIN k
        BY <2>4, <3>1, NextFacts
      <3>3. g[x].free /\ g[x].n = k[x].n /\ g[g[x].n].free /\ x \in DOMAIN g
        BY <2>5, <3>1, <3>2
      <3>4. Pair(g, x)
        BY <3>1, <3>3 DEF Pair, IsFree
      <3> QED BY <1>4, <3>1, <3>3, <3>4
    <2>8. \A x : (x \in DOMAIN k /\ ~k[x].free) <=> (x \in DOMAIN g /\ ~g[x].free)
      BY <2>2, <2>5
    <2> QED BY <1>2, <2>4, <2>5, <2>6, <2>7, <2>8
  <1>6. ASSUME ~IsFree(g, b) PROVE Half
    <2>1. k = g
      BY <1>0, <1>6
    <2>2. ASSUME NEW x \in DOMAIN k, Pair(k, x) PROVE k[x].n = a
      <3>1. x # a
        BY <1>0, <1>6, <2>1, <2>2 DEF Pair
      <3> QED BY <1>4, <2>1, <2>2, <3>1
    <2> QED BY <1>0, <1>1, <1>2, <1>6, <2>1, <2>2
  <1>7. Half
    BY <1>5, <1>6
  <1>8. Placed(k, e) /\ Linked(k, e)
    BY <1>7 DEF Chain
  <1>9. \A x : (x \in DOMAIN k /\ ~k[x].free) <=> (x \in DOMAIN h /\ ~h[x].free /\ x # a)
    BY <1>2, <1>7
  <1>10. \A x \in DOMAIN k : ~k[x].free => k[x].size = h[x].size
    BY <1>2, <1>7
  <1>11. CASE IsFree(k, k[a].p)
    <2>1. PICK q : q = k[a].p
      OBVIOUS
    <2>2. m = Absorb(k, q, a) /\ q # Null /\ k[q].free
      BY <1>3, <1>11, <2>1 DEF IsFree
    <2>3. q \in DOMAIN k /\ k[q].n = a
      BY <1>7, <1>8, <2>1, <2>2 DEF Linked
    <2>4. a # Null
      BY <1>7, <1>8, HeaderFacts
    <2>5. Absorbed(k, q, a, m) /\ Chain(m, e)
      BY <1>7, <2>2, <2>3, <2>4, AbsorbFields, AbsorbChain
    <2>6. /\ DOMAIN m = DOMAIN k \ {a} /\ q \in DOMAIN m
          /\ \A x \in DOMAIN m :
              /\ m[x].n = IF x = q THEN k[a].n ELSE k[x].n
              /\ (m[x].free <=> k[x].free)
              /\ x # q => m[x].size = k[x].size
      BY <2>5 DEF Absorbed
    <2>7. ASSUME NEW x \in DOMAIN m, Pair(m, x) PROVE FALSE
      <3>1. m[x].free /\ m[x].n # Null /\ m[m[x].n].free
        BY <2>7 DEF Pair, IsFree
      <3>2. m[x].n \in DOMAIN m
        BY <2>5, <3>1, NextFacts
      <3>3. k[x].free /\ k[m[x].n].free /\ x \in DOMAIN k
        BY <2>6, <3>1, <3>2
      <3>4. CASE x = q
        <4>1. m[x].n = k[a].n
          BY <2>6, <3>4
        <4> QED BY <1>7, <3>1, <3>3, <4>1 DEF IsFree
      <3>5. CASE x # q
        <4>1. m[x].n = k[x].n
          BY <2>6, <3>5
        <4>2. Pair(k, x)
          BY <3>1, <3>3, <4>1 DEF Pair, IsFree
        <4>3. k[x].n = a
          BY <1>7, <3>3, <4>2
        <4>4. k[a].p = x
          BY <1>7, <3>3, <4>3, NextFacts
        <4> QED BY <2>1, <3>5, <4>4
      <3> QED BY <3>4, <3>5
    <2>8. \A x : (x \in DOMAIN m /\ ~m[x].free) <=> (x \in DOMAIN k /\ ~k[x].free)
      BY <1>7, <2>6
    <2>9. \A x \in DOMAIN m : ~m[x].free => m[x].size = h[x].size
      BY <1>10, <2>2, <2>6
    <2>10. Freed(h, a, m)
      BY <1>9, <2>6, <2>7, <2>8, <2>9 DEF Freed
    <2> QED BY <1>0, <2>5, <2>10
  <1>12. CASE ~IsFree(k, k[a].p)
    <2>1. m = k
      BY <1>3, <1>12
    <2>2. ASSUME NEW x \in DOMAIN k, Pair(k, x) PROVE FALSE
      <3>1. k[x].n = a
        BY <1>7, <2>2
      <3>2. k[a].p = x
        BY <1>7, <3>1, NextFacts
      <3>3. x # Null
        BY <1>8, HeaderFacts
      <3>4. k[x].free
        BY <2>2 DEF Pair
      <3> QED BY <1>12, <3>2, <3>3, <3>4 DEF IsFree
    <2>3. Freed(h, a, m)
      BY <1>7, <1>9, <1>10, <2>1, <2>2 DEF Freed
    <2> QED BY <1>0, <1>7, <2>1, <2>3
  <1> QED BY <1>11, <1>12

-----------------------------------------------------------------------------
(* The operations *)

(* A call starts its search at the first chunk (heap.c:94-99, 134-151). *)
LEMMA CallStep ==
    ASSUME IInv, NEW k, Cpu = {k}, NEW size \in 0..MaxSize, NEW old \in DOMAIN live \cup {Null},
           Call(k, size, old)
    PROVE  IInv'
  <1>1. CpuOK(k) /\ k \in Cpu
    BY DEF IInv
  <1>2. Globals
    BY DEF IInv
  <1>3. /\ pc[k] = "idle"
        /\ (\E a \in DOMAIN chunk : Fits(a, size)) \/ heap_max + HDR + size <= MaxHeap
        /\ req' = [req EXCEPT ![k] = size]
        /\ ptr' = [ptr EXCEPT ![k] = old]
        /\ c' = [c EXCEPT ![k] = heap]
        /\ pc' = [pc EXCEPT ![k] = "search"]
        /\ chunk' = chunk /\ heap' = heap /\ heap_max' = heap_max /\ brk' = brk
        /\ live' = live /\ p' = p
    BY DEF Call
  <1>4. p[k] = Null /\ \A a \in DOMAIN chunk : ~Pair(chunk, a)
    BY <1>1, <1>3 DEF CpuOK
  <1>5. Chain(chunk, heap_max) /\ Placed(chunk, heap_max) /\ Blocks(chunk, live)
    BY DEF IInv, Chain
  <1>6. heap \in DOMAIN chunk \cup {Null}
    <2>1. DOMAIN chunk # {} => KERNEL_HEAP_S \in DOMAIN chunk
      BY <1>5 DEF Chain, Linked
    <2> QED BY <1>2, <2>1 DEF Globals
  <1>7. Globals'
    BY <1>2, <1>3, <1>6 DEF Globals
  <1>8. /\ req'[k] = size /\ c'[k] = heap /\ pc'[k] = "search" /\ p'[k] = Null
    BY <1>1, <1>2, <1>3, <1>4 DEF Globals
  <1>9. \A a \in DOMAIN chunk : ~(heap = Null \/ a < heap)
    <2>1. \A a \in DOMAIN chunk : a \in Nat /\ a >= 1
      BY <1>5, HeaderFacts
    <2> QED BY <1>2, <2>1 DEF Globals, Null, KERNEL_HEAP_S
  <1>10. Searching(k)'
    BY <1>3, <1>4, <1>8, <1>9 DEF Searching, Fits
  <1>11. CpuOK(k)'
    BY <1>8, <1>10 DEF CpuOK
  <1>12. (\A j \in Cpu : CpuOK(j))'
    BY <1>11
  <1> QED BY <1>3, <1>5, <1>7, <1>12 DEF IInv

(* The search passes a chunk that does not fit (heap.c:100-111). *)
LEMMA PassStep ==
    ASSUME IInv, NEW k, Cpu = {k}, Pass(k)
    PROVE  IInv'
  <1>1. CpuOK(k) /\ k \in Cpu
    BY DEF IInv
  <1>2. Globals
    BY DEF IInv
  <1>3. PICK b : b = c[k]
    OBVIOUS
  <1>4. /\ pc[k] = "search" /\ b # Null /\ ~Fits(b, req[k])
        /\ p' = [p EXCEPT ![k] = b]
        /\ c' = [c EXCEPT ![k] = chunk[b].n]
        /\ chunk' = chunk /\ heap' = heap /\ heap_max' = heap_max /\ brk' = brk
        /\ live' = live /\ pc' = pc /\ req' = req /\ ptr' = ptr
    BY <1>3 DEF Pass
  <1>5. Chain(chunk, heap_max) /\ Placed(chunk, heap_max) /\ Blocks(chunk, live)
    BY DEF IInv, Chain
  <1>6. b \in DOMAIN chunk
    BY <1>1, <1>2, <1>3, <1>4 DEF Globals
  <1>7. chunk[b].n \in DOMAIN chunk \cup {Null}
    BY <1>5, <1>6, NextFacts
  <1>8. Globals'
    BY <1>2, <1>4, <1>6, <1>7 DEF Globals
  <1>9. p'[k] = b /\ c'[k] = chunk[b].n /\ pc'[k] = "search" /\ req'[k] = req[k]
    BY <1>1, <1>2, <1>4 DEF Globals
  <1>10. Searching(k)
    BY <1>1, <1>4 DEF CpuOK
  <1>11. ASSUME NEW a \in DOMAIN chunk, chunk[b].n = Null \/ a < chunk[b].n
         PROVE  ~Fits(a, req[k])
    <2>1. a \in Nat /\ b \in Nat /\ chunk[b].n \in Nat
      BY <1>5, <1>6, HeaderFacts
    <2>2. a <= b
      BY <1>5, <1>6, <1>11, <2>1, NextFacts
    <2>3. a < b \/ a = b
      BY <2>1, <2>2
    <2> QED BY <1>3, <1>4, <1>10, <2>3 DEF Searching
  <1>12. Searching(k)'
    <2>1. (IF p[k] = Null THEN c[k] = heap ELSE chunk[p[k]].n = c[k])'
      BY <1>4, <1>9
    <2>2. (\A a \in DOMAIN chunk : c[k] = Null \/ a < c[k] => ~Fits(a, req[k]))'
      BY <1>4, <1>9, <1>11 DEF Fits
    <2>3. ((\E a \in DOMAIN chunk : Fits(a, req[k])) \/ heap_max + HDR + req[k] <= MaxHeap)'
      BY <1>4, <1>10 DEF Searching, Fits
    <2>4. (\A a \in DOMAIN chunk :
            Pair(chunk, a) =>
                /\ chunk[chunk[a].n].n = Null
                /\ chunk[chunk[a].n].size = req[k]
                /\ \A x \in DOMAIN chunk : x # chunk[a].n => ~Fits(x, req[k]))'
      BY <1>4, <1>10 DEF Searching, Fits
    <2> QED BY <2>1, <2>2, <2>3, <2>4 DEF Searching
  <1>13. CpuOK(k)'
    BY <1>9, <1>12 DEF CpuOK
  <1>14. (\A j \in Cpu : CpuOK(j))'
    BY <1>13
  <1> QED BY <1>4, <1>5, <1>8, <1>14 DEF IInv

(* What is mapped beyond the new end of the heap is less than a page (heap.c:25-29). *)
LEMMA Mapped ==
    ASSUME NEW old \in Nat, NEW goal \in Nat, brk \in Nat, old <= goal, brk < old + PAGE
    PROVE  MappedTo(goal) \in Nat /\ goal <= MappedTo(goal) /\ MappedTo(goal) < goal + PAGE
  <1>1. PAGE \in Nat /\ PAGE > 0
    BY HeapAssumption
  <1>2. CASE brk >= goal
    BY <1>1, <1>2 DEF MappedTo
  <1>3. CASE brk < goal
    <2>1. PICK n \in Nat : n = goal - brk + PAGE - 1
      BY <1>1, <1>3
    <2>2. PICK d, r : d = n \div PAGE /\ r = n % PAGE
      OBVIOUS
    <2>3. d \in Nat /\ r \in Nat /\ r < PAGE /\ n = PAGE * d + r
      BY <1>1, <2>1, <2>2
    <2>4. PICK t \in Nat : t = PAGE * d
      BY <1>1, <2>3
    <2>5. MappedTo(goal) = brk + t
      BY <1>3, <2>1, <2>2, <2>4 DEF MappedTo
    <2>6. n = t + r
      BY <2>3, <2>4
    <2>7. brk + t = goal + PAGE - 1 - r
      BY <1>1, <2>1, <2>3, <2>6
    <2> QED BY <1>1, <2>3, <2>4, <2>5, <2>7
  <1> QED BY <1>2, <1>3

(* The headers after the heap has grown. *)
LEMMA GrowFields ==
    ASSUME NEW h, NEW e, Chain(h, e), NEW q, NEW size \in Nat, NEW hdr,
           IF q = Null THEN DOMAIN h = {} ELSE q \in DOMAIN h /\ h[q].n = Null,
           hdr = [n |-> Null, p |-> q, free |-> TRUE, size |-> size],
           NEW m, m = Put(IF q = Null THEN h ELSE [h EXCEPT ![q].n = e], e, hdr)
    PROVE  Grown(h, q, e, size, m)
  <1>1. Placed(h, e) /\ h \in [DOMAIN h -> Header] /\ e \in Nat
    BY DEF Chain, Placed
  <1>2. PICK g : g = IF q = Null THEN h ELSE [h EXCEPT ![q].n = e]
    OBVIOUS
  <1>3. q \in Nat
    <2>1. q # Null => q \in Nat
      BY <1>1, HeaderFacts
    <2> QED BY <2>1 DEF Null
  <1>4. hdr \in Header
    BY <1>3 DEF Header, Null
  <1>5. \A x \in DOMAIN h : x # e
    <2>1. \A x \in DOMAIN h : End(h, x) > x /\ End(h, x) <= e /\ x \in Nat /\ End(h, x) \in Nat
      BY <1>1, HeaderFacts
    <2> QED BY <1>1, <2>1
  <1>6. /\ DOMAIN g = DOMAIN h /\ g \in [DOMAIN h -> Header]
        /\ \A x \in DOMAIN h :
            /\ g[x].n = IF x = q THEN e ELSE h[x].n
            /\ g[x].p = h[x].p /\ (g[x].free <=> h[x].free) /\ g[x].size = h[x].size
    <2>1. CASE q = Null
      BY <1>1, <1>2, <2>1
    <2>2. CASE q # Null
      <3>1. q \in DOMAIN h /\ h[q] \in Header
        BY <1>1, <2>2
      <3>2. PICK r : r = [n |-> e, p |-> h[q].p, free |-> h[q].free, size |-> h[q].size]
        OBVIOUS
      <3>3. [h[q] EXCEPT !.n = e] = r
        BY <3>1, <3>2 DEF Header
      <3>4. g = [h EXCEPT ![q] = r]
        BY <1>2, <2>2, <3>3
      <3>5. r \in Header
        BY <1>1, <3>1, <3>2 DEF Header
      <3>6. DOMAIN g = DOMAIN h /\ g \in [DOMAIN h -> Header] /\ g[q] = r
        BY <1>1, <3>1, <3>4, <3>5
      <3>7. \A x \in DOMAIN h : x # q => g[x] = h[x]
        BY <3>4
      <3> QED BY <3>2, <3>6, <3>7
    <2> QED BY <2>1, <2>2
  <1>7. m = Put(g, e, hdr)
    BY <1>2
  <1>8. /\ DOMAIN m = DOMAIN h \cup {e} /\ m \in [DOMAIN m -> Header] /\ m[e] = hdr
        /\ \A x \in DOMAIN h : m[x] = g[x]
    BY <1>4, <1>5, <1>6, <1>7 DEF Put
  <1>9. m[e].n = Null /\ m[e].p = q /\ m[e].free /\ m[e].size = size
    BY <1>8
  <1>10. \A x \in DOMAIN h :
            /\ m[x].n = IF x = q THEN e ELSE h[x].n
            /\ m[x].p = h[x].p /\ (m[x].free <=> h[x].free) /\ m[x].size = h[x].size
    BY <1>6, <1>8
  <1> QED BY <1>8, <1>9, <1>10 DEF Grown

(***************************************************************************)
(* A search that found nothing adds a chunk of the size wanted after the   *)
(* last one, free even if the last one is, and starts over; the new chunk  *)
(* is the only one that fits (heap.c:113-131, 18-32).                      *)
(***************************************************************************)
LEMMA GrowStep ==
    ASSUME IInv, NEW k, Cpu = {k}, Grow(k)
    PROVE  IInv'
  <1>1. CpuOK(k) /\ k \in Cpu /\ Globals
    BY DEF IInv
  <1>2. PICK q, size, e : q = p[k] /\ size = req[k] /\ e = heap_max
    OBVIOUS
  <1>3. Chain(chunk, e) /\ Placed(chunk, e) /\ Linked(chunk, e) /\ Blocks(chunk, live)
    BY <1>2 DEF IInv, Chain
  <1>4. pc[k] = "search" /\ c[k] = Null
    BY DEF Grow
  <1>5. Searching(k)
    BY <1>1, <1>4 DEF CpuOK
  <1>6. \A a \in DOMAIN chunk : ~Fits(a, size)
    BY <1>2, <1>4, <1>5 DEF Searching
  <1>7. /\ e \in Nat /\ e >= 1 /\ size \in 0..MaxSize /\ size \in Nat
        /\ HDR \in Nat /\ HDR > 0 /\ PAGE \in Nat /\ MaxHeap \in Nat /\ MaxSize \in Nat
    BY <1>1, <1>2, HeapAssumption DEF Globals, KERNEL_HEAP_S
  <1>8. e + HDR + size <= MaxHeap
    BY <1>2, <1>5, <1>6 DEF Searching
  <1>9. IF q = Null THEN DOMAIN chunk = {} ELSE q \in DOMAIN chunk /\ chunk[q].n = Null
    <2>1. CASE q = Null
      <3>1. heap = Null
        BY <1>2, <1>4, <1>5, <2>1 DEF Searching
      <3> QED BY <1>1, <2>1, <3>1 DEF Globals, KERNEL_HEAP_S, Null
    <2>2. CASE q # Null
      <3>1. q \in DOMAIN chunk
        BY <1>1, <1>2, <2>2 DEF Globals
      <3> QED BY <1>2, <1>4, <1>5, <2>2, <3>1 DEF Searching
    <2> QED BY <2>1, <2>2
  <1>10. PICK hdr : hdr = [n |-> Null, p |-> q, free |-> TRUE, size |-> size]
    OBVIOUS
  <1>11. (IF q = Null THEN heap_max ELSE End(chunk, q)) = e
    BY <1>2, <1>3, <1>9 DEF Linked
  <1>12. (IF q = Null THEN Null ELSE chunk[q].n) = Null
    BY <1>9
  <1>14. /\ heap' = IF q = Null THEN e ELSE heap
         /\ heap_max' = e + size + HDR
         /\ brk' = MappedTo(e + size + HDR)
         /\ chunk' = Put(IF q = Null THEN chunk ELSE [chunk EXCEPT ![q].n = e], e, hdr)
         /\ c' = [c EXCEPT ![k] = heap']
         /\ p' = [p EXCEPT ![k] = Null]
         /\ live' = live /\ pc' = pc /\ req' = req /\ ptr' = ptr
    <2> DEFINE new == IF p[k] = Null THEN heap_max ELSE End(chunk, p[k])
               end == heap_max + req[k] + HDR
               top == [n |-> IF p[k] = Null THEN Null ELSE chunk[p[k]].n, p |-> p[k],
                       free |-> TRUE, size |-> end - Data(new)]
    <2>1. new = e /\ end = e + size + HDR
      BY <1>2, <1>11
    <2>2. top = hdr
      <3>1. end - Data(new) = size
        <4> HIDE DEF new, end
        <4> QED BY <1>7, <2>1 DEF Data
      <3> QED BY <1>2, <1>10, <1>12, <3>1
    <2>3. /\ heap' = IF p[k] = Null THEN new ELSE heap
          /\ heap_max' = end
          /\ brk' = MappedTo(end)
          /\ chunk' = Put(IF p[k] = Null THEN chunk ELSE [chunk EXCEPT ![p[k]].n = new], new, top)
          /\ c' = [c EXCEPT ![k] = heap']
          /\ p' = [p EXCEPT ![k] = Null]
          /\ live' = live /\ pc' = pc /\ req' = req /\ ptr' = ptr
      BY DEF Grow
    <2> HIDE DEF new, end, top
    <2> QED BY <1>2, <2>1, <2>2, <2>3
  <1>15. PICK m : m = chunk'
    OBVIOUS
  <1>16. Grown(chunk, q, e, size, m)
    <2>1. PICK h : h = chunk
      OBVIOUS
    <2>2. Grown(h, q, e, size, m)
      BY <1>3, <1>7, <1>9, <1>10, <1>14, <1>15, <2>1, GrowFields
    <2> QED BY <2>1, <2>2
  <1>17. Chain(m, e + size + HDR) /\ e \notin DOMAIN chunk
    BY <1>3, <1>7, <1>9, <1>16, GrowChain
  <1>18. /\ DOMAIN m = DOMAIN chunk \cup {e} /\ m[e].n = Null /\ m[e].free /\ m[e].size = size
         /\ \A x \in DOMAIN chunk :
              /\ m[x].n = IF x = q THEN e ELSE chunk[x].n
              /\ (m[x].free <=> chunk[x].free) /\ m[x].size = chunk[x].size
    BY <1>16 DEF Grown
  <1>19. heap' = KERNEL_HEAP_S
    <2>1. CASE q = Null
      BY <1>3, <1>9, <1>14, <2>1 DEF Linked
    <2>2. CASE q # Null
      BY <1>1, <1>9, <1>14, <2>2 DEF Globals
    <2> QED BY <2>1, <2>2
  <1>20. KERNEL_HEAP_S \in DOMAIN m
    BY <1>17, <1>18 DEF Chain, Linked
  <1>21. Globals'
    <2>1. heap_max' \in KERNEL_HEAP_S..MaxHeap
      BY <1>7, <1>8, <1>14 DEF KERNEL_HEAP_S
    <2>2. brk' \in Nat /\ heap_max' <= brk' /\ brk' < heap_max' + PAGE
      <3>1. brk \in Nat /\ brk < e + PAGE
        BY <1>1, <1>2 DEF Globals
      <3>2. PICK goal \in Nat : goal = e + size + HDR
        BY <1>7
      <3>3. e <= goal
        BY <1>7, <3>2
      <3>4. MappedTo(goal) \in Nat /\ goal <= MappedTo(goal) /\ MappedTo(goal) < goal + PAGE
        BY <1>7, <3>1, <3>3, Mapped
      <3> QED BY <1>14, <3>2, <3>4
    <2>3. heap' = IF DOMAIN chunk' = {} THEN Null ELSE KERNEL_HEAP_S
      BY <1>15, <1>18, <1>19
    <2>4. pc' \in [Cpu -> {"idle", "search", "free"}] /\ req' \in [Cpu -> 0..MaxSize]
      BY <1>1, <1>14 DEF Globals
    <2>5. c' \in [Cpu -> DOMAIN chunk' \cup {Null}] /\ p' \in [Cpu -> DOMAIN chunk' \cup {Null}]
      BY <1>1, <1>14, <1>15, <1>18, <1>19, <1>20 DEF Globals
    <2>6. ptr' \in [Cpu -> DOMAIN live' \cup {Null}]
      BY <1>1, <1>14 DEF Globals
    <2> QED BY <2>1, <2>2, <2>3, <2>4, <2>5, <2>6 DEF Globals
  <1>22. Blocks(chunk, live)'
    <2>1. Blocks(m, live)
      BY <1>3, <1>17, <1>18 DEF Blocks
    <2> QED BY <1>14, <1>15, <2>1
  <1>23. \A a \in DOMAIN chunk : ~Pair(chunk, a)
    <2> SUFFICES ASSUME NEW a \in DOMAIN chunk, Pair(chunk, a) PROVE FALSE
      OBVIOUS
    <2>1. chunk[a].n # Null /\ chunk[chunk[a].n].free
      BY DEF Pair, IsFree
    <2>2. chunk[a].n \in DOMAIN chunk
      BY <1>3, <2>1, NextFacts
    <2>3. chunk[chunk[a].n].size = size
      BY <1>2, <1>5 DEF Searching
    <2> QED BY <1>6, <1>7, <2>1, <2>2, <2>3 DEF Fits
  <1>24. ASSUME NEW a \in DOMAIN m, Pair(m, a) PROVE m[a].n = e
    <2>1. m[a].free /\ m[a].n # Null /\ m[m[a].n].free
      BY <1>24 DEF Pair, IsFree
    <2>2. a \in DOMAIN chunk
      BY <1>18, <2>1
    <2>3. CASE a = q
      BY <1>18, <2>2, <2>3
    <2>4. CASE a # q
      <3>1. m[a].n = chunk[a].n /\ chunk[a].free
        BY <1>18, <2>1, <2>2, <2>4
      <3>2. chunk[a].n \in DOMAIN chunk
        BY <1>3, <2>1, <2>2, <3>1, NextFacts
      <3>3. Pair(chunk, a)
        BY <1>18, <2>1, <3>1, <3>2 DEF Pair, IsFree
      <3> QED BY <1>23, <2>2, <3>3
    <2> QED BY <2>3, <2>4
  <1>25. \A x \in DOMAIN m : x # e => ~(m[x].free /\ m[x].size >= size)
    BY <1>6, <1>18 DEF Fits
  <1>26. p'[k] = Null /\ c'[k] = heap' /\ pc'[k] = "search" /\ req'[k] = size
    BY <1>1, <1>2, <1>4, <1>14 DEF Globals
  <1>27. Searching(k)'
    <2>1. \A x \in DOMAIN m : x \in Nat /\ x >= 1
      BY <1>17, HeaderFacts DEF Chain
    <2>2. (\A a \in DOMAIN chunk : c[k] = Null \/ a < c[k] => ~Fits(a, req[k]))'
      BY <1>15, <1>19, <1>26, <2>1 DEF KERNEL_HEAP_S, Null
    <2>3. (\E a \in DOMAIN chunk : Fits(a, req[k]))'
      <3>1. e \in DOMAIN m /\ m[e].free /\ m[e].size >= size
        BY <1>7, <1>18
      <3> QED BY <1>15, <1>26, <3>1 DEF Fits
    <2>4. (\A a \in DOMAIN chunk :
            Pair(chunk, a) =>
                /\ chunk[chunk[a].n].n = Null
                /\ chunk[chunk[a].n].size = req[k]
                /\ \A x \in DOMAIN chunk : x # chunk[a].n => ~Fits(x, req[k]))'
      BY <1>15, <1>18, <1>24, <1>25, <1>26 DEF Fits
    <2> QED BY <1>26, <2>2, <2>3, <2>4 DEF Searching
  <1>28. CpuOK(k)'
    BY <1>26, <1>27 DEF CpuOK
  <1>29. (\A j \in Cpu : CpuOK(j))'
    BY <1>28
  <1> QED BY <1>14, <1>15, <1>17, <1>21, <1>22, <1>29 DEF IInv

(* In m chunk a, which was free in h, is in use for a block of the given size *)
Taken(h, a, size, m) ==
    /\ DOMAIN m # {}
    /\ \A x \in DOMAIN m : ~Pair(m, x)
    /\ a \in DOMAIN m /\ m[a].size >= size
    /\ \A x : (x \in DOMAIN m /\ ~m[x].free) <=> (x \in DOMAIN h /\ ~h[x].free) \/ x = a
    /\ \A x \in DOMAIN h : x # a => m[x].size = h[x].size

(***************************************************************************)
(* split_chunk leaves a chunk as large as was asked for, also when it does *)
(* not split for want of room for another header, and the chunk taken is   *)
(* the second of any two free neighbours there are (heap.c:58-76, 103-107).*)
(***************************************************************************)
LEMMA TakeChain ==
    ASSUME NEW h, NEW e, Chain(h, e), NEW a \in DOMAIN h, NEW size \in Nat,
           h[a].free, h[a].size >= size,
           \A x \in DOMAIN h : Pair(h, x) => h[x].n = a /\ h[a].size = size,
           NEW s, s = split_chunk(h, a, size), NEW m, Marked(s, a, FALSE, m)
    PROVE  Chain(m, e) /\ Taken(h, a, size, m)
  <1>1. HDR \in Nat /\ HDR > 0 /\ Placed(h, e) /\ h[a].size \in Nat /\ a \in Nat
    BY HeapAssumption, HeaderFacts DEF Chain
  <1>2. /\ DOMAIN m = DOMAIN s /\ ~m[a].free
        /\ \A x \in DOMAIN s : /\ m[x].n = s[x].n /\ m[x].size = s[x].size
                               /\ x # a => (m[x].free <=> s[x].free)
    BY DEF Marked
  <1>3. CASE h[a].size <= size + HDR
    <2>1. s = h
      BY <1>3 DEF split_chunk
    <2>2. Chain(m, e)
      BY <2>1, MarkChain
    <2>3. ASSUME NEW x \in DOMAIN m, Pair(m, x) PROVE FALSE
      <3>1. m[x].free /\ m[x].n # Null /\ m[m[x].n].free
        BY <2>3 DEF Pair, IsFree
      <3>2. m[x].n \in DOMAIN m
        BY <2>2, <3>1, NextFacts
      <3>3. x # a /\ m[x].n # a
        BY <1>2, <3>1
      <3>4. h[x].free /\ h[x].n = m[x].n /\ h[m[x].n].free /\ x \in DOMAIN h
        BY <1>2, <2>1, <3>1, <3>2, <3>3
      <3>5. Pair(h, x)
        BY <3>1, <3>4 DEF Pair, IsFree
      <3> QED BY <3>3, <3>4, <3>5
    <2>4. Taken(h, a, size, m)
      BY <1>2, <2>1, <2>3 DEF Taken
    <2> QED BY <2>2, <2>4
  <1>4. CASE h[a].size > size + HDR
    <2>1. PICK b : b = a + HDR + size
      OBVIOUS
    <2>2. size + HDR < h[a].size
      BY <1>1, <1>4
    <2>3. Split(h, a, size, b, s)
      BY <2>1, <2>2, SplitFields
    <2>4. Chain(s, e)
      BY <2>1, <2>2, <2>3, SplitChain
    <2>5. /\ DOMAIN s = DOMAIN h \cup {b} /\ b \notin DOMAIN h
          /\ s[b].n = h[a].n /\ s[b].free
          /\ \A x \in DOMAIN h :
              /\ s[x].n = IF x = a THEN b ELSE h[x].n
              /\ (s[x].free <=> h[x].free)
              /\ s[x].size = IF x = a THEN size ELSE h[x].size
      BY <2>3 DEF Split
    <2>6. a \in DOMAIN s /\ a # b
      BY <2>5
    <2>7. Chain(m, e)
      BY <2>4, <2>6, MarkChain
    <2>8. ASSUME NEW x \in DOMAIN h, Pair(h, x) PROVE FALSE
      <3>1. h[a].size = size
        BY <2>8
      <3> QED BY <1>1, <2>2, <3>1
    <2>9. ASSUME NEW x \in DOMAIN m, Pair(m, x) PROVE FALSE
      <3>1. m[x].free /\ m[x].n # Null /\ m[m[x].n].free
        BY <2>9 DEF Pair, IsFree
      <3>2. m[x].n \in DOMAIN m
        BY <2>7, <3>1, NextFacts
      <3>3. x # a /\ m[x].n # a
        BY <1>2, <3>1
      <3>4. PICK y : y = IF x = b THEN a ELSE x
        OBVIOUS
      <3>5. y \in DOMAIN h /\ h[y].free /\ h[y].n = m[x].n
        BY <1>2, <2>5, <3>1, <3>3, <3>4
      <3>6. h[y].n \in DOMAIN h
        BY <3>1, <3>5, NextFacts
      <3>7. h[m[x].n].free
        BY <1>2, <2>5, <3>1, <3>2, <3>3, <3>5, <3>6
      <3>8. Pair(h, y)
        BY <3>1, <3>5, <3>7 DEF Pair, IsFree
      <3> QED BY <2>8, <3>5, <3>8
    <2>10. \A x : (x \in DOMAIN m /\ ~m[x].free) <=> (x \in DOMAIN h /\ ~h[x].free) \/ x = a
      <3> SUFFICES ASSUME NEW x
                   PROVE  (x \in DOMAIN m /\ ~m[x].free)
                            <=> (x \in DOMAIN h /\ ~h[x].free) \/ x = a
        OBVIOUS
      <3>1. CASE x = a
        BY <1>2, <2>6, <3>1
      <3>2. CASE x = b
        BY <1>2, <2>5, <2>6, <3>2
      <3>3. CASE x # a /\ x # b
        BY <1>2, <2>5, <3>3
      <3> QED BY <3>1, <3>2, <3>3
    <2>11. m[a].size >= size /\ \A x \in DOMAIN h : x # a => m[x].size = h[x].size
      BY <1>2, <2>5, <2>6
    <2>12. Taken(h, a, size, m)
      BY <1>2, <2>6, <2>9, <2>10, <2>11 DEF Taken
    <2> QED BY <2>7, <2>12
  <1> QED BY <1>1, <1>3, <1>4

(* kmalloc takes the chunk found, and the caller holds its block (heap.c:103-110). *)
LEMMA TakeStep ==
    ASSUME IInv, NEW k, Cpu = {k}, Take(k)
    PROVE  IInv'
  <1>1. CpuOK(k) /\ k \in Cpu /\ Globals
    BY DEF IInv
  <1>2. PICK a, size, s, h : a = c[k] /\ size = req[k] /\ s = split_chunk(chunk, c[k], req[k])
                             /\ h = chunk
    OBVIOUS
  <1>3. Chain(h, heap_max) /\ Placed(h, heap_max) /\ Blocks(h, live)
    BY <1>2 DEF IInv, Chain
  <1>4. /\ pc[k] = "search" /\ a # Null /\ Fits(a, size)
        /\ chunk' = [s EXCEPT ![a].free = FALSE]
        /\ live' = Put(live, Data(a), size)
        /\ pc' = [pc EXCEPT ![k] = IF ptr[k] = Null THEN "idle" ELSE "free"]
        /\ c' = [c EXCEPT ![k] = Null]
        /\ p' = [p EXCEPT ![k] = Null]
        /\ req' = [req EXCEPT ![k] = 0]
        /\ heap' = heap /\ heap_max' = heap_max /\ brk' = brk /\ ptr' = ptr
    BY <1>2 DEF Take
  <1>5. Searching(k)
    BY <1>1, <1>4 DEF CpuOK
  <1>6. a \in DOMAIN h /\ size \in 0..MaxSize /\ size \in Nat
    BY <1>1, <1>2, <1>4, HeapAssumption DEF Globals
  <1>7. h[a].free /\ h[a].size >= size
    BY <1>2, <1>4 DEF Fits
  <1>8. \A x \in DOMAIN h : Pair(h, x) => h[x].n = a /\ h[a].size = size
    BY <1>2, <1>4, <1>5, <1>6 DEF Searching
  <1>9. a \in DOMAIN s /\ s \in [DOMAIN s -> Header]
    <2>1. CASE h[a].size <= size + HDR
      <3>1. s = h
        BY <1>2, <2>1 DEF split_chunk
      <3> QED BY <1>3, <1>6, <3>1 DEF Placed
    <2>2. CASE ~(h[a].size <= size + HDR)
      <3>1. h[a].size \in Nat /\ HDR \in Nat
        BY <1>3, <1>6, HeaderFacts, HeapAssumption
      <3>2. size + HDR < h[a].size
        BY <1>6, <2>2, <3>1
      <3>3. PICK b : b = a + HDR + size
        OBVIOUS
      <3>4. Split(h, a, size, b, s)
        BY <1>2, <1>3, <1>6, <3>2, <3>3, SplitFields
      <3> QED BY <1>6, <3>4 DEF Split
    <2> QED BY <2>1, <2>2
  <1>10. PICK m : m = chunk'
    OBVIOUS
  <1>11. Marked(s, a, FALSE, m)
    BY <1>4, <1>9, <1>10, MarkFields
  <1>12. Chain(m, heap_max) /\ Taken(h, a, size, m)
    BY <1>2, <1>3, <1>6, <1>7, <1>8, <1>11, TakeChain
  <1>13. /\ DOMAIN m # {}
         /\ \A x \in DOMAIN m : ~Pair(m, x)
         /\ a \in DOMAIN m /\ m[a].size >= size
         /\ \A x : (x \in DOMAIN m /\ ~m[x].free) <=> (x \in DOMAIN h /\ ~h[x].free) \/ x = a
         /\ \A x \in DOMAIN h : x # a => m[x].size = h[x].size
    BY <1>12 DEF Taken
  <1>14. PICK l, w : l = live /\ w = live'
    OBVIOUS
  <1>15. /\ DOMAIN w = DOMAIN l \cup {Data(a)}
         /\ w[Data(a)] = size
         /\ \A x \in DOMAIN l : x # Data(a) => w[x] = l[x]
    BY <1>4, <1>14 DEF Put
  <1>16. \A x \in DOMAIN h : Data(x) = Data(a) => x = a
    <2>1. \A x \in DOMAIN h : x \in Nat
      BY <1>3, HeaderFacts
    <2>2. HDR \in Nat
      BY HeapAssumption
    <2> QED BY <1>6, <2>1, <2>2 DEF Data
  <1>17. Blocks(m, w)
    <2>1. w \in [DOMAIN w -> 0..MaxSize]
      <3>1. l \in [DOMAIN l -> 0..MaxSize]
        BY <1>3, <1>14 DEF Blocks
      <3> QED BY <1>4, <1>6, <1>14, <3>1 DEF Put
    <2>2. ASSUME NEW x \in DOMAIN w
          PROVE  \E y \in DOMAIN m : x = Data(y) /\ ~m[y].free /\ m[y].size >= w[x]
      <3>1. CASE x = Data(a)
        <4>1. ~m[a].free
          BY <1>13
        <4> QED BY <1>13, <1>15, <3>1, <4>1
      <3>2. CASE x # Data(a)
        <4>1. x \in DOMAIN l /\ w[x] = l[x]
          BY <1>15, <3>2
        <4>2. PICK y \in DOMAIN h : x = Data(y) /\ ~h[y].free /\ h[y].size >= l[x]
          BY <1>3, <1>14, <4>1 DEF Blocks
        <4>3. y \in DOMAIN m /\ ~m[y].free /\ m[y].size = h[y].size
          BY <1>13, <3>2, <4>2
        <4> QED BY <4>1, <4>2, <4>3
      <3> QED BY <3>1, <3>2
    <2>3. ASSUME NEW x \in DOMAIN m, ~m[x].free PROVE Data(x) \in DOMAIN w
      <3>1. (x \in DOMAIN h /\ ~h[x].free) \/ x = a
        BY <1>13, <2>3
      <3>2. x \in DOMAIN h /\ ~h[x].free => Data(x) \in DOMAIN l
        BY <1>3, <1>14 DEF Blocks
      <3> QED BY <1>15, <3>1, <3>2
    <2> QED BY <2>1, <2>2, <2>3 DEF Blocks
  <1>18. Globals'
    <2>1. heap' = IF DOMAIN chunk' = {} THEN Null ELSE KERNEL_HEAP_S
      BY <1>1, <1>2, <1>4, <1>6, <1>10, <1>13 DEF Globals
    <2>2. pc' \in [Cpu -> {"idle", "search", "free"}]
      BY <1>1, <1>4 DEF Globals
    <2>3. req' \in [Cpu -> 0..MaxSize]
      BY <1>1, <1>4, HeapAssumption DEF Globals
    <2>4. c' \in [Cpu -> DOMAIN chunk' \cup {Null}] /\ p' \in [Cpu -> DOMAIN chunk' \cup {Null}]
      <3>1. \A j \in Cpu : c'[j] = Null /\ p'[j] = Null
        BY <1>1, <1>4 DEF Globals
      <3>2. c' = [j \in Cpu |-> c'[j]] /\ p' = [j \in Cpu |-> p'[j]]
        BY <1>1, <1>4 DEF Globals
      <3> QED BY <3>1, <3>2
    <2>5. ptr' \in [Cpu -> DOMAIN live' \cup {Null}]
      BY <1>1, <1>4, <1>14, <1>15 DEF Globals
    <2> QED BY <1>1, <1>4, <2>1, <2>2, <2>3, <2>4, <2>5 DEF Globals
  <1>19. CpuOK(k)'
    <2>1. c'[k] = Null /\ p'[k] = Null
      BY <1>1, <1>4 DEF Globals
    <2>2. pc'[k] = IF ptr[k] = Null THEN "idle" ELSE "free"
      BY <1>1, <1>4 DEF Globals
    <2>3. pc'[k] # "search" /\ (pc'[k] = "idle" => ptr[k] = Null)
                            /\ (pc'[k] = "free" => ptr[k] # Null)
      BY <2>2
    <2>4. (\A x \in DOMAIN chunk : ~Pair(chunk, x))'
      BY <1>10, <1>13
    <2> QED BY <1>4, <2>1, <2>3, <2>4 DEF CpuOK
  <1>20. (\A j \in Cpu : CpuOK(j))'
    BY <1>19
  <1> QED BY <1>4, <1>10, <1>12, <1>14, <1>17, <1>18, <1>20 DEF IInv

(* kfree finds the chunk of the block, which it does not refuse, and merges it (heap.c:79-92). *)
LEMMA FreeStep ==
    ASSUME IInv, NEW k, Cpu = {k}, NEW x \in DOMAIN live, pc[k] # "search", kfree(k, x)
    PROVE  IInv'
  <1>1. CpuOK(k) /\ k \in Cpu /\ Globals
    BY DEF IInv
  <1>2. PICK h, l : h = chunk /\ l = live
    OBVIOUS
  <1>3. Chain(h, heap_max) /\ Placed(h, heap_max) /\ Blocks(h, l)
    BY <1>2 DEF IInv, Chain
  <1>4. c[k] = Null /\ p[k] = Null /\ \A y \in DOMAIN h : ~Pair(h, y)
    BY <1>1, <1>2 DEF CpuOK
  <1>5. PICK a \in DOMAIN h : x = Data(a) /\ ~h[a].free /\ h[a].size >= l[x]
    BY <1>2, <1>3 DEF Blocks
  <1>6. /\ a \in Nat /\ a >= 1 /\ HDR \in Nat /\ h[a].size \in Nat /\ heap_max \in Nat
        /\ a + HDR + h[a].size <= heap_max
    BY <1>3, HeaderFacts, HeapAssumption
  <1>7. x - HDR = a /\ ~Outside(x)
    BY <1>5, <1>6 DEF Data, Outside, KERNEL_HEAP_S
  <1>8. /\ chunk' = merge_chunk([h EXCEPT ![a].free = TRUE], a)
        /\ live' = [y \in DOMAIN l \ {x} |-> l[y]]
        /\ pc' = [pc EXCEPT ![k] = "idle"]
        /\ ptr' = [ptr EXCEPT ![k] = Null]
        /\ heap' = heap /\ heap_max' = heap_max /\ brk' = brk /\ req' = req /\ c' = c /\ p' = p
    BY <1>2, <1>7 DEF kfree
  <1>9. PICK g, m, w : g = [h EXCEPT ![a].free = TRUE] /\ m = chunk' /\ w = live'
    OBVIOUS
  <1>10. Marked(h, a, TRUE, g)
    BY <1>3, <1>9, MarkFields DEF Placed
  <1>11. Chain(m, heap_max) /\ Freed(h, a, m)
    BY <1>3, <1>4, <1>5, <1>8, <1>9, <1>10, MergeChain
  <1>12. /\ \A y \in DOMAIN m : ~Pair(m, y)
         /\ \A y : (y \in DOMAIN m /\ ~m[y].free) <=> (y \in DOMAIN h /\ ~h[y].free /\ y # a)
         /\ \A y \in DOMAIN m : ~m[y].free => m[y].size = h[y].size
         /\ DOMAIN m # {}
    BY <1>11 DEF Freed
  <1>13. DOMAIN w = DOMAIN l \ {x} /\ \A y \in DOMAIN w : w[y] = l[y]
    BY <1>8, <1>9
  <1>14. Blocks(m, w)
    <2>1. w \in [DOMAIN w -> 0..MaxSize]
      <3>1. l \in [DOMAIN l -> 0..MaxSize]
        BY <1>3 DEF Blocks
      <3> QED BY <1>8, <1>9, <3>1
    <2>2. ASSUME NEW y \in DOMAIN w
          PROVE  \E b \in DOMAIN m : y = Data(b) /\ ~m[b].free /\ m[b].size >= w[y]
      <3>1. y \in DOMAIN l /\ y # x /\ w[y] = l[y]
        BY <1>13
      <3>2. PICK b \in DOMAIN h : y = Data(b) /\ ~h[b].free /\ h[b].size >= l[y]
        BY <1>3, <3>1 DEF Blocks
      <3>3. b # a
        BY <1>5, <3>1, <3>2
      <3>4. b \in DOMAIN m /\ ~m[b].free
        BY <1>12, <3>2, <3>3
      <3> QED BY <1>12, <3>1, <3>2, <3>4
    <2>3. ASSUME NEW b \in DOMAIN m, ~m[b].free PROVE Data(b) \in DOMAIN w
      <3>1. b \in DOMAIN h /\ ~h[b].free /\ b # a
        BY <1>12, <2>3
      <3>2. Data(b) \in DOMAIN l
        BY <1>3, <3>1 DEF Blocks
      <3>3. b \in Nat
        BY <1>3, <3>1, HeaderFacts
      <3>4. Data(b) # x
        BY <1>5, <1>6, <3>1, <3>3 DEF Data
      <3> QED BY <1>13, <3>2, <3>4
    <2> QED BY <2>1, <2>2, <2>3 DEF Blocks
  <1>15. Globals'
    <2>1. heap' = IF DOMAIN chunk' = {} THEN Null ELSE KERNEL_HEAP_S
      BY <1>1, <1>2, <1>5, <1>8, <1>9, <1>12 DEF Globals
    <2>2. pc' \in [Cpu -> {"idle", "search", "free"}]
      BY <1>1, <1>8 DEF Globals
    <2>3. c' \in [Cpu -> DOMAIN chunk' \cup {Null}] /\ p' \in [Cpu -> DOMAIN chunk' \cup {Null}]
      BY <1>1, <1>4, <1>8 DEF Globals
    <2>4. ptr' \in [Cpu -> DOMAIN live' \cup {Null}]
      BY <1>1, <1>8 DEF Globals
    <2> QED BY <1>1, <1>8, <2>1, <2>2, <2>3, <2>4 DEF Globals
  <1>16. CpuOK(k)'
    <2>1. pc'[k] = "idle" /\ ptr'[k] = Null
      BY <1>1, <1>8 DEF Globals
    <2>2. (\A y \in DOMAIN chunk : ~Pair(chunk, y))'
      BY <1>9, <1>12
    <2> QED BY <1>4, <1>8, <2>1, <2>2 DEF CpuOK
  <1>17. (\A j \in Cpu : CpuOK(j))'
    BY <1>16
  <1> QED BY <1>8, <1>9, <1>11, <1>14, <1>15, <1>17 DEF IInv

-----------------------------------------------------------------------------
(* The theorems *)

(* The empty heap. *)
LEMMA InitHolds ==
    ASSUME Init
    PROVE  IInv
  <1>1. PICK h : h = chunk
    OBVIOUS
  <1>2. h = <<>> /\ live = <<>> /\ heap_max = 1 /\ heap = Null /\ brk = 1
    BY <1>1 DEF Init, KERNEL_HEAP_S
  <1>3. DOMAIN h = {} /\ DOMAIN live = {} /\ h \in [{} -> Header] /\ live \in [{} -> 0..MaxSize]
    BY <1>2
  <1>4. Chain(h, 1)
    BY <1>3 DEF Chain, Placed, Linked, KERNEL_HEAP_S
  <1>5. Globals
    BY <1>1, <1>2, <1>3, HeapAssumption DEF Init, Globals, KERNEL_HEAP_S, Null
  <1>6. Blocks(h, live)
    BY <1>3 DEF Blocks
  <1>7. \A k \in Cpu : CpuOK(k)
    BY <1>1, <1>3 DEF Init, CpuOK
  <1> QED BY <1>1, <1>2, <1>4, <1>5, <1>6, <1>7 DEF IInv

(* Every step of the only CPU keeps the inductive invariant. *)
LEMMA NextStep ==
    ASSUME IInv, OneCpu, [Next]_vars
    PROVE  IInv'
  <1>1. PICK k : Cpu = {k}
    BY DEF OneCpu
  <1>2. CASE UNCHANGED vars
    BY <1>2 DEF vars, IInv, Globals, CpuOK, Searching, Fits
  <1>3. CASE \E size \in 0..MaxSize : Call(k, size, Null) \/ \E old \in Owned : Call(k, size, old)
    BY <1>1, <1>3, CallStep DEF Owned
  <1>4. CASE Pass(k)
    BY <1>1, <1>4, PassStep
  <1>5. CASE Grow(k)
    BY <1>1, <1>5, GrowStep
  <1>6. CASE Take(k)
    BY <1>1, <1>6, TakeStep
  <1>7. CASE ReallocFree(k)
    <2>1. pc[k] = "free" /\ kfree(k, ptr[k])
      BY <1>7 DEF ReallocFree
    <2>2. ptr[k] \in DOMAIN live
      BY <1>1, <2>1 DEF IInv, CpuOK, Globals
    <2> QED BY <1>1, <2>1, <2>2, FreeStep
  <1>8. CASE \E a \in Owned : Free(k, a)
    <2>1. PICK a \in Owned : pc[k] = "idle" /\ kfree(k, a)
      BY <1>8 DEF Free
    <2>2. a \in DOMAIN live
      BY DEF Owned
    <2> QED BY <1>1, <2>1, <2>2, FreeStep
  <1> QED BY <1>1, <1>2, <1>3, <1>4, <1>5, <1>6, <1>7, <1>8 DEF Next

(***************************************************************************)
(* On one CPU the inductive invariant holds in every reachable state of    *)
(* the heap, whatever is allocated, reallocated and freed (heap.c).        *)
(***************************************************************************)
THEOREM Invariant == ASSUME OneCpu PROVE Spec => []IInv
  <1>1. Init => IInv
    BY InitHolds
  <1>2. IInv /\ [Next]_vars => IInv'
    BY NextStep
  <1> QED BY <1>1, <1>2, PTL DEF Spec

(* The heap's globals and the locals of kmalloc keep their types. *)
THEOREM TypeCorrect == ASSUME OneCpu PROVE Spec => []TypeOK
  <1>1. IInv => TypeOK
    <2> SUFFICES ASSUME IInv PROVE TypeOK
      OBVIOUS
    <2>1. Globals /\ Placed(chunk, heap_max) /\ Linked(chunk, heap_max) /\ Blocks(chunk, live)
      BY DEF IInv, Chain
    <2>2. DOMAIN chunk \subseteq KERNEL_HEAP_S..heap_max
      <3> SUFFICES ASSUME NEW a \in DOMAIN chunk PROVE a \in KERNEL_HEAP_S..heap_max
        OBVIOUS
      <3>1. a \in Nat /\ a >= 1 /\ End(chunk, a) \in Nat /\ End(chunk, a) > a
            /\ End(chunk, a) <= heap_max /\ heap_max \in Nat
        BY <2>1, HeaderFacts
      <3> QED BY <3>1 DEF KERNEL_HEAP_S
    <2>3. \A a \in DOMAIN chunk : chunk[a] \in [n : Nat, p : Nat, free : BOOLEAN, size : Nat]
      BY <2>1 DEF Placed, Header
    <2>4. heap \in DOMAIN chunk \cup {Null}
      BY <2>1 DEF Globals, Linked
    <2>5. \A a \in DOMAIN live : live[a] \in 0..MaxSize
      BY <2>1 DEF Blocks
    <2>6. pc \in [Cpu -> {"idle", "search", "free", "panic"}]
      BY <2>1 DEF Globals
    <2> QED BY <2>1, <2>2, <2>3, <2>4, <2>5, <2>6 DEF TypeOK, Globals
  <1> QED BY <1>1, Invariant, PTL

(***************************************************************************)
(* The chunks always tile the heap from its first byte to heap_max, linked *)
(* both ways, and between calls no two free chunks are neighbours, also    *)
(* after a request that had to grow the heap (heap.c:36, 117).             *)
(***************************************************************************)
THEOREM HeapTiled == ASSUME OneCpu PROVE Spec => []Tiled
  <1>1. PICK k : Cpu = {k}
    BY DEF OneCpu
  <1>2. IInv => Tiled
    <2> SUFFICES ASSUME IInv PROVE Tiled
      OBVIOUS
    <2>1. Globals /\ Placed(chunk, heap_max) /\ Linked(chunk, heap_max) /\ CpuOK(k)
      BY <1>1 DEF IInv, Chain
    <2>2. heap = (IF heap_max = KERNEL_HEAP_S THEN Null ELSE KERNEL_HEAP_S)
      <3>1. CASE DOMAIN chunk = {}
        BY <2>1, <3>1 DEF Globals, Linked
      <3>2. CASE DOMAIN chunk # {}
        <4>1. 1 \in DOMAIN chunk
          BY <2>1, <3>2 DEF Linked, KERNEL_HEAP_S
        <4>2. End(chunk, 1) \in Nat /\ End(chunk, 1) > 1 /\ End(chunk, 1) <= heap_max
              /\ heap_max \in Nat
          BY <2>1, <4>1, HeaderFacts
        <4> QED BY <2>1, <3>2, <4>2 DEF Globals, KERNEL_HEAP_S
      <3> QED BY <3>1, <3>2
    <2>3. ASSUME NEW a \in DOMAIN chunk, a # heap
          PROVE  chunk[a].p \in DOMAIN chunk /\ chunk[chunk[a].p].n = a
      BY <2>1, <2>3 DEF Linked, Globals
    <2>4. \A a \in DOMAIN chunk :
            IF chunk[a].n = Null THEN End(chunk, a) = heap_max
            ELSE /\ chunk[a].n \in DOMAIN chunk
                 /\ chunk[a].n = End(chunk, a)
                 /\ chunk[chunk[a].n].p = a
      BY <2>1 DEF Linked
    <2>5. (\A j \in Cpu : pc[j] \in {"idle", "free"}) =>
            \A a \in DOMAIN chunk : ~(chunk[a].free /\ IsFree(chunk, chunk[a].n))
      BY <1>1, <2>1 DEF CpuOK, Pair
    <2> QED BY <2>2, <2>3, <2>4, <2>5 DEF Tiled
  <1> QED BY <1>2, Invariant, PTL

(***************************************************************************)
(* What callers hold are the used chunks, one each and as large as asked   *)
(* for, and kfree refuses none of them (heap.c:82, 94-132).                *)
(***************************************************************************)
THEOREM BlocksHeld == ASSUME OneCpu PROVE Spec => []BlocksAreChunks
  <1>1. IInv => BlocksAreChunks
    <2> SUFFICES ASSUME IInv PROVE BlocksAreChunks
      OBVIOUS
    <2>1. Globals /\ Placed(chunk, heap_max) /\ Blocks(chunk, live)
      BY DEF IInv, Chain
    <2>2. DOMAIN live = {Data(a) : a \in {x \in DOMAIN chunk : ~chunk[x].free}}
      BY <2>1 DEF Blocks
    <2>3. ASSUME NEW x \in DOMAIN live PROVE chunk[x - HDR].size >= live[x]
      <3>1. PICK a \in DOMAIN chunk : x = Data(a) /\ chunk[a].size >= live[x]
        BY <2>1 DEF Blocks
      <3>2. a \in Nat /\ HDR \in Nat
        BY <2>1, HeaderFacts, HeapAssumption
      <3>3. x - HDR = a
        BY <3>1, <3>2 DEF Data
      <3> QED BY <3>1, <3>3
    <2>4. \A k \in Cpu : pc[k] # "panic"
      BY <2>1 DEF Globals
    <2> QED BY <2>2, <2>3, <2>4 DEF BlocksAreChunks
  <1> QED BY <1>1, Invariant, PTL

(* The heap is backed by mapped pages, and by less than a page more (heap.c:25-29). *)
THEOREM HeapBacked == ASSUME OneCpu PROVE Spec => []Backed
  <1>1. IInv => Backed
    BY DEF IInv, Globals, Backed
  <1> QED BY <1>1, Invariant, PTL
=============================================================================

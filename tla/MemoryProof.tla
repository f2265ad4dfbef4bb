---------------------------- MODULE MemoryProof -----------------------------
(***************************************************************************)
(* Proofs about Memory.  The invariant IInv follows a call through its     *)
(* steps: where every frame is, which areas a process has while they are   *)
(* being mapped or unmapped, which of their pages it is owed, and what the *)
(* pages that are finished hold.                                           *)
(*                                                                         *)
(* A frame's one use, its return and the pages of areas need no more than  *)
(* MemoryAssumption.  That fork copies all pages needs NoBoundary besides: *)
(* the code does not do so without it, as a run shows.                     *)
(***************************************************************************)
EXTENDS Memory, TLAPS, FiniteSetTheorems

(* The number of init's segments. *)
N == Len(Image)

(***************************************************************************)
(* Neither the end of init's arguments nor an address that programs pass   *)
(* to brk is the boundary of a page. Where one is, procmm_resize leaves    *)
(* out the page that begins there, and a later fork stops copying at it    *)
(* (procmm.c:121-126, vmm.c:125-148).                                      *)
(***************************************************************************)
NoBoundary == ArgSize % PAGE # 0 /\ \A e \in Ends : e % PAGE # 0

(* An entry of a process. *)
Slot == Proc \X Node

(* The pages that a loop in steps of PAGE from a comes to before b. *)
Left(a, b) == {g \in Page : a < (g + 1) * PAGE /\ g * PAGE + (a % PAGE) < b}

(* An area. *)
Area == [start : Nat, end : Nat]

(***************************************************************************)
(* The pages of an area that a loop over it comes to: all but the one it   *)
(* skips.                                                                  *)
(***************************************************************************)
Cov(a) == PagesOf(a.start, a.end) \ Skipped(a)

(* The pages with init's arguments. *)
Args == PagesOf(BrkStart, BrkStart + ArgSize)

(***************************************************************************)
(* A frame is in the stack once, or in the heap, or in one entry, or in    *)
(* hand.                                                                   *)
(***************************************************************************)
Distinct ==
    /\ \A j, k \in DOMAIN pmm_stack : pmm_stack[j] = pmm_stack[k] => j = k
    /\ \A x, y \in Slot : entry[x] = entry[y] /\ entry[x] # Null => x = y
    /\ \A k \in DOMAIN pmm_stack : pmm_stack[k] \notin heap /\ pmm_stack[k] # hand
    /\ \A x \in Slot : entry[x] # Null =>
        /\ entry[x] \notin heap /\ entry[x] # hand
        /\ \A k \in DOMAIN pmm_stack : pmm_stack[k] # entry[x]
    /\ hand \notin heap

(* No frame in use has a byte that the loader's map speaks against. *)
Sound == \A f \in Held : ~Taken(boot, f)

(* Every frame to spare is held, from the end of cpu_init on. *)
Kept == pc \notin {"pmm_init", "cpu_init"} => SpareFrames[boot] \subseteq Held

(* Frame f lies in the free area j. *)
InArea(j, f) ==
    /\ boot.areas[j].free /\ boot.areas[j].start <= f * PAGE
    /\ (f + 1) * PAGE <= boot.areas[j].end

(***************************************************************************)
(* While pmm_init runs, the stack has the spare frames below pos, in       *)
(* order; when it is done, it has them all.                                *)
(***************************************************************************)
Scanning ==
    /\ pc \in {"pmm_init", "cpu_init"} =>
        /\ heap = {}
        /\ \A p \in Proc : st[p] = "unused"
        /\ \A j, k \in DOMAIN pmm_stack : j < k => pmm_stack[j] < pmm_stack[k]
        /\ \A k \in DOMAIN pmm_stack : Spare(boot, pmm_stack[k])
    /\ pc = "pmm_init" =>
        /\ i \in 0..Len(boot.areas)
        /\ i = 0 => pmm_stack = <<>> /\ pos = 0 /\ stop = 0
        /\ i > 0 => /\ stop = boot.areas[i].end /\ boot.areas[i].start <= pos
                    /\ boot.areas[i].free => pos % PAGE = 0
                    /\ \A k \in DOMAIN pmm_stack :
                        (pmm_stack[k] + 1) * PAGE <= pos /\ (pmm_stack[k] + 1) * PAGE <= stop
        /\ \A f \in Frame : \A j \in 1..i :
            Spare(boot, f) /\ InArea(j, f) /\ (j < i \/ f * PAGE < pos)
                => \E k \in DOMAIN pmm_stack : pmm_stack[k] = f
    /\ pc = "cpu_init" =>
        \A f \in Frame : Spare(boot, f) => \E k \in DOMAIN pmm_stack : pmm_stack[k] = f

(***************************************************************************)
(* What each place in a call means: whose map it changes, and what state   *)
(* that process is in.                                                     *)
(***************************************************************************)
CallOK ==
    /\ pc \in {"pmm_init", "cpu_init", "idle"} => task = "none" /\ cur = Null /\ from = Null
    /\ pc = "area" => task \in {"exec", "fork", "wait"}
    /\ pc \in {"page", "table"} => task \in {"exec", "fork", "grow"} /\ stop <= TOP
    /\ pc \in {"unmap", "free_P4"} => task = "wait"
    /\ task # "none" => cur \in Proc
    /\ task = "exec" => cur = InitProc /\ st[cur] = "unused"
    /\ task = "fork" => /\ cur # InitProc /\ from \in Proc /\ from # cur
                        /\ st[cur] = "unused" /\ st[from] = "alive"
    /\ task = "grow" => cur = InitProc /\ st[cur] = "alive"
    /\ task = "wait" => cur # InitProc /\ st[cur] = "zombie"
    /\ (hand # Null) <=> (pc = "table")
    /\ pc = "table" => pos < stop
    /\ pc = "free_P4" => areas[cur] = <<>>
    /\ pc = "unmap" => areas[cur] # <<>> /\ stop = areas[cur][1].end

(* A process slot that nobody uses has no areas and no frames. *)
Vacant ==
    \A p \in Proc : st[p] = "unused" /\ p # cur =>
        areas[p] = <<>> /\ brk[p] = 0 /\ stack[p] = 0 /\ \A n \in Node : entry[<<p, n>>] = Null

(***************************************************************************)
(* Steps of PAGE from the area's start come to all of its pages but the    *)
(* skipped one.                                                            *)
(***************************************************************************)
Shaped(a) == a.start <= a.end /\ a.end <= TOP /\ Left(a.start, a.end) = Cov(a)

(* Areas without a page in common. *)
Apart(a, b) == Cov(a) \cap Cov(b) = {}

(***************************************************************************)
(* Areas in the order of a list: they may overlap only where brk has met   *)
(* the stack.                                                              *)
(***************************************************************************)
Pair(a, b) == a.start < b.start /\ (a.end < b.start => Apart(a, b))

(* The areas of a process are in order. *)
Lists ==
    \A p \in Proc :
        /\ \A k \in DOMAIN areas[p] : Shaped(areas[p][k])
        /\ \A j, k \in DOMAIN areas[p] : j < k => Pair(areas[p][j], areas[p][k])

(***************************************************************************)
(* A forked process can grow neither brk nor its stack, and its areas have *)
(* no page in common, since procmm_map refuses those that would.           *)
(***************************************************************************)
Children ==
    \A p \in Proc \ {InitProc} :
        /\ brk[p] = 0 /\ stack[p] = 0
        /\ \A j, k \in DOMAIN areas[p] : j < k => Apart(areas[p][j], areas[p][k])

(* The areas of init: its segments, brk and the stack. *)
ImageArea(k) == areas[InitProc][k]
BrkArea      == areas[InitProc][N + 1]
StackArea    == areas[InitProc][N + 2]

(***************************************************************************)
(* The areas of init once it runs. Where brk ends at a boundary below the  *)
(* stack, the page there is one of Boundaries.                             *)
(***************************************************************************)
InitAreas ==
    st[InitProc] # "unused" =>
        /\ Len(areas[InitProc]) = N + 2 /\ brk[InitProc] = N + 1 /\ stack[InitProc] = N + 2
        /\ \A k \in 1..N : ImageArea(k) = ExecPlan[k]
        /\ BrkArea.start = BrkStart /\ BrkStart + ArgSize <= BrkArea.end
        /\ BrkStart + ArgSize <= StackArea.start /\ StackArea.start % PAGE = 0
        /\ StackArea.end = TOP
        /\ BrkArea.end % PAGE = 0 /\ BrkArea.end < StackArea.start =>
            BrkArea.end \div PAGE \in Boundaries

(* The areas that exec has mapped are the first of its plan. *)
ExecAreas ==
    task = "exec" =>
        /\ i \in 1..(N + 3) /\ Len(areas[InitProc]) <= N + 2
        /\ Len(areas[InitProc]) = (IF pc = "area" THEN i - 1 ELSE i)
        /\ \A k \in 1..Len(areas[InitProc]) : ImageArea(k) = ExecPlan[k]
        /\ brk[InitProc] = (IF Len(areas[InitProc]) > N THEN N + 1 ELSE 0)
        /\ stack[InitProc] = (IF Len(areas[InitProc]) > N + 1 THEN N + 2 ELSE 0)

(* The areas that fork has mapped are areas of the parent. *)
ForkAreas ==
    task = "fork" =>
        /\ i \in 1..(Len(areas[from]) + 1) /\ (pc # "area" => i <= Len(areas[from]))
        /\ \A k \in DOMAIN areas[cur] : \E j \in DOMAIN areas[from] :
            areas[cur][k] = areas[from][j] /\ (j < i \/ (j = i /\ pc # "area"))

(* The pages of a process's areas. *)
Covered(p) == {g \in Page : \E k \in DOMAIN areas[p] : g \in Cov(areas[p][k])}

(***************************************************************************)
(* Those of them that the call under way has not come to, or has already   *)
(* given back.                                                             *)
(***************************************************************************)
Pending ==
    IF pc \in {"page", "table"} THEN Left(pos, stop)
    ELSE IF pc = "unmap" THEN Cov(areas[cur][1]) \ Left(pos, stop)
    ELSE {}

(* The pages that should be mapped now. *)
Owed(p) == IF p = cur THEN Covered(p) \ Pending ELSE Covered(p)

(***************************************************************************)
(* A page that brk may have left out at a boundary, and that the stack has *)
(* not filled.                                                             *)
(***************************************************************************)
Hole(p, g) ==
    /\ p = InitProc /\ st[p] # "unused" /\ g \in Boundaries
    /\ g \in Cov(BrkArea) /\ g \notin Cov(StackArea) /\ g \notin Args

(***************************************************************************)
(* The pages of a process are those it is owed, with their tables, but for *)
(* holes; and what a loop has still to come to is of the areas of its      *)
(* process.                                                                *)
(***************************************************************************)
Mapping ==
    /\ \A p \in Proc : \A g \in Page :
        /\ PageOf(p, g) # Null => g \in Owed(p)
        /\ g \in Owed(p) => PageOf(p, g) # Null \/ Hole(p, g)
        /\ PageOf(p, g) # Null => \A l \in 1..Levels : entry[<<p, TableEntry(l, g)>>] # Null
    /\ pc \in {"page", "table"} => Left(pos, stop) \subseteq Covered(cur)
    /\ pc = "unmap" => Left(pos, stop) \subseteq Cov(areas[cur][1])

(* Area k of cur has got its contents. *)
Finished(k) == pc = "area" \/ areas[cur][k].start < Plan[i].start

(***************************************************************************)
(* Free frames hold nothing of anyone's; growth is above brk's start; of   *)
(* what init does not have from there on, it expects nothing; pages hold   *)
(* what they should; and so do those areas of a new map that are finished. *)
(***************************************************************************)
Contents ==
    /\ \A k \in DOMAIN pmm_stack : data[pmm_stack[k]] = Junk
    /\ hand # Null => data[hand] = Junk
    /\ task = "grow" => BrkStart <= pos
    /\ st[InitProc] # "unused" =>
        \A g \in Page : BrkStart <= g * PAGE /\ PageOf(InitProc, g) = Null =>
            expect[InitProc][g] = Junk
    /\ NoBoundary => Private
    /\ task \in {"exec", "fork"} => \A k \in DOMAIN areas[cur] : Finished(k) =>
        /\ pc # "area" => Cov(areas[cur][k]) \cap Left(pos, stop) = {}
        /\ task = "fork" /\ NoBoundary =>
            \A g \in Cov(areas[cur][k]) : data[PageOf(cur, g)] = expect[from][g]
        /\ task = "exec" /\ k <= N =>
            \A g \in Cov(areas[cur][k]) : data[PageOf(cur, g)] = ImageContents[g]

(* The inductive invariant. *)
IInv ==
    /\ TypeOK /\ Distinct /\ Sound /\ Kept /\ Scanning /\ CallOK /\ Vacant /\ Lists /\ Children
    /\ InitAreas /\ ExecAreas /\ ForkAreas /\ Mapping /\ Contents

-----------------------------------------------------------------------------
(* Pages and addresses *)

(* The constants are numbers. *)
LEMMA Numbers ==
    /\ PAGE \in Nat /\ PAGE > 0 /\ Pages \in Nat /\ Pages > 0 /\ TOP \in Nat
    /\ NumFrames \in Nat /\ NumFrames > 0 /\ Levels \in Nat /\ ArgSize \in Nat /\ ArgSize > 0
  <1>1. PAGE \in Nat /\ PAGE > 0
    BY BootInfoAssumption
  <1>2. Pages \in Nat /\ Pages > 0 /\ NumFrames \in Nat /\ NumFrames > 0 /\ Levels \in Nat
        /\ ArgSize \in Nat /\ ArgSize > 0
    BY MemoryAssumption
  <1>3. TOP \in Nat
    BY <1>1, <1>2 DEF TOP
  <1> QED BY <1>1, <1>2, <1>3

(* The next page begins where a page ends. *)
LEMMA NextTimes ==
    ASSUME NEW n \in Int
    PROVE  n * PAGE \in Int /\ (n + 1) * PAGE = n * PAGE + PAGE
  BY Numbers

(* A later page begins no earlier than that. *)
LEMMA LaterTimes ==
    ASSUME NEW n \in Int, NEW m \in Int, n < m
    PROVE  n * PAGE + PAGE <= m * PAGE
  <1>1. PICK d \in Nat : m = n + 1 + d
    <2>1. m - n - 1 \in Nat /\ m = n + 1 + (m - n - 1)
      OBVIOUS
    <2> QED BY <2>1
  <1>2. m * PAGE = n * PAGE + PAGE + d * PAGE
    BY <1>1, Numbers
  <1>3. d * PAGE >= 0 /\ d * PAGE \in Int /\ n * PAGE \in Int
    BY <1>1, Numbers
  <1> QED BY <1>2, <1>3, Numbers

(* What division and remainder by PAGE are. *)
LEMMA Divide ==
    ASSUME NEW a \in Nat
    PROVE  /\ a \div PAGE \in Nat /\ a % PAGE \in Nat /\ a % PAGE < PAGE
           /\ a = (a \div PAGE) * PAGE + (a % PAGE)
           /\ (a \div PAGE) * PAGE \in Nat
  BY Numbers

(* They are known by the bounds of the remainder. *)
LEMMA DivideIs ==
    ASSUME NEW a \in Nat, NEW q \in Int, NEW r \in Int, a = q * PAGE + r, 0 <= r, r < PAGE
    PROVE  a \div PAGE = q /\ a % PAGE = r
  <1> DEFINE d == a \div PAGE
             e == a % PAGE
  <1>1. d \in Nat /\ e \in Nat /\ e < PAGE /\ a = d * PAGE + e
    BY Divide
  <1> HIDE DEF d, e
  <1>2. q * PAGE \in Int /\ d * PAGE \in Int
    BY <1>1, NextTimes
  <1>3. ~(d < q)
    <2> SUFFICES ASSUME d < q PROVE FALSE
      OBVIOUS
    <2>1. d * PAGE + PAGE <= q * PAGE
      BY <1>1, LaterTimes
    <2> QED BY <1>1, <1>2, <2>1, Numbers
  <1>4. ~(q < d)
    <2> SUFFICES ASSUME q < d PROVE FALSE
      OBVIOUS
    <2>1. q * PAGE + PAGE <= d * PAGE
      BY <1>1, LaterTimes
    <2> QED BY <1>1, <1>2, <2>1, Numbers
  <1>5. d = q
    BY <1>1, <1>3, <1>4
  <1>6. e = r
    BY <1>1, <1>2, <1>5
  <1> QED BY <1>5, <1>6 DEF d, e

(* An address lies before the end of a page when its page is that one or an earlier one. *)
LEMMA BeforeEnd ==
    ASSUME NEW a \in Nat, NEW g \in Int
    PROVE  (a < (g + 1) * PAGE) <=> (a \div PAGE <= g)
  <1> DEFINE d == a \div PAGE
  <1>1. d \in Nat /\ a % PAGE \in Nat /\ a % PAGE < PAGE /\ a = d * PAGE + (a % PAGE)
    BY Divide
  <1>2. (g + 1) * PAGE = g * PAGE + PAGE /\ g * PAGE \in Int /\ d * PAGE \in Int
    BY <1>1, NextTimes
  <1>3. g < d => g * PAGE + PAGE <= d * PAGE
    BY <1>1, LaterTimes
  <1>4. d < g => d * PAGE + PAGE <= g * PAGE
    BY <1>1, LaterTimes
  <1> HIDE DEF d
  <1>5. d = g => d * PAGE = g * PAGE
    OBVIOUS
  <1> QED BY <1>1, <1>2, <1>3, <1>4, <1>5, Numbers DEF d

(* A page begins before an address if it is that of the last byte before it or earlier. *)
LEMMA StartsBefore ==
    ASSUME NEW b \in Nat, b > 0, NEW g \in Int
    PROVE  (g * PAGE < b) <=> (g <= (b - 1) \div PAGE)
  <1>1. b - 1 \in Nat
    OBVIOUS
  <1> DEFINE d == (b - 1) \div PAGE
             r == (b - 1) % PAGE
  <1>2. d \in Nat /\ r \in Nat /\ r < PAGE /\ b - 1 = d * PAGE + r
    BY <1>1, Divide
  <1>3. g * PAGE \in Int /\ d * PAGE \in Int
    BY <1>2, NextTimes
  <1>4. g < d => g * PAGE + PAGE <= d * PAGE
    BY <1>2, LaterTimes
  <1>5. d < g => d * PAGE + PAGE <= g * PAGE
    BY <1>2, LaterTimes
  <1> HIDE DEF d, r
  <1>6. d = g => d * PAGE = g * PAGE
    OBVIOUS
  <1> QED BY <1>1, <1>2, <1>3, <1>4, <1>5, <1>6, Numbers DEF d

(* Pages are numbers, and they end by TOP. *)
LEMMA PageFacts ==
    ASSUME NEW g \in Page
    PROVE  g \in Nat /\ g * PAGE \in Nat /\ g * PAGE + PAGE <= TOP
  <1>1. g \in Nat /\ g < Pages
    BY Numbers DEF Page
  <1>2. g * PAGE + PAGE <= Pages * PAGE
    BY <1>1, LaterTimes, Numbers
  <1>3. g * PAGE \in Nat
    BY <1>1, Numbers
  <1> QED BY <1>1, <1>2, <1>3 DEF TOP

(* Addresses below TOP lie in pages. *)
LEMMA InPage ==
    ASSUME NEW a \in Nat, a < TOP
    PROVE  a \div PAGE \in Page
  <1>1. a < ((Pages - 1) + 1) * PAGE
    <2>1. (Pages - 1) + 1 = Pages
      BY Numbers
    <2> QED BY <2>1 DEF TOP
  <1>2. a \div PAGE <= Pages - 1
    BY <1>1, BeforeEnd, Numbers
  <1>3. a \div PAGE \in Nat
    BY Divide
  <1> QED BY <1>2, <1>3, Numbers DEF Page

-----------------------------------------------------------------------------
(* The loops over an area's pages *)

(* What is left of them, in terms of the page at a. *)
LEMMA LeftIs ==
    ASSUME NEW a \in Nat, NEW b \in Nat
    PROVE  Left(a, b) = {g \in Page : a \div PAGE <= g /\ g * PAGE + (a % PAGE) < b}
  <1>1. \A g \in Page : (a < (g + 1) * PAGE) <=> (a \div PAGE <= g)
    BY BeforeEnd, PageFacts
  <1> QED BY <1>1 DEF Left

(* A step of a loop: the page at a, and then those from the next address on. *)
LEMMA LeftStep ==
    ASSUME NEW a \in Nat, NEW b \in Nat, a < b, b <= TOP
    PROVE  /\ a \div PAGE \in Page
           /\ a \div PAGE \in Left(a, b)
           /\ Left(a + PAGE, b) = Left(a, b) \ {a \div PAGE}
  <1> DEFINE d == a \div PAGE
             r == a % PAGE
  <1>1. d \in Nat /\ r \in Nat /\ r < PAGE /\ a = d * PAGE + r /\ d * PAGE \in Nat
    BY Divide
  <1>2. d \in Page
    BY InPage, Numbers
  <1>3. (a + PAGE) \div PAGE = d + 1 /\ (a + PAGE) % PAGE = r
    <2>1. (d + 1) * PAGE = d * PAGE + PAGE
      BY <1>1, NextTimes
    <2>2. a + PAGE = (d + 1) * PAGE + r /\ a + PAGE \in Nat
      BY <1>1, <2>1, Numbers
    <2>3. d + 1 \in Int /\ r \in Int /\ 0 <= r
      BY <1>1
    <2> HIDE DEF d, r
    <2> QED BY <1>1, <2>2, <2>3, DivideIs
  <1>4. Left(a, b) = {g \in Page : d <= g /\ g * PAGE + r < b}
    BY LeftIs
  <1>5. a + PAGE \in Nat
    BY Numbers
  <1>6. Left(a + PAGE, b) = {g \in Page : d + 1 <= g /\ g * PAGE + r < b}
    BY <1>3, <1>5, LeftIs
  <1> HIDE DEF d, r
  <1>7. \A g \in Page : g \in Nat
    BY PageFacts
  <1>8. d \in Left(a, b)
    BY <1>1, <1>2, <1>4
  <1>9. Left(a + PAGE, b) = Left(a, b) \ {d}
    BY <1>1, <1>4, <1>6, <1>7
  <1> QED BY <1>2, <1>8, <1>9 DEF d

(* The end of a loop. *)
LEMMA LeftNone ==
    ASSUME NEW a \in Nat, NEW b \in Nat, a >= b
    PROVE  Left(a, b) = {}
  <1> DEFINE d == a \div PAGE
             r == a % PAGE
  <1>1. d \in Nat /\ r \in Nat /\ r < PAGE /\ a = d * PAGE + r /\ d * PAGE \in Nat
    BY Divide
  <1>2. Left(a, b) = {g \in Page : d <= g /\ g * PAGE + r < b}
    BY LeftIs
  <1> HIDE DEF d, r
  <1> SUFFICES ASSUME NEW g \in Page, d <= g, g * PAGE + r < b PROVE FALSE
    BY <1>2
  <1>3. g \in Nat /\ g * PAGE \in Nat
    BY PageFacts
  <1>4. d < g => d * PAGE + PAGE <= g * PAGE
    BY <1>1, <1>3, LaterTimes
  <1>5. d = g => d * PAGE = g * PAGE
    OBVIOUS
  <1> QED BY <1>1, <1>3, <1>4, <1>5, Numbers

(* From a page boundary on, the loop comes to every page. *)
LEMMA LeftAligned ==
    ASSUME NEW a \in Nat, NEW b \in Nat, a % PAGE = 0
    PROVE  Left(a, b) = PagesOf(a, b)
  <1>1. CASE a < b
    <2>1. \A g \in Page : g * PAGE + (a % PAGE) = g * PAGE
      BY PageFacts
    <2> QED BY <1>1, <2>1 DEF Left, PagesOf
  <1>2. CASE a >= b
    <2>1. Left(a, b) = {}
      BY <1>2, LeftNone
    <2>2. PagesOf(a, b) = {}
      BY <1>2 DEF PagesOf
    <2> QED BY <2>1, <2>2
  <1> QED BY <1>1, <1>2

(* From elsewhere it may pass over the last page, and no other. *)
LEMMA LeftSegment ==
    ASSUME NEW a \in Area, a.start < a.end
    PROVE  Left(a.start, a.end) = Cov(a)
  <1> DEFINE b == a.end
             r == a.start % PAGE
             d == (b - 1) \div PAGE
             s == (b - 1) % PAGE
  <1>1. a.start \in Nat /\ b \in Nat /\ b - 1 \in Nat /\ b > 0
    BY DEF Area
  <1>2. d \in Nat /\ s \in Nat /\ s < PAGE /\ b - 1 = d * PAGE + s /\ d * PAGE \in Nat
    BY <1>1, Divide
  <1>3. r \in Nat /\ r < PAGE
    BY <1>1, Divide
  <1>4. ASSUME NEW g \in Page
        PROVE  (g * PAGE + r < b) <=> (g * PAGE < b /\ ~(g = d /\ r > s))
    <2>1. g \in Nat /\ g * PAGE \in Nat
      BY PageFacts
    <2>2. (g * PAGE < b) <=> (g <= d)
      BY <1>1, <2>1, StartsBefore
    <2>3. g < d => g * PAGE + PAGE <= d * PAGE
      BY <1>2, <2>1, LaterTimes
    <2> HIDE DEF b, r, d, s
    <2>4. g = d => g * PAGE = d * PAGE
      OBVIOUS
    <2> QED BY <1>1, <1>2, <1>3, <2>1, <2>2, <2>3, <2>4, Numbers
  <1>5. Skipped(a) = {g \in Page : g = d /\ r > s}
    BY DEF Skipped
  <1>6. Left(a.start, b) = {g \in Page : a.start < (g + 1) * PAGE /\ g * PAGE + r < b}
    BY DEF Left
  <1>7. PagesOf(a.start, b) = {g \in Page : g * PAGE < b /\ a.start < (g + 1) * PAGE}
    BY DEF PagesOf
  <1>8. Cov(a) = PagesOf(a.start, b) \ Skipped(a)
    BY DEF Cov
  <1> HIDE DEF b, r, d, s
  <1>9. Left(a.start, b) = Cov(a)
    BY <1>4, <1>5, <1>6, <1>7, <1>8
  <1> QED BY <1>9 DEF b

(* An area that begins with a page has all its pages. *)
LEMMA CovAligned ==
    ASSUME NEW a \in Area, a.start % PAGE = 0
    PROVE  Cov(a) = PagesOf(a.start, a.end)
  <1>1. CASE a.start < a.end
    <2>1. Left(a.start, a.end) = Cov(a)
      BY <1>1, LeftSegment
    <2>2. a.start \in Nat /\ a.end \in Nat
      BY DEF Area
    <2> QED BY <2>1, <2>2, LeftAligned
  <1>2. CASE ~(a.start < a.end)
    BY <1>2 DEF Cov, PagesOf
  <1> QED BY <1>1, <1>2

(* What the loop passes over comes after its pages. *)
LEMMA CovBefore ==
    ASSUME NEW a \in Area, NEW g \in Cov(a), NEW h \in PagesOf(a.start, a.end), h <= g
    PROVE  h \in Cov(a)
  <1>1. g \in Page /\ h \in Page /\ a.start < a.end /\ g * PAGE < a.end
    BY DEF Cov, PagesOf
  <1>2. a.start \in Nat /\ a.end \in Nat /\ g \in Nat /\ h \in Nat
    BY <1>1, PageFacts DEF Area
  <1>3. a.end > 0
    BY <1>1, <1>2
  <1>4. g <= (a.end - 1) \div PAGE
    BY <1>1, <1>2, <1>3, StartsBefore
  <1>5. (a.end - 1) \div PAGE \in Nat
    <2>1. a.end - 1 \in Nat
      BY <1>2, <1>3
    <2> QED BY <2>1, Divide
  <1>6. h = (a.end - 1) \div PAGE => h = g
    BY <1>2, <1>4, <1>5
  <1>7. h \in Skipped(a) => g \in Skipped(a)
    BY <1>1, <1>6 DEF Skipped
  <1> QED BY <1>7 DEF Cov

-----------------------------------------------------------------------------
(* Areas *)

(* A page of an area, by the pages of its first and its last byte. *)
LEMMA CovIs ==
    ASSUME NEW a \in Area, NEW g \in Cov(a)
    PROVE  /\ g \in Page /\ a.start < a.end /\ g * PAGE < a.end
           /\ a.start \div PAGE <= g /\ g <= (a.end - 1) \div PAGE
  <1>1. g \in Page /\ a.start < a.end /\ g * PAGE < a.end /\ a.start < (g + 1) * PAGE
    BY DEF Cov, PagesOf
  <1>2. a.start \in Nat /\ a.end \in Nat /\ g \in Int
    BY <1>1, PageFacts DEF Area
  <1>3. a.end > 0
    BY <1>1, <1>2
  <1> QED BY <1>1, <1>2, <1>3, BeforeEnd, StartsBefore

(* An area that begins with a page shares none with one that ends before it. *)
LEMMA ApartAligned ==
    ASSUME NEW a \in Area, NEW b \in Area, b.start % PAGE = 0, a.end <= b.start
    PROVE  Apart(a, b)
  <1> SUFFICES ASSUME NEW g, g \in Cov(a), g \in Cov(b) PROVE FALSE
    BY DEF Apart
  <1>1. g \in Page /\ g * PAGE < a.end /\ b.start \div PAGE <= g
    BY CovIs
  <1>2. b.start \in Nat /\ a.end \in Nat
    BY DEF Area
  <1> DEFINE d == b.start \div PAGE
  <1>3. d \in Nat /\ b.start = d * PAGE /\ d * PAGE \in Nat
    <2>1. d \in Nat /\ b.start = d * PAGE + (b.start % PAGE) /\ d * PAGE \in Nat
      BY <1>2, Divide
    <2> HIDE DEF d
    <2> QED BY <2>1
  <1>4. g \in Nat /\ g * PAGE \in Nat
    BY <1>1, PageFacts
  <1>5. d < g => d * PAGE + PAGE <= g * PAGE
    BY <1>3, <1>4, LaterTimes
  <1>6. d <= g
    BY <1>1
  <1> HIDE DEF d
  <1>7. d = g => d * PAGE = g * PAGE
    OBVIOUS
  <1> QED BY <1>1, <1>2, <1>3, <1>4, <1>5, <1>6, <1>7, Numbers

(* Nor does one whose first page comes after the other's last. *)
LEMMA ApartSegments ==
    ASSUME NEW a \in Area, NEW b \in Area, (a.end - 1) \div PAGE < b.start \div PAGE, a.end > 0
    PROVE  Apart(a, b)
  <1> SUFFICES ASSUME NEW g, g \in Cov(a), g \in Cov(b) PROVE FALSE
    BY DEF Apart
  <1>1. g \in Page /\ g <= (a.end - 1) \div PAGE /\ b.start \div PAGE <= g
    BY CovIs
  <1>2. a.end \in Nat /\ b.start \in Nat /\ a.end - 1 \in Nat
    BY DEF Area
  <1>3. (a.end - 1) \div PAGE \in Nat /\ b.start \div PAGE \in Nat
    BY <1>2, Divide
  <1>4. g \in Nat
    BY <1>1, PageFacts
  <1> QED BY <1>1, <1>3, <1>4

(* brk is an area of whole pages after the image, with room for the arguments. *)
LEMMA ImageFacts ==
    /\ N \in Nat /\ N > 0 /\ BrkStart \in Nat /\ BrkStart % PAGE = 0
    /\ BrkStart + ArgSize < TOP /\ TOP % PAGE = 0
    /\ \A k \in 1..N :
        /\ Image[k] \in [start : Nat, file : Nat, end : Nat, offset : Nat]
        /\ PAGE <= Image[k].start /\ Image[k].start <= Image[k].file
        /\ Image[k].file <= Image[k].end /\ Image[k].start < Image[k].end
        /\ Image[k].end < BrkStart
        /\ \A j \in 1..N : k < j =>
            /\ Image[k].end < Image[j].start
            /\ (Image[k].end - 1) \div PAGE < Image[j].start \div PAGE
  <1>1. Image \in Seq([start : Nat, file : Nat, end : Nat, offset : Nat]) /\ Image # <<>>
    BY MemoryAssumption
  <1>2. N \in Nat /\ N > 0 /\ DOMAIN Image = 1..N
    BY <1>1 DEF N
  <1>3. \A k \in 1..N : Image[k] \in [start : Nat, file : Nat, end : Nat, offset : Nat]
    <2> DEFINE S == [start : Nat, file : Nat, end : Nat, offset : Nat]
    <2>1. Image \in Seq(S)
      BY <1>1
    <2> HIDE DEF S
    <2>2. \A k \in 1..Len(Image) : Image[k] \in S
      BY <2>1
    <2> QED BY <2>2 DEF N, S
  <1>4. \A k \in 1..N :
        /\ PAGE <= Image[k].start /\ Image[k].start <= Image[k].file
        /\ Image[k].file <= Image[k].end /\ Image[k].start < Image[k].end
        /\ \A j \in 1..N : k < j =>
            /\ Image[k].end < Image[j].start
            /\ (Image[k].end - 1) \div PAGE < Image[j].start \div PAGE
    BY <1>2, MemoryAssumption
  <1> DEFINE e == Image[N].end
             d == e \div PAGE
  <1>5. e \in Nat
    BY <1>2, <1>3
  <1>6. d \in Nat /\ e % PAGE \in Nat /\ e % PAGE < PAGE /\ e = d * PAGE + (e % PAGE) /\ d * PAGE \in Nat
    BY <1>5, Divide
  <1>7. BrkStart = (d + 1) * PAGE
    BY DEF BrkStart, NextPage, N
  <1> HIDE DEF d
  <1>8. (d + 1) * PAGE = d * PAGE + PAGE
    BY <1>6, NextTimes
  <1>9. BrkStart \in Nat /\ e < BrkStart
    BY <1>6, <1>7, <1>8, Numbers
  <1>10. BrkStart % PAGE = 0
    <2>1. BrkStart = (d + 1) * PAGE + 0 /\ d + 1 \in Int
      BY <1>6, <1>7, <1>9
    <2>2. PICK q \in Int : BrkStart = q * PAGE + 0
      BY <2>1
    <2> QED BY <1>9, <2>2, DivideIs, Numbers
  <1>11. TOP % PAGE = 0
    <2>1. TOP = Pages * PAGE + 0 /\ Pages \in Int /\ TOP \in Nat
      BY Numbers DEF TOP
    <2> QED BY <2>1, DivideIs, Numbers
  <1>12. BrkStart + ArgSize < TOP
    BY MemoryAssumption
  <1>13. \A k \in 1..N : Image[k].end < BrkStart
    <2> SUFFICES ASSUME NEW k \in 1..N PROVE Image[k].end < BrkStart
      OBVIOUS
    <2>1. CASE k = N
      BY <1>9, <2>1
    <2>2. CASE k # N
      <3>1. k < N /\ N \in 1..N
        BY <1>2, <2>2
      <3>2. Image[k].end < Image[N].start /\ Image[N].start < e
        BY <1>4, <3>1
      <3>3. Image[k].end \in Nat /\ Image[N].start \in Nat
        BY <1>3, <3>1
      <3> QED BY <1>5, <1>9, <3>2, <3>3
    <2> QED BY <2>1, <2>2
  <1> QED BY <1>2, <1>3, <1>4, <1>9, <1>10, <1>11, <1>12, <1>13

(* What exec maps, one by one. *)
LEMMA PlanIs ==
    /\ ExecPlan \in Seq(Area) /\ Len(ExecPlan) = N + 2 /\ DOMAIN ExecPlan = 1..(N + 2)
    /\ \A k \in 1..N : ExecPlan[k].start = Image[k].start /\ ExecPlan[k].end = Image[k].end
    /\ ExecPlan[N + 1].start = BrkStart /\ ExecPlan[N + 1].end = BrkStart + ArgSize
    /\ ExecPlan[N + 2].start = TOP /\ ExecPlan[N + 2].end = TOP
  <1>1. N \in Nat
    BY ImageFacts
  <1>2. \A k \in 1..N : Image[k].start \in Nat /\ Image[k].end \in Nat
    BY ImageFacts
  <1>3. BrkStart \in Nat /\ BrkStart + ArgSize \in Nat /\ TOP \in Nat
    BY ImageFacts, Numbers
  <1>4. \A k \in 1..(N + 2) : ExecPlan[k] \in Area
    <2> TAKE k \in 1..(N + 2)
    <2>1. CASE k <= N
      <3>1. k \in 1..N
        BY <1>1, <2>1
      <3>2. ExecPlan[k] = [start |-> Image[k].start, end |-> Image[k].end]
        BY <2>1 DEF ExecPlan, N
      <3> QED BY <1>2, <3>1, <3>2 DEF Area
    <2>2. CASE k = N + 1
      <3>1. ExecPlan[k] = [start |-> BrkStart, end |-> BrkStart + ArgSize]
        BY <1>1, <2>2 DEF ExecPlan, N
      <3> QED BY <1>3, <3>1 DEF Area
    <2>3. CASE k = N + 2
      <3>1. ExecPlan[k] = [start |-> TOP, end |-> TOP]
        BY <1>1, <2>3 DEF ExecPlan, N
      <3> QED BY <1>3, <3>1 DEF Area
    <2> QED BY <1>1, <2>1, <2>2, <2>3
  <1>5. ExecPlan \in [1..(N + 2) -> Area]
    <2>1. ExecPlan = [k \in 1..(N + 2) |-> ExecPlan[k]]
      BY DEF ExecPlan, N
    <2> QED BY <1>4, <2>1
  <1>6. N + 2 \in Nat
    BY <1>1
  <1>7. ExecPlan \in Seq(Area) /\ Len(ExecPlan) = N + 2 /\ DOMAIN ExecPlan = 1..(N + 2)
    BY <1>5, <1>6
  <1>8. \A k \in 1..N : ExecPlan[k].start = Image[k].start /\ ExecPlan[k].end = Image[k].end
    BY <1>1 DEF ExecPlan, N
  <1>9. ExecPlan[N + 1].start = BrkStart /\ ExecPlan[N + 1].end = BrkStart + ArgSize
    BY <1>1 DEF ExecPlan, N
  <1>10. ExecPlan[N + 2].start = TOP /\ ExecPlan[N + 2].end = TOP
    BY <1>1 DEF ExecPlan, N
  <1> QED BY <1>7, <1>8, <1>9, <1>10

(* Each of them has the pages that the loop maps. *)
LEMMA PlanShaped ==
    ASSUME NEW k \in 1..(N + 2)
    PROVE  Shaped(ExecPlan[k]) /\ ExecPlan[k] \in Area
  <1>1. N \in Nat /\ BrkStart \in Nat /\ BrkStart + ArgSize \in Nat /\ TOP \in Nat /\ BrkStart + ArgSize < TOP
    BY ImageFacts, Numbers
  <1>2. ExecPlan[k] \in Area
    BY PlanIs
  <1>3. CASE k \in 1..N
    <2>1. ExecPlan[k].start = Image[k].start /\ ExecPlan[k].end = Image[k].end
      BY <1>3, PlanIs
    <2>2. Image[k].start \in Nat /\ Image[k].end \in Nat /\ Image[k].start < Image[k].end
          /\ Image[k].end < BrkStart
      BY <1>3, ImageFacts
    <2>3. Left(ExecPlan[k].start, ExecPlan[k].end) = Cov(ExecPlan[k])
      BY <1>2, <2>1, <2>2, LeftSegment
    <2>4. Image[k].end <= TOP
      BY <1>1, <2>2, Numbers
    <2> QED BY <1>2, <2>1, <2>2, <2>3, <2>4 DEF Shaped
  <1>4. CASE k = N + 1
    <2>1. Left(BrkStart, BrkStart + ArgSize) = PagesOf(BrkStart, BrkStart + ArgSize)
      BY <1>1, LeftAligned, ImageFacts
    <2>2. ExecPlan[k].start = BrkStart /\ ExecPlan[k].end = BrkStart + ArgSize
      BY <1>4, PlanIs
    <2>3. Cov(ExecPlan[k]) = PagesOf(BrkStart, BrkStart + ArgSize)
      BY <1>2, <2>2, CovAligned, ImageFacts
    <2> QED BY <1>1, <1>2, <2>1, <2>2, <2>3, Numbers DEF Shaped
  <1>5. CASE k = N + 2
    <2>1. Left(TOP, TOP) = PagesOf(TOP, TOP)
      BY <1>1, LeftAligned, ImageFacts
    <2>2. ExecPlan[k].start = TOP /\ ExecPlan[k].end = TOP
      BY <1>5, PlanIs
    <2>3. Cov(ExecPlan[k]) = PagesOf(TOP, TOP)
      BY <1>2, <2>2, CovAligned, ImageFacts
    <2> QED BY <1>1, <1>2, <2>1, <2>2, <2>3 DEF Shaped
  <1> QED BY <1>1, <1>3, <1>4, <1>5

(* They lie one after the other and share no page. *)
LEMMA PlanApart ==
    ASSUME NEW j \in 1..(N + 2), NEW k \in 1..(N + 2), j < k
    PROVE  /\ ExecPlan[j].end < ExecPlan[k].start /\ ExecPlan[j].start < ExecPlan[k].start
           /\ Apart(ExecPlan[j], ExecPlan[k])
  <1>1. N \in Nat /\ BrkStart \in Nat /\ BrkStart + ArgSize \in Nat /\ TOP \in Nat
        /\ BrkStart + ArgSize < TOP /\ ArgSize \in Nat
    BY ImageFacts, Numbers
  <1>2. ExecPlan[j] \in Area /\ ExecPlan[k] \in Area /\ ExecPlan[j].start <= ExecPlan[j].end
    BY PlanShaped DEF Shaped
  <1>3. ExecPlan[j].start \in Nat /\ ExecPlan[j].end \in Nat /\ ExecPlan[k].start \in Nat
    BY <1>2 DEF Area
  <1>4. CASE k \in 1..N
    <2>1. j \in 1..N
      BY <1>1, <1>4
    <2>2. ExecPlan[j].end = Image[j].end /\ ExecPlan[k].start = Image[k].start
      BY <1>4, <2>1, PlanIs
    <2>3. Image[j].end < Image[k].start /\ (Image[j].end - 1) \div PAGE < Image[k].start \div PAGE
          /\ Image[j].start < Image[j].end /\ Image[j].start \in Nat /\ Image[j].end \in Nat
      BY <1>4, <2>1, ImageFacts
    <2>4. Apart(ExecPlan[j], ExecPlan[k])
      BY <1>2, <2>2, <2>3, ApartSegments
    <2> QED BY <1>2, <1>3, <2>2, <2>3, <2>4
  <1>5. CASE k = N + 1
    <2>1. j \in 1..N
      BY <1>1, <1>5
    <2>2. ExecPlan[j].end = Image[j].end /\ ExecPlan[k].start = BrkStart /\ Image[j].end < BrkStart
      BY <1>5, <2>1, PlanIs, ImageFacts
    <2>3. ExecPlan[j].end <= ExecPlan[k].start /\ ExecPlan[k].start % PAGE = 0
      BY <1>3, <2>2, ImageFacts
    <2>4. Apart(ExecPlan[j], ExecPlan[k])
      BY <1>2, <2>3, ApartAligned
    <2> QED BY <1>2, <1>3, <2>2, <2>4
  <1>6. CASE k = N + 2
    <2>1. ExecPlan[k].start = TOP
      BY <1>6, PlanIs
    <2>2. ExecPlan[j].end < TOP
      <3>1. CASE j \in 1..N
        <4>1. ExecPlan[j].end = Image[j].end /\ Image[j].end < BrkStart
          BY <3>1, PlanIs, ImageFacts
        <4> QED BY <1>1, <1>3, <4>1
      <3>2. CASE j = N + 1
        BY <1>1, <3>2, PlanIs
      <3> QED BY <1>1, <1>6, <3>1, <3>2
    <2>3. ExecPlan[j].end <= ExecPlan[k].start /\ ExecPlan[k].start % PAGE = 0
      BY <1>1, <1>3, <2>1, <2>2, ImageFacts
    <2>4. Apart(ExecPlan[j], ExecPlan[k])
      BY <1>2, <2>3, ApartAligned
    <2> QED BY <1>1, <1>2, <1>3, <2>1, <2>2, <2>4
  <1> QED BY <1>1, <1>4, <1>5, <1>6

-----------------------------------------------------------------------------
(* Where frames are, and how they move *)

(* Types of what holds frames. *)
FrameTypes ==
    /\ pmm_stack \in Seq(Frame) /\ heap \subseteq Frame
    /\ entry \in [Slot -> Frame \cup {Null}] /\ hand \in Frame \cup {Null}

(* Frame f is free, or in an entry. *)
InStack(f) == \E k \in 1..Len(pmm_stack) : pmm_stack[k] = f
InEntry(f) == \E x \in Slot : entry[x] = f /\ f # Null

(* pmm_alloc finds a frame. *)
Popped == pmm_stack # <<>> /\ pmm_alloc

(***************************************************************************)
(* What a step may do with a frame: nothing; take one for the heap, for an *)
(* entry or to have in hand; put that one in an entry; give one back.      *)
(***************************************************************************)
Calm      == UNCHANGED <<pmm_stack, heap, entry, hand>>
ToHeap    == Popped /\ heap' = heap \cup {Top} /\ UNCHANGED <<entry, hand>>
ToEntry(x) ==
    Popped /\ entry[x] = Null /\ entry' = [entry EXCEPT ![x] = Top] /\ UNCHANGED <<heap, hand>>
ToHand    == Popped /\ hand = Null /\ hand' = Top /\ UNCHANGED <<heap, entry>>
HandTo(x) ==
    /\ hand # Null /\ entry[x] = Null /\ entry' = [entry EXCEPT ![x] = hand] /\ hand' = Null
    /\ UNCHANGED <<pmm_stack, heap>>
Back(x) ==
    /\ entry[x] # Null /\ pmm_stack' = Append(pmm_stack, entry[x])
    /\ entry' = [entry EXCEPT ![x] = Null] /\ UNCHANGED <<heap, hand>>

Move ==
    \/ Calm \/ ToHeap \/ ToHand
    \/ \E x \in Slot : ToEntry(x) \/ HandTo(x) \/ Back(x)

(* No frame is Null. *)
LEMMA NullApart == Null \notin Frame /\ Null \notin Proc
  BY MemoryAssumption

(* The frames that are held, one way or the other. *)
LEMMA HeldIs ==
    ASSUME FrameTypes, NEW f
    PROVE  f \in Held <=> InStack(f) \/ f \in heap \/ InEntry(f) \/ (f = hand /\ hand # Null)
  <1>1. f \in Stacked <=> InStack(f)
    <2>1. DOMAIN pmm_stack = 1..Len(pmm_stack)
      BY DEF FrameTypes
    <2> QED BY <2>1 DEF Stacked, InStack
  <1>2. f \in Entered <=> InEntry(f)
    BY DEF Entered, InEntry, Used, Slot
  <1>3. f \in InHand <=> (f = hand /\ hand # Null)
    BY DEF InHand
  <1> QED BY <1>1, <1>2, <1>3 DEF Held

(* What pmm_alloc does to the stack. *)
LEMMA PopIs ==
    ASSUME pmm_stack \in Seq(Frame), Popped
    PROVE  /\ pmm_stack' \in Seq(Frame) /\ Len(pmm_stack) \in Nat /\ Len(pmm_stack) > 0
           /\ Len(pmm_stack') = Len(pmm_stack) - 1
           /\ \A k \in 1..(Len(pmm_stack) - 1) : pmm_stack'[k] = pmm_stack[k]
           /\ Top = pmm_stack[Len(pmm_stack)] /\ Top \in Frame
  <1>1. Len(pmm_stack) \in Nat /\ Len(pmm_stack) > 0
    BY DEF Popped
  <1>2. pmm_stack' = SubSeq(pmm_stack, 1, Len(pmm_stack) - 1)
    BY DEF Popped, pmm_alloc
  <1>3. Top \in Frame
    BY <1>1 DEF Top
  <1>4. /\ SubSeq(pmm_stack, 1, Len(pmm_stack) - 1) \in Seq(Frame)
        /\ Len(SubSeq(pmm_stack, 1, Len(pmm_stack) - 1)) = Len(pmm_stack) - 1
        /\ \A k \in 1..(Len(pmm_stack) - 1) :
            SubSeq(pmm_stack, 1, Len(pmm_stack) - 1)[k] = pmm_stack[k]
    <2> DEFINE n == Len(pmm_stack) - 1
    <2>1. n \in Nat /\ n <= Len(pmm_stack)
      BY <1>1
    <2> HIDE DEF n
    <2>2. SubSeq(pmm_stack, 1, n) \in Seq(Frame)
      BY <2>1
    <2>3. Len(SubSeq(pmm_stack, 1, n)) = n
      BY <2>1
    <2>4. \A k \in 1..n : SubSeq(pmm_stack, 1, n)[k] = pmm_stack[k]
      BY <2>1
    <2> QED BY <2>2, <2>3, <2>4 DEF n
  <1>5. Top = pmm_stack[Len(pmm_stack)]
    BY DEF Top
  <1> QED BY <1>1, <1>2, <1>3, <1>4, <1>5

(* What pmm_free does to it. *)
LEMMA PushIs ==
    ASSUME pmm_stack \in Seq(Frame), NEW f \in Frame, pmm_stack' = Append(pmm_stack, f)
    PROVE  /\ pmm_stack' \in Seq(Frame) /\ Len(pmm_stack) \in Nat
           /\ Len(pmm_stack') = Len(pmm_stack) + 1
           /\ \A k \in 1..Len(pmm_stack) : pmm_stack'[k] = pmm_stack[k]
           /\ pmm_stack'[Len(pmm_stack) + 1] = f
  OBVIOUS

(* Distinct without domains. *)
DistinctFacts ==
    /\ \A j, k \in 1..Len(pmm_stack) : pmm_stack[j] = pmm_stack[k] => j = k
    /\ \A x, y \in Slot : entry[x] = entry[y] /\ entry[x] # Null => x = y
    /\ \A k \in 1..Len(pmm_stack) : pmm_stack[k] \notin heap /\ pmm_stack[k] # hand
    /\ \A x \in Slot : entry[x] # Null =>
        /\ entry[x] \notin heap /\ entry[x] # hand
        /\ \A k \in 1..Len(pmm_stack) : pmm_stack[k] # entry[x]
    /\ hand \notin heap

(* Distinct, with the stack's domain written out. *)
LEMMA DistinctIs ==
    ASSUME pmm_stack \in Seq(Frame)
    PROVE  Distinct <=> DistinctFacts
  <1>1. DOMAIN pmm_stack = 1..Len(pmm_stack)
    OBVIOUS
  <1> QED BY <1>1 DEF Distinct, DistinctFacts

(* A move leaves each frame one use, and holds the same frames. *)
Moved ==
    /\ FrameTypes' /\ DistinctFacts'
    /\ \A f : (InStack(f) \/ f \in heap \/ InEntry(f) \/ (f = hand /\ hand # Null))
          <=> (InStack(f)' \/ f \in heap' \/ InEntry(f)' \/ (f = hand' /\ hand' # Null))

(* ksbrk takes a free frame. *)
LEMMA MovedToHeap ==
    ASSUME FrameTypes, DistinctFacts, ToHeap
    PROVE  Moved
  <1> DEFINE n == Len(pmm_stack)
  <1>1. /\ pmm_stack' \in Seq(Frame) /\ n \in Nat /\ n > 0 /\ Len(pmm_stack') = n - 1
        /\ \A k \in 1..(n - 1) : pmm_stack'[k] = pmm_stack[k]
        /\ Top = pmm_stack[n] /\ Top \in Frame
    BY PopIs DEF FrameTypes, ToHeap
  <1>2. heap' = heap \cup {Top} /\ entry' = entry /\ hand' = hand
    BY DEF ToHeap
  <1>3. FrameTypes'
    BY <1>1, <1>2 DEF FrameTypes
  <1>4. 1..(n - 1) \subseteq 1..n /\ n \in 1..n /\ \A k \in 1..n : k = n \/ k \in 1..(n - 1)
    BY <1>1
  <1>5. Top # Null
    BY <1>1, NullApart
  <1>6. DistinctFacts'
    <2>1. \A j, k \in 1..(n - 1) : pmm_stack'[j] = pmm_stack'[k] => j = k
      BY <1>1, <1>4 DEF DistinctFacts
    <2>2. \A k \in 1..(n - 1) : pmm_stack'[k] \notin heap' /\ pmm_stack'[k] # hand'
      BY <1>1, <1>2, <1>4 DEF DistinctFacts
    <2>3. \A x \in Slot : entry[x] # Null =>
            entry[x] \notin heap' /\ \A k \in 1..(n - 1) : pmm_stack'[k] # entry[x]
      BY <1>1, <1>2, <1>4 DEF DistinctFacts
    <2>4. hand' \notin heap'
      BY <1>1, <1>2, <1>4 DEF DistinctFacts
    <2> HIDE DEF n
    <2> QED BY <1>1, <1>2, <2>1, <2>2, <2>3, <2>4 DEF DistinctFacts
  <1>7. \A f : InStack(f) <=> (InStack(f)' \/ f = Top)
    BY <1>1, <1>4 DEF InStack
  <1>8. \A f : InEntry(f)' <=> InEntry(f)
    BY <1>2 DEF InEntry
  <1> QED BY <1>2, <1>3, <1>6, <1>7, <1>8 DEF Moved

(* vmm_set_page's argument is a free frame. *)
LEMMA MovedToHand ==
    ASSUME FrameTypes, DistinctFacts, ToHand
    PROVE  Moved
  <1> DEFINE n == Len(pmm_stack)
  <1>1. /\ pmm_stack' \in Seq(Frame) /\ n \in Nat /\ n > 0 /\ Len(pmm_stack') = n - 1
        /\ \A k \in 1..(n - 1) : pmm_stack'[k] = pmm_stack[k]
        /\ Top = pmm_stack[n] /\ Top \in Frame
    BY PopIs DEF FrameTypes, ToHand
  <1>2. heap' = heap /\ entry' = entry /\ hand = Null /\ hand' = Top
    BY DEF ToHand
  <1>3. FrameTypes'
    BY <1>1, <1>2 DEF FrameTypes
  <1>4. 1..(n - 1) \subseteq 1..n /\ n \in 1..n /\ \A k \in 1..n : k = n \/ k \in 1..(n - 1)
    BY <1>1
  <1>5. Top # Null
    BY <1>1, NullApart
  <1>6. DistinctFacts'
    <2>1. \A j, k \in 1..(n - 1) : pmm_stack'[j] = pmm_stack'[k] => j = k
      BY <1>1, <1>4 DEF DistinctFacts
    <2>2. \A k \in 1..(n - 1) : pmm_stack'[k] \notin heap' /\ pmm_stack'[k] # hand'
      <3> TAKE k \in 1..(n - 1)
      <3>1. pmm_stack'[k] = pmm_stack[k] /\ k \in 1..n /\ k # n
        BY <1>1, <1>4
      <3>2. pmm_stack[k] # pmm_stack[n]
        BY <1>4, <3>1 DEF DistinctFacts
      <3> QED BY <1>1, <1>2, <3>1, <3>2 DEF DistinctFacts
    <2>3. \A x \in Slot : entry[x] # Null =>
            /\ entry[x] \notin heap' /\ entry[x] # hand'
            /\ \A k \in 1..(n - 1) : pmm_stack'[k] # entry[x]
      BY <1>1, <1>2, <1>4 DEF DistinctFacts
    <2>4. hand' \notin heap'
      BY <1>1, <1>2, <1>4 DEF DistinctFacts
    <2> HIDE DEF n
    <2> QED BY <1>1, <1>2, <2>1, <2>2, <2>3, <2>4 DEF DistinctFacts
  <1>7. \A f : InStack(f) <=> (InStack(f)' \/ f = Top)
    BY <1>1, <1>4 DEF InStack
  <1>8. \A f : InEntry(f)' <=> InEntry(f)
    BY <1>2 DEF InEntry
  <1> QED BY <1>2, <1>3, <1>5, <1>6, <1>7, <1>8 DEF Moved

(* A table or P4 is a free frame. *)
LEMMA MovedToEntry ==
    ASSUME FrameTypes, DistinctFacts, NEW x \in Slot, ToEntry(x)
    PROVE  Moved
  <1> DEFINE n == Len(pmm_stack)
  <1>1. /\ pmm_stack' \in Seq(Frame) /\ n \in Nat /\ n > 0 /\ Len(pmm_stack') = n - 1
        /\ \A k \in 1..(n - 1) : pmm_stack'[k] = pmm_stack[k]
        /\ Top = pmm_stack[n] /\ Top \in Frame
    BY PopIs DEF FrameTypes, ToEntry
  <1>2. heap' = heap /\ hand' = hand /\ entry[x] = Null
    BY DEF ToEntry
  <1>a. \A y \in Slot : entry'[y] = IF y = x THEN Top ELSE entry[y]
    BY DEF ToEntry, FrameTypes
  <1>3. FrameTypes'
    BY <1>1, <1>2 DEF FrameTypes, ToEntry
  <1>4. 1..(n - 1) \subseteq 1..n /\ n \in 1..n /\ \A k \in 1..n : k = n \/ k \in 1..(n - 1)
    BY <1>1
  <1>5. Top # Null
    BY <1>1, NullApart
  <1>6. DistinctFacts'
    <2>1. \A j, k \in 1..(n - 1) : pmm_stack'[j] = pmm_stack'[k] => j = k
      BY <1>1, <1>4 DEF DistinctFacts
    <2>2. \A k \in 1..(n - 1) : pmm_stack'[k] \notin heap' /\ pmm_stack'[k] # hand' /\ pmm_stack'[k] # Top
      <3> TAKE k \in 1..(n - 1)
      <3>1. pmm_stack'[k] = pmm_stack[k] /\ k \in 1..n /\ k # n
        BY <1>1, <1>4
      <3>2. pmm_stack[k] # pmm_stack[n]
        BY <1>4, <3>1 DEF DistinctFacts
      <3> QED BY <1>1, <1>2, <3>1, <3>2 DEF DistinctFacts
    <2>3. \A y \in Slot : entry'[y] # Null =>
            /\ entry'[y] \notin heap' /\ entry'[y] # hand'
            /\ \A k \in 1..(n - 1) : pmm_stack'[k] # entry'[y]
      BY <1>1, <1>2, <1>a, <1>4, <2>2 DEF DistinctFacts
    <2>4. hand' \notin heap'
      BY <1>2 DEF DistinctFacts
    <2>5. \A y, z \in Slot : entry'[y] = entry'[z] /\ entry'[y] # Null => y = z
      BY <1>1, <1>a, <1>4 DEF DistinctFacts
    <2> HIDE DEF n
    <2> QED BY <1>1, <2>1, <2>2, <2>3, <2>4, <2>5 DEF DistinctFacts
  <1>7. \A f : InStack(f) <=> (InStack(f)' \/ f = Top)
    BY <1>1, <1>4 DEF InStack
  <1>8. \A f : InEntry(f)' <=> (InEntry(f) \/ f = Top)
    BY <1>2, <1>a, <1>5 DEF InEntry
  <1> QED BY <1>2, <1>3, <1>6, <1>7, <1>8 DEF Moved

(* The frame in hand becomes a page. *)
LEMMA MovedFromHand ==
    ASSUME FrameTypes, DistinctFacts, NEW x \in Slot, HandTo(x)
    PROVE  Moved
  <1>1. /\ heap' = heap /\ pmm_stack' = pmm_stack /\ hand' = Null /\ entry[x] = Null
        /\ hand # Null /\ hand \in Frame
    BY DEF HandTo, FrameTypes
  <1>2. \A y \in Slot : entry'[y] = IF y = x THEN hand ELSE entry[y]
    BY DEF HandTo, FrameTypes
  <1>3. FrameTypes'
    BY <1>1 DEF FrameTypes, HandTo
  <1>4. DistinctFacts'
    <2>1. \A k \in 1..Len(pmm_stack) : pmm_stack[k] # Null
      BY NullApart DEF FrameTypes
    <2>2. Null \notin heap
      BY NullApart DEF FrameTypes
    <2>3. \A y \in Slot : entry'[y] # Null =>
            /\ entry'[y] \notin heap /\ entry'[y] # Null
            /\ \A k \in 1..Len(pmm_stack) : pmm_stack[k] # entry'[y]
      BY <1>1, <1>2 DEF DistinctFacts
    <2>4. \A y, z \in Slot : entry'[y] = entry'[z] /\ entry'[y] # Null => y = z
      BY <1>1, <1>2 DEF DistinctFacts
    <2> QED BY <1>1, <2>1, <2>2, <2>3, <2>4 DEF DistinctFacts
  <1>5. \A f : InStack(f)' <=> InStack(f)
    BY <1>1 DEF InStack
  <1>6. \A f : InEntry(f)' <=> (InEntry(f) \/ f = hand)
    BY <1>1, <1>2 DEF InEntry
  <1> QED BY <1>1, <1>3, <1>4, <1>5, <1>6 DEF Moved

(* pmm_free takes a frame from its entry. *)
LEMMA MovedBack ==
    ASSUME FrameTypes, DistinctFacts, NEW x \in Slot, Back(x)
    PROVE  Moved
  <1> DEFINE n == Len(pmm_stack)
             e == entry[x]
  <1>1. heap' = heap /\ hand' = hand /\ e # Null /\ e \in Frame
    BY DEF Back, FrameTypes
  <1>2. \A y \in Slot : entry'[y] = IF y = x THEN Null ELSE entry[y]
    BY DEF Back, FrameTypes
  <1>3. /\ pmm_stack' \in Seq(Frame) /\ n \in Nat /\ Len(pmm_stack') = n + 1
        /\ \A k \in 1..n : pmm_stack'[k] = pmm_stack[k]
        /\ pmm_stack'[n + 1] = e
    BY <1>1, PushIs DEF FrameTypes, Back
  <1>4. FrameTypes'
    BY <1>1, <1>3 DEF FrameTypes, Back
  <1>5. 1..n \subseteq 1..(n + 1) /\ n + 1 \in 1..(n + 1) /\ \A k \in 1..(n + 1) : k = n + 1 \/ k \in 1..n
    BY <1>3
  <1>6. e \notin heap /\ e # hand /\ (\A k \in 1..n : pmm_stack[k] # e)
        /\ \A y \in Slot : y # x => entry[y] # e
    BY <1>1 DEF DistinctFacts
  <1> HIDE DEF n, e
  <1>7. DistinctFacts'
    <2>1. \A j, k \in 1..(n + 1) : pmm_stack'[j] = pmm_stack'[k] => j = k
      BY <1>3, <1>5, <1>6 DEF DistinctFacts, n
    <2>2. \A k \in 1..(n + 1) : pmm_stack'[k] \notin heap' /\ pmm_stack'[k] # hand'
      BY <1>1, <1>3, <1>5, <1>6 DEF DistinctFacts, n
    <2>3. \A y \in Slot : entry'[y] # Null =>
            /\ entry'[y] \notin heap' /\ entry'[y] # hand'
            /\ \A k \in 1..(n + 1) : pmm_stack'[k] # entry'[y]
      BY <1>1, <1>2, <1>3, <1>5, <1>6 DEF DistinctFacts, n
    <2>4. hand' \notin heap'
      BY <1>1 DEF DistinctFacts
    <2>5. \A y, z \in Slot : entry'[y] = entry'[z] /\ entry'[y] # Null => y = z
      BY <1>2 DEF DistinctFacts
    <2> QED BY <1>3, <2>1, <2>2, <2>3, <2>4, <2>5 DEF DistinctFacts
  <1>8. \A f : InStack(f)' <=> (InStack(f) \/ f = e)
    BY <1>3, <1>5 DEF InStack, n
  <1>9. \A f : InEntry(f) <=> (InEntry(f)' \/ f = e)
    BY <1>1, <1>2, <1>6 DEF InEntry, e
  <1> QED BY <1>1, <1>4, <1>7, <1>8, <1>9 DEF Moved

(* A move keeps every frame, and its one use. *)
LEMMA MoveKeeps ==
    ASSUME FrameTypes, Distinct, Move
    PROVE  FrameTypes' /\ Distinct' /\ Held' = Held
  <1>1. DistinctFacts
    BY DistinctIs DEF FrameTypes
  <1>2. Moved
    <2>1. CASE Calm
      <3>1. pmm_stack' = pmm_stack /\ heap' = heap /\ entry' = entry /\ hand' = hand
        BY <2>1 DEF Calm
      <3>2. FrameTypes' /\ DistinctFacts'
        BY <1>1, <3>1 DEF FrameTypes, DistinctFacts
      <3>3. \A f : InStack(f)' <=> InStack(f)
        BY <3>1 DEF InStack
      <3>4. \A f : InEntry(f)' <=> InEntry(f)
        BY <3>1 DEF InEntry
      <3> QED BY <3>1, <3>2, <3>3, <3>4 DEF Moved
    <2>2. CASE ToHeap
      BY <1>1, <2>2, MovedToHeap
    <2>3. CASE ToHand
      BY <1>1, <2>3, MovedToHand
    <2>4. CASE \E x \in Slot : ToEntry(x) \/ HandTo(x) \/ Back(x)
      BY <1>1, <2>4, MovedToEntry, MovedFromHand, MovedBack
    <2> QED BY <2>1, <2>2, <2>3, <2>4 DEF Move
  <1>3. FrameTypes' /\ DistinctFacts'
    BY <1>2 DEF Moved
  <1>4. Distinct'
    <2>1. DOMAIN pmm_stack' = 1..Len(pmm_stack')
      BY <1>3 DEF FrameTypes
    <2> QED BY <1>3, <2>1 DEF Distinct, DistinctFacts
  <1>5. ASSUME NEW f
        PROVE  f \in Held <=> f \in Held'
    <2>1. f \in Held <=> InStack(f) \/ f \in heap \/ InEntry(f) \/ (f = hand /\ hand # Null)
      BY HeldIs
    <2>2. f \in Held' <=> InStack(f)' \/ f \in heap' \/ InEntry(f)' \/ (f = hand' /\ hand' # Null)
      <3>1. f \in Stacked' <=> InStack(f)'
        <4>1. DOMAIN pmm_stack' = 1..Len(pmm_stack')
          BY <1>3 DEF FrameTypes
        <4> QED BY <4>1 DEF Stacked, InStack
      <3>2. f \in Entered' <=> InEntry(f)'
        BY DEF Entered, InEntry, Used, Slot
      <3>3. f \in InHand' <=> (f = hand' /\ hand' # Null)
        BY DEF InHand
      <3> QED BY <3>1, <3>2, <3>3 DEF Held
    <2> QED BY <1>2, <2>1, <2>2 DEF Moved
  <1> QED BY <1>3, <1>4, <1>5

-----------------------------------------------------------------------------
(* The areas of init *)

(* The last byte of what was aligned and lies above is a page above. *)
LEMMA AlignedAbove ==
    ASSUME NEW a \in Nat, NEW b \in Nat, a % PAGE = 0, b % PAGE = 0, a < b
    PROVE  a + PAGE <= b
  <1> DEFINE m == a \div PAGE
             n == b \div PAGE
  <1>1. m \in Nat /\ a % PAGE = 0 /\ a = m * PAGE + (a % PAGE) /\ m * PAGE \in Nat
    BY Divide
  <1>2. n \in Nat /\ b % PAGE = 0 /\ b = n * PAGE + (b % PAGE) /\ n * PAGE \in Nat
    BY Divide
  <1> HIDE DEF m, n
  <1>3. a = m * PAGE /\ b = n * PAGE /\ m * PAGE \in Nat /\ n * PAGE \in Nat
    BY <1>1, <1>2
  <1>4. m < n => m * PAGE + PAGE <= n * PAGE
    BY <1>1, <1>2, LaterTimes
  <1>5. n < m => n * PAGE + PAGE <= m * PAGE
    BY <1>1, <1>2, LaterTimes
  <1>6. n = m => n * PAGE = m * PAGE
    OBVIOUS
  <1>7. m \in Nat /\ n \in Nat
    BY <1>1, <1>2
  <1> QED BY <1>3, <1>4, <1>5, <1>6, <1>7, Numbers

(* The areas of a list are areas. *)
LEMMA ListTypes ==
    ASSUME TypeOK, NEW p \in Proc
    PROVE  /\ areas[p] \in Seq(Area) /\ Len(areas[p]) \in Nat /\ DOMAIN areas[p] = 1..Len(areas[p])
           /\ \A k \in 1..Len(areas[p]) :
                areas[p][k] \in Area /\ areas[p][k].start \in Nat /\ areas[p][k].end \in Nat
  <1>1. areas \in [Proc -> Seq(Area)]
    BY DEF TypeOK, Area
  <1>2. areas[p] \in Seq(Area)
    BY <1>1
  <1>3. Len(areas[p]) \in Nat /\ DOMAIN areas[p] = 1..Len(areas[p])
        /\ \A k \in 1..Len(areas[p]) : areas[p][k] \in Area
    BY <1>2
  <1> QED BY <1>2, <1>3 DEF Area

(* What is known of init's areas once it runs. *)
LEMMA InitTypes ==
    ASSUME TypeOK, Lists, InitAreas, st[InitProc] # "unused"
    PROVE  /\ BrkArea \in Area /\ StackArea \in Area /\ Shaped(BrkArea) /\ Shaped(StackArea)
           /\ BrkArea.start \in Nat /\ BrkArea.end \in Nat /\ StackArea.start \in Nat
           /\ StackArea.end \in Nat /\ StackArea.start <= TOP /\ BrkArea.end <= TOP
           /\ N + 1 \in DOMAIN areas[InitProc] /\ N + 2 \in DOMAIN areas[InitProc]
           /\ \A k \in 1..N : k \in DOMAIN areas[InitProc] /\ ImageArea(k) \in Area
           /\ DOMAIN areas[InitProc] = 1..(N + 2)
  <1>1. InitProc \in Proc /\ N \in Nat
    BY MemoryAssumption, ImageFacts
  <1>2. Len(areas[InitProc]) = N + 2 /\ StackArea.end = TOP
    BY DEF InitAreas
  <1>3. DOMAIN areas[InitProc] = 1..(N + 2)
        /\ \A k \in 1..(N + 2) : areas[InitProc][k] \in Area
    BY <1>1, <1>2, ListTypes
  <1>4. N + 1 \in 1..(N + 2) /\ N + 2 \in 1..(N + 2) /\ \A k \in 1..N : k \in 1..(N + 2)
    BY <1>1
  <1>5. BrkArea \in Area /\ StackArea \in Area /\ Shaped(BrkArea) /\ Shaped(StackArea)
    BY <1>1, <1>3, <1>4 DEF Lists, BrkArea, StackArea
  <1>6. BrkArea.start \in Nat /\ BrkArea.end \in Nat /\ StackArea.start \in Nat /\ StackArea.end \in Nat
    BY <1>5 DEF Area
  <1>7. StackArea.start <= TOP /\ BrkArea.end <= TOP
    BY <1>2, <1>5 DEF Shaped
  <1> QED BY <1>3, <1>4, <1>5, <1>6, <1>7 DEF ImageArea

(* brk and the stack begin with a page, so their loops come to all of theirs. *)
LEMMA InitCov ==
    ASSUME TypeOK, Lists, InitAreas, st[InitProc] # "unused"
    PROVE  /\ Cov(BrkArea) = PagesOf(BrkArea.start, BrkArea.end)
           /\ Cov(StackArea) = PagesOf(StackArea.start, StackArea.end)
  <1>1. BrkArea.start % PAGE = 0 /\ StackArea.start % PAGE = 0
    BY ImageFacts DEF InitAreas
  <1> QED BY <1>1, InitTypes, CovAligned

(* A process that has a brk or a stack is init. *)
LEMMA OnlyInit ==
    ASSUME Children, NEW p \in Proc, brk[p] # 0 \/ stack[p] # 0
    PROVE  p = InitProc
  BY DEF Children

(***************************************************************************)
(* When the stack grows, it grows into the page below it, which is not     *)
(* mapped and not one of the arguments'.                                   *)
(***************************************************************************)
LEMMA StackGrows ==
    ASSUME TypeOK, CallOK, Lists, Children, InitAreas, Mapping,
           NEW p \in Proc, NEW g \in Page, Runs(p), PageOf(p, g) = Null, stack[p] # 0,
           ~((areas[p][stack[p]].start - PAGE) \div PAGE > g)
    PROVE  /\ p = InitProc /\ st[InitProc] # "unused" /\ stack[p] = N + 2
           /\ StackArea.start - PAGE \in Nat /\ (StackArea.start - PAGE) % PAGE = 0
           /\ StackArea.start - PAGE = g * PAGE
           /\ (StackArea.start - PAGE) \div PAGE = g
           /\ BrkStart + ArgSize <= StackArea.start - PAGE
           /\ Left(StackArea.start - PAGE, StackArea.start) = {g}
           /\ g \notin Args
  <1>1. p = InitProc /\ st[InitProc] # "unused" /\ st[InitProc] = "alive"
    BY OnlyInit DEF Runs
  <1>2. /\ stack[p] = N + 2 /\ BrkArea.start = BrkStart /\ BrkStart + ArgSize <= BrkArea.end
        /\ BrkStart + ArgSize <= StackArea.start /\ StackArea.start % PAGE = 0 /\ StackArea.end = TOP
    BY <1>1 DEF InitAreas
  <1>3. /\ BrkArea.start \in Nat /\ BrkArea.end \in Nat /\ StackArea.start \in Nat
        /\ N + 1 \in DOMAIN areas[InitProc] /\ N + 2 \in DOMAIN areas[InitProc]
    BY <1>1, InitTypes
  <1>4. BrkStart \in Nat /\ BrkStart % PAGE = 0 /\ ArgSize \in Nat /\ ArgSize > 0 /\ PAGE \in Nat /\ PAGE > 0
    BY ImageFacts, Numbers
  <1> DEFINE s == StackArea.start - PAGE
  <1>5. BrkStart + PAGE <= StackArea.start
    BY <1>2, <1>3, <1>4, AlignedAbove
  <1>6. s \in Nat /\ s + PAGE = StackArea.start /\ BrkStart <= s
    BY <1>3, <1>4, <1>5
  <1>7. PICK m \in Nat : StackArea.start = m * PAGE + 0
    BY <1>2, <1>3, Divide
  <1>8. m # 0
    BY <1>3, <1>4, <1>5, <1>7
  <1>9. s = (m - 1) * PAGE + 0 /\ m - 1 \in Int
    <2>1. ((m - 1) + 1) * PAGE = (m - 1) * PAGE + PAGE /\ (m - 1) * PAGE \in Int
      BY <1>8, NextTimes
    <2>2. (m - 1) + 1 = m
      BY <1>7
    <2> QED BY <1>3, <1>4, <1>7, <2>1, <2>2
  <1>10. s \div PAGE = m - 1 /\ s % PAGE = 0
    BY <1>4, <1>6, <1>9, DivideIs
  <1>11. g >= m - 1
    <2>1. areas[p][stack[p]] = StackArea
      BY <1>1, <1>2 DEF StackArea
    <2>2. g \in Nat
      BY PageFacts
    <2> QED BY <1>7, <1>10, <2>1, <2>2
  <1>12. g \in Nat /\ g * PAGE \in Nat /\ g * PAGE + PAGE <= TOP /\ (g + 1) * PAGE = g * PAGE + PAGE
    BY PageFacts, NextTimes
  <1>13. cur # InitProc
    BY <1>1, NullApart, MemoryAssumption DEF Runs, Idle, CallOK
  <1>14. g \notin Covered(InitProc) \/ Hole(InitProc, g)
    BY <1>1, <1>13, MemoryAssumption DEF Mapping, Owed
  <1>15. g \notin Cov(StackArea)
    BY <1>3, <1>14 DEF Covered, Hole, StackArea
  <1>16. ~(g >= m)
    <2> SUFFICES ASSUME g >= m PROVE FALSE
      OBVIOUS
    <2>1. m < g => m * PAGE + PAGE <= g * PAGE
      BY <1>7, <1>12, LaterTimes
    <2>2. m = g => m * PAGE = g * PAGE
      OBVIOUS
    <2>3. StackArea.start <= g * PAGE
      BY <1>4, <1>7, <1>12, <2>1, <2>2
    <2>4. StackArea.start < StackArea.end /\ g * PAGE < StackArea.end /\ StackArea.start < (g + 1) * PAGE
      BY <1>2, <1>3, <1>4, <1>12, <2>3, Numbers
    <2>5. Cov(StackArea) = PagesOf(StackArea.start, StackArea.end)
      BY <1>1, InitCov
    <2> QED BY <1>15, <2>4, <2>5 DEF PagesOf
  <1>17. g = m - 1
    BY <1>7, <1>11, <1>12, <1>16
  <1>18. s = g * PAGE
    BY <1>9, <1>12, <1>17
  <1>19. g \notin Args
    <2> SUFFICES ASSUME g \in Args PROVE FALSE
      OBVIOUS
    <2>1. g \in Cov(BrkArea)
      <3>1. BrkStart < BrkStart + ArgSize /\ g * PAGE < BrkStart + ArgSize /\ BrkStart < (g + 1) * PAGE
        BY DEF Args, PagesOf
      <3>2. BrkArea.start < BrkArea.end /\ g * PAGE < BrkArea.end /\ BrkArea.start < (g + 1) * PAGE
        BY <1>2, <1>3, <1>4, <1>12, <3>1
      <3>3. Cov(BrkArea) = PagesOf(BrkArea.start, BrkArea.end)
        BY <1>1, InitCov
      <3> QED BY <3>2, <3>3 DEF PagesOf
    <2>2. g \in Covered(InitProc)
      BY <1>3, <2>1 DEF Covered, BrkArea
    <2> QED BY <1>14, <2>2 DEF Hole
  <1>20. BrkStart + ArgSize <= s
    <2>1. BrkStart < (g + 1) * PAGE /\ BrkStart < BrkStart + ArgSize
      BY <1>4, <1>6, <1>12, <1>18
    <2>2. ~(g * PAGE < BrkStart + ArgSize)
      BY <1>19, <2>1 DEF Args, PagesOf
    <2> QED BY <1>4, <1>12, <1>18, <2>2
  <1>21. Left(s, StackArea.start) = {g}
    <2>1. s < StackArea.start /\ StackArea.start <= TOP
      BY <1>4, <1>6, <1>12, <1>18
    <2>2. s \div PAGE \in Left(s, StackArea.start)
          /\ Left(s + PAGE, StackArea.start) = Left(s, StackArea.start) \ {s \div PAGE}
      BY <1>3, <1>6, <2>1, LeftStep
    <2>3. Left(StackArea.start, StackArea.start) = {}
      BY <1>3, LeftNone
    <2> QED BY <1>6, <1>10, <1>17, <2>2, <2>3
  <1> QED BY <1>1, <1>2, <1>6, <1>10, <1>17, <1>18, <1>19, <1>20, <1>21

(* Where procmm_resize begins: on the page after the old end. *)
LEMMA FirstNewIs ==
    ASSUME NEW e \in Nat
    PROVE  /\ FirstNew(e) \in Nat /\ FirstNew(e) % PAGE = 0 /\ e < FirstNew(e) /\ FirstNew(e) <= e + PAGE
           /\ FirstNew(e) = (e \div PAGE + 1) * PAGE
  <1> DEFINE d == e \div PAGE
  <1>1. d \in Nat /\ e % PAGE \in Nat /\ e % PAGE < PAGE /\ e = d * PAGE + (e % PAGE) /\ d * PAGE \in Nat
    BY Divide
  <1>2. FirstNew(e) = (d + 1) * PAGE
    BY DEF FirstNew, NextPage
  <1>3. (d + 1) * PAGE = d * PAGE + PAGE
    BY <1>1, NextTimes
  <1> HIDE DEF d
  <1>4. FirstNew(e) \in Nat
    BY <1>1, <1>2, <1>3, Numbers
  <1>5. FirstNew(e) % PAGE = 0
    <2>1. PICK q \in Int : FirstNew(e) = q * PAGE + 0
      <3>1. FirstNew(e) = (d + 1) * PAGE + 0 /\ d + 1 \in Int
        BY <1>1, <1>2, <1>4
      <3> QED BY <3>1
    <2> QED BY <1>4, <2>1, DivideIs, Numbers
  <1> QED BY <1>1, <1>2, <1>3, <1>4, <1>5, Numbers DEF d

(* The end that brk gives its area. *)
BrkTo(addr) == IF addr > StackArea.start THEN StackArea.start ELSE addr

(* When brk grows, its area ends where it was asked to, or where the stack begins. *)
LEMMA BrkGrows ==
    ASSUME TypeOK, Lists, Children, InitAreas, NEW p \in Proc, NEW addr \in Ends,
           Runs(p), brk[p] # 0, ~(addr <= areas[p][brk[p]].end)
    PROVE  /\ p = InitProc /\ st[InitProc] # "unused" /\ brk[p] = N + 1
           /\ areas[p][brk[p]] = BrkArea /\ areas[p][brk[p] + 1] = StackArea
           /\ addr \in Nat /\ BrkTo(addr) \in Nat /\ BrkTo(addr) <= TOP
           /\ BrkStart + ArgSize <= BrkTo(addr) /\ BrkTo(addr) <= StackArea.start
           /\ BrkTo(addr) = addr \/ BrkTo(addr) = StackArea.start
           /\ BrkArea.end < addr
  <1>1. p = InitProc /\ st[InitProc] # "unused"
    BY OnlyInit DEF Runs
  <1>2. /\ brk[p] = N + 1 /\ BrkStart + ArgSize <= BrkArea.end /\ BrkStart + ArgSize <= StackArea.start
    BY <1>1 DEF InitAreas
  <1>3. BrkArea.end \in Nat /\ StackArea.start \in Nat /\ StackArea.start <= TOP
    BY <1>1, InitTypes
  <1>4. N \in Nat /\ BrkStart \in Nat /\ ArgSize \in Nat /\ TOP \in Nat
    BY ImageFacts, Numbers
  <1>5. addr \in Nat
    BY <1>4, MemoryAssumption
  <1>6. areas[p][brk[p]] = BrkArea /\ areas[p][brk[p] + 1] = StackArea
    <2>1. (N + 1) + 1 = N + 2
      BY <1>4
    <2> QED BY <1>1, <1>2, <2>1 DEF BrkArea, StackArea
  <1>7. BrkArea.end < addr
    BY <1>3, <1>5, <1>6
  <1> QED BY <1>1, <1>2, <1>3, <1>4, <1>5, <1>6, <1>7 DEF BrkTo

-----------------------------------------------------------------------------
(* Types by the parts of the state *)

(* What a frame may hold. *)
Value == {Zero, File, Mark, Junk}

(* The type invariant in parts. *)
DataType == data \in [Frame -> Value]

ListType ==
    /\ areas \in [Proc -> Seq(Area)] /\ brk \in [Proc -> Nat] /\ stack \in [Proc -> Nat]
    /\ \A p \in Proc : brk[p] <= Len(areas[p]) /\ stack[p] <= Len(areas[p])

ProcType ==
    /\ boot \in Loaders /\ st \in [Proc -> {"unused", "alive", "zombie"}]
    /\ forks \in 0..MaxForks /\ halted \in BOOLEAN /\ expect \in [Proc -> [Page -> Value]]

CallType ==
    /\ pc \in {"pmm_init", "cpu_init", "idle", "area", "page", "table", "unmap", "free_P4"}
    /\ task \in {"none", "exec", "fork", "grow", "wait"}
    /\ cur \in Proc \cup {Null} /\ from \in Proc \cup {Null}
    /\ i \in Nat /\ pos \in Nat /\ stop \in Nat

(* The type invariant is its parts. *)
LEMMA TypeParts == TypeOK <=> FrameTypes /\ DataType /\ ListType /\ ProcType /\ CallType
  BY DEF TypeOK, FrameTypes, DataType, ListType, ProcType, CallType, Area, Value, Slot

(* So it is after a step. *)
LEMMA TypePartsNext ==
    ASSUME FrameTypes', DataType', ListType', ProcType', CallType'
    PROVE  TypeOK'
  BY DEF TypeOK, FrameTypes, DataType, ListType, ProcType, CallType, Area, Value, Slot

-----------------------------------------------------------------------------
(* Steps that leave all but halted alone *)

(* A step that changes nothing, or halts. *)
Still == UNCHANGED <<pmm_stack, data, heap, entry, list, procs, call>>

(* All variables but halted are as they were. *)
LEMMA StillIs ==
    ASSUME Still
    PROVE  /\ pmm_stack' = pmm_stack /\ data' = data /\ heap' = heap /\ entry' = entry
           /\ areas' = areas /\ brk' = brk /\ stack' = stack
           /\ boot' = boot /\ st' = st /\ forks' = forks /\ expect' = expect
           /\ pc' = pc /\ task' = task /\ cur' = cur /\ from' = from /\ i' = i
           /\ pos' = pos /\ stop' = stop /\ hand' = hand
  BY DEF Still, list, procs, call

(* Such a step keeps the invariant. *)
LEMMA StillKeeps ==
    ASSUME IInv, Still, halted' \in BOOLEAN
    PROVE  IInv'
  <1>0. TypeOK /\ Distinct /\ Sound /\ Kept /\ Scanning /\ CallOK /\ Vacant /\ Lists /\ Children
        /\ InitAreas /\ ExecAreas /\ ForkAreas /\ Mapping /\ Contents
    BY DEF IInv
  <1>1. TypeOK'
    BY <1>0, StillIs DEF TypeOK
  <1>2. Distinct' /\ Held' = Held
    BY <1>0, StillIs DEF Distinct, Held, Stacked, Entered, Used, InHand
  <1>3. Sound' /\ Kept'
    BY <1>0, <1>2, StillIs DEF Sound, Kept
  <1>4. Scanning'
    BY <1>0, StillIs DEF Scanning, InArea
  <1>5. CallOK' /\ Vacant'
    BY <1>0, StillIs DEF CallOK, Vacant
  <1>6. Lists' /\ Children'
    BY <1>0, StillIs DEF Lists, Children
  <1>7. InitAreas'
    BY <1>0, StillIs DEF InitAreas, ImageArea, BrkArea, StackArea
  <1>8. ExecAreas' /\ ForkAreas'
    BY <1>0, StillIs DEF ExecAreas, ForkAreas, ImageArea
  <1>9. Mapping'
    BY <1>0, StillIs DEF Mapping, Owed, Pending, Covered, Hole, BrkArea, StackArea, PageOf
  <1>10. Contents'
    BY <1>0, StillIs DEF Contents, Private, PageOf, Finished, Plan
  <1> QED BY <1>1, <1>2, <1>3, <1>4, <1>5, <1>6, <1>7, <1>8, <1>9, <1>10 DEF IInv

-----------------------------------------------------------------------------
(* The plan of exec or fork *)

(* The processes of a call. *)
LEMMA CurIs ==
    ASSUME CallOK, task # "none"
    PROVE  /\ cur \in Proc /\ cur # Null
           /\ task = "fork" => from \in Proc /\ from # cur
           /\ task \in {"exec", "grow"} => cur = InitProc
  BY NullApart DEF CallOK

(* The areas that a call has to map are areas of a list. *)
LEMMA PlanItem ==
    ASSUME TypeOK, CallOK, Lists, task \in {"exec", "fork"}
    PROVE  /\ Plan \in Seq(Area) /\ Len(Plan) \in Nat /\ DOMAIN Plan = 1..Len(Plan)
           /\ \A k \in 1..Len(Plan) :
                /\ Plan[k] \in Area /\ Shaped(Plan[k])
                /\ Plan[k].start \in Nat /\ Plan[k].end \in Nat
                /\ Plan[k].start <= Plan[k].end /\ Plan[k].end <= TOP
           /\ \A j, k \in 1..Len(Plan) : j < k => Pair(Plan[j], Plan[k])
  <1>1. CASE task = "exec"
    <2>1. Plan = ExecPlan
      BY <1>1 DEF Plan
    <2>2. N + 2 \in Nat
      BY ImageFacts
    <2>3. ExecPlan \in Seq(Area) /\ Len(ExecPlan) = N + 2 /\ DOMAIN ExecPlan = 1..(N + 2)
      BY PlanIs
    <2>4. \A k \in 1..(N + 2) : ExecPlan[k] \in Area /\ Shaped(ExecPlan[k])
      BY PlanShaped
    <2>5. \A j, k \in 1..(N + 2) : j < k => Pair(ExecPlan[j], ExecPlan[k])
      BY PlanApart DEF Pair
    <2>6. \A k \in 1..(N + 2) : ExecPlan[k].start \in Nat /\ ExecPlan[k].end \in Nat
      BY <2>4 DEF Area
    <2> QED BY <2>1, <2>2, <2>3, <2>4, <2>5, <2>6 DEF Shaped
  <1>2. CASE task = "fork"
    <2>1. Plan = areas[from] /\ from \in Proc
      BY <1>2, CurIs DEF Plan
    <2>2. areas[from] \in Seq(Area) /\ Len(areas[from]) \in Nat /\ DOMAIN areas[from] = 1..Len(areas[from])
          /\ \A k \in 1..Len(areas[from]) : areas[from][k] \in Area
                /\ areas[from][k].start \in Nat /\ areas[from][k].end \in Nat
      BY <2>1, ListTypes
    <2>3. /\ \A k \in 1..Len(areas[from]) : Shaped(areas[from][k])
          /\ \A j, k \in 1..Len(areas[from]) : j < k => Pair(areas[from][j], areas[from][k])
      BY <2>1, <2>2 DEF Lists
    <2> QED BY <2>1, <2>2, <2>3 DEF Shaped
  <1> QED BY <1>1, <1>2

(* While its pages are being mapped, the area that exec or fork is at is in the plan. *)
LEMMA AtItem ==
    ASSUME TypeOK, CallOK, Lists, ExecAreas, ForkAreas, task \in {"exec", "fork"}
    PROVE  /\ i \in Nat /\ i >= 1
           /\ pc # "area" => i \in 1..Len(Plan)
           /\ pc = "area" => i <= Len(Plan) + 1
  <1>1. CASE task = "exec"
    <2>1. Plan = ExecPlan /\ Len(Plan) = N + 2 /\ N \in Nat
      BY <1>1, PlanIs, ImageFacts DEF Plan
    <2>2. i \in 1..(N + 3) /\ Len(areas[InitProc]) <= N + 2
          /\ Len(areas[InitProc]) = (IF pc = "area" THEN i - 1 ELSE i)
      BY <1>1 DEF ExecAreas
    <2> QED BY <2>1, <2>2
  <1>2. CASE task = "fork"
    <2>1. Plan = areas[from] /\ from \in Proc
      BY <1>2, CurIs DEF Plan
    <2>2. Len(areas[from]) \in Nat
      BY <2>1, ListTypes
    <2>3. i \in 1..(Len(areas[from]) + 1) /\ (pc # "area" => i <= Len(areas[from]))
      BY <1>2 DEF ForkAreas
    <2> QED BY <2>1, <2>2, <2>3
  <1> QED BY <1>1, <1>2

-----------------------------------------------------------------------------
(* Changes of a list of areas *)

(* An area is replaced, or added at the end. *)
Resized(p, k, a) == areas' = [areas EXCEPT ![p] = [areas[p] EXCEPT ![k] = a]]
Appended(p, a)   == areas' = [areas EXCEPT ![p] = Append(areas[p], a)]

(* The list after procmm_resize or growth of the stack. *)
LEMMA ResizedIs ==
    ASSUME areas \in [Proc -> Seq(Area)], NEW p \in Proc, NEW k \in 1..Len(areas[p]), NEW a \in Area,
           Resized(p, k, a)
    PROVE  /\ areas' \in [Proc -> Seq(Area)]
           /\ \A q \in Proc : q # p => areas'[q] = areas[q]
           /\ Len(areas'[p]) = Len(areas[p]) /\ DOMAIN areas'[p] = 1..Len(areas[p])
           /\ areas'[p][k] = a
           /\ \A j \in 1..Len(areas[p]) : j # k => areas'[p][j] = areas[p][j]
  <1> DEFINE s == areas[p]
             t == [s EXCEPT ![k] = a]
  <1>1. s \in Seq(Area)
    OBVIOUS
  <1>2. t \in Seq(Area) /\ Len(t) = Len(s) /\ DOMAIN t = 1..Len(s) /\ t[k] = a
        /\ \A j \in 1..Len(s) : j # k => t[j] = s[j]
    <2>1. t \in [1..Len(s) -> Area] /\ Len(s) \in Nat
      BY <1>1
    <2>2. t \in Seq(Area) /\ Len(t) = Len(s)
      BY <2>1
    <2> QED BY <1>1, <2>1, <2>2
  <1>3. areas' = [areas EXCEPT ![p] = t]
    BY DEF Resized
  <1> HIDE DEF t
  <1>4. areas' \in [Proc -> Seq(Area)] /\ areas'[p] = t /\ \A q \in Proc : q # p => areas'[q] = areas[q]
    BY <1>2, <1>3
  <1> QED BY <1>2, <1>4

(* The list after procmm_map. *)
LEMMA AppendedIs ==
    ASSUME areas \in [Proc -> Seq(Area)], NEW p \in Proc, NEW a \in Area, Appended(p, a)
    PROVE  /\ areas' \in [Proc -> Seq(Area)]
           /\ \A q \in Proc : q # p => areas'[q] = areas[q]
           /\ Len(areas[p]) \in Nat /\ Len(areas'[p]) = Len(areas[p]) + 1
           /\ DOMAIN areas'[p] = 1..(Len(areas[p]) + 1)
           /\ areas'[p][Len(areas[p]) + 1] = a
           /\ \A j \in 1..Len(areas[p]) : areas'[p][j] = areas[p][j]
  <1> DEFINE s == areas[p]
             t == Append(s, a)
  <1>1. s \in Seq(Area)
    OBVIOUS
  <1>2. t \in Seq(Area) /\ Len(s) \in Nat /\ Len(t) = Len(s) + 1 /\ t[Len(s) + 1] = a
        /\ \A j \in 1..Len(s) : t[j] = s[j]
    BY <1>1
  <1>3. DOMAIN t = 1..(Len(s) + 1)
    BY <1>2
  <1>4. areas' = [areas EXCEPT ![p] = t]
    BY DEF Appended
  <1> HIDE DEF t
  <1>5. areas' \in [Proc -> Seq(Area)] /\ areas'[p] = t /\ \A q \in Proc : q # p => areas'[q] = areas[q]
    BY <1>2, <1>4
  <1> QED BY <1>2, <1>3, <1>5

(* The list after procmm_unmap. *)
LEMMA RemovedIs ==
    ASSUME areas \in [Proc -> Seq(Area)], NEW p \in Proc, areas[p] # <<>>,
           areas' = [areas EXCEPT ![p] = Tail(areas[p])]
    PROVE  /\ areas' \in [Proc -> Seq(Area)]
           /\ \A q \in Proc : q # p => areas'[q] = areas[q]
           /\ Len(areas[p]) \in Nat /\ Len(areas[p]) > 0 /\ Len(areas'[p]) = Len(areas[p]) - 1
           /\ DOMAIN areas'[p] = 1..(Len(areas[p]) - 1)
           /\ \A j \in 1..(Len(areas[p]) - 1) : areas'[p][j] = areas[p][j + 1] /\ j + 1 \in 1..Len(areas[p])
  <1> DEFINE s == areas[p]
             t == Tail(s)
  <1>1. s \in Seq(Area)
    OBVIOUS
  <1>2. t \in Seq(Area) /\ Len(s) \in Nat /\ Len(s) > 0 /\ Len(t) = Len(s) - 1
        /\ \A j \in 1..(Len(s) - 1) : t[j] = s[j + 1]
    BY <1>1
  <1>3. DOMAIN t = 1..(Len(s) - 1) /\ \A j \in 1..(Len(s) - 1) : j + 1 \in 1..Len(s)
    BY <1>2
  <1>4. areas' = [areas EXCEPT ![p] = t]
    OBVIOUS
  <1> HIDE DEF t
  <1>5. areas' \in [Proc -> Seq(Area)] /\ areas'[p] = t /\ \A q \in Proc : q # p => areas'[q] = areas[q]
    BY <1>2, <1>4
  <1> QED BY <1>2, <1>3, <1>5

-----------------------------------------------------------------------------
(* What each step changes in the areas *)

(* A record with a start and an end is an area. *)
LEMMA IsArea ==
    ASSUME NEW a \in Nat, NEW b \in Nat
    PROVE  [start |-> a, end |-> b] \in Area /\ [start |-> a, end |-> b].start = a
           /\ [start |-> a, end |-> b].end = b
  BY DEF Area

(* procmm_map without an overlap *)
Mapped ==
    /\ pc = "area" /\ task \in {"exec", "fork"} /\ cur \in Proc /\ i \in 1..Len(Plan) /\ Plan[i] \in Area
    /\ Appended(cur, Plan[i]) /\ pos' = Plan[i].start
    /\ \A k \in 1..Len(areas[cur]) : ~Overlaps(areas[cur][k], Plan[i].start, Plan[i].end)

(* procmm_map with one *)
Refused ==
    /\ pc = "area" /\ task \in {"exec", "fork"} /\ cur \in Proc /\ i \in 1..Len(Plan) /\ Plan[i] \in Area
    /\ areas' = areas /\ brk' = brk /\ stack' = stack /\ pos' = Plan[i].end
    /\ \E k \in 1..Len(areas[cur]) : Overlaps(areas[cur][k], Plan[i].start, Plan[i].end)

(* What procmm_map does in both cases. *)
MapStep ==
    /\ stop' = Plan[i].end /\ pc' = "page"
    /\ UNCHANGED <<pmm_stack, data, heap, entry, boot, st, forks, expect, halted, task, cur, from, i, hand>>

(* procmm_map adds the area or refuses it. *)
LEMMA MapIs ==
    ASSUME IInv, procmm_map
    PROVE  (Mapped \/ Refused) /\ MapStep /\ pc = "area" /\ task \in {"exec", "fork"} /\ cur \in Proc
           /\ i \in 1..Len(Plan) /\ Plan[i] \in Area /\ Plan[i].start \in Nat /\ Plan[i].end \in Nat
  <1>1. TypeOK /\ CallOK /\ Lists /\ ExecAreas /\ ForkAreas
    BY DEF IInv
  <1>2. pc = "area" /\ task \in {"exec", "fork"} /\ i <= Len(Plan)
    BY DEF procmm_map
  <1>3. cur \in Proc
    BY <1>1, <1>2, CurIs
  <1>4. i \in 1..Len(Plan)
    BY <1>1, <1>2, AtItem, PlanItem
  <1>5. Plan[i] \in Area /\ Plan[i].start \in Nat /\ Plan[i].end \in Nat
    BY <1>1, <1>2, <1>4, PlanItem
  <1>6. MapStep
    BY DEF procmm_map, MapStep, procs
  <1>7. DOMAIN areas[cur] = 1..Len(areas[cur])
    BY <1>1, <1>3, ListTypes
  <1>8. CASE \E k \in DOMAIN areas[cur] : Overlaps(areas[cur][k], Plan[i].start, Plan[i].end)
    <2>1. pos' = Plan[i].end /\ UNCHANGED list
      BY <1>8 DEF procmm_map
    <2> QED BY <1>2, <1>3, <1>4, <1>5, <1>6, <1>7, <1>8, <2>1 DEF Refused, list
  <1>9. CASE ~\E k \in DOMAIN areas[cur] : Overlaps(areas[cur][k], Plan[i].start, Plan[i].end)
    <2>1. pos' = Plan[i].start /\ areas' = [areas EXCEPT ![cur] = Append(areas[cur], Plan[i])]
      BY <1>9 DEF procmm_map
    <2> QED BY <1>2, <1>3, <1>4, <1>5, <1>6, <1>7, <1>9, <2>1 DEF Mapped, Appended
  <1> QED BY <1>2, <1>3, <1>4, <1>5, <1>6, <1>8, <1>9

(* exec is never refused, and its brk and stack are the last two areas. *)
LEMMA MapMarks ==
    ASSUME IInv, procmm_map, Mapped
    PROVE  /\ \A p \in Proc : p # cur => brk'[p] = brk[p] /\ stack'[p] = stack[p]
           /\ brk'[cur] = IF task = "exec" /\ i = N + 1 THEN Len(areas[cur]) + 1 ELSE brk[cur]
           /\ stack'[cur] = IF task = "exec" /\ i = N + 2 THEN Len(areas[cur]) + 1 ELSE stack[cur]
           /\ brk' \in [Proc -> Nat] /\ stack' \in [Proc -> Nat]
  <1>1. TypeOK /\ cur \in Proc
    BY DEF IInv, Mapped
  <1>2. brk \in [Proc -> Nat] /\ stack \in [Proc -> Nat] /\ DOMAIN areas[cur] = 1..Len(areas[cur])
        /\ Len(areas[cur]) \in Nat
    BY <1>1, ListTypes DEF TypeOK
  <1>3. ~\E k \in DOMAIN areas[cur] : Overlaps(areas[cur][k], Plan[i].start, Plan[i].end)
    BY <1>2 DEF Mapped
  <1>4. /\ brk' = [brk EXCEPT ![cur] =
                        IF task = "exec" /\ i = N + 1 THEN Len(areas[cur]) + 1 ELSE @]
        /\ stack' = [stack EXCEPT ![cur] =
                        IF task = "exec" /\ i = N + 2 THEN Len(areas[cur]) + 1 ELSE @]
    BY <1>3 DEF procmm_map, N
  <1> QED BY <1>1, <1>2, <1>4

(* procmm_resize, when it goes on *)
GrowStep ==
    /\ pc = "idle" /\ st[InitProc] = "alive"
    /\ pc' = "page" /\ task' = "grow" /\ cur' = InitProc /\ from' = Null /\ i' = 1
    /\ UNCHANGED <<pmm_stack, data, heap, entry, brk, stack, boot, st, forks, expect, halted, hand>>

(* brk, when it does not halt. *)
LEMMA ResizeIs ==
    ASSUME IInv, NEW p \in Proc, NEW addr \in Ends, procmm_resize(p, addr), ~Halt
    PROVE  /\ p = InitProc /\ GrowStep
           /\ Resized(InitProc, N + 1, [start |-> BrkArea.start, end |-> BrkTo(addr)])
           /\ pos' = FirstNew(BrkArea.end) /\ stop' = BrkTo(addr)
           /\ brk[p] # 0 /\ ~(addr <= areas[p][brk[p]].end) /\ Runs(p)
           /\ pos' \in Nat /\ stop' \in Nat
  <1>1. TypeOK /\ CallOK /\ Lists /\ Children /\ InitAreas
    BY DEF IInv
  <1>2. Runs(p) /\ brk[p] # 0 /\ ~(addr <= areas[p][brk[p]].end)
        /\ ~(addr < areas[p][brk[p]].start)
    BY DEF procmm_resize, Undefined
  <1>3. /\ p = InitProc /\ st[InitProc] # "unused" /\ brk[p] = N + 1
        /\ areas[p][brk[p]] = BrkArea /\ areas[p][brk[p] + 1] = StackArea
        /\ BrkTo(addr) \in Nat
    BY <1>1, <1>2, BrkGrows
  <1>4. BrkArea.end \in Nat
    BY <1>1, <1>3, InitTypes
  <1>5. /\ areas' = [areas EXCEPT ![p] =
                    [areas[p] EXCEPT ![brk[p]] = [start |-> BrkArea.start, end |-> BrkTo(addr)]]]
        /\ Begin("page", "grow", p, Null, FirstNew(BrkArea.end), BrkTo(addr))
        /\ UNCHANGED <<pmm_stack, data, heap, entry, brk, stack, procs, halted>>
    BY <1>2, <1>3 DEF procmm_resize, BrkTo
  <1>6. GrowStep
    BY <1>2, <1>3, <1>5 DEF GrowStep, Begin, procs, Runs, Idle
  <1> QED BY <1>2, <1>3, <1>4, <1>5, <1>6, FirstNewIs DEF Resized, Begin

(* A page fault, when it does not halt. *)
LEMMA FaultIs ==
    ASSUME IInv, NEW p \in Proc, NEW g \in Touched, procmm_page_fault(p, g), ~Halt
    PROVE  /\ p = InitProc /\ GrowStep /\ g \in Page
           /\ Resized(InitProc, N + 2, [start |-> StackArea.start - PAGE, end |-> StackArea.end])
           /\ pos' = StackArea.start - PAGE /\ stop' = StackArea.start
           /\ pos' \in Nat /\ stop' \in Nat /\ PageOf(p, g) = Null
           /\ StackArea.start - PAGE \in Nat /\ (StackArea.start - PAGE) % PAGE = 0
           /\ BrkStart + ArgSize <= StackArea.start - PAGE
           /\ Left(StackArea.start - PAGE, StackArea.start) = {g}
           /\ g \notin Args
  <1>1. TypeOK /\ CallOK /\ Lists /\ Children /\ InitAreas /\ Mapping
    BY DEF IInv
  <1>2. Runs(p) /\ PageOf(p, g) = Null /\ stack[p] # 0
        /\ ~((areas[p][stack[p]].start - PAGE) \div PAGE > g)
    BY DEF procmm_page_fault
  <1>3. g \in Page
    BY MemoryAssumption
  <1>4. /\ p = InitProc /\ st[InitProc] # "unused" /\ stack[p] = N + 2
        /\ StackArea.start - PAGE \in Nat /\ (StackArea.start - PAGE) % PAGE = 0
        /\ BrkStart + ArgSize <= StackArea.start - PAGE
        /\ Left(StackArea.start - PAGE, StackArea.start) = {g}
        /\ g \notin Args
    BY <1>1, <1>2, <1>3, StackGrows
  <1>5. StackArea.start \in Nat /\ (StackArea.start - PAGE) + PAGE = StackArea.start
    <2>1. StackArea.start \in Nat
      BY <1>1, <1>4, InitTypes
    <2> QED BY <2>1, Numbers
  <1>6. areas[p][stack[p]] = StackArea
    BY <1>4 DEF StackArea
  <1>7. /\ areas' = [areas EXCEPT ![p] =
                [areas[p] EXCEPT ![stack[p]] = [start |-> StackArea.start - PAGE, end |-> StackArea.end]]]
        /\ Begin("page", "grow", p, Null, StackArea.start - PAGE, (StackArea.start - PAGE) + PAGE)
        /\ UNCHANGED <<pmm_stack, data, heap, entry, brk, stack, procs, halted>>
    BY <1>2, <1>6 DEF procmm_page_fault
  <1>8. GrowStep
    BY <1>2, <1>4, <1>7 DEF GrowStep, Begin, procs, Runs, Idle
  <1> QED BY <1>2, <1>3, <1>4, <1>5, <1>7, <1>8 DEF Resized, Begin

-----------------------------------------------------------------------------
(* The steps by what they change *)

(* A step that does not halt the kernel. *)
Go == Next /\ ~Halt

(* The operations of programs. *)
Grow == \E p \in Proc :
    \/ \E addr \in Ends : procmm_resize(p, addr)
    \/ \E g \in Touched : procmm_page_fault(p, g)
Stores  == \E p \in Proc : \E g \in Touched : Store(p, g)
Forks   == \E p, q \in Proc : fork(p, q)
Exits   == \E p \in Proc : exit(p)
Waits   == \E p \in Proc : process_free(p)

(* Steps of pmm_init and AreaDone from which the model goes on. *)
ScanPmm ==
    LET freed == Freed(boot, boot.areas[i], pos) IN
    /\ pc = "pmm_init" /\ pos + PAGE < stop
    /\ pmm_stack' = IF freed THEN Append(pmm_stack, pos \div PAGE) ELSE pmm_stack
    /\ data' = [data EXCEPT ![TableOf(pos \div PAGE)] = Junk,
                           ![pos \div PAGE] = IF freed THEN Junk ELSE @]
    /\ pos' = pos + PAGE
    /\ UNCHANGED <<heap, entry, list, procs, halted, pc, task, cur, from, i, stop, hand>>
FillArea ==
    /\ pc = "page" /\ pos >= stop /\ task \in {"exec", "fork"}
    /\ data' = IF task = "fork" THEN vmm_p4_memcpy(PagesOf(Plan[i].start, Plan[i].end))
               ELSE IF i <= Len(Image) THEN Segment(Image[i])
               ELSE data
    /\ pc' = "area" /\ i' = i + 1 /\ pos' = 0 /\ stop' = 0
    /\ UNCHANGED <<pmm_stack, heap, entry, list, procs, halted, task, cur, from, hand>>

(* The kinds of step. *)
LEMMA GoIs ==
    ASSUME Go
    PROVE  \/ multiboot_get_memory_area \/ ScanPmm \/ cpu_init
           \/ procmm_map \/ AllocPage \/ vmm_find_page \/ vmm_set_page \/ FillArea \/ exec_elf
           \/ procmm_new_map \/ GrowDone
           \/ procmm_free_map \/ procmm_unmap \/ AreaRemoved \/ vmm_free_P4 \/ MapFreed
           \/ kmain \/ ksbrk \/ Grow \/ Stores \/ Forks \/ Exits \/ Waits
  <1>1. ASSUME pmm_init PROVE ScanPmm
    BY <1>1 DEF Go, pmm_init, Undefined, ScanPmm
  <1>2. ASSUME AreaDone PROVE FillArea
    BY <1>2 DEF Go, AreaDone, Undefined, FillArea
  <1> QED BY <1>1, <1>2 DEF Go, Next, Brk, Boot, NewMap, OldMap, Grow, Stores, Forks, Exits, Waits

(* Which steps change lists of areas. *)
LEMMA GoList ==
    ASSUME Go, ~procmm_map, ~Grow, ~AreaRemoved, ~MapFreed
    PROVE  areas' = areas /\ brk' = brk /\ stack' = stack
  <1>1. CASE multiboot_get_memory_area \/ ScanPmm \/ cpu_init \/ ksbrk \/ kmain
    BY <1>1 DEF Go, multiboot_get_memory_area, ScanPmm, cpu_init, ksbrk, kmain, list
  <1>2. CASE AllocPage \/ vmm_find_page \/ vmm_set_page \/ FillArea \/ exec_elf \/ procmm_new_map \/ GrowDone
    BY <1>2 DEF Go, AllocPage, vmm_find_page, vmm_set_page, FillArea, exec_elf, procmm_new_map, GrowDone, list
  <1>3. CASE procmm_free_map \/ procmm_unmap \/ vmm_free_P4
    BY <1>3 DEF procmm_free_map, procmm_unmap, vmm_free_P4, list
  <1>4. CASE Stores \/ Forks \/ Exits \/ Waits
    BY <1>4 DEF Go, Stores, Forks, Exits, Waits, Store, fork, exit, process_free, list
  <1> QED BY <1>1, <1>2, <1>3, <1>4, GoIs

(* Which steps change what frames hold. *)
LEMMA GoData ==
    ASSUME Go, ~ScanPmm, ~FillArea, ~exec_elf, ~Stores, ~procmm_unmap, ~vmm_free_P4
    PROVE  data' = data
  <1>1. CASE multiboot_get_memory_area \/ cpu_init \/ ksbrk \/ kmain \/ Grow
    BY <1>1 DEF Go, multiboot_get_memory_area, cpu_init, ksbrk, kmain, Grow, procmm_resize, Undefined, procmm_page_fault
  <1>2. CASE procmm_map \/ AllocPage \/ vmm_find_page \/ vmm_set_page \/ procmm_new_map \/ GrowDone
    BY <1>2 DEF Go, procmm_map, AllocPage, vmm_find_page, vmm_set_page, procmm_new_map, GrowDone
  <1>3. CASE procmm_free_map \/ AreaRemoved \/ MapFreed
    BY <1>3 DEF procmm_free_map, AreaRemoved, MapFreed
  <1>4. CASE Forks \/ Exits \/ Waits
    BY <1>4 DEF Go, Forks, Exits, Waits, fork, exit, process_free
  <1> QED BY <1>1, <1>2, <1>3, <1>4, GoIs

(* Which steps change the state of a process, and what it expects. *)
LEMMA GoProcs ==
    ASSUME Go
    PROVE  /\ boot' = boot /\ halted' = halted
           /\ ~exec_elf /\ ~procmm_new_map /\ ~Exits /\ ~MapFreed => st' = st
           /\ ~exec_elf /\ ~procmm_new_map /\ ~Stores /\ ~MapFreed => expect' = expect
           /\ ~Forks => forks' = forks
  <1>1. CASE multiboot_get_memory_area \/ ScanPmm \/ cpu_init \/ ksbrk \/ kmain \/ Grow
    BY <1>1 DEF Go, multiboot_get_memory_area, ScanPmm, cpu_init, ksbrk, kmain, Grow,
        procmm_resize, Undefined, procmm_page_fault, procs
  <1>2. CASE procmm_map \/ AllocPage \/ vmm_find_page \/ vmm_set_page \/ FillArea \/ exec_elf
            \/ procmm_new_map \/ GrowDone
    BY <1>2 DEF Go, procmm_map, AllocPage, vmm_find_page, vmm_set_page, FillArea, exec_elf,
        procmm_new_map, GrowDone, procs
  <1>3. CASE procmm_free_map \/ procmm_unmap \/ AreaRemoved \/ vmm_free_P4 \/ MapFreed
    BY <1>3 DEF procmm_free_map, procmm_unmap, AreaRemoved, vmm_free_P4, MapFreed, procs
  <1>4. CASE Stores \/ Forks \/ Exits \/ Waits
    BY <1>4 DEF Go, Stores, Forks, Exits, Waits, Store, fork, exit, process_free, procs
  <1> QED BY <1>1, <1>2, <1>3, <1>4, GoIs

(* What a loader's map says. *)
LEMMA BootIs ==
    ASSUME NEW b \in Loaders
    PROVE  /\ mboot_data(b).mmap_size = Len(b.areas) /\ Len(b.areas) \in Nat
           /\ DOMAIN b.areas = 1..Len(b.areas)
           /\ \A k \in 1..Len(b.areas) :
                /\ b.areas[k].start \in Nat /\ b.areas[k].end \in Nat /\ b.areas[k].free \in BOOLEAN
                /\ b.areas[k].start <= b.areas[k].end /\ b.areas[k].end <= NumFrames * PAGE
                /\ b.areas[k].free => b.areas[k].start % PAGE = 0
                /\ \A j \in 1..Len(b.areas) : k < j => b.areas[k].end <= b.areas[j].start
  <1> DEFINE S == [start : Nat, end : Nat, free : BOOLEAN]
  <1>1. b.areas \in Seq(S)
    BY BootInfoAssumption
  <1>2. \A s \in S : s.start \in Nat /\ s.end \in Nat /\ s.free \in BOOLEAN
    OBVIOUS
  <1> HIDE DEF S
  <1>3. Len(b.areas) \in Nat /\ DOMAIN b.areas = 1..Len(b.areas)
        /\ \A k \in 1..Len(b.areas) : b.areas[k] \in S
    BY <1>1
  <1>4. mboot_data(b).mmap_size = Len(b.areas)
    <2>1. b.version \in {1, 2}
      BY BootInfoAssumption
    <2>2. CASE b.version = 1
      <3>1. MmapFlag \in b.flags
        BY <2>2, BootInfoAssumption
      <3> QED BY <2>2, <3>1 DEF mboot_data, parse_multiboot1
    <2>3. CASE b.version = 2
      <3>1. \E k \in DOMAIN b.tags : b.tags[k] = "mmap"
        BY <2>3, BootInfoAssumption
      <3>2. b.version # 1
        BY <2>3
      <3> QED BY <3>1, <3>2 DEF mboot_data, parse_multiboot2
    <2> QED BY <2>1, <2>2, <2>3
  <1>5. ASSUME NEW k \in 1..Len(b.areas)
        PROVE  /\ b.areas[k].start <= b.areas[k].end
               /\ b.areas[k].free => b.areas[k].start % PAGE = 0
               /\ \A j \in 1..Len(b.areas) : k < j => b.areas[k].end <= b.areas[j].start
    BY <1>3, BootInfoAssumption
  <1>6. ASSUME NEW k \in 1..Len(b.areas)
        PROVE  b.areas[k].end <= NumFrames * PAGE
    BY <1>3, MemoryAssumption
  <1>7. ASSUME NEW k \in 1..Len(b.areas)
        PROVE  b.areas[k].start \in Nat /\ b.areas[k].end \in Nat /\ b.areas[k].free \in BOOLEAN
    BY <1>2, <1>3
  <1> QED BY <1>3, <1>4, <1>5, <1>6, <1>7

-----------------------------------------------------------------------------
(* Types are kept *)

(* Lists keep their type. *)
LEMMA ListTypeStep ==
    ASSUME IInv, Go
    PROVE  ListType'
  <1>1. TypeOK /\ CallOK /\ Lists /\ Children /\ InitAreas
    BY DEF IInv
  <1>2. /\ areas \in [Proc -> Seq(Area)] /\ brk \in [Proc -> Nat] /\ stack \in [Proc -> Nat]
        /\ \A p \in Proc : brk[p] <= Len(areas[p]) /\ stack[p] <= Len(areas[p])
    BY <1>1, TypeParts DEF ListType
  <1>3. \A p \in Proc : Len(areas[p]) \in Nat /\ brk[p] \in Nat /\ stack[p] \in Nat
    BY <1>2
  <1>4. InitProc \in Proc /\ N \in Nat
    BY MemoryAssumption, ImageFacts
  <1>5. CASE procmm_map
    <2>1. CASE Refused
      BY <1>2, <2>1 DEF Refused, ListType
    <2>2. CASE Mapped
      <3>1. cur \in Proc /\ Plan[i] \in Area /\ Appended(cur, Plan[i])
        BY <2>2 DEF Mapped
      <3>2. /\ areas' \in [Proc -> Seq(Area)]
            /\ \A q \in Proc : q # cur => areas'[q] = areas[q]
            /\ Len(areas[cur]) \in Nat /\ Len(areas'[cur]) = Len(areas[cur]) + 1
        BY <1>2, <3>1, AppendedIs
      <3>3. /\ \A p \in Proc : p # cur => brk'[p] = brk[p] /\ stack'[p] = stack[p]
            /\ brk'[cur] = IF task = "exec" /\ i = N + 1 THEN Len(areas[cur]) + 1 ELSE brk[cur]
            /\ stack'[cur] = IF task = "exec" /\ i = N + 2 THEN Len(areas[cur]) + 1 ELSE stack[cur]
            /\ brk' \in [Proc -> Nat] /\ stack' \in [Proc -> Nat]
        BY <1>5, <2>2, MapMarks
      <3>4. ASSUME NEW p \in Proc
            PROVE  brk'[p] <= Len(areas'[p]) /\ stack'[p] <= Len(areas'[p])
        <4>1. brk[p] \in Nat /\ stack[p] \in Nat /\ brk[p] <= Len(areas[p]) /\ stack[p] <= Len(areas[p])
          BY <1>2, <1>3
        <4>2. CASE p # cur
          BY <3>2, <3>3, <4>1, <4>2
        <4>3. CASE p = cur
          BY <3>2, <3>3, <4>1, <4>3
        <4> QED BY <4>2, <4>3
      <3> QED BY <3>2, <3>3, <3>4 DEF ListType
    <2> QED BY <1>5, <2>1, <2>2, MapIs
  <1>6. CASE Grow
    <2>1. PICK k \in 1..(N + 2), a \in Area : Resized(InitProc, k, a) /\ brk' = brk /\ stack' = stack
          /\ st[InitProc] = "alive"
      <3>1. PICK p \in Proc : \/ \E addr \in Ends : procmm_resize(p, addr)
                              \/ \E g \in Touched : procmm_page_fault(p, g)
        BY <1>6 DEF Grow
      <3>2. CASE \E addr \in Ends : procmm_resize(p, addr)
        <4>1. PICK addr \in Ends : procmm_resize(p, addr)
          BY <3>2
        <4>2. /\ GrowStep /\ stop' \in Nat /\ stop' = BrkTo(addr)
              /\ Resized(InitProc, N + 1, [start |-> BrkArea.start, end |-> BrkTo(addr)])
          BY <4>1, ResizeIs DEF Go
        <4>3. BrkArea.start \in Nat
          BY <1>1, <4>2, InitTypes DEF GrowStep
        <4>4. [start |-> BrkArea.start, end |-> BrkTo(addr)] \in Area
          BY <4>2, <4>3, IsArea
        <4>5. N + 1 \in 1..(N + 2)
          BY <1>4
        <4> QED BY <4>2, <4>4, <4>5 DEF GrowStep
      <3>3. CASE \E g \in Touched : procmm_page_fault(p, g)
        <4>1. PICK g \in Touched : procmm_page_fault(p, g)
          BY <3>3
        <4>2. /\ GrowStep /\ pos' \in Nat /\ pos' = StackArea.start - PAGE
              /\ Resized(InitProc, N + 2, [start |-> StackArea.start - PAGE, end |-> StackArea.end])
          BY <4>1, FaultIs DEF Go
        <4>3. StackArea.end \in Nat
          BY <1>1, <4>2, InitTypes DEF GrowStep
        <4>4. [start |-> StackArea.start - PAGE, end |-> StackArea.end] \in Area
          BY <4>2, <4>3, IsArea
        <4>5. N + 2 \in 1..(N + 2)
          BY <1>4
        <4> QED BY <4>2, <4>4, <4>5 DEF GrowStep
      <3> QED BY <3>1, <3>2, <3>3
    <2>2. Len(areas[InitProc]) = N + 2
      BY <1>1, <2>1 DEF InitAreas
    <2>3. /\ areas' \in [Proc -> Seq(Area)]
          /\ \A q \in Proc : q # InitProc => areas'[q] = areas[q]
          /\ Len(areas'[InitProc]) = Len(areas[InitProc])
      BY <1>2, <1>4, <2>1, <2>2, ResizedIs
    <2>4. \A q \in Proc : Len(areas'[q]) = Len(areas[q])
      BY <2>3
    <2> QED BY <1>2, <2>1, <2>3, <2>4 DEF ListType
  <1>7. CASE AreaRemoved
    <2>1. pc = "unmap" /\ brk' = brk /\ stack' = stack /\ areas' = [areas EXCEPT ![cur] = Tail(areas[cur])]
      BY <1>7 DEF AreaRemoved
    <2>2. cur \in Proc /\ cur # InitProc /\ areas[cur] # <<>>
      BY <1>1, <2>1 DEF CallOK
    <2>3. brk[cur] = 0 /\ stack[cur] = 0
      BY <1>1, <2>2 DEF Children
    <2>4. /\ areas' \in [Proc -> Seq(Area)]
          /\ \A q \in Proc : q # cur => areas'[q] = areas[q]
      BY <1>2, <2>1, <2>2, RemovedIs
    <2>5. \A p \in Proc : Len(areas'[p]) \in Nat
      BY <2>4
    <2>6. \A p \in Proc : brk[p] <= Len(areas'[p]) /\ stack[p] <= Len(areas'[p])
      <3> TAKE p \in Proc
      <3>1. CASE p # cur
        BY <1>2, <2>4, <3>1
      <3>2. CASE p = cur
        BY <2>2, <2>3, <2>5, <3>2
      <3> QED BY <3>1, <3>2
    <2> QED BY <1>2, <2>1, <2>4, <2>6 DEF ListType
  <1>8. CASE MapFreed
    <2>1. areas' = areas /\ brk' = [brk EXCEPT ![cur] = 0] /\ stack' = [stack EXCEPT ![cur] = 0]
      BY <1>8 DEF MapFreed
    <2>2. brk' \in [Proc -> Nat] /\ stack' \in [Proc -> Nat]
      BY <1>2, <2>1
    <2>3. \A p \in Proc : brk'[p] <= Len(areas[p]) /\ stack'[p] <= Len(areas[p])
      BY <1>2, <1>3, <2>1
    <2> QED BY <1>2, <2>1, <2>2, <2>3 DEF ListType
  <1>9. CASE areas' = areas /\ brk' = brk /\ stack' = stack
    BY <1>2, <1>9 DEF ListType
  <1> QED BY <1>5, <1>6, <1>7, <1>8, <1>9, GoList

(* The state of processes keeps its type. *)
LEMMA ProcTypeStep ==
    ASSUME IInv, Go
    PROVE  ProcType'
  <1>1. TypeOK /\ CallOK
    BY DEF IInv
  <1>2. ProcType
    BY <1>1, TypeParts
  <1>3. boot' \in Loaders /\ halted' \in BOOLEAN
    BY <1>2, GoProcs DEF ProcType
  <1> DEFINE T == {"unused", "alive", "zombie"}
             E == [Page -> Value]
  <1>4. st \in [Proc -> T] /\ expect \in [Proc -> E]
    BY <1>2 DEF ProcType
  <1>5. ImageContents \in E /\ [g \in Page |-> Junk] \in E
    BY DEF ImageContents, Value
  <1>6. \A p \in Proc : \A g \in Page : [expect[p] EXCEPT ![g] = Mark] \in E
    BY <1>4 DEF Value
  <1>7. "unused" \in T /\ "alive" \in T /\ "zombie" \in T
    OBVIOUS
  <1> HIDE DEF T, E
  <1>8. st' \in [Proc -> T]
    <2>1. CASE exec_elf \/ procmm_new_map
      BY <1>4, <1>7, <2>1 DEF exec_elf, procmm_new_map
    <2>2. CASE Exits \/ MapFreed
      BY <1>4, <1>7, <2>2 DEF Exits, exit, MapFreed
    <2>3. CASE st' = st
      BY <1>4, <2>3
    <2> QED BY <2>1, <2>2, <2>3, GoProcs
  <1>9. expect' \in [Proc -> E]
    <2>1. CASE exec_elf
      BY <1>4, <1>5, <2>1 DEF exec_elf
    <2>2. CASE procmm_new_map
      <3>1. from \in Proc
        BY <1>1, <2>2, CurIs DEF procmm_new_map
      <3> QED BY <1>4, <2>2, <3>1 DEF procmm_new_map
    <2>3. CASE MapFreed
      BY <1>4, <1>5, <2>3 DEF MapFreed
    <2>4. CASE Stores
      <3>1. PICK p \in Proc, g \in Touched : Store(p, g)
        BY <2>4 DEF Stores
      <3>2. g \in Page
        BY MemoryAssumption
      <3>3. [expect[p] EXCEPT ![g] = Mark] \in E
        BY <1>6, <3>2
      <3> QED BY <1>4, <3>1, <3>3 DEF Store
    <2>5. CASE expect' = expect
      BY <1>4, <2>5
    <2> QED BY <2>1, <2>2, <2>3, <2>4, <2>5, GoProcs
  <1>10. forks' \in 0..MaxForks
    <2>1. forks \in 0..MaxForks /\ MaxForks \in Nat
      BY <1>2, MemoryAssumption DEF ProcType
    <2>2. CASE Forks
      BY <2>1, <2>2 DEF Forks, fork, Go
    <2>3. CASE forks' = forks
      BY <2>1, <2>3
    <2> QED BY <2>2, <2>3, GoProcs
  <1> QED BY <1>3, <1>8, <1>9, <1>10 DEF ProcType, T, E

(* The call's variables keep their type. *)
LEMMA CallTypeStep ==
    ASSUME IInv, Go
    PROVE  CallType'
  <1>1. TypeOK /\ CallOK /\ Scanning /\ Lists
    BY DEF IInv
  <1>2. CallType /\ boot \in Loaders
    BY <1>1, TypeParts DEF TypeOK
  <1>3. PAGE \in Nat
    BY Numbers
  <1>4. CASE multiboot_get_memory_area
    <2>1. i \in Nat
      BY <1>2 DEF CallType
    <2>2. i < mboot_data(boot).mmap_size =>
            boot.areas[i + 1].start \in Nat /\ boot.areas[i + 1].end \in Nat
      BY <1>2, <2>1, BootIs
    <2> QED BY <1>2, <1>4, <2>1, <2>2 DEF multiboot_get_memory_area, CallType
  <1>5. CASE ScanPmm
    BY <1>2, <1>3, <1>5 DEF ScanPmm, CallType
  <1>6. CASE cpu_init \/ exec_elf \/ procmm_new_map \/ GrowDone \/ MapFreed
    <2>1. Return
      BY <1>6 DEF Go, cpu_init, exec_elf, procmm_new_map, GrowDone, MapFreed
    <2> QED BY <2>1 DEF Return, CallType
  <1>7. CASE procmm_map
    <2>1. MapStep /\ Plan[i].start \in Nat /\ Plan[i].end \in Nat /\ (Mapped \/ Refused)
      BY <1>7, MapIs
    <2>2. pos' \in Nat /\ stop' \in Nat
      BY <2>1 DEF Mapped, Refused, MapStep
    <2> QED BY <1>2, <2>1, <2>2 DEF MapStep, CallType
  <1>8. CASE AllocPage \/ vmm_find_page \/ vmm_set_page
    <2>1. CASE AllocPage
      BY <1>2, <2>1 DEF Go, AllocPage, CallType
    <2>2. CASE vmm_find_page
      <3>1. UNCHANGED call
        BY <2>2 DEF Go, vmm_find_page
      <3> QED BY <1>2, <3>1 DEF call, CallType
    <2>3. CASE vmm_set_page
      BY <1>2, <1>3, <2>3 DEF vmm_set_page, CallType
    <2> QED BY <1>8, <2>1, <2>2, <2>3
  <1>9. CASE FillArea
    BY <1>2, <1>9 DEF FillArea, CallType
  <1>10. CASE procmm_free_map
    <2>1. cur \in Proc
      BY <1>1, <1>10, CurIs DEF procmm_free_map
    <2>2. areas[cur] # <<>> => Head(areas[cur]).start \in Nat /\ Head(areas[cur]).end \in Nat
      <3>1. areas[cur] \in Seq(Area)
        BY <1>1, <2>1, ListTypes
      <3>2. areas[cur] # <<>> => Head(areas[cur]) \in Area
        BY <3>1
      <3> QED BY <3>2 DEF Area
    <2> QED BY <1>2, <1>10, <2>2 DEF procmm_free_map, CallType
  <1>11. CASE procmm_unmap \/ AreaRemoved \/ vmm_free_P4 \/ ksbrk \/ Stores \/ Exits
    BY <1>2, <1>3, <1>11 DEF Go, procmm_unmap, AreaRemoved, vmm_free_P4, ksbrk, Stores, Store, Exits, exit,
        call, CallType
  <1>12. CASE kmain \/ Forks \/ Waits
    <2>1. InitProc \in Proc
      BY MemoryAssumption
    <2>2. CASE kmain
      BY <2>1, <2>2 DEF Go, kmain, Begin, CallType
    <2>3. CASE Forks
      BY <2>3 DEF Go, Forks, fork, Begin, CallType
    <2>4. CASE Waits
      BY <2>4 DEF Waits, process_free, Begin, CallType
    <2> QED BY <1>12, <2>2, <2>3, <2>4
  <1>13. CASE Grow
    <2>1. GrowStep /\ pos' \in Nat /\ stop' \in Nat
      BY <1>13, ResizeIs, FaultIs DEF Grow, Go
    <2> QED BY <2>1, MemoryAssumption DEF GrowStep, CallType
  <1> QED BY <1>4, <1>5, <1>6, <1>7, <1>8, <1>9, <1>10, <1>11, <1>12, <1>13, GoIs

-----------------------------------------------------------------------------
(* Contents of frames *)

(* Fill is a function on frames. *)
LEMMA FillIs ==
    ASSUME NEW d, NEW s, NEW c
    PROVE  /\ Fill(d, s, c) = [f \in Frame |-> IF \E g \in Reached(cur, s) : PageOf(cur, g) = f THEN c ELSE d[f]]
           /\ d \in [Frame -> Value] /\ c \in Value => Fill(d, s, c) \in [Frame -> Value]
  BY DEF Fill

(* The entries of a page are entries. *)
LEMMA PageSlot ==
    ASSUME NEW p \in Proc, NEW g \in Page
    PROVE  <<p, PageEntry(g)>> \in Slot /\ PageEntry(g) \in Node
           /\ \A l \in 1..Levels : TableEntry(l, g) \in Node /\ <<p, TableEntry(l, g)>> \in Slot
           /\ P4 \in Node /\ <<p, P4>> \in Slot
  BY DEF Slot, Node

(* A page is a frame, or missing. *)
LEMMA PageFrame ==
    ASSUME FrameTypes, NEW p \in Proc, NEW g \in Page
    PROVE  PageOf(p, g) \in Frame \cup {Null}
  BY PageSlot DEF FrameTypes, PageOf

(* A frame of a page has that one use. *)
LEMMA PageOnce ==
    ASSUME FrameTypes, Distinct, NEW p \in Proc, NEW q \in Proc, NEW g \in Page, NEW h \in Page,
           PageOf(p, g) = PageOf(q, h), PageOf(p, g) # Null
    PROVE  p = q /\ g = h
  <1>1. <<p, PageEntry(g)>> = <<q, PageEntry(h)>>
    BY PageSlot DEF Distinct, PageOf
  <1> QED BY <1>1 DEF PageEntry

(* What vmm_p4_memcpy copies, and what it leaves alone. *)
LEMMA CopyIs ==
    ASSUME FrameTypes, Distinct, DataType, cur \in Proc, from \in Proc, NEW s \in SUBSET Page
    PROVE  /\ vmm_p4_memcpy(s) \in [Frame -> Value]
           /\ \A h \in Reached(cur, s) \cap Reached(from, s) :
                vmm_p4_memcpy(s)[PageOf(cur, h)] = data[PageOf(from, h)]
           /\ \A f \in Frame : (\A h \in Reached(cur, s) : PageOf(cur, h) # f) =>
                vmm_p4_memcpy(s)[f] = data[f]
  <1> DEFINE done == Reached(cur, s) \cap Reached(from, s)
             G(f) == {h \in done : PageOf(cur, h) = f}
             V(f) == IF G(f) = {} THEN data[f] ELSE data[PageOf(from, CHOOSE h \in G(f) : TRUE)]
  <1>1. vmm_p4_memcpy(s) = [f \in Frame |-> V(f)]
    BY DEF vmm_p4_memcpy
  <1>2. \A h \in done : h \in Page /\ PageOf(cur, h) # Null /\ PageOf(from, h) # Null
    <2>1. \A h \in s : h \in Page /\ h <= h
      BY PageFacts
    <2> QED BY <2>1 DEF Reached
  <1>3. \A h \in done : PageOf(cur, h) \in Frame /\ PageOf(from, h) \in Frame
    BY <1>2, PageFrame
  <1>4. \A h, g \in done : PageOf(cur, h) = PageOf(cur, g) => h = g
    BY <1>2, PageOnce
  <1>5. ASSUME NEW f \in Frame, NEW h \in done, PageOf(cur, h) = f
        PROVE  V(f) = data[PageOf(from, h)]
    <2>1. h \in G(f)
      BY <1>5
    <2>2. (CHOOSE x \in G(f) : TRUE) \in G(f)
      BY <2>1
    <2>3. (CHOOSE x \in G(f) : TRUE) = h
      BY <1>4, <1>5, <2>2
    <2> QED BY <2>1, <2>3
  <1>6. ASSUME NEW f \in Frame, \A h \in done : PageOf(cur, h) # f
        PROVE  V(f) = data[f]
    <2>1. G(f) = {}
      BY <1>6
    <2> QED BY <2>1
  <1>7. \A f \in Frame : V(f) \in Value
    <2> TAKE f \in Frame
    <2>1. CASE \E h \in done : PageOf(cur, h) = f
      BY <1>3, <1>5, <2>1 DEF DataType
    <2>2. CASE \A h \in done : PageOf(cur, h) # f
      BY <1>6, <2>2 DEF DataType
    <2> QED BY <2>1, <2>2
  <1> HIDE DEF V
  <1>8. \A h \in done : vmm_p4_memcpy(s)[PageOf(cur, h)] = data[PageOf(from, h)]
    BY <1>1, <1>3, <1>5
  <1>9. \A f \in Frame : (\A h \in Reached(cur, s) : PageOf(cur, h) # f) => vmm_p4_memcpy(s)[f] = data[f]
    BY <1>1, <1>6
  <1>10. vmm_p4_memcpy(s) \in [Frame -> Value]
    BY <1>1, <1>7
  <1> QED BY <1>8, <1>9, <1>10

(* The contents of frames keep their type. *)
LEMMA DataTypeStep ==
    ASSUME IInv, Go
    PROVE  DataType'
  <1>1. TypeOK /\ CallOK /\ Scanning /\ Distinct
    BY DEF IInv
  <1>2. DataType /\ FrameTypes
    BY <1>1, TypeParts
  <1>3. \A v \in Value : \A f : [data EXCEPT ![f] = v] \in [Frame -> Value]
    BY <1>2 DEF DataType
  <1>4. Junk \in Value /\ Mark \in Value /\ File \in Value /\ Zero \in Value
    BY DEF Value
  <1>5. CASE ScanPmm \/ procmm_unmap \/ vmm_free_P4
    BY <1>2, <1>3, <1>4, <1>5 DEF ScanPmm, procmm_unmap, vmm_free_P4, pmm_free, DataType
  <1>6. CASE Stores
    BY <1>3, <1>4, <1>6 DEF Stores, Store, DataType
  <1>7. CASE exec_elf
    BY <1>2, <1>4, <1>7, FillIs DEF exec_elf, DataType
  <1>8. CASE FillArea
    <2>1. task \in {"exec", "fork"}
      BY <1>8 DEF FillArea
    <2>2. CASE task = "fork"
      <3>1. data' = vmm_p4_memcpy(PagesOf(Plan[i].start, Plan[i].end))
        BY <1>8, <2>2 DEF FillArea
      <3>2. PagesOf(Plan[i].start, Plan[i].end) \in SUBSET Page
        BY DEF PagesOf
      <3>3. cur \in Proc /\ from \in Proc
        BY <1>1, <2>2, CurIs
      <3> QED BY <1>1, <1>2, <3>1, <3>2, <3>3, CopyIs DEF DataType
    <2>3. CASE task = "exec"
      <3>1. Segment(Image[i]) \in [Frame -> Value]
        BY <1>2, <1>4, FillIs DEF Segment, DataType
      <3>2. data' = IF i <= Len(Image) THEN Segment(Image[i]) ELSE data
        BY <1>8, <2>3 DEF FillArea
      <3> QED BY <1>2, <3>1, <3>2 DEF DataType
    <2> QED BY <2>1, <2>2, <2>3
  <1>9. CASE data' = data
    BY <1>2, <1>9 DEF DataType
  <1> QED BY <1>5, <1>6, <1>7, <1>8, <1>9, GoData

-----------------------------------------------------------------------------
(* After boot every step is a move *)

(* The page at pos, while pages are mapped. *)
LEMMA NextToMap ==
    ASSUME IInv, pc \in {"page", "table"}, pos < stop
    PROVE  /\ cur \in Proc /\ pos \in Nat /\ stop \in Nat /\ stop <= TOP
           /\ pos \div PAGE \in Page /\ pos \div PAGE \in Left(pos, stop)
           /\ Left(pos + PAGE, stop) = Left(pos, stop) \ {pos \div PAGE}
           /\ Left(pos, stop) \subseteq Covered(cur)
           /\ PageOf(cur, pos \div PAGE) = Null
  <1>1. TypeOK /\ CallOK /\ Mapping
    BY DEF IInv
  <1>2. cur \in Proc /\ pos \in Nat /\ stop \in Nat /\ stop <= TOP
    BY <1>1 DEF CallOK, TypeOK
  <1>3. /\ pos \div PAGE \in Page /\ pos \div PAGE \in Left(pos, stop)
        /\ Left(pos + PAGE, stop) = Left(pos, stop) \ {pos \div PAGE}
    BY <1>2, LeftStep
  <1>4. Left(pos, stop) \subseteq Covered(cur)
    BY <1>1 DEF Mapping
  <1>5. pos \div PAGE \notin Owed(cur)
    BY <1>3 DEF Owed, Pending
  <1>6. PageOf(cur, pos \div PAGE) = Null
    BY <1>1, <1>2, <1>3, <1>5 DEF Mapping
  <1> QED BY <1>2, <1>3, <1>4, <1>6

(* The page at pos, while pages are unmapped. *)
LEMMA NextToUnmap ==
    ASSUME IInv, pc = "unmap"
    PROVE  /\ cur \in Proc /\ cur # InitProc /\ pos \in Nat /\ stop \in Nat /\ stop <= TOP
           /\ 1 \in DOMAIN areas[cur] /\ stop = areas[cur][1].end
           /\ pos < stop =>
                /\ pos \div PAGE \in Page /\ pos \div PAGE \in Left(pos, stop)
                /\ Left(pos + PAGE, stop) = Left(pos, stop) \ {pos \div PAGE}
                /\ PageOf(cur, pos \div PAGE) # Null
           /\ Left(pos, stop) \subseteq Cov(areas[cur][1])
  <1>1. TypeOK /\ CallOK /\ Mapping /\ Lists
    BY DEF IInv
  <1>2. cur \in Proc /\ cur # InitProc /\ pos \in Nat /\ stop \in Nat /\ areas[cur] # <<>>
        /\ stop = areas[cur][1].end
    BY <1>1 DEF CallOK, TypeOK
  <1>3. 1 \in DOMAIN areas[cur]
    <2>1. areas[cur] \in Seq(Area)
      BY <1>1, <1>2, ListTypes
    <2> QED BY <1>2, <2>1
  <1>4. stop <= TOP
    BY <1>1, <1>2, <1>3 DEF Lists, Shaped
  <1>5. Left(pos, stop) \subseteq Cov(areas[cur][1])
    BY <1>1 DEF Mapping
  <1>6. ASSUME pos < stop
        PROVE  /\ pos \div PAGE \in Page /\ pos \div PAGE \in Left(pos, stop)
               /\ Left(pos + PAGE, stop) = Left(pos, stop) \ {pos \div PAGE}
               /\ PageOf(cur, pos \div PAGE) # Null
    <2>1. /\ pos \div PAGE \in Page /\ pos \div PAGE \in Left(pos, stop)
          /\ Left(pos + PAGE, stop) = Left(pos, stop) \ {pos \div PAGE}
      BY <1>2, <1>4, <1>6, LeftStep
    <2>2. pos \div PAGE \in Covered(cur)
      BY <1>3, <1>5, <2>1 DEF Covered
    <2>3. pos \div PAGE \in Owed(cur)
      BY <2>1, <2>2 DEF Owed, Pending
    <2>4. ~Hole(cur, pos \div PAGE)
      BY <1>2 DEF Hole
    <2> QED BY <1>1, <1>2, <2>1, <2>3, <2>4 DEF Mapping
  <1> QED BY <1>2, <1>3, <1>4, <1>5, <1>6

(* Every step but those of pmm_init and cpu_init is a move. *)
LEMMA MoveStep ==
    ASSUME IInv, Go, ~ScanPmm, ~cpu_init
    PROVE  Move
  <1>1. TypeOK /\ CallOK /\ Vacant /\ InitProc \in Proc
    BY MemoryAssumption DEF IInv
  <1>2. CASE multiboot_get_memory_area \/ FillArea \/ exec_elf
            \/ procmm_new_map \/ GrowDone \/ procmm_free_map \/ AreaRemoved \/ MapFreed
    BY <1>2 DEF multiboot_get_memory_area, FillArea, exec_elf, procmm_new_map, GrowDone,
        procmm_free_map, AreaRemoved, MapFreed, Return, Move, Calm
  <1>3. CASE procmm_map
    BY <1>3, MapIs DEF MapStep, Move, Calm
  <1>4. CASE Grow
    <2>1. GrowStep
      BY <1>4, ResizeIs, FaultIs DEF Grow, Go
    <2> QED BY <2>1 DEF GrowStep, Move, Calm
  <1>5. CASE Stores \/ Exits \/ Waits
    BY <1>5 DEF Stores, Store, Exits, exit, Waits, process_free, Begin, call, Move, Calm
  <1>6. CASE AllocPage
    <2>1. hand = Null
      BY <1>1, <1>6 DEF AllocPage, CallOK
    <2>2. ToHand
      BY <1>6, <2>1 DEF Go, AllocPage, ToHand, Popped
    <2> QED BY <2>2 DEF Move
  <1>7. CASE vmm_find_page
    <2>1. pc = "table"
      BY <1>7 DEF vmm_find_page
    <2>2. pos < stop
      BY <1>1, <2>1 DEF CallOK
    <2>3. cur \in Proc /\ pos \div PAGE \in Page
      BY <2>1, <2>2, NextToMap
    <2>4. PICK l \in Missing(pos \div PAGE) :
            /\ Popped /\ entry' = [entry EXCEPT ![<<cur, TableEntry(l, pos \div PAGE)>>] = Top]
            /\ UNCHANGED <<heap, hand>>
      BY <1>7 DEF Go, vmm_find_page, Popped, call
    <2>5. l \in 1..Levels /\ entry[<<cur, TableEntry(l, pos \div PAGE)>>] = Null
      BY DEF Missing
    <2>6. <<cur, TableEntry(l, pos \div PAGE)>> \in Slot
      BY <2>3, <2>5, PageSlot
    <2>7. ToEntry(<<cur, TableEntry(l, pos \div PAGE)>>)
      BY <2>4, <2>5 DEF ToEntry
    <2> QED BY <2>6, <2>7 DEF Move
  <1>8. CASE vmm_set_page
    <2>1. pc = "table"
      BY <1>8 DEF vmm_set_page
    <2>2. pos < stop /\ hand # Null
      BY <1>1, <2>1 DEF CallOK
    <2>3. cur \in Proc /\ pos \div PAGE \in Page /\ PageOf(cur, pos \div PAGE) = Null
      BY <2>1, <2>2, NextToMap
    <2>4. <<cur, PageEntry(pos \div PAGE)>> \in Slot
      BY <2>3, PageSlot
    <2>5. HandTo(<<cur, PageEntry(pos \div PAGE)>>)
      BY <1>8, <2>2, <2>3 DEF vmm_set_page, HandTo, PageOf
    <2> QED BY <2>4, <2>5 DEF Move
  <1>9. CASE procmm_unmap
    <2>1. pc = "unmap" /\ pos < stop
      BY <1>9 DEF procmm_unmap
    <2>2. cur \in Proc /\ pos \div PAGE \in Page /\ PageOf(cur, pos \div PAGE) # Null
      BY <2>1, NextToUnmap
    <2>3. <<cur, PageEntry(pos \div PAGE)>> \in Slot
      BY <2>2, PageSlot
    <2>4. Back(<<cur, PageEntry(pos \div PAGE)>>)
      BY <1>9, <2>2 DEF procmm_unmap, pmm_free, Back, PageOf
    <2> QED BY <2>3, <2>4 DEF Move
  <1>10. CASE vmm_free_P4
    <2>1. cur \in Proc
      BY <1>1, <1>10, CurIs DEF vmm_free_P4, CallOK
    <2>2. PICK n \in Node : /\ entry[<<cur, n>>] # Null /\ pmm_free(entry[<<cur, n>>])
                            /\ entry' = [entry EXCEPT ![<<cur, n>>] = Null]
                            /\ UNCHANGED <<heap, hand>>
      BY <1>10 DEF vmm_free_P4, call
    <2>3. <<cur, n>> \in Slot
      BY <2>1 DEF Slot
    <2>4. Back(<<cur, n>>)
      BY <2>2 DEF pmm_free, Back
    <2> QED BY <2>3, <2>4 DEF Move
  <1>11. CASE kmain
    <2>1. cur = Null /\ st[InitProc] = "unused"
      BY <1>1, <1>11 DEF kmain, Idle, CallOK
    <2>2. entry[<<InitProc, P4>>] = Null /\ <<InitProc, P4>> \in Slot
      BY <1>1, <2>1, NullApart DEF Vacant, Slot, Node
    <2>3. ToEntry(<<InitProc, P4>>)
      BY <1>11, <2>2 DEF Go, kmain, Begin, ToEntry, Popped
    <2> QED BY <2>2, <2>3 DEF Move
  <1>12. CASE Forks
    <2>1. PICK p \in Proc, q \in Proc : fork(p, q)
      BY <1>12 DEF Forks
    <2>2. cur = Null /\ st[q] = "unused"
      BY <1>1, <2>1 DEF fork, Runs, Idle, CallOK
    <2>3. entry[<<q, P4>>] = Null /\ <<q, P4>> \in Slot
      BY <1>1, <2>2, NullApart DEF Vacant, Slot, Node
    <2>4. ToEntry(<<q, P4>>)
      BY <2>1, <2>3 DEF Go, fork, Begin, ToEntry, Popped
    <2> QED BY <2>3, <2>4 DEF Move
  <1>13. CASE ksbrk
    <2>1. ToHeap
      BY <1>13 DEF Go, ksbrk, call, ToHeap, Popped
    <2> QED BY <2>1 DEF Move
  <1> QED BY <1>2, <1>3, <1>4, <1>5, <1>6, <1>7, <1>8, <1>9, <1>10, <1>11, <1>12, <1>13, GoIs

(* So each frame keeps one use, and none is lost. *)
LEMMA MoveStepKeeps ==
    ASSUME IInv, Go, ~ScanPmm, ~cpu_init
    PROVE  FrameTypes' /\ Distinct' /\ Sound' /\ Held' = Held
  <1>1. TypeOK /\ Distinct /\ Sound
    BY DEF IInv
  <1>2. FrameTypes
    BY <1>1, TypeParts
  <1>3. FrameTypes' /\ Distinct' /\ Held' = Held
    BY <1>1, <1>2, MoveStep, MoveKeeps
  <1>4. Sound'
    BY <1>1, <1>3, GoProcs DEF Sound
  <1> QED BY <1>3, <1>4

-----------------------------------------------------------------------------
(* Boot *)

(* Before the first process nothing but the stack has frames. *)
LEMMA BootHeld ==
    ASSUME IInv, pc \in {"pmm_init", "cpu_init"}
    PROVE  /\ FrameTypes /\ heap = {} /\ hand = Null /\ \A x \in Slot : entry[x] = Null
           /\ boot \in Loaders /\ Len(pmm_stack) \in Nat /\ DOMAIN pmm_stack = 1..Len(pmm_stack)
           /\ \A j, k \in 1..Len(pmm_stack) : j < k => pmm_stack[j] < pmm_stack[k]
           /\ \A k \in 1..Len(pmm_stack) : pmm_stack[k] \in Frame /\ Spare(boot, pmm_stack[k])
  <1>1. TypeOK /\ CallOK /\ Vacant /\ Scanning
    BY DEF IInv
  <1>2. FrameTypes /\ boot \in Loaders
    BY <1>1, TypeParts DEF TypeOK
  <1>3. hand = Null /\ cur = Null
    BY <1>1 DEF CallOK
  <1>4. heap = {} /\ \A p \in Proc : st[p] = "unused"
    BY <1>1 DEF Scanning
  <1>5. \A p \in Proc : \A n \in Node : entry[<<p, n>>] = Null
    BY <1>1, <1>3, <1>4, NullApart DEF Vacant
  <1>6. \A x \in Slot : entry[x] = Null
    BY <1>5 DEF Slot
  <1>7. pmm_stack \in Seq(Frame)
    BY <1>2 DEF FrameTypes
  <1>8. Len(pmm_stack) \in Nat /\ DOMAIN pmm_stack = 1..Len(pmm_stack)
        /\ \A k \in 1..Len(pmm_stack) : pmm_stack[k] \in Frame
    BY <1>7
  <1> QED BY <1>1, <1>2, <1>3, <1>4, <1>6, <1>8 DEF Scanning

(* The page at pos and its frame. *)
LEMMA BootPage ==
    ASSUME IInv, pc = "pmm_init", pos + PAGE < stop
    PROVE  /\ i \in 1..Len(boot.areas) /\ boot \in Loaders /\ pos \in Nat /\ stop = boot.areas[i].end
           /\ boot.areas[i].start <= pos /\ stop <= NumFrames * PAGE
           /\ boot.areas[i].free => /\ pos \div PAGE \in Frame /\ pos = (pos \div PAGE) * PAGE
                                    /\ pos + PAGE = (pos \div PAGE + 1) * PAGE
  <1>1. TypeOK /\ Scanning
    BY DEF IInv
  <1>2. pos \in Nat /\ stop \in Nat /\ boot \in Loaders /\ i \in Nat
    BY <1>1 DEF TypeOK
  <1>3. i # 0
    BY <1>1, <1>2, Numbers DEF Scanning
  <1>4. /\ i \in 1..Len(boot.areas) /\ stop = boot.areas[i].end /\ boot.areas[i].start <= pos
        /\ boot.areas[i].free => pos % PAGE = 0
    BY <1>1, <1>2, <1>3, BootIs DEF Scanning
  <1>5. stop <= NumFrames * PAGE
    BY <1>2, <1>4, BootIs
  <1> DEFINE d == pos \div PAGE
  <1>6. d \in Nat /\ pos = d * PAGE + (pos % PAGE) /\ d * PAGE \in Nat /\ (d + 1) * PAGE = d * PAGE + PAGE
    BY <1>2, Divide, NextTimes
  <1> HIDE DEF d
  <1>7. ASSUME pos % PAGE = 0
        PROVE  d \in Frame /\ pos = d * PAGE /\ pos + PAGE = (d + 1) * PAGE
    <2>1. pos = d * PAGE
      BY <1>6, <1>7
    <2>2. ~(d >= NumFrames)
      <3> SUFFICES ASSUME d >= NumFrames PROVE FALSE
        OBVIOUS
      <3>1. NumFrames < d => NumFrames * PAGE + PAGE <= d * PAGE
        BY <1>6, Numbers, LaterTimes
      <3>2. NumFrames = d => NumFrames * PAGE = d * PAGE
        OBVIOUS
      <3>3. NumFrames * PAGE \in Nat
        BY Numbers
      <3> QED BY <1>2, <1>5, <1>6, <2>1, <3>1, <3>2, <3>3, Numbers
    <2>3. d \in Frame
      BY <1>6, <2>2, Numbers DEF Frame
    <2> QED BY <1>6, <2>1, <2>3
  <1> QED BY <1>2, <1>4, <1>5, <1>7 DEF d

(***************************************************************************)
(* pmm_init gives a page back exactly when its frame is spare: none of the *)
(* kernel, of init's executable, of the loader's structure or of its map   *)
(* begins or ends in it, though of some only part is looked at.            *)
(***************************************************************************)
LEMMA FreedIs ==
    ASSUME IInv, pc = "pmm_init", pos + PAGE < stop, boot.areas[i].free
    PROVE  Freed(boot, boot.areas[i], pos) <=> Spare(boot, pos \div PAGE)
  <1> DEFINE f == pos \div PAGE
             b == boot
             e == (f + 1) * PAGE
  <1>1. /\ i \in 1..Len(b.areas) /\ b \in Loaders /\ pos \in Nat /\ stop = b.areas[i].end
        /\ b.areas[i].start <= pos /\ f \in Frame /\ pos = f * PAGE /\ e = pos + PAGE
    BY BootPage
  <1> HIDE DEF f, e
  <1>2. PAGE \in Nat /\ PAGE > 0 /\ f \in Nat /\ e \in Nat
    BY <1>1, Numbers DEF Frame
  <1>3. pos % PAGE = 0 /\ pos \div PAGE = f
    <2>1. pos = f * PAGE + 0 /\ f \in Int
      BY <1>1, <1>2
    <2> QED BY <1>1, <1>2, <2>1, DivideIs
  <1>4. \A r \in {b.kernel, b.module, b.info, b.map} :
            r.start \in Nat /\ r.end \in Nat /\ r.start < r.end
    BY <1>1, BootInfoAssumption
  <1>5. ASSUME NEW r \in {b.kernel, b.module, b.info, b.map}
        PROVE  Touches(f, r) <=> ~(pos >= r.end \/ e <= r.start)
    BY <1>1 DEF Touches, overlap, e
  <1>6. InKernel(b, pos) <=> Touches(f, b.kernel)
    <2>1. b.kernel.start % PAGE = 0 /\ b.kernel.start \in Nat /\ b.kernel.end \in Nat
      BY <1>1, <1>4, BootInfoAssumption
    <2>2. pos < b.kernel.start => pos + PAGE <= b.kernel.start
      BY <1>1, <1>3, <2>1, AlignedAbove
    <2>3. InKernel(b, pos) <=> (pos >= b.kernel.start /\ pos < b.kernel.end)
      BY DEF InKernel
    <2>4. Touches(f, b.kernel) <=> ~(pos >= b.kernel.end \/ e <= b.kernel.start)
      BY <1>5
    <2> QED BY <1>1, <1>2, <2>1, <2>2, <2>3, <2>4
  <1>7. multiboot_page_used(b, pos) <=>
            \/ mboot_data(b).init /\ ~(pos >= b.module.start + (b.module.end - b.module.start)
                    \/ pos + PAGE <= b.module.start)
            \/ b.version = 1 /\ ~(pos >= b.info.start + Pointer \/ pos + PAGE <= b.info.start)
            \/ b.version = 1 /\ ~(pos >= b.map.start + (b.map.end - b.map.start) * EntrySize
                    \/ pos + PAGE <= b.map.start)
            \/ b.version = 2 /\ ~(pos >= b.info.start + (b.info.end - b.info.start)
                    \/ pos + PAGE <= b.info.start)
    BY DEF multiboot_page_used, overlap
  <1>8. mboot_data(b).init /\ Touches(f, b.module) => multiboot_page_used(b, pos)
    <2>1. b.module.start \in Nat /\ b.module.end \in Nat
      BY <1>4
    <2>2. b.module.start + (b.module.end - b.module.start) = b.module.end
      BY <2>1
    <2>3. Touches(f, b.module) <=> ~(pos >= b.module.end \/ e <= b.module.start)
      BY <1>5
    <2> QED BY <1>1, <1>7, <2>2, <2>3
  <1>9. Touches(f, b.info) /\ (b.version = 1 => f = b.info.start \div PAGE)
            => multiboot_page_used(b, pos)
    <2>0. Touches(f, b.info) <=> ~(pos >= b.info.end \/ e <= b.info.start)
      BY <1>5
    <2>1. b.info.start \in Nat /\ b.info.end \in Nat /\ b.version \in {1, 2}
          /\ Pointer \in Nat /\ Pointer > 0
      BY <1>1, <1>4, BootInfoAssumption
    <2>2. CASE b.version = 2
      <3>1. b.info.start + (b.info.end - b.info.start) = b.info.end
        BY <2>1
      <3> QED BY <1>1, <1>7, <2>0, <2>2, <3>1
    <2>3. CASE b.version = 1
      <3> SUFFICES ASSUME Touches(f, b.info), f = b.info.start \div PAGE
                   PROVE  multiboot_page_used(b, pos)
        BY <2>3
      <3> DEFINE s == b.info.start
      <3>1. s \in Nat /\ s \div PAGE = f
        BY <2>1
      <3>2. s = f * PAGE + (s % PAGE) /\ s % PAGE \in Nat
        BY <3>1, Divide
      <3> HIDE DEF s
      <3>3. ~(pos >= s + Pointer)
        BY <1>1, <2>1, <3>1, <3>2
      <3>4. ~(pos + PAGE <= s)
        BY <1>1, <2>0 DEF s
      <3> QED BY <1>7, <2>3, <3>3, <3>4 DEF s
    <2> QED BY <2>1, <2>2, <2>3
  <1>10. Touches(f, b.map) => multiboot_page_used(b, pos)
    <2>0. Touches(f, b.map) <=> ~(pos >= b.map.end \/ e <= b.map.start)
      BY <1>5
    <2>1. /\ b.info.start \in Nat /\ b.info.end \in Nat /\ b.map.start \in Nat /\ b.map.end \in Nat
          /\ b.map.start < b.map.end /\ b.version \in {1, 2} /\ EntrySize \in Nat /\ EntrySize > 0
      BY <1>1, <1>4, BootInfoAssumption
    <2>2. CASE b.version = 2
      <3>1. b.info.start <= b.map.start /\ b.map.end <= b.info.end
        BY <1>1, <2>2, BootInfoAssumption
      <3>2. Touches(f, b.info) <=> ~(pos >= b.info.end \/ e <= b.info.start)
        BY <1>5
      <3>3. e \in Int /\ pos \in Int
        BY <1>1, <1>2
      <3>4. pos >= b.info.end => pos >= b.map.end
        BY <2>1, <3>1, <3>3
      <3>5. e <= b.info.start => e <= b.map.start
        BY <2>1, <3>1, <3>3
      <3> QED BY <1>9, <2>0, <2>2, <3>2, <3>4, <3>5
    <2>3. CASE b.version = 1
      <3> DEFINE s == b.map.end - b.map.start
      <3>1. s \in Nat /\ s > 0 /\ b.map.start + s = b.map.end
        BY <2>1
      <3> HIDE DEF s
      <3>2. s * EntrySize \in Nat /\ s * EntrySize >= s
        <4>1. PICK x \in Nat : EntrySize = x + 1
          <5>1. EntrySize - 1 \in Nat /\ EntrySize = (EntrySize - 1) + 1
            BY <2>1
          <5> QED BY <5>1
        <4>2. s * EntrySize = s * x + s /\ s * x \in Nat
          BY <3>1, <4>1
        <4> QED BY <3>1, <4>2
      <3>3. pos >= b.map.start + s * EntrySize => pos >= b.map.end
        <4> DEFINE t == s * EntrySize
        <4>1. t \in Nat /\ t >= s
          BY <3>2
        <4> HIDE DEF t
        <4>2. pos >= b.map.start + t => pos >= b.map.start + s
          BY <1>1, <2>1, <3>1, <4>1
        <4> QED BY <3>1, <4>2 DEF t
      <3> QED BY <1>1, <1>7, <2>0, <2>3, <3>3 DEF s
    <2> QED BY <2>1, <2>2, <2>3
  <1>11. b.areas[i].free /\ b.areas[i].start <= f * PAGE /\ (f + 1) * PAGE <= b.areas[i].end
         /\ i \in DOMAIN b.areas
    <2>1. b.areas[i].end \in Nat
      BY <1>1, BootIs
    <2>2. e <= b.areas[i].end
      BY <1>1, <1>2, <2>1
    <2> QED BY <1>1, <2>2, BootIs DEF e
  <1>12. /\ Touches(f, b.kernel) => Taken(b, f)
         /\ Taken(b, f) /\ ~Touches(f, b.kernel) /\ ~Touches(f, b.map) =>
                \/ mboot_data(b).init /\ Touches(f, b.module)
                \/ Touches(f, b.info) /\ (b.version = 1 => f = b.info.start \div PAGE)
    <2>1. \E k \in DOMAIN b.areas :
            b.areas[k].free /\ b.areas[k].start <= f * PAGE /\ (f + 1) * PAGE <= b.areas[k].end
      BY <1>11, Zenon
    <2>2. Touches(f, b.kernel) => Taken(b, f)
      BY DEF Taken
    <2>3. ASSUME Taken(b, f), ~Touches(f, b.kernel), ~Touches(f, b.map)
          PROVE  \/ mboot_data(b).init /\ Touches(f, b.module)
                 \/ Touches(f, b.info) /\ (b.version = 1 => f = b.info.start \div PAGE)
      BY <2>1, <2>3 DEF Taken
    <2> QED BY <2>2, <2>3
  <1>13. \A j \in DOMAIN b.areas : b.areas[j].end # e
    <2> SUFFICES ASSUME NEW j \in 1..Len(b.areas) PROVE b.areas[j].end # e
      BY <1>1, BootIs
    <2>1. /\ b.areas[j].start \in Nat /\ b.areas[j].end \in Nat /\ b.areas[j].start <= b.areas[j].end
          /\ b.areas[i].start \in Nat /\ b.areas[i].end \in Nat
      BY <1>1, BootIs
    <2>2. j < i => b.areas[j].end <= b.areas[i].start
      BY <1>1, BootIs
    <2>3. i < j => b.areas[i].end <= b.areas[j].start
      BY <1>1, BootIs
    <2>4. b.areas[i].end > e /\ i \in Nat /\ j \in Nat
      BY <1>1
    <2>5. e \in Nat /\ pos \in Nat /\ b.areas[i].start <= pos /\ pos < e
      BY <1>1, <1>2
    <2>6. CASE j < i
      <3>1. b.areas[j].end <= b.areas[i].start
        BY <2>2, <2>6
      <3> QED BY <2>1, <2>5, <3>1
    <2>7. CASE i < j
      <3>1. b.areas[i].end <= b.areas[j].start
        BY <2>3, <2>7
      <3> QED BY <2>1, <2>4, <2>5, <3>1
    <2>8. CASE j = i
      <3>1. b.areas[j].end > e
        BY <2>4, <2>8
      <3> QED BY <2>1, <2>5, <3>1
    <2>9. j < i \/ i < j \/ j = i
      BY <2>4
    <2> QED BY <2>6, <2>7, <2>8, <2>9
  <1>14. multiboot_page_used(b, f * PAGE) <=> multiboot_page_used(b, pos)
    BY <1>1
  <1>15. Spare(b, f) <=> ~Taken(b, f) /\ ~multiboot_page_used(b, f * PAGE)
    BY <1>13 DEF Spare, e
  <1>16. Freed(b, b.areas[i], pos) <=> ~InKernel(b, pos) /\ ~multiboot_page_used(b, pos)
    BY DEF Freed
  <1>17. ASSUME Spare(b, f)
         PROVE  Freed(b, b.areas[i], pos)
    <2>1. ~Touches(f, b.kernel) /\ ~multiboot_page_used(b, pos)
      BY <1>12, <1>14, <1>15, <1>17, Zenon
    <2> QED BY <1>6, <1>16, <2>1, Zenon
  <1>18. ASSUME Freed(b, b.areas[i], pos)
         PROVE  Spare(b, f)
    <2>1. ~Touches(f, b.kernel) /\ ~multiboot_page_used(b, pos)
      BY <1>6, <1>16, <1>18, Zenon
    <2>2. ~Taken(b, f)
      BY <1>8, <1>9, <1>10, <1>12, <2>1, Zenon
    <2> QED BY <1>14, <1>15, <2>1, <2>2, Zenon
  <1> QED BY <1>17, <1>18, Zenon DEF f

(* Boot comes first and does not come again. *)
LEMMA GoPc ==
    ASSUME Go
    PROVE  /\ pc' \in {"pmm_init", "cpu_init"} => multiboot_get_memory_area \/ ScanPmm
           /\ pc \in {"pmm_init", "cpu_init"} => multiboot_get_memory_area \/ ScanPmm \/ cpu_init
  <1>1. CASE cpu_init \/ exec_elf \/ procmm_new_map \/ GrowDone \/ MapFreed
    BY <1>1 DEF Go, cpu_init, exec_elf, procmm_new_map, GrowDone, MapFreed, Return
  <1>2. CASE procmm_map \/ AllocPage \/ vmm_find_page \/ vmm_set_page \/ FillArea
    BY <1>2 DEF Go, procmm_map, AllocPage, vmm_find_page, vmm_set_page, FillArea, call
  <1>3. CASE procmm_free_map \/ procmm_unmap \/ AreaRemoved \/ vmm_free_P4
    BY <1>3 DEF procmm_free_map, procmm_unmap, AreaRemoved, vmm_free_P4, call
  <1>4. CASE kmain \/ ksbrk \/ Grow
    BY <1>4 DEF Go, kmain, ksbrk, Grow, procmm_resize, Undefined, procmm_page_fault, Runs, Idle, Begin, call
  <1>5. CASE Stores \/ Forks \/ Exits \/ Waits
    BY <1>5 DEF Go, Stores, Store, Forks, fork, Exits, exit, Waits, process_free, Runs, Idle, Begin, call
  <1> QED BY <1>1, <1>2, <1>3, <1>4, <1>5, GoIs

(* A stack in ascending order, and nothing else, is a sound way to hold frames. *)
LEMMA StackOnly ==
    ASSUME FrameTypes', heap' = {}, hand' = Null, \A x \in Slot : entry'[x] = Null,
           \A j, k \in 1..Len(pmm_stack') : j < k => pmm_stack'[j] < pmm_stack'[k],
           \A k \in 1..Len(pmm_stack') : Spare(boot', pmm_stack'[k])
    PROVE  Distinct' /\ Sound'
  <1>1. pmm_stack' \in Seq(Frame)
    BY DEF FrameTypes
  <1>2. Len(pmm_stack') \in Nat /\ DOMAIN pmm_stack' = 1..Len(pmm_stack')
        /\ \A k \in 1..Len(pmm_stack') : pmm_stack'[k] \in Frame
    BY <1>1
  <1>3. \A k \in 1..Len(pmm_stack') : pmm_stack'[k] \in Nat /\ pmm_stack'[k] # Null
    BY <1>2, NullApart, Numbers DEF Frame
  <1>4. \A j, k \in 1..Len(pmm_stack') : pmm_stack'[j] = pmm_stack'[k] => j = k
    <2> SUFFICES ASSUME NEW j \in 1..Len(pmm_stack'), NEW k \in 1..Len(pmm_stack'), j < k
                 PROVE  pmm_stack'[j] # pmm_stack'[k]
      BY <1>2
    <2>1. pmm_stack'[j] < pmm_stack'[k] /\ pmm_stack'[j] \in Nat /\ pmm_stack'[k] \in Nat
      BY <1>3
    <2> QED BY <2>1
  <1>5. Distinct'
    BY <1>2, <1>3, <1>4 DEF Distinct
  <1>6. ASSUME NEW f \in Held'
        PROVE  ~Taken(boot', f)
    <2>1. f \in Stacked'
      BY DEF Held, Entered, Used, InHand, Slot
    <2>2. PICK k \in 1..Len(pmm_stack') : f = pmm_stack'[k]
      BY <1>2, <2>1 DEF Stacked
    <2> QED BY <2>2 DEF Spare
  <1> QED BY <1>5, <1>6 DEF Sound

(* pmm_init at a page. *)
LEMMA ScanPage ==
    ASSUME IInv, ScanPmm
    PROVE  FrameTypes' /\ Distinct' /\ Sound' /\ Kept' /\ Scanning'
  <1>1. TypeOK /\ Scanning /\ Distinct /\ Sound
    BY DEF IInv
  <1>2. pc = "pmm_init" /\ pc' = pc /\ pos + PAGE < stop /\ pos' = pos + PAGE /\ stop' = stop /\ i' = i
        /\ boot' = boot /\ heap' = heap /\ hand' = hand /\ entry' = entry /\ st' = st
    BY DEF ScanPmm, procs
  <1>3. /\ FrameTypes /\ heap = {} /\ hand = Null /\ \A x \in Slot : entry[x] = Null
        /\ boot \in Loaders /\ Len(pmm_stack) \in Nat /\ DOMAIN pmm_stack = 1..Len(pmm_stack)
        /\ \A j, k \in 1..Len(pmm_stack) : j < k => pmm_stack[j] < pmm_stack[k]
        /\ \A k \in 1..Len(pmm_stack) : pmm_stack[k] \in Frame /\ Spare(boot, pmm_stack[k])
    BY <1>2, BootHeld
  <1> DEFINE f == pos \div PAGE
             a == boot.areas[i]
             n == Len(pmm_stack)
  <1>4. /\ i \in 1..Len(boot.areas) /\ pos \in Nat /\ stop = a.end /\ a.start <= pos
        /\ a.free => f \in Frame /\ pos = f * PAGE /\ pos + PAGE = (f + 1) * PAGE
    BY <1>2, BootPage
  <1>5. a.free => (Freed(boot, a, pos) <=> Spare(boot, f))
    BY <1>2, FreedIs
  <1>6. Freed(boot, a, pos) => a.free
    BY DEF Freed
  <1>7. stop \in Nat /\ PAGE \in Nat /\ PAGE > 0 /\ i \in Nat /\ i > 0
    BY <1>1, <1>4, Numbers DEF TypeOK
  <1>8. /\ \A p \in Proc : st[p] = "unused"
        /\ a.free => pos % PAGE = 0
        /\ \A k \in 1..n : (pmm_stack[k] + 1) * PAGE <= pos /\ (pmm_stack[k] + 1) * PAGE <= stop
        /\ \A g \in Frame : \A j \in 1..i :
            Spare(boot, g) /\ InArea(j, g) /\ (j < i \/ g * PAGE < pos)
                => \E k \in 1..n : pmm_stack[k] = g
    BY <1>1, <1>2, <1>3, <1>7 DEF Scanning
  <1>9. IF Freed(boot, a, pos) THEN pmm_stack' = Append(pmm_stack, f) ELSE pmm_stack' = pmm_stack
    BY DEF ScanPmm
  <1> HIDE DEF f, a, n
  <1>10. \A g \in Frame : g \in Nat /\ g * PAGE \in Nat /\ (g + 1) * PAGE = g * PAGE + PAGE
    <2>1. \A g \in Frame : g \in Nat
      BY Numbers DEF Frame
    <2> QED BY <2>1, NextTimes, Numbers
  <1>11. \A k \in 1..n : pmm_stack[k] \in Frame
    BY <1>3 DEF n
  (* the last page before pos *)
  <1>12. ASSUME NEW g \in Frame, a.free, ~(g * PAGE < pos), g * PAGE < pos + PAGE
         PROVE  g = f
    <2>1. g \in Nat /\ f \in Nat /\ g * PAGE \in Nat /\ f * PAGE \in Nat /\ pos = f * PAGE
      BY <1>4, <1>10, <1>12
    <2>2. f < g => f * PAGE + PAGE <= g * PAGE
      BY <2>1, LaterTimes
    <2>3. g < f => g * PAGE + PAGE <= f * PAGE
      BY <2>1, LaterTimes
    <2> QED BY <1>7, <1>12, <2>1, <2>2, <2>3
  <1>13. /\ FrameTypes' /\ Len(pmm_stack') \in Nat
         /\ \A j, k \in 1..Len(pmm_stack') : j < k => pmm_stack'[j] < pmm_stack'[k]
         /\ \A k \in 1..Len(pmm_stack') : Spare(boot, pmm_stack'[k])
         /\ \A k \in 1..Len(pmm_stack') :
                (pmm_stack'[k] + 1) * PAGE <= pos + PAGE /\ (pmm_stack'[k] + 1) * PAGE <= stop
         /\ \A g \in Frame : (\E k \in 1..Len(pmm_stack') : pmm_stack'[k] = g) <=>
                (\E k \in 1..n : pmm_stack[k] = g) \/ (Freed(boot, a, pos) /\ g = f)
    <2>1. CASE ~Freed(boot, a, pos)
      <3>1. pmm_stack' = pmm_stack
        BY <1>9, <2>1
      <3>2. \A k \in 1..n : (pmm_stack[k] + 1) * PAGE <= pos + PAGE
        <4> TAKE k \in 1..n
        <4>1. (pmm_stack[k] + 1) * PAGE <= pos /\ (pmm_stack[k] + 1) * PAGE \in Int
          BY <1>7, <1>8, <1>10, <1>11
        <4> QED BY <1>4, <1>7, <4>1
      <3>3. FrameTypes'
        BY <1>2, <1>3, <3>1 DEF FrameTypes
      <3> QED BY <1>3, <1>8, <2>1, <3>1, <3>2, <3>3 DEF n
    <2>2. CASE Freed(boot, a, pos)
      <3>1. f \in Frame /\ pos = f * PAGE /\ pos + PAGE = (f + 1) * PAGE /\ Spare(boot, f)
        BY <1>4, <1>5, <1>6, <2>2
      <3>2. pmm_stack' = Append(pmm_stack, f) /\ pmm_stack \in Seq(Frame)
        BY <1>3, <1>9, <2>2 DEF FrameTypes
      <3>3. /\ pmm_stack' \in Seq(Frame) /\ n \in Nat /\ Len(pmm_stack') = n + 1
            /\ \A k \in 1..n : pmm_stack'[k] = pmm_stack[k]
            /\ pmm_stack'[n + 1] = f
        BY <3>1, <3>2, PushIs DEF n
      <3>4. \A k \in 1..(n + 1) : k = n + 1 \/ k \in 1..n
        BY <3>3
      <3>5. ASSUME NEW k \in 1..n
            PROVE  /\ pmm_stack[k] < f /\ (pmm_stack[k] + 1) * PAGE <= pos + PAGE
                   /\ (pmm_stack[k] + 1) * PAGE <= stop
        <4> DEFINE g == pmm_stack[k]
        <4>1. g \in Nat /\ f \in Nat /\ g * PAGE \in Nat /\ f * PAGE \in Nat /\ (g + 1) * PAGE = g * PAGE + PAGE
          BY <1>10, <1>11, <3>1
        <4>2. (g + 1) * PAGE <= pos /\ (g + 1) * PAGE <= stop
          BY <1>8
        <4> HIDE DEF g
        <4>3. f < g => f * PAGE + PAGE <= g * PAGE
          BY <4>1, LaterTimes
        <4>4. f = g => f * PAGE = g * PAGE
          OBVIOUS
        <4>5. g < f
          BY <1>7, <3>1, <4>1, <4>2, <4>3, <4>4
        <4>6. (g + 1) * PAGE <= pos + PAGE
          BY <1>4, <1>7, <4>1, <4>2
        <4> QED BY <4>2, <4>5, <4>6 DEF g
      <3>6. FrameTypes'
        BY <1>2, <1>3, <3>3 DEF FrameTypes
      <3>7. \A j, k \in 1..(n + 1) : j < k => pmm_stack'[j] < pmm_stack'[k]
        <4> SUFFICES ASSUME NEW j \in 1..(n + 1), NEW k \in 1..(n + 1), j < k
                     PROVE  pmm_stack'[j] < pmm_stack'[k]
          OBVIOUS
        <4>1. j \in 1..n
          BY <3>3
        <4>2. CASE k = n + 1
          BY <3>3, <3>5, <4>1, <4>2
        <4>3. CASE k \in 1..n
          BY <1>3, <3>3, <4>1, <4>3 DEF n
        <4> QED BY <3>4, <4>2, <4>3
      <3>8. \A k \in 1..(n + 1) : Spare(boot, pmm_stack'[k])
        BY <1>3, <3>1, <3>3, <3>4 DEF n
      <3>9. (f + 1) * PAGE <= pos + PAGE /\ (f + 1) * PAGE <= stop
        BY <1>2, <1>4, <1>7, <3>1
      <3>10. \A k \in 1..(n + 1) :
                (pmm_stack'[k] + 1) * PAGE <= pos + PAGE /\ (pmm_stack'[k] + 1) * PAGE <= stop
        BY <3>3, <3>4, <3>5, <3>9
      <3>11. \A g \in Frame : (\E k \in 1..(n + 1) : pmm_stack'[k] = g) <=>
                (\E k \in 1..n : pmm_stack[k] = g) \/ g = f
        <4>1. n + 1 \in 1..(n + 1) /\ 1..n \subseteq 1..(n + 1)
          BY <3>3
        <4> QED BY <3>3, <3>4, <4>1
      <3> QED BY <2>2, <3>3, <3>6, <3>7, <3>8, <3>10, <3>11
    <2> QED BY <2>1, <2>2
  <1>14. DOMAIN pmm_stack' = 1..Len(pmm_stack')
    BY <1>13 DEF FrameTypes
  <1>15. Distinct' /\ Sound'
    BY <1>2, <1>3, <1>13, StackOnly
  <1>16. ASSUME NEW g \in Frame, NEW j \in 1..i, Spare(boot, g), InArea(j, g), j < i \/ g * PAGE < pos + PAGE
         PROVE  \E k \in 1..Len(pmm_stack') : pmm_stack'[k] = g
    <2>1. CASE j < i \/ g * PAGE < pos
      BY <1>8, <1>13, <1>16, <2>1
    <2>2. CASE ~(j < i) /\ ~(g * PAGE < pos)
      <3>1. j = i
        BY <1>7, <2>2
      <3>2. a.free
        BY <1>16, <3>1 DEF InArea, a
      <3>3. g * PAGE < pos + PAGE
        BY <1>16, <2>2
      <3>4. g = f
        BY <1>12, <2>2, <3>2, <3>3
      <3> QED BY <1>5, <1>13, <1>16, <3>2, <3>4
    <2> QED BY <2>1, <2>2
  <1>17. a.free => (pos + PAGE) % PAGE = 0
    <2> SUFFICES ASSUME a.free PROVE (pos + PAGE) % PAGE = 0
      OBVIOUS
    <2>1. pos + PAGE = (f + 1) * PAGE + 0 /\ f + 1 \in Int /\ pos + PAGE \in Nat
      BY <1>4, <1>7, <1>10
    <2> DEFINE q == f + 1
               x == pos + PAGE
    <2>2. x = q * PAGE + 0 /\ q \in Int /\ x \in Nat
      BY <2>1
    <2> HIDE DEF q, x
    <2>3. x % PAGE = 0
      BY <1>7, <2>2, DivideIs
    <2> QED BY <2>3 DEF x
  <1>18. a.start <= pos + PAGE
    <2>1. a.start \in Nat
      BY <1>3, <1>4, BootIs DEF a
    <2> QED BY <1>4, <1>7, <2>1
  <1>19. Scanning'
    <2>1. /\ heap' = {} /\ \A p \in Proc : st'[p] = "unused"
          /\ \A j, k \in DOMAIN pmm_stack' : j < k => pmm_stack'[j] < pmm_stack'[k]
          /\ \A k \in DOMAIN pmm_stack' : Spare(boot', pmm_stack'[k])
      BY <1>2, <1>3, <1>8, <1>13, <1>14
    <2>2. pc' # "cpu_init"
      BY <1>2
    <2>3. i' \in 0..Len(boot'.areas) /\ i' # 0
      BY <1>2, <1>4
    <2>4. /\ stop' = boot'.areas[i'].end /\ boot'.areas[i'].start <= pos'
          /\ boot'.areas[i'].free => pos' % PAGE = 0
      BY <1>2, <1>4, <1>17, <1>18 DEF a
    <2>5. \A k \in DOMAIN pmm_stack' :
                (pmm_stack'[k] + 1) * PAGE <= pos' /\ (pmm_stack'[k] + 1) * PAGE <= stop'
      BY <1>2, <1>13, <1>14
    <2>6. \A g \in Frame : \A j \in 1..i' :
            Spare(boot', g) /\ InArea(j, g)' /\ (j < i' \/ g * PAGE < pos')
                => \E k \in DOMAIN pmm_stack' : pmm_stack'[k] = g
      <3>1. \A g \in Frame : \A j \in 1..i : InArea(j, g)' <=> InArea(j, g)
        BY <1>2 DEF InArea
      <3> QED BY <1>2, <1>14, <1>16, <3>1
    <2> QED BY <2>1, <2>2, <2>3, <2>4, <2>5, <2>6 DEF Scanning
  <1>20. Kept'
    BY <1>2 DEF Kept
  <1> QED BY <1>13, <1>15, <1>19, <1>20

(* When an area is done, all that it has to spare is on the stack. *)
LEMMA AreaScanned ==
    ASSUME IInv, pc = "pmm_init", ~(pos + PAGE < stop), NEW g \in Frame, NEW j \in 1..i,
           Spare(boot, g), InArea(j, g)
    PROVE  \E k \in 1..Len(pmm_stack) : pmm_stack[k] = g
  <1>1. TypeOK /\ Scanning
    BY DEF IInv
  <1>2. DOMAIN pmm_stack = 1..Len(pmm_stack) /\ boot \in Loaders
    BY BootHeld
  <1>3. i \in 1..Len(boot.areas) /\ i \in Nat /\ i > 0 /\ pos \in Nat /\ stop \in Nat /\ PAGE \in Nat
    BY <1>1, <1>2, BootIs, Numbers DEF Scanning, TypeOK
  <1>4. stop = boot.areas[i].end
    BY <1>1, <1>3 DEF Scanning
  <1>5. j < i \/ g * PAGE < pos
    <2> SUFFICES ASSUME j = i PROVE g * PAGE < pos
      BY <1>3
    <2>1. i \in DOMAIN boot.areas
      BY <1>2, <1>3, BootIs
    <2>2. (g + 1) * PAGE <= stop /\ stop # (g + 1) * PAGE
      BY <1>4, <2>1 DEF InArea, Spare
    <2>3. g \in Int
      BY Numbers DEF Frame
    <2>4. (g + 1) * PAGE = g * PAGE + PAGE /\ g * PAGE \in Int
      BY <2>3, NextTimes
    <2> QED BY <1>3, <2>2, <2>4
  <1> QED BY <1>1, <1>2, <1>5 DEF Scanning

(* pmm_init goes to the next area, or ends. *)
LEMMA ScanArea ==
    ASSUME IInv, multiboot_get_memory_area
    PROVE  Scanning' /\ Kept'
  <1>1. TypeOK /\ Scanning
    BY DEF IInv
  <1>2. pc = "pmm_init" /\ ~(pos + PAGE < stop) /\ pmm_stack' = pmm_stack
        /\ boot' = boot /\ heap' = heap /\ st' = st
    BY DEF multiboot_get_memory_area, procs
  <1>3. /\ heap = {} /\ DOMAIN pmm_stack = 1..Len(pmm_stack) /\ boot \in Loaders
        /\ \A j, k \in 1..Len(pmm_stack) : j < k => pmm_stack[j] < pmm_stack[k]
        /\ \A k \in 1..Len(pmm_stack) : pmm_stack[k] \in Frame /\ Spare(boot, pmm_stack[k])
    BY <1>2, BootHeld
  <1>4. \A p \in Proc : st[p] = "unused"
    BY <1>1, <1>2 DEF Scanning
  <1>5. i \in 0..Len(boot.areas) /\ Len(boot.areas) \in Nat /\ i \in Nat
        /\ mboot_data(boot).mmap_size = Len(boot.areas)
    BY <1>1, <1>2, <1>3, BootIs DEF Scanning
  <1>6. \A g \in Frame : \A j \in 1..i : Spare(boot, g) /\ InArea(j, g) =>
            \E k \in 1..Len(pmm_stack) : pmm_stack[k] = g
    BY <1>2, AreaScanned
  <1>7. \A g \in Frame : \A j : InArea(j, g)' <=> InArea(j, g)
    BY <1>2 DEF InArea
  <1>8. CASE i < Len(boot.areas)
    <2> DEFINE a == boot.areas[i + 1]
    <2>1. i' = i + 1 /\ pos' = a.start /\ stop' = a.end /\ pc' = "pmm_init"
      BY <1>2, <1>5, <1>8 DEF multiboot_get_memory_area
    <2>2. i + 1 \in 1..Len(boot.areas) /\ i + 1 # 0
      BY <1>5, <1>8
    <2>3. a.start \in Nat /\ a.end \in Nat /\ a.start <= a.end /\ (a.free => a.start % PAGE = 0)
      BY <1>3, <2>2, BootIs
    <2>4. \A k \in 1..Len(pmm_stack) : (pmm_stack[k] + 1) * PAGE <= a.start /\ (pmm_stack[k] + 1) * PAGE <= a.end
      <3> TAKE k \in 1..Len(pmm_stack)
      <3>1. i # 0
        <4>1. i = 0 => pmm_stack = <<>>
          BY <1>1, <1>2 DEF Scanning
        <4> QED BY <4>1
      <3>2. (pmm_stack[k] + 1) * PAGE <= boot.areas[i].end
        BY <1>1, <1>2, <1>3, <1>5, <3>1 DEF Scanning
      <3>3. i \in 1..Len(boot.areas) /\ i < i + 1
        BY <1>5, <3>1
      <3>4. boot.areas[i].end <= a.start /\ boot.areas[i].end \in Nat
        BY <1>3, <2>2, <3>3, BootIs
      <3>5. pmm_stack[k] + 1 \in Int
        BY <1>3, Numbers DEF Frame
      <3>6. (pmm_stack[k] + 1) * PAGE \in Int
        BY <3>5, NextTimes
      <3> QED BY <2>3, <3>2, <3>4, <3>6
    <2>5. ASSUME NEW g \in Frame, NEW j \in 1..(i + 1), Spare(boot, g), InArea(j, g),
                 j < i + 1 \/ g * PAGE < a.start
          PROVE  \E k \in 1..Len(pmm_stack) : pmm_stack[k] = g
      <3>1. j # i + 1
        <4> SUFFICES ASSUME j = i + 1 PROVE FALSE
          OBVIOUS
        <4>1. a.start <= g * PAGE
          BY <2>5 DEF InArea
        <4>2. g * PAGE < a.start
          BY <1>5, <2>5
        <4>3. g \in Int
          BY Numbers DEF Frame
        <4>4. g * PAGE \in Int
          BY <4>3, NextTimes
        <4> QED BY <2>3, <4>1, <4>2, <4>4
      <3>2. j \in 1..i
        BY <1>5, <3>1
      <3> QED BY <1>6, <2>5, <3>2
    <2>6. Scanning'
      <3>1. /\ heap' = {} /\ \A p \in Proc : st'[p] = "unused"
            /\ \A j, k \in DOMAIN pmm_stack' : j < k => pmm_stack'[j] < pmm_stack'[k]
            /\ \A k \in DOMAIN pmm_stack' : Spare(boot', pmm_stack'[k])
        BY <1>2, <1>3, <1>4
      <3>2. i' \in 0..Len(boot'.areas) /\ i' # 0 /\ pc' # "cpu_init"
        BY <1>2, <2>1, <2>2
      <3>3. /\ stop' = boot'.areas[i'].end /\ boot'.areas[i'].start <= pos'
            /\ boot'.areas[i'].free => pos' % PAGE = 0
        BY <1>2, <2>1, <2>3
      <3>4. \A k \in DOMAIN pmm_stack' :
                (pmm_stack'[k] + 1) * PAGE <= pos' /\ (pmm_stack'[k] + 1) * PAGE <= stop'
        BY <1>2, <1>3, <2>1, <2>4
      <3>5. \A g \in Frame : \A j \in 1..i' :
            Spare(boot', g) /\ InArea(j, g)' /\ (j < i' \/ g * PAGE < pos')
                => \E k \in DOMAIN pmm_stack' : pmm_stack'[k] = g
        BY <1>2, <1>3, <1>7, <2>1, <2>5
      <3> QED BY <3>1, <3>2, <3>3, <3>4, <3>5 DEF Scanning
    <2>7. Kept'
      BY <2>1 DEF Kept
    <2> QED BY <2>6, <2>7
  <1>9. CASE ~(i < Len(boot.areas))
    <2>1. pc' = "cpu_init" /\ i = Len(boot.areas)
      BY <1>5, <1>9 DEF multiboot_get_memory_area
    <2>2. ASSUME NEW g \in Frame, Spare(boot, g)
          PROVE  \E k \in DOMAIN pmm_stack : pmm_stack[k] = g
      <3>1. PICK j \in DOMAIN boot.areas : boot.areas[j].free /\ boot.areas[j].start <= g * PAGE
                    /\ (g + 1) * PAGE <= boot.areas[j].end
        BY <2>2 DEF Spare, Taken
      <3>2. j \in 1..i /\ InArea(j, g)
        BY <1>3, <2>1, <3>1, BootIs DEF InArea
      <3> QED BY <1>3, <1>6, <2>2, <3>2
    <2>3. Scanning'
      BY <1>2, <1>3, <1>4, <2>1, <2>2 DEF Scanning
    <2>4. Kept'
      BY <2>1 DEF Kept
    <2> QED BY <2>3, <2>4
  <1> QED BY <1>8, <1>9

(***************************************************************************)
(* cpu_init keeps the frames from the trampoline's on: the stack has them  *)
(* in ascending order, so those that it loses lie below.                   *)
(***************************************************************************)
LEMMA CpuStep ==
    ASSUME IInv, cpu_init, ~Halt
    PROVE  FrameTypes' /\ Distinct' /\ Sound' /\ Kept'
  <1> DEFINE n == Len(pmm_stack)
             bottom == {k \in 1..n : pmm_stack[k] = Trampoline}
             lost   == IF bottom = {} THEN 0 ELSE (CHOOSE k \in bottom : TRUE) - 1
             m == n - Levels - 1 - lost
  <1>1. TypeOK /\ Scanning /\ Sound
    BY DEF IInv
  <1>2. /\ pc = "cpu_init" /\ ~(n <= Levels) /\ (\A k \in bottom : ~(k >= n - Levels))
        /\ pmm_stack' = Append(SubSeq(pmm_stack, lost + 1, n - Levels - 1), pmm_stack[n])
        /\ heap' = {pmm_stack[k] : k \in (n - Levels)..(n - 1)}
        /\ entry' = entry /\ hand' = hand /\ boot' = boot
    BY DEF cpu_init, Return, procs
  <1>3. /\ FrameTypes /\ heap = {} /\ hand = Null /\ \A x \in Slot : entry[x] = Null
        /\ boot \in Loaders /\ n \in Nat /\ DOMAIN pmm_stack = 1..n
        /\ \A j, k \in 1..n : j < k => pmm_stack[j] < pmm_stack[k]
        /\ \A k \in 1..n : pmm_stack[k] \in Frame /\ Spare(boot, pmm_stack[k])
    BY <1>2, BootHeld
  <1>4. Levels \in Nat /\ n > Levels /\ n >= 1
    BY <1>2, <1>3, Numbers
  <1>5. /\ lost \in Nat /\ lost < n - Levels
        /\ Spare(boot, Trampoline) => lost + 1 \in 1..n /\ pmm_stack[lost + 1] = Trampoline
        /\ ~Spare(boot, Trampoline) => lost = 0
    <2>1. CASE bottom = {}
      <3>1. ~Spare(boot, Trampoline)
        <4> SUFFICES ASSUME Spare(boot, Trampoline) PROVE FALSE
          OBVIOUS
        <4>1. Trampoline \in Frame
          BY MemoryAssumption
        <4>2. \E k \in 1..n : pmm_stack[k] = Trampoline
          BY <1>1, <1>2, <1>3, <4>1 DEF Scanning
        <4> QED BY <2>1, <4>2
      <3>2. lost = 0
        BY <2>1
      <3> HIDE DEF lost, bottom
      <3> QED BY <1>3, <1>4, <3>1, <3>2
    <2>2. CASE bottom # {}
      <3>1. PICK k : k = (CHOOSE x \in bottom : TRUE)
        OBVIOUS
      <3>2. k \in bottom
        BY <2>2, <3>1
      <3>3. k \in 1..n /\ pmm_stack[k] = Trampoline /\ ~(k >= n - Levels)
        BY <1>2, <3>2
      <3>4. lost = k - 1
        BY <2>2, <3>1
      <3>5. Spare(boot, Trampoline)
        BY <1>3, <3>3
      <3> HIDE DEF lost, bottom
      <3>6. lost + 1 = k
        BY <3>3, <3>4
      <3> QED BY <1>3, <1>4, <3>3, <3>4, <3>5, <3>6
    <2> QED BY <2>1, <2>2
  <1> HIDE DEF bottom, lost, n
  <1>6. m \in Nat /\ n - Levels - 1 \in Nat /\ lost + m = n - Levels - 1 /\ n - Levels - 1 <= n
    BY <1>3, <1>4, <1>5
  <1>7. /\ pmm_stack' \in Seq(Frame) /\ Len(pmm_stack') = m + 1
        /\ \A k \in 1..m : pmm_stack'[k] = pmm_stack[lost + k]
        /\ pmm_stack'[m + 1] = pmm_stack[n]
    <2>1. pmm_stack \in Seq(Frame)
      BY <1>3 DEF FrameTypes
    <2> DEFINE s == SubSeq(pmm_stack, lost + 1, n - Levels - 1)
    <2>2. /\ s \in Seq(Frame) /\ Len(s) = m
          /\ \A k \in 1..m : s[k] = pmm_stack[lost + k]
      <3>1. \A k \in (lost + 1)..(n - Levels - 1) : k \in 1..n
        BY <1>3, <1>4, <1>5
      <3>2. lost + 1 \in Nat /\ Len(pmm_stack) = n
        BY <1>5 DEF n
      <3>3. s = [k \in 1..m |-> pmm_stack[k + (lost + 1) - 1]]
        BY <1>4, <1>5, <1>6, <2>1, <3>2 DEF m
      <3>4. \A k \in 1..m : k + (lost + 1) - 1 = lost + k /\ lost + k \in 1..n
        BY <1>3, <1>4, <1>5, <1>6
      <3>5. s \in [1..m -> Frame] /\ \A k \in 1..m : s[k] = pmm_stack[lost + k]
        BY <1>3, <3>3, <3>4
      <3>6. m \in Nat
        BY <1>6
      <3> HIDE DEF s, m
      <3> QED BY <3>5, <3>6
    <2> HIDE DEF s
    <2>3. pmm_stack[n] \in Frame
      BY <1>3, <1>4
    <2>4. pmm_stack' = Append(s, pmm_stack[n])
      BY <1>2 DEF s
    <2> HIDE DEF m
    <2> QED BY <1>6, <2>2, <2>3, <2>4
  <1> HIDE DEF m
  <1>8. heap' \subseteq Frame
    <2>1. \A k \in (n - Levels)..(n - 1) : k \in 1..n
      BY <1>3, <1>4
    <2> QED BY <1>2, <1>3, <2>1
  <1>9. FrameTypes'
    BY <1>2, <1>3, <1>7, <1>8 DEF FrameTypes
  (* each place of the new stack has a place of the old one *)
  <1> DEFINE Old(k) == IF k = m + 1 THEN n ELSE lost + k
  <1>10. \A k \in 1..(m + 1) : /\ Old(k) \in 1..n /\ pmm_stack'[k] = pmm_stack[Old(k)]
                               /\ Old(k) \notin (n - Levels)..(n - 1)
    BY <1>3, <1>4, <1>5, <1>6, <1>7
  <1>11. \A j, k \in 1..(m + 1) : Old(j) = Old(k) => j = k
    BY <1>3, <1>4, <1>5, <1>6
  <1>12. \A j, k \in 1..n : pmm_stack[j] = pmm_stack[k] => j = k
    <2> SUFFICES ASSUME NEW j \in 1..n, NEW k \in 1..n, j < k PROVE pmm_stack[j] # pmm_stack[k]
      BY <1>3
    <2>1. pmm_stack[j] \in Nat /\ pmm_stack[k] \in Nat
      BY <1>3, Numbers DEF Frame
    <2> QED BY <1>3, <2>1
  <1> HIDE DEF Old
  <1>13. DOMAIN pmm_stack' = 1..(m + 1)
    BY <1>6, <1>7
  <1>14. Distinct'
    <2>1. \A j, k \in 1..(m + 1) : pmm_stack'[j] = pmm_stack'[k] => j = k
      BY <1>10, <1>11, <1>12
    <2>2. \A k \in 1..(m + 1) : pmm_stack'[k] \notin heap'
      <3> SUFFICES ASSUME NEW k \in 1..(m + 1), pmm_stack'[k] \in heap' PROVE FALSE
        OBVIOUS
      <3>1. PICK x \in (n - Levels)..(n - 1) : pmm_stack'[k] = pmm_stack[x]
        BY <1>2
      <3>2. x \in 1..n
        BY <1>3, <1>4
      <3>3. x = Old(k)
        BY <1>10, <1>12, <3>1, <3>2
      <3> QED BY <1>10, <3>1, <3>3
    <2>3. \A k \in 1..(m + 1) : pmm_stack'[k] # Null
      BY <1>3, <1>10, NullApart
    <2>4. Null \notin heap'
      BY <1>8, NullApart
    <2> QED BY <1>2, <1>3, <1>13, <2>1, <2>2, <2>3, <2>4 DEF Distinct
  <1>15. ASSUME NEW f
         PROVE  f \in Held' <=> (\E k \in 1..(m + 1) : pmm_stack'[k] = f) \/ f \in heap'
    <2>1. f \in Stacked' <=> \E k \in 1..(m + 1) : pmm_stack'[k] = f
      BY <1>13 DEF Stacked
    <2>2. f \notin Entered' /\ f \notin InHand'
      BY <1>2, <1>3 DEF Entered, Used, InHand, Slot
    <2> QED BY <2>1, <2>2 DEF Held
  <1>16. Sound'
    <2> SUFFICES ASSUME NEW f \in Held' PROVE ~Taken(boot, f)
      BY <1>2 DEF Sound
    <2>1. \E k \in 1..n : pmm_stack[k] = f
      <3>1. CASE \E k \in 1..(m + 1) : pmm_stack'[k] = f
        BY <1>10, <3>1
      <3>2. CASE f \in heap'
        <4>1. \A k \in (n - Levels)..(n - 1) : k \in 1..n
          BY <1>3, <1>4
        <4> QED BY <1>2, <3>2, <4>1
      <3> QED BY <1>15, <3>1, <3>2
    <2> QED BY <1>3, <2>1 DEF Spare
  <1>17. ASSUME NEW f \in SpareFrames[boot]
         PROVE  f \in Held'
    <2>1. f \in Frame /\ Spare(boot, f) /\ f \notin LostFrames(boot)
      BY <1>3 DEF SpareFrames
    <2>2. PICK k \in 1..n : pmm_stack[k] = f
      BY <1>1, <1>2, <1>3, <2>1 DEF Scanning
    <2>3. k > lost
      <3>1. CASE ~Spare(boot, Trampoline)
        BY <1>5, <3>1
      <3>2. CASE Spare(boot, Trampoline)
        <4>1. f \in Nat /\ Trampoline \in Nat
          BY <2>1, MemoryAssumption, Numbers DEF Frame
        <4>2. ~(f < Trampoline)
          BY <2>1, <3>2, <4>1 DEF LostFrames
        <4>3. lost + 1 \in 1..n /\ pmm_stack[lost + 1] = Trampoline
          BY <1>5, <3>2
        <4>4. k < lost + 1 => pmm_stack[k] < pmm_stack[lost + 1]
          BY <1>3, <4>3
        <4> QED BY <1>5, <2>2, <4>2, <4>3, <4>4
      <3> QED BY <3>1, <3>2
    <2>4. CASE k \in (n - Levels)..(n - 1)
      BY <1>2, <1>15, <2>2, <2>4
    <2>5. CASE k = n
      <3>1. m + 1 \in 1..(m + 1) /\ pmm_stack'[m + 1] = f
        BY <1>6, <1>7, <2>2, <2>5
      <3> QED BY <1>15, <3>1
    <2>6. CASE k < n - Levels
      <3>1. k - lost \in 1..m /\ lost + (k - lost) = k /\ k - lost \in 1..(m + 1)
        BY <1>3, <1>4, <1>5, <1>6, <2>3, <2>6
      <3>2. pmm_stack'[k - lost] = f
        BY <1>7, <2>2, <3>1
      <3> QED BY <1>15, <3>1, <3>2
    <2> QED BY <1>3, <1>4, <2>4, <2>5, <2>6
  <1>18. Kept'
    BY <1>2, <1>17 DEF Kept
  <1> QED BY <1>9, <1>14, <1>16, <1>18

(* A frame keeps its one use, and none is lost, in every step. *)
LEMMA FrameStep ==
    ASSUME IInv, Go
    PROVE  FrameTypes' /\ Distinct' /\ Sound' /\ Kept' /\ Scanning'
  <1>1. CASE ScanPmm
    BY <1>1, ScanPage
  <1>2. CASE cpu_init
    <2>1. FrameTypes' /\ Distinct' /\ Sound' /\ Kept'
      BY <1>2, CpuStep DEF Go
    <2>2. pc' = "idle"
      BY <1>2 DEF Go, cpu_init, Return
    <2>3. Scanning'
      BY <2>2 DEF Scanning
    <2> QED BY <2>1, <2>3
  <1>3. CASE multiboot_get_memory_area
    <2>1. ~ScanPmm /\ ~cpu_init
      BY <1>3 DEF multiboot_get_memory_area, ScanPmm, cpu_init
    <2> QED BY <1>3, <2>1, MoveStepKeeps, ScanArea
  <1>4. CASE ~ScanPmm /\ ~cpu_init /\ ~multiboot_get_memory_area
    <2>1. FrameTypes' /\ Distinct' /\ Sound' /\ Held' = Held /\ boot' = boot
      BY <1>4, MoveStepKeeps, GoProcs
    <2>2. pc \notin {"pmm_init", "cpu_init"} /\ pc' \notin {"pmm_init", "cpu_init"}
      BY <1>4, GoPc
    <2>3. Scanning'
      BY <2>2 DEF Scanning
    <2>4. Kept'
      BY <2>1, <2>2 DEF IInv, Kept
    <2> QED BY <2>1, <2>3, <2>4
  <1> QED BY <1>1, <1>2, <1>3, <1>4

(* The type invariant is kept. *)
LEMMA TypeStep ==
    ASSUME IInv, Go
    PROVE  TypeOK'
  BY FrameStep, ListTypeStep, ProcTypeStep, CallTypeStep, DataTypeStep, TypePartsNext

-----------------------------------------------------------------------------
(* The call under way *)


(* After a return CallOK holds. *)
LEMMA ReturnOK ==
    ASSUME CallOK, Return, pc # "table"
    PROVE  CallOK'
  BY DEF CallOK, Return

(* Calls are kept in order. *)
LEMMA CallStep ==
    ASSUME IInv, Go
    PROVE  CallOK'
  <1>1. TypeOK /\ CallOK /\ Lists /\ Children /\ InitAreas /\ ExecAreas /\ ForkAreas
    BY DEF IInv
  <1>2. InitProc \in Proc /\ InitProc # Null /\ TOP \in Nat
    BY MemoryAssumption, NullApart, Numbers
  <1>3. CASE multiboot_get_memory_area
    BY <1>1, <1>3 DEF multiboot_get_memory_area, CallOK, procs, list
  <1>4. CASE ScanPmm
    BY <1>1, <1>4 DEF ScanPmm, CallOK, procs, list
  <1>5. CASE cpu_init \/ exec_elf \/ procmm_new_map \/ GrowDone \/ MapFreed
    <2>1. Return /\ pc # "table"
      BY <1>5 DEF Go, cpu_init, exec_elf, procmm_new_map, GrowDone, MapFreed
    <2> QED BY <1>1, <2>1, ReturnOK
  <1>6. CASE procmm_map
    <2>1. MapStep /\ pc = "area" /\ task \in {"exec", "fork"} /\ i \in 1..Len(Plan)
      BY <1>6, MapIs
    <2>2. Plan[i].end <= TOP
      BY <1>1, <2>1, PlanItem
    <2> QED BY <1>1, <2>1, <2>2 DEF MapStep, CallOK
  <1>7. CASE AllocPage
    <2>1. Top # Null
      <3>1. pmm_stack \in Seq(Frame) /\ Popped
        BY <1>1, <1>7 DEF Go, AllocPage, Popped, TypeOK
      <3>2. Top \in Frame
        BY <3>1, PopIs
      <3> QED BY <3>2, NullApart
    <2> QED BY <1>1, <1>7, <2>1 DEF Go, AllocPage, CallOK, procs, list
  <1>8. CASE vmm_find_page
    <2>1. UNCHANGED <<list, procs, call>>
      BY <1>8 DEF Go, vmm_find_page
    <2> QED BY <1>1, <2>1 DEF CallOK, procs, list, call
  <1>9. CASE vmm_set_page
    BY <1>1, <1>9 DEF vmm_set_page, CallOK, procs, list
  <1>10. CASE FillArea
    BY <1>1, <1>10 DEF FillArea, CallOK, procs, list
  <1>11. CASE procmm_free_map
    <2>1. pc = "area" /\ task = "wait" /\ areas' = areas /\ st' = st /\ task' = task /\ cur' = cur
          /\ from' = from /\ hand' = hand
      BY <1>11 DEF procmm_free_map, list, procs
    <2>2. cur \in Proc
      BY <1>1, <2>1, CurIs
    <2>3. areas[cur] # <<>> => Head(areas[cur]) = areas[cur][1]
      BY <1>1, <2>2, ListTypes
    <2> QED BY <1>1, <1>11, <2>1, <2>3 DEF procmm_free_map, CallOK
  <1>12. CASE procmm_unmap
    BY <1>1, <1>12 DEF procmm_unmap, CallOK, procs, list
  <1>13. CASE AreaRemoved
    BY <1>1, <1>13 DEF AreaRemoved, CallOK, procs
  <1>14. CASE vmm_free_P4
    BY <1>1, <1>14 DEF vmm_free_P4, CallOK, procs, list, call
  <1>15. CASE kmain
    <2>1. /\ pc = "idle" /\ st[InitProc] = "unused" /\ st' = st
          /\ Begin("area", "exec", InitProc, Null, 0, 0)
      BY <1>15 DEF Go, kmain, procs, Idle
    <2> QED BY <1>1, <1>2, <2>1 DEF CallOK, Begin
  <1>16. CASE ksbrk
    BY <1>1, <1>16 DEF Go, ksbrk, CallOK, procs, list, call
  <1>17. CASE Grow
    <2>1. PICK p \in Proc : \/ \E addr \in Ends : procmm_resize(p, addr)
                            \/ \E g \in Touched : procmm_page_fault(p, g)
      BY <1>17 DEF Grow
    <2>2. GrowStep
      BY <1>17, ResizeIs, FaultIs DEF Grow, Go
    <2>3. StackArea.start <= TOP
      BY <1>1, <2>2, InitTypes DEF GrowStep
    <2>4. stop' <= TOP
      <3>1. CASE \E addr \in Ends : procmm_resize(p, addr)
        <4>1. PICK addr \in Ends : procmm_resize(p, addr)
          BY <3>1
        <4>2. brk[p] # 0 /\ ~(addr <= areas[p][brk[p]].end) /\ Runs(p) /\ stop' = BrkTo(addr)
          BY <4>1, ResizeIs DEF Go
        <4>3. BrkTo(addr) <= TOP
          BY <1>1, <4>2, BrkGrows
        <4> QED BY <4>2, <4>3
      <3>2. CASE \E g \in Touched : procmm_page_fault(p, g)
        BY <2>3, <3>2, FaultIs DEF Go
      <3> QED BY <2>1, <3>1, <3>2
    <2>5. hand' = Null
      BY <1>1, <2>2 DEF GrowStep, CallOK
    <2> QED BY <1>2, <2>2, <2>4, <2>5 DEF GrowStep, CallOK
  <1>18. CASE Stores
    BY <1>1, <1>18 DEF Stores, Store, Runs, Idle, CallOK, procs, list, call
  <1>19. CASE Exits
    BY <1>1, <1>19 DEF Exits, exit, Runs, Idle, CallOK, list, call
  <1>20. CASE Forks
    <2>1. PICK p \in Proc, q \in Proc : fork(p, q)
      BY <1>20 DEF Forks
    <2>2. /\ pc = "idle" /\ st[p] = "alive" /\ st[q] = "unused" /\ q # InitProc /\ st' = st
          /\ Begin("area", "fork", q, p, 0, 0)
      BY <2>1 DEF Go, fork, Runs, Idle
    <2>3. p # q
      BY <2>2
    <2> QED BY <1>1, <2>2, <2>3 DEF CallOK, Begin
  <1>21. CASE Waits
    <2>1. PICK q \in Proc : process_free(q)
      BY <1>21 DEF Waits
    <2>2. /\ pc = "idle" /\ st[q] = "zombie" /\ q # InitProc /\ st' = st
          /\ Begin("area", "wait", q, Null, 0, 0)
      BY <2>1 DEF process_free, Idle, procs
    <2> QED BY <1>1, <2>2 DEF CallOK, Begin
  <1> QED BY <1>3, <1>4, <1>5, <1>6, <1>7, <1>8, <1>9, <1>10, <1>11, <1>12, <1>13, <1>14, <1>15, <1>16,
            <1>17, <1>18, <1>19, <1>20, <1>21, GoIs

-----------------------------------------------------------------------------
(* A step changes the map of one process *)

(* Which steps change entries. *)
LEMMA GoEntry ==
    ASSUME Go, ~vmm_find_page, ~vmm_set_page, ~procmm_unmap, ~vmm_free_P4, ~kmain, ~Forks
    PROVE  entry' = entry
  <1>1. CASE multiboot_get_memory_area \/ ScanPmm \/ cpu_init \/ ksbrk \/ Grow
    BY <1>1 DEF Go, multiboot_get_memory_area, ScanPmm, cpu_init, ksbrk, Grow, procmm_resize, Undefined, procmm_page_fault
  <1>2. CASE procmm_map \/ AllocPage \/ FillArea \/ exec_elf \/ procmm_new_map \/ GrowDone
    BY <1>2 DEF Go, procmm_map, AllocPage, FillArea, exec_elf, procmm_new_map, GrowDone
  <1>3. CASE procmm_free_map \/ AreaRemoved \/ MapFreed
    BY <1>3 DEF procmm_free_map, AreaRemoved, MapFreed
  <1>4. CASE Stores \/ Exits \/ Waits
    BY <1>4 DEF Stores, Store, Exits, exit, Waits, process_free
  <1> QED BY <1>1, <1>2, <1>3, <1>4, GoIs

(* The entries that change are those of the process at hand. *)
LEMMA OtherEntries ==
    ASSUME IInv, Go, NEW p \in Proc, p # cur
    PROVE  /\ p # cur' => \A n \in Node : entry'[<<p, n>>] = entry[<<p, n>>]
           /\ \A n \in Node : n # P4 => entry'[<<p, n>>] = entry[<<p, n>>]
  <1>1. entry \in [Proc \X Node -> Frame \cup {Null}]
    BY DEF IInv, TypeOK
  <1>2. CASE vmm_find_page \/ vmm_set_page \/ procmm_unmap \/ vmm_free_P4
    <2>1. PICK m, v : entry' = [entry EXCEPT ![<<cur, m>>] = v]
      <3>1. CASE vmm_find_page
        BY <3>1 DEF Go, vmm_find_page
      <3>2. CASE vmm_set_page
        BY <3>2 DEF vmm_set_page
      <3>3. CASE procmm_unmap
        BY <3>3 DEF procmm_unmap
      <3>4. CASE vmm_free_P4
        BY <3>4 DEF vmm_free_P4
      <3> QED BY <1>2, <3>1, <3>2, <3>3, <3>4
    <2> QED BY <1>1, <2>1
  <1>3. CASE kmain
    BY <1>1, <1>3 DEF Go, kmain, Begin
  <1>4. CASE Forks
    BY <1>1, <1>4 DEF Go, Forks, fork, Begin
  <1>5. CASE entry' = entry
    BY <1>5
  <1> QED BY <1>2, <1>3, <1>4, <1>5, GoEntry

(* P4 is neither a page nor one of the tables below it. *)
LEMMA P4Apart ==
    ASSUME NEW g \in Page
    PROVE  /\ PageEntry(g) # P4 /\ PageEntry(g) \in Node
           /\ \A l \in 1..Levels : TableEntry(l, g) # P4 /\ TableEntry(l, g) # PageEntry(g)
                /\ TableEntry(l, g) \in Node
  <1>1. PageEntry(g) \in Node /\ \A l \in 1..Levels : TableEntry(l, g) \in Node
    BY DEF Node
  <1>2. Levels \in Nat /\ Levels + 1 # 0 /\ \A l \in 1..Levels : l # Levels + 1 /\ l # 0
    BY Numbers
  <1>3. PageEntry(g) # P4
    BY <1>2 DEF PageEntry, P4
  <1>4. \A l \in 1..Levels : TableEntry(l, g) # P4 /\ TableEntry(l, g) # PageEntry(g)
    BY <1>2 DEF PageEntry, P4, TableEntry
  <1> QED BY <1>1, <1>3, <1>4

(* A step leaves the pages and tables of other processes alone. *)
LEMMA OtherPages ==
    ASSUME IInv, Go, NEW p \in Proc, p # cur, NEW g \in Page
    PROVE  /\ PageOf(p, g)' = PageOf(p, g)
           /\ \A l \in 1..Levels : entry'[<<p, TableEntry(l, g)>>] = entry[<<p, TableEntry(l, g)>>]
  <1>1. \A n \in Node : n # P4 => entry'[<<p, n>>] = entry[<<p, n>>]
    BY OtherEntries
  <1> QED BY <1>1, P4Apart DEF PageOf

(* A step leaves the areas of other processes alone. *)
LEMMA OtherAreas ==
    ASSUME IInv, Go, NEW p \in Proc, p # cur, p # cur'
    PROVE  areas'[p] = areas[p] /\ brk'[p] = brk[p] /\ stack'[p] = stack[p]
  <1>1. TypeOK /\ CallOK /\ Lists /\ Children /\ InitAreas
    BY DEF IInv
  <1>2. areas \in [Proc -> Seq(Area)] /\ brk \in [Proc -> Nat] /\ stack \in [Proc -> Nat]
    BY <1>1, TypeParts DEF ListType
  <1>3. CASE procmm_map
    <2>1. CASE Refused
      BY <2>1 DEF Refused
    <2>2. CASE Mapped
      BY <1>2, <1>3, <2>2, AppendedIs, MapMarks DEF Mapped
    <2> QED BY <1>3, <2>1, <2>2, MapIs
  <1>4. CASE Grow
    <2>1. \E k, a : Resized(InitProc, k, a) /\ GrowStep
      BY <1>4, ResizeIs, FaultIs DEF Grow, Go
    <2> QED BY <1>2, <2>1 DEF Resized, GrowStep
  <1>5. CASE AreaRemoved
    BY <1>2, <1>5 DEF AreaRemoved
  <1>6. CASE MapFreed
    BY <1>2, <1>6 DEF MapFreed
  <1> QED BY <1>3, <1>4, <1>5, <1>6, GoList

(* When a call begins, the process it is about has its areas still. *)
LEMMA CurChanges ==
    ASSUME IInv, Go, cur' # cur
    PROVE  \/ pc = "idle" /\ cur = Null /\ (Grow \/ (areas' = areas /\ brk' = brk /\ stack' = stack))
           \/ cur' = Null /\ (cpu_init \/ exec_elf \/ procmm_new_map \/ GrowDone \/ MapFreed)
  <1>1. TypeOK /\ CallOK
    BY DEF IInv
  <1>2. CASE cpu_init \/ exec_elf \/ procmm_new_map \/ GrowDone \/ MapFreed
    BY <1>2 DEF Go, cpu_init, exec_elf, procmm_new_map, GrowDone, MapFreed, Return
  <1>3. CASE multiboot_get_memory_area \/ ScanPmm \/ procmm_map \/ AllocPage \/ vmm_find_page
            \/ vmm_set_page \/ FillArea
    BY <1>3 DEF Go, multiboot_get_memory_area, ScanPmm, procmm_map, AllocPage, vmm_find_page,
        vmm_set_page, FillArea, call
  <1>4. CASE procmm_free_map \/ procmm_unmap \/ AreaRemoved \/ vmm_free_P4 \/ ksbrk \/ Stores \/ Exits
    BY <1>4 DEF Go, procmm_free_map, procmm_unmap, AreaRemoved, vmm_free_P4, ksbrk, Stores, Store,
        Exits, exit, call
  <1>5. CASE kmain \/ Forks \/ Waits
    BY <1>1, <1>5 DEF Go, kmain, Forks, fork, Waits, process_free, Runs, Idle, list, CallOK
  <1>6. CASE Grow
    BY <1>1, <1>6 DEF Grow, procmm_resize, Undefined, procmm_page_fault, Runs, Idle, CallOK
  <1> QED BY <1>2, <1>3, <1>4, <1>5, <1>6, GoIs

(* Slots that nobody uses stay empty. *)
LEMMA VacantStep ==
    ASSUME IInv, Go
    PROVE  Vacant'
  <1>1. TypeOK /\ CallOK /\ Vacant
    BY DEF IInv
  <1>2. SUFFICES ASSUME NEW p \in Proc, st'[p] = "unused", p # cur'
                 PROVE  areas'[p] = <<>> /\ brk'[p] = 0 /\ stack'[p] = 0 /\ \A n \in Node : entry'[<<p, n>>] = Null
    BY DEF Vacant
  <1>3. st \in [Proc -> {"unused", "alive", "zombie"}] /\ brk \in [Proc -> Nat] /\ stack \in [Proc -> Nat]
    BY <1>1 DEF TypeOK
  <1>4. CASE p = cur
    <2>1. cur' = Null /\ (cpu_init \/ exec_elf \/ procmm_new_map \/ GrowDone \/ MapFreed)
      BY <1>2, <1>4, CurChanges, NullApart
    <2>2. ~cpu_init
      BY <1>1, <1>4, NullApart DEF cpu_init, CallOK
    <2>3. ~exec_elf /\ ~procmm_new_map
      BY <1>2, <1>3, <1>4 DEF exec_elf, procmm_new_map
    <2>4. ~GrowDone
      BY <1>1, <1>2, <1>4 DEF GrowDone, CallOK, procs
    <2>5. MapFreed
      BY <2>1, <2>2, <2>3, <2>4
    <2>6. /\ pc = "free_P4" /\ areas' = areas /\ brk' = [brk EXCEPT ![cur] = 0] /\ stack' = [stack EXCEPT ![cur] = 0]
          /\ entry' = entry /\ \A n \in Node : entry[<<cur, n>>] = Null
      BY <2>5 DEF MapFreed
    <2> QED BY <1>1, <1>3, <1>4, <2>6 DEF CallOK
  <1>5. CASE p # cur
    <2>1. areas'[p] = areas[p] /\ brk'[p] = brk[p] /\ stack'[p] = stack[p]
          /\ \A n \in Node : entry'[<<p, n>>] = entry[<<p, n>>]
      BY <1>2, <1>5, OtherAreas, OtherEntries
    <2>2. st[p] = "unused"
      <3>1. CASE exec_elf \/ procmm_new_map \/ MapFreed
        BY <1>2, <1>3, <1>5, <3>1 DEF exec_elf, procmm_new_map, MapFreed
      <3>2. CASE Exits
        BY <1>2, <1>3, <3>2 DEF Exits, exit
      <3>3. CASE st' = st
        BY <1>2, <3>3
      <3> QED BY <3>1, <3>2, <3>3, GoProcs
    <2> QED BY <1>1, <1>5, <2>1, <2>2 DEF Vacant
  <1> QED BY <1>4, <1>5

-----------------------------------------------------------------------------
(* Lists of areas *)

(* Which steps belong to exec or fork. *)
LEMMA GoTask ==
    ASSUME IInv, Go, task' \in {"exec", "fork"}
    PROVE  \/ kmain /\ task' = "exec"
           \/ Forks /\ task' = "fork"
           \/ /\ task' = task /\ cur' = cur /\ from' = from
              /\ procmm_map \/ AllocPage \/ vmm_find_page \/ vmm_set_page \/ FillArea
  <1>1. CallOK
    BY DEF IInv
  <1>2. CASE multiboot_get_memory_area \/ ScanPmm \/ cpu_init \/ ksbrk \/ Grow
    BY <1>1, <1>2 DEF Go, multiboot_get_memory_area, ScanPmm, cpu_init, ksbrk, Grow, procmm_resize, Undefined,
        procmm_page_fault, Begin, Return, Idle, call, CallOK
  <1>3. CASE procmm_map \/ AllocPage \/ vmm_find_page \/ vmm_set_page \/ FillArea
    BY <1>3 DEF Go, procmm_map, AllocPage, vmm_find_page, vmm_set_page, FillArea, call
  <1>4. CASE exec_elf \/ procmm_new_map \/ GrowDone \/ MapFreed
    BY <1>4 DEF exec_elf, procmm_new_map, GrowDone, MapFreed, Return
  <1>5. CASE procmm_free_map \/ procmm_unmap \/ AreaRemoved \/ vmm_free_P4
    BY <1>1, <1>5 DEF procmm_free_map, procmm_unmap, AreaRemoved, vmm_free_P4, call, CallOK
  <1>6. CASE Stores \/ Exits \/ Waits
    BY <1>1, <1>6 DEF Stores, Store, Exits, exit, Waits, process_free, Begin, Runs, Idle, call, CallOK
  <1>7. CASE kmain \/ Forks
    BY <1>7 DEF Go, kmain, Forks, fork, Begin
  <1> QED BY <1>2, <1>3, <1>4, <1>5, <1>6, <1>7, GoIs

(* What exec or fork has mapped comes earlier in the plan. *)
LEMMA Earlier ==
    ASSUME IInv, pc = "area", task \in {"exec", "fork"}, i \in 1..Len(Plan), NEW k \in 1..Len(areas[cur])
    PROVE  /\ \E j \in 1..Len(Plan) : j < i /\ areas[cur][k] = Plan[j]
           /\ Pair(areas[cur][k], Plan[i])
           /\ ~Overlaps(areas[cur][k], Plan[i].start, Plan[i].end) =>
                areas[cur][k].end < Plan[i].start /\ Apart(areas[cur][k], Plan[i])
           /\ task = "exec" => ~Overlaps(areas[cur][k], Plan[i].start, Plan[i].end)
  <1>1. TypeOK /\ CallOK /\ Lists /\ ExecAreas /\ ForkAreas
    BY DEF IInv
  <1>2. cur \in Proc
    BY <1>1, CurIs
  <1>3. DOMAIN areas[cur] = 1..Len(areas[cur]) /\ areas[cur][k].start \in Nat /\ areas[cur][k].end \in Nat
    BY <1>1, <1>2, ListTypes
  <1>4. \E j \in 1..Len(Plan) : j < i /\ areas[cur][k] = Plan[j]
    <2>1. CASE task = "exec"
      <3>1. Plan = ExecPlan /\ Len(Plan) = N + 2 /\ N \in Nat /\ cur = InitProc
        BY <1>1, <2>1, PlanIs, ImageFacts, CurIs DEF Plan
      <3>2. Len(areas[InitProc]) = i - 1 /\ areas[InitProc][k] = ExecPlan[k]
        BY <1>1, <2>1, <3>1 DEF ExecAreas, ImageArea
      <3>3. k \in 1..Len(Plan) /\ k < i
        BY <3>1, <3>2
      <3> QED BY <3>1, <3>2, <3>3
    <2>2. CASE task = "fork"
      <3>1. Plan = areas[from] /\ from \in Proc
        BY <1>1, <2>2, CurIs DEF Plan
      <3>2. DOMAIN areas[from] = 1..Len(areas[from])
        BY <1>1, <3>1, ListTypes
      <3>3. \E j \in DOMAIN areas[from] : areas[cur][k] = areas[from][j] /\ j < i
        BY <1>1, <1>3, <2>2 DEF ForkAreas
      <3> QED BY <3>1, <3>2, <3>3
    <2> QED BY <2>1, <2>2
  <1>5. PICK j \in 1..Len(Plan) : j < i /\ areas[cur][k] = Plan[j]
    BY <1>4
  <1>6. /\ Pair(Plan[j], Plan[i]) /\ Plan[i].start \in Nat /\ Plan[i].end \in Nat
        /\ Plan[i].start <= Plan[i].end
    BY <1>1, <1>5, PlanItem
  <1>7. areas[cur][k].start < Plan[i].start
    BY <1>5, <1>6 DEF Pair
  <1>8. ASSUME ~Overlaps(areas[cur][k], Plan[i].start, Plan[i].end)
        PROVE  areas[cur][k].end < Plan[i].start /\ Apart(areas[cur][k], Plan[i])
    <2>1. areas[cur][k].end < Plan[i].start
      BY <1>3, <1>6, <1>7, <1>8 DEF Overlaps
    <2> QED BY <1>5, <1>6, <2>1 DEF Pair
  <1>9. ASSUME task = "exec"
        PROVE  ~Overlaps(areas[cur][k], Plan[i].start, Plan[i].end)
    <2>1. Plan = ExecPlan /\ Len(Plan) = N + 2
      BY <1>9, PlanIs DEF Plan
    <2>2. ExecPlan[j].end < ExecPlan[i].start
      BY <1>5, <2>1, PlanApart
    <2> QED BY <1>5, <2>1, <2>2 DEF Overlaps
  <1> QED BY <1>4, <1>5, <1>6, <1>8, <1>9

(* What brk and the stack become when they grow. *)
LEMMA GrowIs ==
    ASSUME IInv, Go, Grow
    PROVE  /\ GrowStep /\ st[InitProc] # "unused"
           /\ areas' \in [Proc -> Seq(Area)] /\ \A q \in Proc : q # InitProc => areas'[q] = areas[q]
           /\ Len(areas'[InitProc]) = N + 2 /\ DOMAIN areas'[InitProc] = 1..(N + 2)
           /\ \A k \in 1..N : areas'[InitProc][k] = ExecPlan[k] /\ areas[InitProc][k] = ExecPlan[k]
           /\ \E e \in Nat, s \in Nat :
                /\ areas'[InitProc][N + 1] = [start |-> BrkStart, end |-> e]
                /\ areas'[InitProc][N + 2] = [start |-> s, end |-> TOP]
                /\ BrkStart + ArgSize <= e /\ e <= TOP
                /\ BrkStart + ArgSize <= s /\ s % PAGE = 0 /\ s <= TOP
                /\ e % PAGE = 0 /\ e < s => e \div PAGE \in Boundaries
                /\ \/ /\ s = StackArea.start /\ e <= s /\ (BrkArea.end < e \/ e = s)
                      /\ pos' = FirstNew(BrkArea.end) /\ stop' = e
                   \/ /\ e = BrkArea.end /\ s = StackArea.start - PAGE
                      /\ pos' = s /\ stop' = StackArea.start
                      /\ \E g \in Page : PageOf(InitProc, g) = Null /\ Left(s, stop') = {g} /\ g \notin Args
  <1>1. TypeOK /\ CallOK /\ Lists /\ Children /\ InitAreas /\ InitProc \in Proc
    BY MemoryAssumption DEF IInv
  <1>2. GrowStep
    BY ResizeIs, FaultIs DEF Grow, Go
  <1>3. st[InitProc] # "unused"
    BY <1>2 DEF GrowStep
  <1>4. /\ Len(areas[InitProc]) = N + 2
        /\ \A k \in 1..N : areas[InitProc][k] = ExecPlan[k]
        /\ BrkArea.start = BrkStart /\ BrkStart + ArgSize <= BrkArea.end
        /\ BrkStart + ArgSize <= StackArea.start /\ StackArea.start % PAGE = 0
        /\ StackArea.end = TOP
        /\ BrkArea.end % PAGE = 0 /\ BrkArea.end < StackArea.start =>
            BrkArea.end \div PAGE \in Boundaries
    BY <1>1, <1>3 DEF InitAreas, ImageArea
  <1>5. /\ BrkArea \in Area /\ StackArea \in Area /\ BrkArea.end \in Nat /\ StackArea.start \in Nat
        /\ StackArea.start <= TOP /\ BrkArea.end <= TOP
    BY <1>1, <1>3, InitTypes
  <1>6. N \in Nat /\ BrkStart \in Nat /\ ArgSize \in Nat /\ TOP \in Nat /\ PAGE \in Nat
    BY ImageFacts, Numbers
  <1>7. areas \in [Proc -> Seq(Area)]
    BY <1>1, TypeParts DEF ListType
  <1>8. N + 1 \in 1..(N + 2) /\ N + 2 \in 1..(N + 2) /\ N + 1 # N + 2
        /\ \A k \in 1..N : k \in 1..(N + 2) /\ k # N + 1 /\ k # N + 2
    BY <1>6
  <1>9. \A a \in Area : a = [start |-> a.start, end |-> a.end]
    BY DEF Area
  <1>10. PICK p \in Proc : \/ \E addr \in Ends : procmm_resize(p, addr)
                           \/ \E g \in Touched : procmm_page_fault(p, g)
    BY DEF Grow
  <1>11. CASE \E addr \in Ends : procmm_resize(p, addr)
    <2>1. PICK addr \in Ends : procmm_resize(p, addr)
      BY <1>11
    <2>2. /\ Resized(InitProc, N + 1, [start |-> BrkArea.start, end |-> BrkTo(addr)])
          /\ pos' = FirstNew(BrkArea.end) /\ stop' = BrkTo(addr)
          /\ brk[p] # 0 /\ ~(addr <= areas[p][brk[p]].end) /\ Runs(p)
      BY <2>1, ResizeIs DEF Go
    <2>3. /\ addr \in Nat /\ BrkTo(addr) \in Nat /\ BrkTo(addr) <= TOP
          /\ BrkStart + ArgSize <= BrkTo(addr) /\ BrkTo(addr) <= StackArea.start
          /\ BrkTo(addr) = addr \/ BrkTo(addr) = StackArea.start
          /\ BrkArea.end < addr
      BY <1>1, <2>2, BrkGrows
    <2>4. PICK e \in Nat : e = BrkTo(addr)
      BY <2>3
    <2>5. PICK a \in Area : a = [start |-> BrkStart, end |-> e]
      BY <1>6, IsArea
    <2>6. /\ areas' \in [Proc -> Seq(Area)]
          /\ \A q \in Proc : q # InitProc => areas'[q] = areas[q]
          /\ Len(areas'[InitProc]) = N + 2 /\ DOMAIN areas'[InitProc] = 1..(N + 2)
          /\ areas'[InitProc][N + 1] = a
          /\ \A j \in 1..(N + 2) : j # N + 1 => areas'[InitProc][j] = areas[InitProc][j]
      <3>1. Resized(InitProc, N + 1, a) /\ N + 1 \in 1..Len(areas[InitProc])
        BY <1>4, <1>8, <2>2, <2>4, <2>5
      <3> QED BY <1>1, <1>4, <1>7, <3>1, ResizedIs
    <2>7. areas'[InitProc][N + 2] = [start |-> StackArea.start, end |-> TOP]
      <3>1. areas'[InitProc][N + 2] = StackArea
        BY <1>8, <2>6 DEF StackArea
      <3> QED BY <1>4, <1>5, <1>9, <3>1
    <2>8. BrkArea.end < e \/ e = StackArea.start
      BY <2>3, <2>4
    <2>9. e % PAGE = 0 /\ e < StackArea.start => e \div PAGE \in Boundaries
      <3>1. e = addr \/ e = StackArea.start
        BY <2>3, <2>4
      <3>2. e < StackArea.start => e # StackArea.start
        BY <1>5
      <3>3. addr % PAGE = 0 => addr \div PAGE \in Boundaries
        BY DEF Boundaries
      <3> QED BY <3>1, <3>2, <3>3
    <2>10. e <= TOP /\ BrkStart + ArgSize <= e /\ e <= StackArea.start
           /\ pos' = FirstNew(BrkArea.end) /\ stop' = e
      BY <2>2, <2>3, <2>4
    <2>11. areas'[InitProc][N + 1] = [start |-> BrkStart, end |-> e]
      BY <2>5, <2>6
    <2>12. \A k \in 1..N : areas'[InitProc][k] = ExecPlan[k]
      BY <1>4, <1>8, <2>6
    <2> QED BY <1>2, <1>3, <1>4, <1>5, <2>6, <2>7, <2>8, <2>9, <2>10, <2>11, <2>12
  <1>12. CASE \E g \in Touched : procmm_page_fault(p, g)
    <2>1. PICK g \in Touched : procmm_page_fault(p, g)
      BY <1>12
    <2>2. /\ p = InitProc /\ g \in Page
          /\ Resized(InitProc, N + 2, [start |-> StackArea.start - PAGE, end |-> StackArea.end])
          /\ pos' = StackArea.start - PAGE /\ stop' = StackArea.start /\ PageOf(p, g) = Null
          /\ StackArea.start - PAGE \in Nat /\ (StackArea.start - PAGE) % PAGE = 0
          /\ BrkStart + ArgSize <= StackArea.start - PAGE
          /\ Left(StackArea.start - PAGE, StackArea.start) = {g}
          /\ g \notin Args
      BY <2>1, FaultIs DEF Go
    <2>3. PICK s \in Nat : s = StackArea.start - PAGE
      BY <2>2
    <2>4. PICK a \in Area : a = [start |-> s, end |-> TOP]
      BY <1>6, IsArea
    <2>5. /\ areas' \in [Proc -> Seq(Area)]
          /\ \A q \in Proc : q # InitProc => areas'[q] = areas[q]
          /\ Len(areas'[InitProc]) = N + 2 /\ DOMAIN areas'[InitProc] = 1..(N + 2)
          /\ areas'[InitProc][N + 2] = a
          /\ \A j \in 1..(N + 2) : j # N + 2 => areas'[InitProc][j] = areas[InitProc][j]
      <3>1. Resized(InitProc, N + 2, a) /\ N + 2 \in 1..Len(areas[InitProc])
        BY <1>4, <1>8, <2>2, <2>3, <2>4
      <3>2. InitProc \in Proc /\ Len(areas[InitProc]) = N + 2
        BY <1>1, <1>4
      <3> QED BY <1>7, <3>1, <3>2, ResizedIs
    <2>6. areas'[InitProc][N + 1] = [start |-> BrkStart, end |-> BrkArea.end]
      <3>1. areas'[InitProc][N + 1] = BrkArea
        BY <1>8, <2>5 DEF BrkArea
      <3> QED BY <1>4, <1>5, <1>9, <3>1
    <2>7. areas'[InitProc][N + 2] = [start |-> s, end |-> TOP]
      BY <2>4, <2>5
    <2>8. s <= TOP /\ BrkStart + ArgSize <= s /\ s % PAGE = 0 /\ pos' = s /\ stop' = StackArea.start
          /\ PageOf(InitProc, g) = Null /\ Left(s, stop') = {g} /\ g \notin Args /\ g \in Page
      BY <1>5, <1>6, <2>2, <2>3
    <2>9. BrkArea.end % PAGE = 0 /\ BrkArea.end < s => BrkArea.end \div PAGE \in Boundaries
      <3>1. BrkArea.end < s => BrkArea.end < StackArea.start
        BY <1>5, <1>6, <2>3
      <3> QED BY <1>4, <3>1
    <2>10. \A k \in 1..N : areas'[InitProc][k] = ExecPlan[k]
      BY <1>4, <1>8, <2>5
    <2> QED BY <1>2, <1>3, <1>4, <1>5, <2>3, <2>5, <2>6, <2>7, <2>8, <2>9, <2>10
  <1> QED BY <1>10, <1>11, <1>12

(* The areas of init are a list, wherever brk ends and the stack begins. *)
LEMMA InitListOK ==
    ASSUME NEW e \in Nat, NEW s \in Nat, BrkStart + ArgSize <= e, e <= TOP,
           BrkStart + ArgSize <= s, s % PAGE = 0, s <= TOP, NEW b, NEW c,
           b = [start |-> BrkStart, end |-> e], c = [start |-> s, end |-> TOP]
    PROVE  /\ Shaped(b) /\ Shaped(c) /\ Pair(b, c)
           /\ \A k \in 1..N : Shaped(ExecPlan[k]) /\ Pair(ExecPlan[k], b) /\ Pair(ExecPlan[k], c)
           /\ \A j, k \in 1..N : j < k => Pair(ExecPlan[j], ExecPlan[k])
  <1>1. N \in Nat /\ BrkStart \in Nat /\ BrkStart % PAGE = 0 /\ ArgSize \in Nat /\ ArgSize > 0 /\ TOP \in Nat
    BY ImageFacts, Numbers
  <1>2. b \in Area /\ c \in Area /\ b.start = BrkStart /\ b.end = e /\ c.start = s /\ c.end = TOP
    BY <1>1, IsArea
  <1>3. Left(BrkStart, e) = PagesOf(BrkStart, e) /\ Left(s, TOP) = PagesOf(s, TOP)
    BY <1>1, LeftAligned
  <1>4. Shaped(b) /\ Shaped(c)
    <2>1. Cov(b) = PagesOf(BrkStart, e) /\ Cov(c) = PagesOf(s, TOP)
      BY <1>1, <1>2, CovAligned
    <2> QED BY <1>1, <1>2, <1>3, <2>1 DEF Shaped
  <1>5. BrkStart < s /\ BrkStart <= e
    BY <1>1
  <1>6. Pair(b, c)
    <2>1. b.end < c.start => Apart(b, c)
      BY <1>2, ApartAligned
    <2> QED BY <1>2, <1>5, <2>1 DEF Pair
  <1>7. ASSUME NEW k \in 1..N
        PROVE  Shaped(ExecPlan[k]) /\ Pair(ExecPlan[k], b) /\ Pair(ExecPlan[k], c)
    <2>1. k \in 1..(N + 2) /\ N + 1 \in 1..(N + 2) /\ k < N + 1
      BY <1>1
    <2>2. Shaped(ExecPlan[k]) /\ ExecPlan[k] \in Area
      BY <2>1, PlanShaped
    <2>3. ExecPlan[k].end < BrkStart /\ ExecPlan[k].start < BrkStart
      BY <2>1, PlanApart, PlanIs
    <2>4. ExecPlan[k].end \in Nat /\ ExecPlan[k].start \in Nat
      BY <2>2 DEF Area
    <2>5. Apart(ExecPlan[k], b)
      <3>1. ExecPlan[k].end <= b.start
        BY <1>1, <1>2, <2>3, <2>4
      <3> QED BY <1>1, <1>2, <2>2, <3>1, ApartAligned
    <2>6. Apart(ExecPlan[k], c)
      <3>1. ExecPlan[k].end <= c.start
        BY <1>1, <1>2, <1>5, <2>3, <2>4
      <3> QED BY <1>2, <2>2, <3>1, ApartAligned
    <2>7. ExecPlan[k].start < s
      BY <1>1, <1>5, <2>3, <2>4
    <2> QED BY <1>2, <2>2, <2>3, <2>5, <2>6, <2>7 DEF Pair
  <1>8. ASSUME NEW j \in 1..N, NEW k \in 1..N, j < k
        PROVE  Pair(ExecPlan[j], ExecPlan[k])
    <2>1. j \in 1..(N + 2) /\ k \in 1..(N + 2)
      BY <1>1
    <2> QED BY <1>8, <2>1, PlanApart DEF Pair
  <1> QED BY <1>4, <1>6, <1>7, <1>8

(* Lists stay in order. *)
LEMMA ListsStep ==
    ASSUME IInv, Go
    PROVE  Lists' /\ Children'
  <1>1. TypeOK /\ CallOK /\ Lists /\ Children /\ InitProc \in Proc
    BY MemoryAssumption DEF IInv
  <1>2. areas \in [Proc -> Seq(Area)] /\ brk \in [Proc -> Nat] /\ stack \in [Proc -> Nat]
    BY <1>1, TypeParts DEF ListType
  <1>3. \A p \in Proc : DOMAIN areas[p] = 1..Len(areas[p])
    BY <1>1, ListTypes
  <1>4. CASE areas' = areas /\ brk' = brk /\ stack' = stack
    BY <1>1, <1>4 DEF Lists, Children
  <1>5. CASE MapFreed
    <2>1. areas' = areas /\ brk' = [brk EXCEPT ![cur] = 0] /\ stack' = [stack EXCEPT ![cur] = 0]
      BY <1>5 DEF MapFreed
    <2>2. \A p \in Proc : brk'[p] = brk[p] \/ brk'[p] = 0
      BY <1>2, <2>1
    <2>3. \A p \in Proc : stack'[p] = stack[p] \/ stack'[p] = 0
      BY <1>2, <2>1
    <2>4. Lists'
      BY <1>1, <2>1 DEF Lists
    <2>5. \A p \in Proc \ {InitProc} : brk[p] = 0 /\ stack[p] = 0
      BY <1>1 DEF Children
    <2>6. \A p \in Proc \ {InitProc} : brk'[p] = 0 /\ stack'[p] = 0
      BY <2>2, <2>3, <2>5
    <2>7. Children'
      BY <1>1, <2>1, <2>6 DEF Children
    <2> QED BY <2>4, <2>7
  <1>6. CASE AreaRemoved
    <2>1. pc = "unmap" /\ areas' = [areas EXCEPT ![cur] = Tail(areas[cur])] /\ brk' = brk /\ stack' = stack
      BY <1>6 DEF AreaRemoved
    <2>2. cur \in Proc /\ cur # InitProc /\ areas[cur] # <<>>
      BY <1>1, <2>1 DEF CallOK
    <2> DEFINE n == Len(areas[cur]) - 1
    <2>3. /\ \A q \in Proc : q # cur => areas'[q] = areas[q]
          /\ Len(areas[cur]) \in Nat /\ DOMAIN areas'[cur] = 1..n
          /\ \A j \in 1..n : areas'[cur][j] = areas[cur][j + 1] /\ j + 1 \in 1..Len(areas[cur])
      BY <1>2, <2>1, <2>2, RemovedIs
    <2> HIDE DEF n
    <2>4. \A j, k \in 1..n : j < k => j + 1 < k + 1
      BY <2>3 DEF n
    <2>5. ASSUME NEW p \in Proc
          PROVE  /\ \A k \in DOMAIN areas'[p] : Shaped(areas'[p][k])
                 /\ \A j, k \in DOMAIN areas'[p] : j < k => Pair(areas'[p][j], areas'[p][k])
                 /\ p # InitProc => \A j, k \in DOMAIN areas'[p] : j < k => Apart(areas'[p][j], areas'[p][k])
      <3>1. CASE p # cur
        BY <1>1, <2>3, <3>1 DEF Lists, Children
      <3>2. CASE p = cur
        <4>1. /\ \A k \in 1..Len(areas[cur]) : Shaped(areas[cur][k])
              /\ \A j, k \in 1..Len(areas[cur]) :
                    j < k => Pair(areas[cur][j], areas[cur][k]) /\ Apart(areas[cur][j], areas[cur][k])
          BY <1>1, <1>3, <2>2 DEF Lists, Children
        <4>2. \A k \in 1..n : Shaped(areas'[cur][k])
          BY <2>3, <4>1
        <4>3. ASSUME NEW j \in 1..n, NEW k \in 1..n, j < k
              PROVE  Pair(areas'[cur][j], areas'[cur][k]) /\ Apart(areas'[cur][j], areas'[cur][k])
          <5>1. j + 1 \in 1..Len(areas[cur]) /\ k + 1 \in 1..Len(areas[cur]) /\ j + 1 < k + 1
            BY <2>3, <2>4, <4>3
          <5> QED BY <2>3, <4>1, <5>1
        <4> QED BY <2>3, <3>2, <4>2, <4>3
      <3> QED BY <3>1, <3>2
    <2> QED BY <1>1, <2>1, <2>5 DEF Lists, Children
  <1>7. CASE procmm_map
    <2>1. CASE Refused
      BY <1>4, <2>1 DEF Refused
    <2>2. CASE Mapped
      <3> DEFINE n == Len(areas[cur])
      <3>1. /\ pc = "area" /\ task \in {"exec", "fork"} /\ cur \in Proc /\ i \in 1..Len(Plan) /\ Plan[i] \in Area
            /\ Appended(cur, Plan[i]) /\ \A k \in 1..n : ~Overlaps(areas[cur][k], Plan[i].start, Plan[i].end)
        BY <2>2 DEF Mapped
      <3>2. /\ \A q \in Proc : q # cur => areas'[q] = areas[q]
            /\ n \in Nat /\ DOMAIN areas'[cur] = 1..(n + 1) /\ areas'[cur][n + 1] = Plan[i]
            /\ \A j \in 1..n : areas'[cur][j] = areas[cur][j]
        BY <1>2, <3>1, AppendedIs
      <3>3. Shaped(Plan[i])
        BY <1>1, <3>1, PlanItem
      <3>4. \A k \in 1..n : Pair(areas[cur][k], Plan[i]) /\ Apart(areas[cur][k], Plan[i])
        BY <3>1, Earlier
      <3>5. /\ \A k \in 1..n : Shaped(areas[cur][k])
            /\ \A j, k \in 1..n : j < k => Pair(areas[cur][j], areas[cur][k])
            /\ cur # InitProc => \A j, k \in 1..n : j < k => Apart(areas[cur][j], areas[cur][k])
        BY <1>1, <1>3, <3>1 DEF Lists, Children
      <3> HIDE DEF n
      <3>6. \A k \in 1..(n + 1) : k = n + 1 \/ k \in 1..n
        BY <3>2
      <3>7. \A j, k \in 1..(n + 1) : j < k => j \in 1..n
        BY <3>2
      <3>8. ASSUME NEW p \in Proc
            PROVE  /\ \A k \in DOMAIN areas'[p] : Shaped(areas'[p][k])
                   /\ \A j, k \in DOMAIN areas'[p] : j < k => Pair(areas'[p][j], areas'[p][k])
                   /\ p # InitProc => \A j, k \in DOMAIN areas'[p] : j < k => Apart(areas'[p][j], areas'[p][k])
        <4>1. CASE p # cur
          BY <1>1, <3>2, <4>1 DEF Lists, Children
        <4>2. CASE p = cur
          <5>1. \A k \in 1..(n + 1) : Shaped(areas'[cur][k])
            BY <3>2, <3>3, <3>5, <3>6
          <5>2. \A j, k \in 1..(n + 1) : j < k => Pair(areas'[cur][j], areas'[cur][k])
            BY <3>2, <3>4, <3>5, <3>6, <3>7
          <5>3. cur # InitProc => \A j, k \in 1..(n + 1) : j < k => Apart(areas'[cur][j], areas'[cur][k])
            BY <3>2, <3>4, <3>5, <3>6, <3>7
          <5> QED BY <3>2, <4>2, <5>1, <5>2, <5>3
        <4> QED BY <4>1, <4>2
      <3>9. \A p \in Proc \ {InitProc} : brk'[p] = 0 /\ stack'[p] = 0
        <4>1. \A p \in Proc \ {InitProc} : brk[p] = 0 /\ stack[p] = 0
          BY <1>1 DEF Children
        <4>2. task = "exec" => cur = InitProc
          BY <1>1, CurIs
        <4> QED BY <1>7, <2>2, <3>1, <4>1, <4>2, MapMarks
      <3> QED BY <3>8, <3>9 DEF Lists, Children
    <2> QED BY <1>7, <2>1, <2>2, MapIs
  <1>8. CASE Grow
    <2>1. /\ \A q \in Proc : q # InitProc => areas'[q] = areas[q]
          /\ DOMAIN areas'[InitProc] = 1..(N + 2) /\ brk' = brk /\ stack' = stack
          /\ \A k \in 1..N : areas'[InitProc][k] = ExecPlan[k]
      BY <1>8, GrowIs DEF GrowStep
    <2>2. PICK e \in Nat, s \in Nat :
                /\ areas'[InitProc][N + 1] = [start |-> BrkStart, end |-> e]
                /\ areas'[InitProc][N + 2] = [start |-> s, end |-> TOP]
                /\ BrkStart + ArgSize <= e /\ e <= TOP
                /\ BrkStart + ArgSize <= s /\ s % PAGE = 0 /\ s <= TOP
      BY <1>8, GrowIs
    <2> DEFINE b == areas'[InitProc][N + 1]
               c == areas'[InitProc][N + 2]
    <2>3. /\ Shaped(b) /\ Shaped(c) /\ Pair(b, c)
          /\ \A k \in 1..N : Shaped(ExecPlan[k]) /\ Pair(ExecPlan[k], b) /\ Pair(ExecPlan[k], c)
          /\ \A j, k \in 1..N : j < k => Pair(ExecPlan[j], ExecPlan[k])
      BY <2>2, InitListOK
    <2>4. \A k \in 1..(N + 2) : k \in 1..N \/ k = N + 1 \/ k = N + 2
      BY ImageFacts
    <2>5. \A k \in 1..(N + 2) : Shaped(areas'[InitProc][k])
      BY <2>1, <2>3, <2>4
    <2>6. \A j, k \in 1..(N + 2) : j < k => Pair(areas'[InitProc][j], areas'[InitProc][k])
      <3> SUFFICES ASSUME NEW j \in 1..(N + 2), NEW k \in 1..(N + 2), j < k
                   PROVE  Pair(areas'[InitProc][j], areas'[InitProc][k])
        OBVIOUS
      <3>1. (k \in 1..N => j \in 1..N) /\ (k = N + 1 => j \in 1..N) /\ (k = N + 2 => j \in 1..N \/ j = N + 1)
        BY ImageFacts
      <3> QED BY <2>1, <2>3, <2>4, <3>1
    <2>7. ASSUME NEW p \in Proc
          PROVE  /\ \A k \in DOMAIN areas'[p] : Shaped(areas'[p][k])
                 /\ \A j, k \in DOMAIN areas'[p] : j < k => Pair(areas'[p][j], areas'[p][k])
      <3>1. CASE p # InitProc
        BY <1>1, <2>1, <3>1 DEF Lists
      <3>2. CASE p = InitProc
        BY <2>1, <2>5, <2>6, <3>2
      <3> QED BY <3>1, <3>2
    <2>8. Children'
      BY <1>1, <2>1 DEF Children
    <2> QED BY <2>7, <2>8 DEF Lists
  <1> QED BY <1>4, <1>5, <1>6, <1>7, <1>8, GoList

(* Then brk has no boundaries to leave pages out at. *)
LEMMA NoBoundaries ==
    ASSUME NoBoundary
    PROVE  Boundaries = {}
  <1>1. BrkStart \in Nat /\ BrkStart % PAGE = 0 /\ ArgSize \in Nat /\ PAGE \in Nat
    BY ImageFacts, Numbers
  <1>2. (BrkStart + ArgSize) % PAGE # 0
    <2> SUFFICES ASSUME (BrkStart + ArgSize) % PAGE = 0 PROVE FALSE
      OBVIOUS
    <2> DEFINE x == BrkStart \div PAGE
               y == (BrkStart + ArgSize) \div PAGE
    <2>1. x \in Nat /\ BrkStart = x * PAGE + (BrkStart % PAGE) /\ x * PAGE \in Nat
      BY <1>1, Divide
    <2>2. y \in Nat /\ BrkStart + ArgSize = y * PAGE + ((BrkStart + ArgSize) % PAGE) /\ y * PAGE \in Nat
      BY <1>1, Divide
    <2> HIDE DEF x, y
    <2>3. BrkStart = x * PAGE /\ BrkStart + ArgSize = y * PAGE
      BY <1>1, <2>1, <2>2
    <2> DEFINE d == y - x
    <2>4. d \in Int /\ d * PAGE = y * PAGE - x * PAGE
      BY <2>1, <2>2, Numbers
    <2> HIDE DEF d
    <2>5. ArgSize = d * PAGE + 0
      <3>1. ArgSize = (BrkStart + ArgSize) - BrkStart
        BY <1>1
      <3>2. ArgSize = d * PAGE
        BY <2>3, <2>4, <3>1
      <3>3. ArgSize = ArgSize + 0
        BY <1>1
      <3> QED BY <3>2, <3>3
    <2>6. ArgSize % PAGE = 0
      BY <1>1, <2>4, <2>5, DivideIs, Numbers
    <2> QED BY <2>6 DEF NoBoundary
  <1>3. \A e \in Ends : e % PAGE # 0
    BY DEF NoBoundary
  <1> QED BY <1>2, <1>3 DEF Boundaries

(* init keeps its areas. *)
LEMMA InitAreasStep ==
    ASSUME IInv, Go
    PROVE  InitAreas'
  <1>1. TypeOK /\ CallOK /\ InitAreas /\ ExecAreas /\ Lists /\ InitProc \in Proc
    BY MemoryAssumption DEF IInv
  <1>2. st \in [Proc -> {"unused", "alive", "zombie"}] /\ brk \in [Proc -> Nat] /\ stack \in [Proc -> Nat]
    BY <1>1 DEF TypeOK
  <1>3. N \in Nat /\ BrkStart \in Nat /\ BrkStart % PAGE = 0 /\ ArgSize \in Nat /\ TOP \in Nat
        /\ BrkStart + ArgSize < TOP /\ TOP % PAGE = 0 /\ PAGE \in Nat
    BY ImageFacts, Numbers
  <1>4. CASE Grow
    <2>1. /\ GrowStep /\ st[InitProc] # "unused" /\ Len(areas'[InitProc]) = N + 2
          /\ brk' = brk /\ stack' = stack
          /\ \A k \in 1..N : areas'[InitProc][k] = ExecPlan[k]
      BY <1>4, GrowIs DEF GrowStep
    <2>2. PICK e \in Nat, s \in Nat :
                /\ areas'[InitProc][N + 1] = [start |-> BrkStart, end |-> e]
                /\ areas'[InitProc][N + 2] = [start |-> s, end |-> TOP]
                /\ BrkStart + ArgSize <= e /\ BrkStart + ArgSize <= s /\ s % PAGE = 0
                /\ e % PAGE = 0 /\ e < s => e \div PAGE \in Boundaries
      BY <1>4, GrowIs
    <2>3. brk[InitProc] = N + 1 /\ stack[InitProc] = N + 2
      BY <1>1, <2>1 DEF InitAreas
    <2>4. BrkArea' = [start |-> BrkStart, end |-> e] /\ StackArea' = [start |-> s, end |-> TOP]
      BY <2>2 DEF BrkArea, StackArea
    <2>5. BrkArea'.start = BrkStart /\ BrkArea'.end = e /\ StackArea'.start = s /\ StackArea'.end = TOP
      BY <1>3, <2>4, IsArea
    <2>6. \A k \in 1..N : ImageArea(k)' = ExecPlan[k]
      BY <2>1 DEF ImageArea
    <2> QED BY <2>1, <2>2, <2>3, <2>5, <2>6 DEF InitAreas
  <1>5. CASE exec_elf
    <2>1. pc = "area" /\ task = "exec" /\ ~(i <= Len(Plan)) /\ areas' = areas /\ brk' = brk /\ stack' = stack
      <3>1. pc = "area" /\ task = "exec" /\ i > Len(Plan)
        BY <1>5 DEF exec_elf
      <3>2. Len(Plan) \in Nat /\ i \in Nat
        BY <1>1, <3>1, PlanItem DEF TypeOK
      <3> QED BY <1>5, <3>1, <3>2 DEF exec_elf, list
    <2>2. Plan = ExecPlan /\ Len(Plan) = N + 2
      BY <2>1, PlanIs DEF Plan
    <2>3. /\ i \in 1..(N + 3) /\ Len(areas[InitProc]) = i - 1
          /\ \A k \in 1..Len(areas[InitProc]) : areas[InitProc][k] = ExecPlan[k]
          /\ brk[InitProc] = (IF Len(areas[InitProc]) > N THEN N + 1 ELSE 0)
          /\ stack[InitProc] = (IF Len(areas[InitProc]) > N + 1 THEN N + 2 ELSE 0)
      BY <1>1, <2>1 DEF ExecAreas, ImageArea
    <2>4. Len(areas[InitProc]) = N + 2
      BY <1>3, <2>1, <2>2, <2>3
    <2>5. brk[InitProc] = N + 1 /\ stack[InitProc] = N + 2
      BY <1>3, <2>3, <2>4
    <2>6. N + 1 \in 1..(N + 2) /\ N + 2 \in 1..(N + 2) /\ \A k \in 1..N : k \in 1..(N + 2)
      BY <1>3
    <2>7. BrkArea' = ExecPlan[N + 1] /\ StackArea' = ExecPlan[N + 2] /\ \A k \in 1..N : ImageArea(k)' = ExecPlan[k]
      BY <2>1, <2>3, <2>4, <2>6 DEF BrkArea, StackArea, ImageArea
    <2>8. /\ BrkArea'.start = BrkStart /\ BrkArea'.end = BrkStart + ArgSize
          /\ StackArea'.start = TOP /\ StackArea'.end = TOP
      BY <2>7, PlanIs
    <2>9. (BrkStart + ArgSize) % PAGE = 0 => (BrkStart + ArgSize) \div PAGE \in Boundaries
      BY DEF Boundaries
    <2> QED BY <1>3, <2>1, <2>4, <2>5, <2>7, <2>8, <2>9 DEF InitAreas
  <1>6. CASE ~Grow /\ ~exec_elf
    <2> SUFFICES ASSUME st'[InitProc] # "unused" PROVE InitAreas'
      BY DEF InitAreas
    <2>1. st[InitProc] # "unused"
      <3>1. CASE Exits
        BY <1>2, <3>1 DEF Exits, exit, Runs
      <3>2. CASE procmm_new_map
        <4>1. cur # InitProc
          BY <1>1, <3>2 DEF procmm_new_map, CallOK
        <4> QED BY <1>2, <3>2, <4>1 DEF procmm_new_map
      <3>3. CASE MapFreed
        <4>1. cur # InitProc
          BY <1>1, <3>3 DEF MapFreed, CallOK
        <4> QED BY <1>2, <3>3, <4>1 DEF MapFreed
      <3>4. CASE st' = st
        BY <3>4
      <3> QED BY <1>6, <3>1, <3>2, <3>3, <3>4, GoProcs
    <2>2. areas'[InitProc] = areas[InitProc] /\ brk'[InitProc] = brk[InitProc] /\ stack'[InitProc] = stack[InitProc]
      <3>1. CASE InitProc = cur
        <4>1. task \notin {"exec", "fork", "wait"}
          BY <1>1, <2>1, <3>1 DEF CallOK
        <4>2. ~procmm_map
          BY <4>1 DEF procmm_map
        <4>3. ~AreaRemoved /\ ~MapFreed
          BY <1>1, <4>1 DEF AreaRemoved, MapFreed, CallOK
        <4> QED BY <1>6, <4>2, <4>3, GoList
      <3>2. CASE InitProc # cur
        <4>1. CASE InitProc # cur'
          BY <1>1, <3>2, <4>1, OtherAreas
        <4>2. CASE InitProc = cur'
          BY <1>1, <1>6, <3>2, <4>2, CurChanges, NullApart
        <4> QED BY <4>1, <4>2
      <3> QED BY <3>1, <3>2
    <2> QED BY <1>1, <2>1, <2>2 DEF InitAreas, ImageArea, BrkArea, StackArea
  <1> QED BY <1>4, <1>5, <1>6

(* exec follows its plan. *)
LEMMA ExecAreasStep ==
    ASSUME IInv, Go
    PROVE  ExecAreas'
  <1>1. TypeOK /\ CallOK /\ Vacant /\ ExecAreas /\ Lists /\ InitProc \in Proc
    BY MemoryAssumption DEF IInv
  <1>2. SUFFICES ASSUME task' = "exec" PROVE ExecAreas'
    BY DEF ExecAreas
  <1>3. N \in Nat
    BY ImageFacts
  <1>4. CASE kmain
    <2>1. pc = "idle" /\ st[InitProc] = "unused" /\ areas' = areas /\ brk' = brk /\ stack' = stack
          /\ i' = 1 /\ pc' = "area"
      BY <1>4 DEF Go, kmain, Idle, Begin, list
    <2>2. areas[InitProc] = <<>> /\ brk[InitProc] = 0 /\ stack[InitProc] = 0
      BY <1>1, <2>1, NullApart DEF CallOK, Vacant
    <2>3. Len(areas'[InitProc]) = 0
      BY <2>1, <2>2
    <2> QED BY <1>3, <2>1, <2>2, <2>3 DEF ExecAreas
  <1>5. ASSUME task = "exec"
        PROVE  /\ cur = InitProc /\ Plan = ExecPlan /\ Len(Plan) = N + 2
               /\ i \in 1..(N + 3) /\ Len(areas[InitProc]) <= N + 2 /\ Len(areas[InitProc]) \in Nat
               /\ Len(areas[InitProc]) = (IF pc = "area" THEN i - 1 ELSE i)
               /\ \A k \in 1..Len(areas[InitProc]) : areas[InitProc][k] = ExecPlan[k]
               /\ brk[InitProc] = (IF Len(areas[InitProc]) > N THEN N + 1 ELSE 0)
               /\ stack[InitProc] = (IF Len(areas[InitProc]) > N + 1 THEN N + 2 ELSE 0)
    BY <1>1, <1>5, PlanIs, ListTypes, CurIs DEF ExecAreas, ImageArea, Plan
  <1>6. CASE procmm_map /\ task = "exec"
    <2>1. /\ pc = "area" /\ i \in 1..Len(Plan) /\ MapStep /\ (Mapped \/ Refused)
      BY <1>6, MapIs
    <2>2. ~Refused
      BY <1>6, <2>1, Earlier DEF Refused
    <2>3. Mapped
      BY <2>1, <2>2
    <2> DEFINE n == Len(areas[InitProc])
    <2>4. /\ Len(areas'[InitProc]) = n + 1 /\ areas'[InitProc][n + 1] = Plan[i]
          /\ \A j \in 1..n : areas'[InitProc][j] = areas[InitProc][j]
      <3>1. areas \in [Proc -> Seq(Area)] /\ cur \in Proc /\ Plan[i] \in Area /\ Appended(cur, Plan[i])
        BY <1>1, <2>3, TypeParts DEF ListType, Mapped
      <3> QED BY <1>5, <1>6, <3>1, AppendedIs
    <2>5. /\ brk'[InitProc] = IF i = N + 1 THEN n + 1 ELSE brk[InitProc]
          /\ stack'[InitProc] = IF i = N + 2 THEN n + 1 ELSE stack[InitProc]
      BY <1>5, <1>6, <2>3, MapMarks
    <2>6. i = n + 1 /\ n \in Nat /\ i \in 1..(N + 2) /\ i' = i /\ pc' = "page"
      BY <1>5, <1>6, <2>1 DEF MapStep
    <2>7. \A k \in 1..(n + 1) : areas'[InitProc][k] = ExecPlan[k]
      <3>1. \A k \in 1..(n + 1) : k = n + 1 \/ k \in 1..n
        BY <2>6
      <3> QED BY <1>5, <1>6, <2>4, <2>6, <3>1
    <2>8. /\ brk[InitProc] = (IF n > N THEN N + 1 ELSE 0)
          /\ stack[InitProc] = (IF n > N + 1 THEN N + 2 ELSE 0)
      BY <1>5, <1>6
    <2> HIDE DEF n
    <2>9. brk'[InitProc] = (IF n + 1 > N THEN N + 1 ELSE 0)
      BY <1>3, <2>5, <2>6, <2>8
    <2>10. stack'[InitProc] = (IF n + 1 > N + 1 THEN N + 2 ELSE 0)
      BY <1>3, <2>5, <2>6, <2>8
    <2>11. i' \in 1..(N + 3) /\ n + 1 <= N + 2 /\ n + 1 = i'
      BY <1>3, <2>6
    <2> QED BY <2>4, <2>6, <2>7, <2>9, <2>10, <2>11 DEF ExecAreas, ImageArea
  <1>7. CASE (AllocPage \/ vmm_find_page \/ vmm_set_page) /\ task = "exec"
    <2>1. pc # "area" /\ pc' # "area" /\ i' = i /\ areas' = areas /\ brk' = brk /\ stack' = stack
      BY <1>7 DEF Go, AllocPage, vmm_find_page, vmm_set_page, list, call
    <2> QED BY <1>5, <1>7, <2>1 DEF ExecAreas, ImageArea
  <1>8. CASE FillArea /\ task = "exec"
    <2>1. pc # "area" /\ pc' = "area" /\ i' = i + 1 /\ areas' = areas /\ brk' = brk /\ stack' = stack
      BY <1>8 DEF FillArea, list
    <2>2. i = Len(areas[InitProc]) /\ i + 1 \in 1..(N + 3) /\ i = (i + 1) - 1
      BY <1>3, <1>5, <1>8, <2>1
    <2> QED BY <1>5, <1>8, <2>1, <2>2 DEF ExecAreas, ImageArea
  <1> QED BY <1>2, <1>4, <1>6, <1>7, <1>8, GoTask

(* fork follows its parent's areas. *)
LEMMA ForkAreasStep ==
    ASSUME IInv, Go
    PROVE  ForkAreas'
  <1>1. TypeOK /\ CallOK /\ Vacant /\ ForkAreas /\ Lists
    BY DEF IInv
  <1>2. SUFFICES ASSUME task' = "fork" PROVE ForkAreas'
    BY DEF ForkAreas
  <1>3. CASE Forks
    <2>1. PICK p \in Proc, q \in Proc : fork(p, q)
      BY <1>3 DEF Forks
    <2>2. pc = "idle" /\ st[q] = "unused" /\ areas' = areas /\ i' = 1 /\ pc' = "area" /\ cur' = q /\ from' = p
      BY <2>1 DEF Go, fork, Runs, Idle, Begin, list
    <2>3. areas[q] = <<>>
      BY <1>1, <2>2, NullApart DEF CallOK, Vacant
    <2>4. Len(areas[p]) \in Nat
      BY <1>1, ListTypes
    <2>5. DOMAIN areas'[cur'] = {}
      BY <2>2, <2>3
    <2> QED BY <2>2, <2>4, <2>5 DEF ForkAreas
  <1>4. ASSUME task = "fork"
        PROVE  /\ cur \in Proc /\ from \in Proc /\ from # cur /\ Plan = areas[from]
               /\ Len(areas[from]) \in Nat /\ DOMAIN areas[from] = 1..Len(areas[from])
               /\ DOMAIN areas[cur] = 1..Len(areas[cur])
               /\ i \in 1..(Len(areas[from]) + 1) /\ (pc # "area" => i <= Len(areas[from]))
               /\ \A k \in DOMAIN areas[cur] : \E j \in DOMAIN areas[from] :
                    areas[cur][k] = areas[from][j] /\ (j < i \/ (j = i /\ pc # "area"))
    <2>1. cur \in Proc /\ from \in Proc /\ from # cur /\ Plan = areas[from]
      BY <1>1, <1>4, CurIs DEF Plan
    <2> QED BY <1>1, <1>4, <2>1, ListTypes DEF ForkAreas
  <1>5. CASE procmm_map /\ task = "fork" /\ cur' = cur /\ from' = from
    <2>1. /\ pc = "area" /\ i \in 1..Len(Plan) /\ MapStep /\ (Mapped \/ Refused) /\ Plan[i] \in Area
      BY <1>5, MapIs
    <2>2. i' = i /\ pc' = "page" /\ i \in 1..Len(areas[from])
      BY <1>4, <1>5, <2>1 DEF MapStep
    <2>3. CASE Refused
      BY <1>4, <1>5, <2>1, <2>2, <2>3 DEF Refused, ForkAreas
    <2>4. CASE Mapped
      <3> DEFINE n == Len(areas[cur])
      <3>1. /\ \A q \in Proc : q # cur => areas'[q] = areas[q]
            /\ n \in Nat /\ DOMAIN areas'[cur] = 1..(n + 1)
            /\ areas'[cur][n + 1] = Plan[i]
            /\ \A j \in 1..n : areas'[cur][j] = areas[cur][j]
        <4>1. areas \in [Proc -> Seq(Area)] /\ cur \in Proc /\ Appended(cur, Plan[i])
          BY <1>1, <2>4, TypeParts DEF ListType, Mapped
        <4> QED BY <2>1, <4>1, AppendedIs
      <3>2. \A k \in 1..(n + 1) : k = n + 1 \/ k \in 1..n
        BY <3>1
      <3>3. areas'[from] = areas[from]
        BY <1>4, <1>5, <3>1
      <3>4. ASSUME NEW k \in 1..(n + 1)
            PROVE  \E j \in DOMAIN areas[from] : areas'[cur][k] = areas[from][j] /\ (j < i \/ j = i)
        <4>1. CASE k = n + 1
          BY <1>4, <1>5, <2>2, <3>1, <4>1
        <4>2. CASE k \in 1..n
          BY <1>4, <1>5, <2>1, <3>1, <4>2
        <4> QED BY <3>2, <4>1, <4>2
      <3> HIDE DEF n
      <3> QED BY <1>4, <1>5, <2>2, <3>1, <3>3, <3>4 DEF ForkAreas
    <2> QED BY <2>1, <2>3, <2>4
  <1>6. CASE (AllocPage \/ vmm_find_page \/ vmm_set_page) /\ task = "fork" /\ cur' = cur /\ from' = from
    <2>1. pc # "area" /\ pc' # "area" /\ i' = i /\ areas' = areas
      BY <1>6 DEF Go, AllocPage, vmm_find_page, vmm_set_page, list, call
    <2> QED BY <1>4, <1>6, <2>1 DEF ForkAreas
  <1>7. CASE FillArea /\ task = "fork" /\ cur' = cur /\ from' = from
    <2>1. pc # "area" /\ pc' = "area" /\ i' = i + 1 /\ areas' = areas
      BY <1>7 DEF FillArea, list
    <2>2. i + 1 \in 1..(Len(areas[from]) + 1) /\ \A j \in 1..Len(areas[from]) : j < i \/ j = i => j < i + 1
      BY <1>4, <1>7, <2>1
    <2> QED BY <1>4, <1>7, <2>1, <2>2 DEF ForkAreas
  <1> QED BY <1>2, <1>3, <1>5, <1>6, <1>7, GoTask

-----------------------------------------------------------------------------
(* Pages and areas *)

(* The pages of a process that have to be mapped are. *)
MapOK(p) ==
    \A g \in Page :
        /\ PageOf(p, g) # Null => g \in Owed(p)
        /\ g \in Owed(p) => PageOf(p, g) # Null \/ Hole(p, g)
        /\ PageOf(p, g) # Null => \A l \in 1..Levels : entry[<<p, TableEntry(l, g)>>] # Null

(* Mapping is a fact about each process and about the loop under way. *)
LEMMA MappingIs ==
    Mapping <=> /\ \A p \in Proc : MapOK(p)
                /\ pc \in {"page", "table"} => Left(pos, stop) \subseteq Covered(cur)
                /\ pc = "unmap" => Left(pos, stop) \subseteq Cov(areas[cur][1])
  BY DEF Mapping, MapOK

(* So it is after a step. *)
LEMMA MappingNext ==
    ASSUME \A p \in Proc : MapOK(p)',
           pc' \in {"page", "table"} => Left(pos', stop') \subseteq Covered(cur)',
           pc' = "unmap" => Left(pos', stop') \subseteq Cov(areas'[cur'][1])
    PROVE  Mapping'
  BY DEF Mapping, MapOK

(* Pages that were left out stay so while the areas do. *)
LEMMA HoleKept ==
    ASSUME IInv, Go, NEW p \in Proc, areas'[p] = areas[p], NEW g, Hole(p, g)
    PROVE  Hole(p, g)'
  <1>1. TypeOK /\ CallOK /\ p = InitProc /\ st[InitProc] # "unused"
    BY DEF IInv, Hole
  <1>2. st \in [Proc -> {"unused", "alive", "zombie"}]
    BY <1>1 DEF TypeOK
  <1>3. st'[InitProc] # "unused"
    <2>1. CASE Exits
      BY <1>1, <1>2, <2>1 DEF Exits, exit
    <2>2. CASE exec_elf \/ procmm_new_map
      BY <1>1, <1>2, <2>2 DEF exec_elf, procmm_new_map
    <2>3. CASE MapFreed
      <3>1. cur # InitProc
        BY <1>1, <2>3 DEF MapFreed, CallOK
      <3> QED BY <1>1, <1>2, <2>3, <3>1 DEF MapFreed
    <2>4. CASE st' = st
      BY <1>1, <2>4
    <2> QED BY <2>1, <2>2, <2>3, <2>4, GoProcs
  <1> QED BY <1>1, <1>3 DEF Hole, BrkArea, StackArea

(* A process whose areas and pages stay, and that is owed the same. *)
LEMMA SameMap ==
    ASSUME IInv, Go, NEW p \in Proc, areas'[p] = areas[p], Owed(p)' = Owed(p),
           \A g \in Page : /\ PageOf(p, g)' = PageOf(p, g)
                           /\ \A l \in 1..Levels : entry[<<p, TableEntry(l, g)>>] # Null =>
                                entry'[<<p, TableEntry(l, g)>>] # Null
    PROVE  MapOK(p)'
  <1>1. MapOK(p)
    BY MappingIs DEF IInv
  <1>2. \A g : Hole(p, g) => Hole(p, g)'
    BY HoleKept
  <1> SUFFICES ASSUME NEW g \in Page
               PROVE  /\ PageOf(p, g)' # Null => g \in Owed(p)'
                      /\ g \in Owed(p)' => PageOf(p, g)' # Null \/ Hole(p, g)'
                      /\ PageOf(p, g)' # Null => \A l \in 1..Levels : entry'[<<p, TableEntry(l, g)>>] # Null
    BY DEF MapOK
  <1>3. /\ PageOf(p, g) # Null => g \in Owed(p)
        /\ g \in Owed(p) => PageOf(p, g) # Null \/ Hole(p, g)
        /\ PageOf(p, g) # Null => \A l \in 1..Levels : entry[<<p, TableEntry(l, g)>>] # Null
    BY <1>1 DEF MapOK
  <1> QED BY <1>2, <1>3

(* A process that no call is about. *)
LEMMA OtherMap ==
    ASSUME IInv, Go, NEW p \in Proc, p # cur, p # cur'
    PROVE  MapOK(p)'
  <1>1. areas'[p] = areas[p]
    BY OtherAreas
  <1>2. Owed(p)' = Owed(p)
    BY <1>1 DEF Owed, Covered
  <1> QED BY <1>1, <1>2, OtherPages, SameMap

(* A call that begins, other than to grow. *)
LEMMA BeginMap ==
    ASSUME IInv, Go, NEW p \in Proc, p = cur', p # cur, ~Grow
    PROVE  MapOK(p)' /\ pc' = "area"
  <1>1. pc = "idle" /\ cur = Null /\ areas' = areas
    BY CurChanges, NullApart
  <1>2. pc' = "area"
    <2>1. kmain \/ Forks \/ Waits
      <3>1. CASE multiboot_get_memory_area \/ ScanPmm \/ cpu_init \/ ksbrk \/ Stores \/ Exits
        BY <1>1, <3>1 DEF multiboot_get_memory_area, ScanPmm, cpu_init, Go, ksbrk, Stores, Store, Exits, exit, call
      <3>2. CASE procmm_map \/ AllocPage \/ vmm_find_page \/ vmm_set_page \/ FillArea \/ exec_elf
                \/ procmm_new_map \/ GrowDone
        BY <1>1, <3>2 DEF procmm_map, AllocPage, vmm_find_page, vmm_set_page, FillArea, exec_elf,
            procmm_new_map, GrowDone
      <3>3. CASE procmm_free_map \/ procmm_unmap \/ AreaRemoved \/ vmm_free_P4 \/ MapFreed
        BY <1>1, <3>3 DEF procmm_free_map, procmm_unmap, AreaRemoved, vmm_free_P4, MapFreed
      <3> QED BY <3>1, <3>2, <3>3, GoIs
    <2> QED BY <2>1 DEF Go, kmain, Forks, fork, Waits, process_free, Begin
  <1>4. Owed(p)' = Owed(p)
    <2>1. Owed(p)' = Covered(p)' \ {}
      BY <1>2 DEF Owed, Pending
    <2>2. Owed(p) = Covered(p)
      BY <1>1 DEF Owed
    <2>3. Covered(p)' = Covered(p)
      BY <1>1 DEF Covered
    <2> QED BY <2>1, <2>2, <2>3
  <1>5. MapOK(p)'
    BY <1>1, <1>4, OtherPages, SameMap
  <1> QED BY <1>2, <1>5

(* The pages that a call has still to come to are of the process's areas. *)
Within(p) ==
    /\ pc \in {"page", "table"} => Left(pos, stop) \subseteq Covered(p)
    /\ pc = "unmap" => Left(pos, stop) \subseteq Cov(areas[p][1])

(* Mapping is a fact about each process. *)
LEMMA MappingParts ==
    ASSUME CallOK', CallType', \A p \in Proc : MapOK(p)' /\ (p = cur' => Within(p)')
    PROVE  Mapping'
  <1>1. pc' \in {"page", "table", "unmap"} => cur' \in Proc
    BY DEF CallOK
  <1>2. ASSUME pc' \in {"page", "table"} PROVE Left(pos', stop') \subseteq Covered(cur)'
    <2>1. PICK p \in Proc : p = cur'
      BY <1>1, <1>2
    <2>2. Left(pos', stop') \subseteq Covered(p)'
      BY <1>2, <2>1 DEF Within
    <2> QED BY <2>1, <2>2 DEF Covered
  <1>3. ASSUME pc' = "unmap" PROVE Left(pos', stop') \subseteq Cov(areas'[cur'][1])
    <2>1. PICK p \in Proc : p = cur'
      BY <1>1, <1>3
    <2> QED BY <1>3, <2>1 DEF Within
  <1> QED BY <1>2, <1>3, MappingNext

(* It holds of the process whose map is being changed. *)
LEMMA WithinIs ==
    ASSUME IInv, cur \in Proc
    PROVE  Within(cur)
  BY MappingIs DEF IInv, Within

(* No page is left out of a new map or an old one. *)
LEMMA NoHole ==
    ASSUME IInv, task \in {"exec", "fork", "wait"}, NEW g
    PROVE  ~Hole(cur, g)
  <1>1. CallOK
    BY DEF IInv
  <1> QED BY <1>1 DEF CallOK, Hole

(* The call goes on and changes no page. *)
LEMMA StayMap ==
    ASSUME IInv, Go, NEW p \in Proc, p = cur, p = cur', areas'[p] = areas[p], Pending' = Pending,
           \A g \in Page : /\ PageOf(p, g)' = PageOf(p, g)
                           /\ \A l \in 1..Levels : entry[<<p, TableEntry(l, g)>>] # Null =>
                                entry'[<<p, TableEntry(l, g)>>] # Null
    PROVE  MapOK(p)'
  <1>1. Covered(p)' = Covered(p)
    BY DEF Covered
  <1>2. Owed(p)' = Owed(p)
    <2>1. Owed(p)' = Covered(p)' \ Pending'
      BY DEF Owed
    <2>2. Owed(p) = Covered(p) \ Pending
      BY DEF Owed
    <2> QED BY <1>1, <2>1, <2>2
  <1> QED BY <1>2, SameMap

(* The call goes on and changes no entry. *)
LEMMA StayEntries ==
    ASSUME IInv, Go, NEW p \in Proc, p = cur, p = cur', areas'[p] = areas[p], Pending' = Pending,
           entry' = entry
    PROVE  MapOK(p)'
  <1>1. \A g \in Page : /\ PageOf(p, g)' = PageOf(p, g)
                        /\ \A l \in 1..Levels : entry[<<p, TableEntry(l, g)>>] # Null =>
                                entry'[<<p, TableEntry(l, g)>>] # Null
    BY DEF PageOf
  <1> QED BY <1>1, StayMap

(* An area that procmm_map refuses gets no pages. *)
LEMMA RefusedMap ==
    ASSUME IInv, Go, procmm_map, Refused, NEW p \in Proc, p = cur, p = cur'
    PROVE  MapOK(p)' /\ Within(p)'
  <1>1. MapStep /\ pc = "area" /\ Plan[i].end \in Nat
    BY MapIs
  <1>2. pos' = Plan[i].end /\ stop' = Plan[i].end /\ pc' = "page" /\ entry' = entry /\ areas' = areas
    BY <1>1 DEF Refused, MapStep
  <1>3. Left(pos', stop') = {}
    BY <1>1, <1>2, LeftNone
  <1>4. Pending' = Pending
    BY <1>1, <1>2, <1>3 DEF Pending
  <1>5. MapOK(p)'
    BY <1>2, <1>4, StayEntries
  <1> QED BY <1>2, <1>3, <1>5 DEF Within

(* The pages of a new area are pending. *)
LEMMA MappedMap ==
    ASSUME IInv, Go, procmm_map, Mapped, NEW p \in Proc, p = cur, p = cur'
    PROVE  MapOK(p)' /\ Within(p)'
  <1>1. TypeOK /\ CallOK /\ Lists
    BY DEF IInv
  <1>2. /\ MapStep /\ pc = "area" /\ task \in {"exec", "fork"} /\ i \in 1..Len(Plan)
        /\ Plan[i] \in Area
    BY MapIs
  <1>3. PICK a \in Area : a = Plan[i]
    BY <1>2
  <1>4. Appended(p, a) /\ pos' = a.start /\ stop' = a.end /\ pc' = "page" /\ entry' = entry
    BY <1>2, <1>3 DEF Mapped, MapStep
  <1>5. Shaped(a) /\ Left(a.start, a.end) = Cov(a)
    BY <1>1, <1>2, <1>3, PlanItem DEF Shaped
  <1>6. \A k \in 1..Len(areas[p]) : Apart(areas[p][k], a)
    BY <1>2, <1>3, Earlier DEF Mapped
  <1>7. DOMAIN areas[p] = 1..Len(areas[p]) /\ areas \in [Proc -> Seq(Area)]
    BY <1>1, ListTypes, TypeParts DEF ListType
  <1>8. /\ Len(areas[p]) \in Nat /\ DOMAIN areas'[p] = 1..(Len(areas[p]) + 1)
        /\ areas'[p][Len(areas[p]) + 1] = a
        /\ \A j \in 1..Len(areas[p]) : areas'[p][j] = areas[p][j]
    BY <1>4, <1>7, AppendedIs
  <1> DEFINE n == Len(areas[p])
  <1>9. /\ n \in Nat /\ n + 1 \in 1..(n + 1)
        /\ \A k \in 1..(n + 1) : k = n + 1 \/ k \in 1..n
        /\ \A k \in 1..n : k \in 1..(n + 1)
    BY <1>8
  <1> HIDE DEF n
  <1>10. \A g \in Page : g \in Covered(p)' <=> g \in Covered(p) \/ g \in Cov(a)
    <2> TAKE g \in Page
    <2>1. g \in Covered(p)' <=> \E k \in 1..(n + 1) : g \in Cov(areas'[p][k])
      BY <1>8 DEF Covered, n
    <2>2. g \in Covered(p) <=> \E k \in 1..n : g \in Cov(areas[p][k])
      BY <1>7 DEF Covered, n
    <2>3. /\ areas'[p][n + 1] = a
          /\ \A j \in 1..n : areas'[p][j] = areas[p][j]
      BY <1>8 DEF n
    <2> QED BY <1>9, <2>1, <2>2, <2>3
  <1>11. \A g \in Page : g \in Covered(p) => g \notin Cov(a)
    BY <1>6, <1>7 DEF Covered, Apart
  <1>12. Pending' = Cov(a) /\ Pending = {}
    BY <1>2, <1>4, <1>5 DEF Pending
  <1>13. \A g \in Page : g \in Owed(p)' <=> g \in Owed(p)
    <2>1. Owed(p)' = Covered(p)' \ Pending'
      BY DEF Owed
    <2>2. Owed(p) = Covered(p) \ Pending
      BY DEF Owed
    <2> QED BY <1>10, <1>11, <1>12, <2>1, <2>2
  <1>14. MapOK(p)
    BY MappingIs DEF IInv
  <1>15. \A g : ~Hole(p, g)
    BY <1>2, NoHole
  <1>16. MapOK(p)'
    BY <1>4, <1>13, <1>14, <1>15 DEF MapOK, PageOf
  <1>17. Left(pos', stop') \subseteq Covered(p)'
    <2>1. \A g \in Cov(a) : g \in Page
      BY DEF Cov, PagesOf
    <2> QED BY <1>4, <1>5, <1>10, <2>1
  <1> QED BY <1>4, <1>16, <1>17 DEF Within

(* A frame was taken for the next page. *)
LEMMA AllocMap ==
    ASSUME IInv, Go, AllocPage, NEW p \in Proc, p = cur, p = cur'
    PROVE  MapOK(p)' /\ Within(p)'
  <1>1. pc = "page" /\ pc' = "table" /\ pos' = pos /\ stop' = stop /\ entry' = entry /\ areas' = areas
    BY DEF Go, AllocPage, list
  <1>2. Pending' = Pending
    BY <1>1 DEF Pending
  <1>3. Covered(p)' = Covered(p)
    BY <1>1 DEF Covered
  <1>4. Within(p)
    BY WithinIs
  <1>5. Within(p)'
    BY <1>1, <1>3, <1>4 DEF Within
  <1> QED BY <1>1, <1>2, <1>5, StayEntries

(* Entries of pages are told apart, and from those of tables. *)
LEMMA EntriesApart ==
    ASSUME NEW g \in Page, NEW h \in Page
    PROVE  /\ PageEntry(g) = PageEntry(h) => g = h
           /\ \A l \in 1..Levels : TableEntry(l, g) # PageEntry(h)
  BY Numbers DEF PageEntry, TableEntry

(* A table was added. *)
LEMMA TableMap ==
    ASSUME IInv, Go, vmm_find_page, NEW p \in Proc, p = cur, p = cur'
    PROVE  MapOK(p)' /\ Within(p)'
  <1>1. CallOK /\ TypeOK
    BY DEF IInv
  <1>2. pc = "table" /\ pc' = "table" /\ pos' = pos /\ stop' = stop /\ areas' = areas
    BY DEF Go, vmm_find_page, list, call
  <1>3. PICK d \in Page : d = pos \div PAGE
    BY <1>1, <1>2, NextToMap DEF CallOK
  <1>4. PICK l \in Missing(d) :
            /\ Popped /\ entry' = [entry EXCEPT ![<<cur, TableEntry(l, d)>>] = Top]
    BY <1>3 DEF Go, vmm_find_page, Popped
  <1>5. l \in 1..Levels
    BY DEF Missing
  <1>6. FrameTypes
    BY <1>1, TypeParts
  <1>7. Top \in Frame /\ Top # Null
    BY <1>4, <1>6, PopIs, NullApart DEF FrameTypes
  <1>8. \A x \in Slot : entry'[x] = IF x = <<p, TableEntry(l, d)>> THEN Top ELSE entry[x]
    BY <1>4, <1>6 DEF FrameTypes
  <1>9. ASSUME NEW g \in Page
        PROVE  /\ PageOf(p, g)' = PageOf(p, g)
               /\ \A k \in 1..Levels : entry[<<p, TableEntry(k, g)>>] # Null =>
                    entry'[<<p, TableEntry(k, g)>>] # Null
    <2>1. <<p, PageEntry(g)>> \in Slot /\ \A k \in 1..Levels : <<p, TableEntry(k, g)>> \in Slot
      BY PageSlot
    <2>2. TableEntry(l, d) # PageEntry(g)
      BY <1>5, EntriesApart
    <2>3. entry'[<<p, PageEntry(g)>>] = entry[<<p, PageEntry(g)>>]
      BY <1>8, <2>1, <2>2
    <2> QED BY <1>7, <1>8, <2>1, <2>3 DEF PageOf
  <1>10. Pending' = Pending
    BY <1>2 DEF Pending
  <1>11. Covered(p)' = Covered(p)
    BY <1>2 DEF Covered
  <1>12. Within(p)
    BY WithinIs
  <1>13. Within(p)'
    BY <1>2, <1>11, <1>12 DEF Within
  <1> QED BY <1>2, <1>9, <1>10, <1>13, StayMap

(* The next page was mapped, below tables that are all there. *)
LEMMA PageMap ==
    ASSUME IInv, Go, vmm_set_page, NEW p \in Proc, p = cur, p = cur'
    PROVE  MapOK(p)' /\ Within(p)'
  <1>1. CallOK /\ TypeOK
    BY DEF IInv
  <1>2. pc = "table" /\ pc' = "page" /\ pos' = pos + PAGE /\ stop' = stop /\ areas' = areas
        /\ Missing(pos \div PAGE) = {} /\ entry' = [entry EXCEPT ![<<cur, PageEntry(pos \div PAGE)>>] = hand]
    BY DEF vmm_set_page, list
  <1>3. pos < stop /\ hand # Null
    BY <1>1, <1>2 DEF CallOK
  <1>4. PICK d \in Page : d = pos \div PAGE
    BY <1>2, <1>3, NextToMap
  <1>5. /\ d \in Left(pos, stop) /\ Left(pos', stop') = Left(pos, stop) \ {d}
        /\ Left(pos, stop) \subseteq Covered(p)
    BY <1>2, <1>3, <1>4, NextToMap
  <1>6. FrameTypes
    BY <1>1, TypeParts
  <1>7. \A x \in Slot : entry'[x] = IF x = <<p, PageEntry(d)>> THEN hand ELSE entry[x]
    BY <1>2, <1>4, <1>6 DEF FrameTypes
  <1>8. ASSUME NEW g \in Page
        PROVE  /\ PageOf(p, g)' = IF g = d THEN hand ELSE PageOf(p, g)
               /\ \A k \in 1..Levels : entry'[<<p, TableEntry(k, g)>>] = entry[<<p, TableEntry(k, g)>>]
    <2>1. <<p, PageEntry(g)>> \in Slot /\ \A k \in 1..Levels : <<p, TableEntry(k, g)>> \in Slot
      BY PageSlot
    <2>2. (PageEntry(d) = PageEntry(g) => g = d) /\ \A k \in 1..Levels : TableEntry(k, g) # PageEntry(d)
      BY EntriesApart
    <2> QED BY <1>7, <2>1, <2>2 DEF PageOf
  <1>9. Covered(p)' = Covered(p)
    BY <1>2 DEF Covered
  <1>10. \A g \in Page : g \in Owed(p)' <=> g \in Owed(p) \/ g = d
    <2>1. Owed(p)' = Covered(p)' \ Pending'
      BY DEF Owed
    <2>2. Owed(p) = Covered(p) \ Pending
      BY DEF Owed
    <2>3. Pending' = Left(pos', stop') /\ Pending = Left(pos, stop)
      BY <1>2 DEF Pending
    <2> QED BY <1>5, <1>9, <2>1, <2>2, <2>3
  <1>11. MapOK(p)
    BY MappingIs DEF IInv
  <1>12. \A k \in 1..Levels : entry[<<p, TableEntry(k, d)>>] # Null
    BY <1>2, <1>4 DEF Missing
  <1>13. \A g : Hole(p, g) => Hole(p, g)'
    BY <1>2, HoleKept
  <1>14. MapOK(p)'
    <2> SUFFICES ASSUME NEW g \in Page
                 PROVE  /\ PageOf(p, g)' # Null => g \in Owed(p)'
                        /\ g \in Owed(p)' => PageOf(p, g)' # Null \/ Hole(p, g)'
                        /\ PageOf(p, g)' # Null => \A l \in 1..Levels : entry'[<<p, TableEntry(l, g)>>] # Null
      BY DEF MapOK
    <2>1. /\ PageOf(p, g) # Null => g \in Owed(p)
          /\ g \in Owed(p) => PageOf(p, g) # Null \/ Hole(p, g)
          /\ PageOf(p, g) # Null => \A l \in 1..Levels : entry[<<p, TableEntry(l, g)>>] # Null
      BY <1>11 DEF MapOK
    <2>2. CASE g = d
      BY <1>3, <1>8, <1>10, <1>12, <2>2
    <2>3. CASE g # d
      BY <1>8, <1>10, <1>13, <2>1, <2>3
    <2> QED BY <2>2, <2>3
  <1> QED BY <1>2, <1>5, <1>9, <1>14 DEF Within

(* The last page of an area was mapped. *)
LEMMA DoneMap ==
    ASSUME IInv, Go, FillArea, NEW p \in Proc, p = cur, p = cur'
    PROVE  MapOK(p)' /\ Within(p)'
  <1>1. pc = "page" /\ pos >= stop /\ pc' = "area" /\ entry' = entry /\ areas' = areas
    BY DEF FillArea, list
  <1>2. pos \in Nat /\ stop \in Nat
    BY DEF IInv, TypeOK
  <1>3. Left(pos, stop) = {}
    BY <1>1, <1>2, LeftNone
  <1>4. Pending' = Pending
    BY <1>1, <1>3 DEF Pending
  <1> QED BY <1>1, <1>4, StayEntries DEF Within

(* An area is about to be unmapped. *)
LEMMA FreeMap ==
    ASSUME IInv, Go, procmm_free_map, NEW p \in Proc, p = cur, p = cur'
    PROVE  MapOK(p)' /\ Within(p)'
  <1>1. TypeOK /\ Lists
    BY DEF IInv
  <1>2. /\ pc = "area" /\ pc' \in {"unmap", "free_P4"} /\ entry' = entry /\ areas' = areas
        /\ pc' = "unmap" => pos' = Head(areas[p]).start /\ stop' = Head(areas[p]).end /\ areas[p] # <<>>
    BY DEF procmm_free_map, list
  <1>3. ASSUME pc' = "unmap"
        PROVE  Left(pos', stop') = Cov(areas[p][1])
    <2>1. areas[p] \in Seq(Area)
      BY <1>1, ListTypes
    <2>2. 1 \in DOMAIN areas[p] /\ Head(areas[p]) = areas[p][1]
      BY <1>2, <1>3, <2>1
    <2>3. Shaped(areas[p][1])
      BY <1>1, <2>2 DEF Lists
    <2> QED BY <1>2, <1>3, <2>2, <2>3 DEF Shaped
  <1>4. Pending' = Pending
    <2>1. Pending = {}
      BY <1>2 DEF Pending
    <2>2. Pending' = {}
      BY <1>2, <1>3 DEF Pending
    <2> QED BY <2>1, <2>2
  <1> QED BY <1>2, <1>3, <1>4, StayEntries DEF Within

(* A page was given back. *)
LEMMA UnmapMap ==
    ASSUME IInv, Go, procmm_unmap, NEW p \in Proc, p = cur, p = cur'
    PROVE  MapOK(p)' /\ Within(p)'
  <1>1. CallOK /\ TypeOK
    BY DEF IInv
  <1>2. pc = "unmap" /\ pc' = "unmap" /\ pos < stop /\ pos' = pos + PAGE /\ stop' = stop /\ areas' = areas
        /\ entry' = [entry EXCEPT ![<<cur, PageEntry(pos \div PAGE)>>] = Null]
    BY DEF procmm_unmap, list
  <1>3. task = "wait"
    BY <1>1, <1>2 DEF CallOK
  <1>4. PICK d \in Page : d = pos \div PAGE
    BY <1>2, NextToUnmap
  <1>5. /\ d \in Left(pos, stop) /\ Left(pos', stop') = Left(pos, stop) \ {d}
        /\ Left(pos, stop) \subseteq Cov(areas[p][1]) /\ 1 \in DOMAIN areas[p]
    BY <1>2, <1>4, NextToUnmap
  <1>6. FrameTypes
    BY <1>1, TypeParts
  <1>7. \A x \in Slot : entry'[x] = IF x = <<p, PageEntry(d)>> THEN Null ELSE entry[x]
    BY <1>2, <1>4, <1>6 DEF FrameTypes
  <1>8. ASSUME NEW g \in Page
        PROVE  /\ PageOf(p, g)' = IF g = d THEN Null ELSE PageOf(p, g)
               /\ \A k \in 1..Levels : entry'[<<p, TableEntry(k, g)>>] = entry[<<p, TableEntry(k, g)>>]
    <2>1. <<p, PageEntry(g)>> \in Slot /\ \A k \in 1..Levels : <<p, TableEntry(k, g)>> \in Slot
      BY PageSlot
    <2>2. (PageEntry(d) = PageEntry(g) => g = d) /\ \A k \in 1..Levels : TableEntry(k, g) # PageEntry(d)
      BY EntriesApart
    <2> QED BY <1>7, <2>1, <2>2 DEF PageOf
  <1>9. Covered(p)' = Covered(p)
    BY <1>2 DEF Covered
  <1>10. \A g \in Page : g \in Owed(p)' <=> g \in Owed(p) /\ g # d
    <2>1. Owed(p)' = Covered(p)' \ Pending'
      BY DEF Owed
    <2>2. Owed(p) = Covered(p) \ Pending
      BY DEF Owed
    <2>3. Pending' = Cov(areas[p][1]) \ Left(pos', stop') /\ Pending = Cov(areas[p][1]) \ Left(pos, stop)
      BY <1>2 DEF Pending
    <2> QED BY <1>5, <1>9, <2>1, <2>2, <2>3
  <1>11. MapOK(p)
    BY MappingIs DEF IInv
  <1>12. \A g : ~Hole(p, g)
    BY <1>3, NoHole
  <1>13. MapOK(p)'
    <2> SUFFICES ASSUME NEW g \in Page
                 PROVE  /\ PageOf(p, g)' # Null => g \in Owed(p)'
                        /\ g \in Owed(p)' => PageOf(p, g)' # Null \/ Hole(p, g)'
                        /\ PageOf(p, g)' # Null => \A l \in 1..Levels : entry'[<<p, TableEntry(l, g)>>] # Null
      BY DEF MapOK
    <2>1. /\ PageOf(p, g) # Null => g \in Owed(p)
          /\ g \in Owed(p) => PageOf(p, g) # Null \/ Hole(p, g)
          /\ PageOf(p, g) # Null => \A l \in 1..Levels : entry[<<p, TableEntry(l, g)>>] # Null
      BY <1>11 DEF MapOK
    <2>2. CASE g = d
      BY <1>8, <1>10, <2>2
    <2>3. CASE g # d
      BY <1>8, <1>10, <1>12, <2>1, <2>3
    <2> QED BY <2>2, <2>3
  <1> QED BY <1>2, <1>5, <1>13 DEF Within

(***************************************************************************)
(* An area without pages is removed; others keep theirs, as none was       *)
(* shared.                                                                 *)
(***************************************************************************)
LEMMA RemovedMap ==
    ASSUME IInv, Go, AreaRemoved, NEW p \in Proc, p = cur, p = cur'
    PROVE  MapOK(p)' /\ Within(p)'
  <1>1. CallOK /\ TypeOK /\ Children
    BY DEF IInv
  <1>2. pc = "unmap" /\ pc' = "area" /\ pos >= stop /\ entry' = entry
        /\ areas' = [areas EXCEPT ![p] = Tail(areas[p])]
    BY DEF AreaRemoved
  <1>3. task = "wait" /\ p # InitProc /\ areas[p] # <<>> /\ pos \in Nat /\ stop \in Nat
    BY <1>1, <1>2 DEF CallOK, TypeOK
  <1>4. areas \in [Proc -> Seq(Area)] /\ DOMAIN areas[p] = 1..Len(areas[p])
    BY <1>1, ListTypes, TypeParts DEF ListType
  <1>5. /\ Len(areas[p]) \in Nat /\ Len(areas[p]) > 0
        /\ DOMAIN areas'[p] = 1..(Len(areas[p]) - 1)
        /\ \A j \in 1..(Len(areas[p]) - 1) : areas'[p][j] = areas[p][j + 1] /\ j + 1 \in 1..Len(areas[p])
    BY <1>2, <1>3, <1>4, RemovedIs
  <1>6. \A j, k \in 1..Len(areas[p]) : j < k => Apart(areas[p][j], areas[p][k])
    BY <1>1, <1>3, <1>4 DEF Children
  <1>7. Left(pos, stop) = {}
    BY <1>2, <1>3, LeftNone
  <1>8. Pending = Cov(areas[p][1]) /\ Pending' = {}
    BY <1>2, <1>7 DEF Pending
  <1> DEFINE n == Len(areas[p])
             c(k) == Cov(areas[p][k])
  <1>9. /\ n \in Nat /\ n > 0 /\ 1 \in 1..n
        /\ \A k \in 1..n : k # 1 => k - 1 \in 1..(n - 1) /\ (k - 1) + 1 = k
        /\ \A k \in 1..n : k # 1 => 1 < k
        /\ \A j \in 1..(n - 1) : j + 1 \in 1..n /\ j + 1 # 1
    <2> HIDE DEF n, c
    <2>1. n \in Nat /\ n > 0
      BY <1>5 DEF n
    <2> QED BY <2>1
  <1>10. \A g \in Page : g \in Covered(p)' <=> \E j \in 1..(n - 1) : g \in c(j + 1)
    BY <1>5 DEF Covered
  <1>11. \A g \in Page : g \in Covered(p) <=> \E j \in 1..n : g \in c(j)
    BY <1>4 DEF Covered
  <1>12. \A k \in 1..n : k # 1 => \A g : g \in c(k) => g \notin c(1)
    BY <1>6, <1>9 DEF Apart
  <1>13. \A g \in Page : g \in Owed(p)' <=> g \in Owed(p)
    <2>1. Owed(p)' = Covered(p)' \ {}
      BY <1>8 DEF Owed
    <2>2. Owed(p) = Covered(p) \ c(1)
      BY <1>8 DEF Owed
    <2> HIDE DEF n, c
    <2>3. ASSUME NEW g \in Page, g \in Covered(p)'
          PROVE  g \in Covered(p) /\ g \notin c(1)
      BY <1>9, <1>10, <1>11, <1>12, <2>3
    <2>4. ASSUME NEW g \in Page, g \in Covered(p), g \notin c(1)
          PROVE  g \in Covered(p)'
      <3>1. PICK j \in 1..n : g \in c(j)
        BY <1>11, <2>4
      <3>2. j # 1
        BY <2>4, <3>1
      <3>3. j - 1 \in 1..(n - 1) /\ (j - 1) + 1 = j
        BY <1>9, <3>2
      <3>4. g \in c((j - 1) + 1)
        BY <3>1, <3>3
      <3> QED BY <1>10, <3>3, <3>4
    <2> QED BY <2>1, <2>2, <2>3, <2>4
  <1>14. MapOK(p)
    BY MappingIs DEF IInv
  <1>15. \A g : ~Hole(p, g)
    BY <1>3, NoHole
  <1>16. MapOK(p)'
    BY <1>2, <1>13, <1>14, <1>15 DEF MapOK, PageOf
  <1> QED BY <1>2, <1>16 DEF Within

(* A map without areas has no pages. *)
LEMMA NoPages ==
    ASSUME IInv, pc = "free_P4", NEW g \in Page
    PROVE  cur \in Proc /\ areas[cur] = <<>> /\ PageOf(cur, g) = Null
  <1>1. CallOK
    BY DEF IInv
  <1>2. cur \in Proc /\ areas[cur] = <<>>
    BY <1>1 DEF CallOK
  <1>3. MapOK(cur)
    BY <1>2, MappingIs DEF IInv
  <1>4. g \notin Owed(cur)
    BY <1>2 DEF Owed, Covered
  <1> QED BY <1>2, <1>3, <1>4 DEF MapOK

(* A table was given back, of a map without pages. *)
LEMMA TablesMap ==
    ASSUME IInv, Go, vmm_free_P4, NEW p \in Proc, p = cur, p = cur'
    PROVE  MapOK(p)' /\ Within(p)'
  <1>1. TypeOK
    BY DEF IInv
  <1>2. pc = "free_P4" /\ pc' = "free_P4" /\ areas' = areas
    BY DEF vmm_free_P4, list, call
  <1>3. PICK n \in Node : entry' = [entry EXCEPT ![<<p, n>>] = Null]
    BY DEF vmm_free_P4
  <1>4. FrameTypes
    BY <1>1, TypeParts
  <1>5. \A g \in Page : PageOf(p, g)' = Null
    <2> TAKE g \in Page
    <2>1. PageOf(p, g) = Null /\ <<p, PageEntry(g)>> \in Slot
      BY <1>2, NoPages, PageSlot
    <2> QED BY <1>3, <1>4, <2>1 DEF PageOf, FrameTypes
  <1>6. \A g \in Page : g \notin Owed(p)'
    <2>1. \A g \in Page : areas[p] = <<>>
      BY <1>2, NoPages
    <2> QED BY <1>2, <2>1 DEF Owed, Covered
  <1> QED BY <1>2, <1>5, <1>6 DEF MapOK, Within

(* The call goes on. *)
LEMMA StepMap ==
    ASSUME IInv, Go, NEW p \in Proc, p = cur, p = cur'
    PROVE  MapOK(p)' /\ Within(p)'
  <1>1. CallOK /\ cur # Null /\ cur' # Null
    BY NullApart DEF IInv
  <1>2. pc \notin {"pmm_init", "cpu_init", "idle"}
    BY <1>1 DEF CallOK
  <1>3. ~multiboot_get_memory_area /\ ~ScanPmm /\ ~cpu_init /\ ~kmain /\ ~ksbrk
    BY <1>2 DEF multiboot_get_memory_area, ScanPmm, cpu_init, kmain, ksbrk, Idle
  <1>4. ~Grow /\ ~Stores /\ ~Forks /\ ~Exits /\ ~Waits
    BY <1>2 DEF Grow, procmm_resize, Undefined, procmm_page_fault, Stores, Store, Forks, fork, Exits, exit, Waits,
        process_free, Runs, Idle
  <1>5. ~exec_elf /\ ~procmm_new_map /\ ~GrowDone /\ ~MapFreed
    BY <1>1 DEF exec_elf, procmm_new_map, GrowDone, MapFreed, Return
  <1>6. CASE procmm_map
    BY <1>6, MapIs, MappedMap, RefusedMap
  <1>7. CASE AllocPage \/ vmm_find_page \/ vmm_set_page \/ FillArea
    BY <1>7, AllocMap, TableMap, PageMap, DoneMap
  <1>8. CASE procmm_free_map \/ procmm_unmap \/ AreaRemoved \/ vmm_free_P4
    BY <1>8, FreeMap, UnmapMap, RemovedMap, TablesMap
  <1> QED BY <1>3, <1>4, <1>5, <1>6, <1>7, <1>8, GoIs

(* The call ends. *)
LEMMA EndMap ==
    ASSUME IInv, Go, NEW p \in Proc, p = cur, p # cur'
    PROVE  /\ MapOK(p)' /\ cur' = Null /\ areas' = areas /\ entry' = entry /\ Pending = {}
           /\ exec_elf \/ procmm_new_map \/ GrowDone \/ MapFreed
  <1>1. CallOK /\ cur # Null /\ pos \in Nat /\ stop \in Nat
    BY NullApart DEF IInv, TypeOK
  <1>2. pc \notin {"pmm_init", "cpu_init", "idle"}
    BY <1>1 DEF CallOK
  <1>3. cur' = Null /\ (exec_elf \/ procmm_new_map \/ GrowDone \/ MapFreed)
    BY <1>2, CurChanges DEF cpu_init
  <1>4. areas' = areas /\ entry' = entry
    BY <1>3 DEF exec_elf, procmm_new_map, GrowDone, MapFreed, list
  <1>5. Pending = {}
    <2>1. CASE exec_elf \/ procmm_new_map \/ MapFreed
      BY <2>1 DEF exec_elf, procmm_new_map, MapFreed, Pending
    <2>2. CASE GrowDone
      <3>1. Left(pos, stop) = {} /\ pc = "page"
        BY <1>1, <2>2, LeftNone DEF GrowDone
      <3> QED BY <3>1 DEF Pending
    <2> QED BY <1>3, <2>1, <2>2
  <1>6. Owed(p)' = Owed(p)
    <2>1. Owed(p)' = Covered(p)'
      BY DEF Owed
    <2>2. Owed(p) = Covered(p) \ {}
      BY <1>5 DEF Owed
    <2>3. Covered(p)' = Covered(p)
      BY <1>4 DEF Covered
    <2> QED BY <2>1, <2>2, <2>3
  <1>7. \A g \in Page : /\ PageOf(p, g)' = PageOf(p, g)
                        /\ \A l \in 1..Levels : entry[<<p, TableEntry(l, g)>>] # Null =>
                                entry'[<<p, TableEntry(l, g)>>] # Null
    BY <1>4 DEF PageOf
  <1> QED BY <1>3, <1>4, <1>5, <1>6, <1>7, SameMap

(* What brk adds, from the page after its old end e0 to its new end e, below *)
(* the stack at s: it has none of those pages, and its area has them all and *)
(* those it had, but for the page of a boundary that e0 may be.              *)
LEMMA BrkPages ==
    ASSUME NEW e0 \in Nat, NEW e \in Nat, NEW s \in Nat, s % PAGE = 0,
           BrkStart + ArgSize <= e0, e0 <= TOP, BrkStart + ArgSize <= e, e <= s, s <= TOP,
           e0 < e \/ e = s, NEW g \in Page
    PROVE  LET a == [start |-> BrkStart, end |-> e0]
               b == [start |-> BrkStart, end |-> e]
               c == [start |-> s, end |-> TOP]
               l == Left(FirstNew(e0), e)
           IN  /\ g \in Cov(a) => g \notin l /\ (g \in Cov(b) \/ g \in Cov(c))
               /\ g \in Cov(b) /\ g \notin l =>
                    \/ g \in Cov(a)
                    \/ e0 % PAGE = 0 /\ e0 < s /\ g = e0 \div PAGE /\ g \notin Args
               /\ g \in l => g \in Cov(b) /\ g \notin Cov(c)
  <1> DEFINE a == [start |-> BrkStart, end |-> e0]
             b == [start |-> BrkStart, end |-> e]
             c == [start |-> s, end |-> TOP]
             f == FirstNew(e0)
  <1>1. BrkStart \in Nat /\ ArgSize \in Nat /\ ArgSize > 0 /\ TOP \in Nat /\ PAGE \in Nat /\ PAGE > 0
        /\ BrkStart % PAGE = 0
    BY ImageFacts, Numbers
  <1>2. f \in Nat /\ f % PAGE = 0 /\ e0 < f /\ f <= e0 + PAGE /\ f = (e0 \div PAGE + 1) * PAGE
    BY FirstNewIs
  <1> HIDE DEF f
  <1>3. PICK m \in Nat : m = e0 \div PAGE
    BY Divide
  <1>4. PICK t \in Nat : t = m * PAGE
    BY <1>3, Divide
  <1>5. PICK u \in Nat : u = g * PAGE
    BY PageFacts
  <1>6. (g + 1) * PAGE = u + PAGE /\ u + PAGE <= TOP /\ g \in Nat
    BY <1>5, PageFacts, NextTimes
  <1>7. e0 = t + (e0 % PAGE) /\ e0 % PAGE \in Nat /\ e0 % PAGE < PAGE /\ f = t + PAGE
    <2>1. (m + 1) * PAGE = t + PAGE
      BY <1>3, <1>4, NextTimes
    <2> QED BY <1>2, <1>3, <1>4, <2>1, Divide
  <1>8. g < m => u + PAGE <= t
    BY <1>3, <1>4, <1>5, <1>6, LaterTimes
  <1>9. g > m => t + PAGE <= u
    BY <1>3, <1>4, <1>5, <1>6, LaterTimes
  <1>10. g = m => u = t
    BY <1>4, <1>5
  <1>a. /\ Cov(a) = PagesOf(BrkStart, e0) /\ Cov(b) = PagesOf(BrkStart, e)
        /\ Cov(c) = PagesOf(s, TOP)
    <2>1. /\ a \in Area /\ b \in Area /\ c \in Area
          /\ a.start = BrkStart /\ b.start = BrkStart /\ c.start = s
          /\ a.end = e0 /\ b.end = e /\ c.end = TOP
      BY <1>1, IsArea
    <2> HIDE DEF a, b, c
    <2> QED BY <1>1, <2>1, CovAligned
  <1>11. g \in Cov(a) <=> BrkStart < e0 /\ u < e0 /\ BrkStart < u + PAGE
    BY <1>5, <1>6, <1>a DEF PagesOf
  <1>12. g \in Cov(b) <=> BrkStart < e /\ u < e /\ BrkStart < u + PAGE
    BY <1>5, <1>6, <1>a DEF PagesOf
  <1>13. g \in Cov(c) <=> s < TOP /\ u < TOP /\ s < u + PAGE
    BY <1>5, <1>6, <1>a DEF PagesOf
  <1>14. g \in Args <=> u < BrkStart + ArgSize /\ BrkStart < u + PAGE
    BY <1>1, <1>5, <1>6 DEF Args, PagesOf
  <1>15. g \in Left(f, e) <=> f < u + PAGE /\ u < e
    <2>1. g \in Left(f, e) <=> g \in PagesOf(f, e)
      BY <1>2, LeftAligned
    <2>2. g \in PagesOf(f, e) <=> f < e /\ u < e /\ f < u + PAGE
      BY <1>5, <1>6 DEF PagesOf
    <2>3. f < u + PAGE => f <= u
      <3>1. g <= m => u + PAGE <= f
        BY <1>1, <1>3, <1>6, <1>7, <1>8, <1>10
      <3>2. g > m => f <= u
        BY <1>7, <1>9
      <3> QED BY <1>1, <1>2, <1>3, <1>6, <3>1, <3>2
    <2> QED BY <1>1, <1>2, <2>1, <2>2, <2>3
  <1>16. s < u + PAGE => s <= u
    <2>1. PICK k \in Nat : k = s \div PAGE /\ s = k * PAGE
      BY Divide
    <2>2. g < k => u + PAGE <= s
      BY <1>5, <1>6, <2>1, LaterTimes
    <2>3. k < g => s + PAGE <= u
      BY <1>5, <1>6, <2>1, LaterTimes
    <2>4. k = g => s = u
      BY <1>5, <2>1
    <2> QED BY <1>1, <1>6, <2>1, <2>2, <2>3, <2>4
  <1> HIDE DEF a, b, c
  <1>17. g \in Cov(a) => g \notin Left(f, e)
    BY <1>1, <1>2, <1>7, <1>8, <1>9, <1>10, <1>11, <1>15, <1>3, <1>6
  <1>18. g \in Cov(a) => g \in Cov(b) \/ g \in Cov(c)
    <2>1. CASE e0 < e
      BY <1>1, <1>11, <1>12, <2>1
    <2>2. CASE e = s /\ e <= e0
      BY <1>1, <1>6, <1>11, <1>12, <1>13, <1>16, <2>2
    <2> QED BY <2>1, <2>2
  <1>19. ASSUME g \in Cov(b), g \notin Left(f, e), g \notin Cov(a)
         PROVE  e0 % PAGE = 0 /\ e0 < s /\ g = e0 \div PAGE /\ g \notin Args
    <2>1. u < e /\ BrkStart < u + PAGE /\ u + PAGE <= f /\ u >= e0
      BY <1>1, <1>2, <1>11, <1>12, <1>15, <1>19
    <2>2. u <= t
      BY <1>1, <1>7, <2>1
    <2>3. e0 % PAGE = 0 /\ u = e0
      BY <1>7, <2>1, <2>2
    <2>4. u = t /\ g = m
      <3>1. u = t
        BY <1>7, <2>3
      <3>2. ~(g < m) /\ ~(g > m)
        BY <1>1, <1>8, <1>9, <3>1
      <3> QED BY <1>3, <1>6, <3>1, <3>2
    <2>5. g = e0 \div PAGE
      BY <1>3, <2>4
    <2>6. e0 < s
      BY <2>1, <2>3
    <2>7. g \notin Args
      BY <1>1, <1>14, <2>3
    <2> QED BY <2>3, <2>5, <2>6, <2>7
  <1>20. g \in Left(f, e) => g \in Cov(b) /\ g \notin Cov(c)
    BY <1>1, <1>2, <1>12, <1>13, <1>15, <1>16
  <1> QED BY <1>17, <1>18, <1>19, <1>20 DEF a, b, c, f

(* The stack grows by the pages between its new start and its old one. *)
LEMMA StackPages ==
    ASSUME NEW s \in Nat, NEW t \in Nat, s % PAGE = 0, t % PAGE = 0, s <= t, t <= TOP, NEW g \in Page
    PROVE  g \in Cov([start |-> s, end |-> TOP]) <=>
             g \in Cov([start |-> t, end |-> TOP]) \/ g \in PagesOf(s, t)
  <1>1. PICK u \in Nat : u = g * PAGE
    BY PageFacts
  <1>2. (g + 1) * PAGE = u + PAGE /\ u + PAGE <= TOP /\ g \in Nat
    BY <1>1, PageFacts, NextTimes
  <1>3. PAGE \in Nat /\ PAGE > 0 /\ TOP \in Nat
    BY Numbers
  <1>4. /\ Cov([start |-> s, end |-> TOP]) = PagesOf(s, TOP)
        /\ Cov([start |-> t, end |-> TOP]) = PagesOf(t, TOP)
    <2>1. ASSUME NEW x \in Nat, x % PAGE = 0
          PROVE  Cov([start |-> x, end |-> TOP]) = PagesOf(x, TOP)
      <3> DEFINE a == [start |-> x, end |-> TOP]
      <3>1. a \in Area /\ a.start = x /\ a.end = TOP
        BY <1>3, IsArea
      <3> HIDE DEF a
      <3>2. Cov(a) = PagesOf(x, TOP)
        BY <2>1, <3>1, CovAligned
      <3> QED BY <3>2 DEF a
    <2> QED BY <2>1
  <1> QED BY <1>1, <1>2, <1>3, <1>4 DEF PagesOf

(* The areas of init once it runs, and the pages they have. *)
LEMMA InitCovered ==
    ASSUME IInv, st[InitProc] # "unused", NEW g \in Page
    PROVE  g \in Covered(InitProc) <=>
             (\E k \in 1..N : g \in Cov(ExecPlan[k])) \/ g \in Cov(BrkArea) \/ g \in Cov(StackArea)
  <1>1. InitAreas /\ TypeOK /\ Lists
    BY DEF IInv
  <1>2. DOMAIN areas[InitProc] = 1..(N + 2) /\ \A k \in 1..N : areas[InitProc][k] = ExecPlan[k]
    BY <1>1, InitTypes DEF InitAreas, ImageArea
  <1>3. /\ N + 1 \in 1..(N + 2) /\ N + 2 \in 1..(N + 2) /\ \A k \in 1..N : k \in 1..(N + 2)
        /\ \A k \in 1..(N + 2) : k \in 1..N \/ k = N + 1 \/ k = N + 2
    BY ImageFacts
  <1> QED BY <1>2, <1>3 DEF Covered, BrkArea, StackArea

(* And those they have after growth. *)
LEMMA GrowCovered ==
    ASSUME IInv, Go, Grow, NEW g \in Page
    PROVE  g \in Covered(InitProc)' <=>
             (\E k \in 1..N : g \in Cov(ExecPlan[k])) \/ g \in Cov(BrkArea') \/ g \in Cov(StackArea')
  <1>1. DOMAIN areas'[InitProc] = 1..(N + 2) /\ \A k \in 1..N : areas'[InitProc][k] = ExecPlan[k]
    BY GrowIs
  <1>2. /\ N + 1 \in 1..(N + 2) /\ N + 2 \in 1..(N + 2) /\ \A k \in 1..N : k \in 1..(N + 2)
        /\ \A k \in 1..(N + 2) : k \in 1..N \/ k = N + 1 \/ k = N + 2
    BY ImageFacts
  <1> QED BY <1>1, <1>2 DEF Covered, BrkArea, StackArea

(* The pages that growth adds are new, and only boundary pages are left out. *)
LEMMA GrowPages ==
    ASSUME IInv, Go, Grow, NEW g \in Page
    PROVE  /\ g \in Covered(InitProc) /\ PageOf(InitProc, g) # Null =>
                g \in Covered(InitProc)' /\ g \notin Left(pos', stop')
           /\ g \in Left(pos', stop') => g \in Covered(InitProc)'
           /\ g \in Covered(InitProc)' /\ g \notin Left(pos', stop') =>
                \/ g \in Covered(InitProc) /\ (Hole(InitProc, g) => Hole(InitProc, g)')
                \/ Hole(InitProc, g)'
  <1>1. InitAreas /\ TypeOK /\ Lists
    BY DEF IInv
  <1>2. GrowStep /\ st[InitProc] # "unused"
    BY GrowIs
  <1>3. /\ BrkArea.start = BrkStart /\ BrkStart + ArgSize <= BrkArea.end
        /\ StackArea.end = TOP /\ StackArea.start % PAGE = 0
        /\ BrkArea.end % PAGE = 0 /\ BrkArea.end < StackArea.start =>
            BrkArea.end \div PAGE \in Boundaries
    BY <1>1, <1>2 DEF InitAreas
  <1>4. BrkArea \in Area /\ StackArea \in Area /\ BrkArea.end <= TOP /\ StackArea.start <= TOP
    BY <1>1, <1>2, InitTypes
  <1>5. PICK a \in Area, c \in Area, e0 \in Nat, s0 \in Nat :
          /\ a = BrkArea /\ c = StackArea /\ e0 = BrkArea.end /\ s0 = StackArea.start
          /\ a = [start |-> BrkStart, end |-> e0] /\ c = [start |-> s0, end |-> TOP]
    <2>1. \A x \in Area : x = [start |-> x.start, end |-> x.end] /\ x.start \in Nat /\ x.end \in Nat
      BY DEF Area
    <2> QED BY <1>3, <1>4, <2>1
  <1>6. PICK e \in Nat, s \in Nat :
          /\ areas'[InitProc][N + 1] = [start |-> BrkStart, end |-> e]
          /\ areas'[InitProc][N + 2] = [start |-> s, end |-> TOP]
          /\ BrkStart + ArgSize <= e /\ e <= TOP
          /\ BrkStart + ArgSize <= s /\ s % PAGE = 0 /\ s <= TOP
          /\ \/ /\ s = StackArea.start /\ e <= s /\ (BrkArea.end < e \/ e = s)
                /\ pos' = FirstNew(BrkArea.end) /\ stop' = e
             \/ /\ e = BrkArea.end /\ s = StackArea.start - PAGE
                /\ pos' = s /\ stop' = StackArea.start
                /\ \E h \in Page : PageOf(InitProc, h) = Null /\ Left(s, stop') = {h} /\ h \notin Args
    BY GrowIs
  <1>7. PICK b, d : b = [start |-> BrkStart, end |-> e] /\ d = [start |-> s, end |-> TOP]
    OBVIOUS
  <1>8. BrkArea' = b /\ StackArea' = d
    BY <1>6, <1>7 DEF BrkArea, StackArea
  <1> DEFINE img == \E k \in 1..N : g \in Cov(ExecPlan[k])
             old == g \in Covered(InitProc)
             new == g \in Covered(InitProc)'
             lft == g \in Left(pos', stop')
  <1>9. old <=> img \/ g \in Cov(a) \/ g \in Cov(c)
    BY <1>2, <1>5, InitCovered
  <1>10. new <=> img \/ g \in Cov(b) \/ g \in Cov(d)
    BY <1>8, GrowCovered
  <1>11. img => g \notin Cov(b) /\ g \notin Cov(d)
    <2>1. ASSUME NEW k \in 1..N, g \in Cov(ExecPlan[k])
          PROVE  g \notin Cov(b) /\ g \notin Cov(d)
      <3>1. Pair(ExecPlan[k], b) /\ Pair(ExecPlan[k], d)
        BY <1>6, <1>7, InitListOK
      <3>2. ExecPlan[k].end < BrkStart /\ ExecPlan[k].end \in Nat /\ BrkStart \in Nat /\ ArgSize \in Nat
        <4>1. ExecPlan[k].end = Image[k].end /\ Image[k].end \in Nat
              /\ Image[k].end < BrkStart /\ BrkStart \in Nat /\ ArgSize \in Nat
          BY PlanIs, ImageFacts, Numbers
        <4> QED BY <4>1
      <3>3. b.start = BrkStart /\ d.start = s
        BY <1>7
      <3>4. Apart(ExecPlan[k], b) /\ Apart(ExecPlan[k], d)
        BY <1>6, <3>1, <3>2, <3>3 DEF Pair
      <3> QED BY <2>1, <3>4 DEF Apart
    <2> QED BY <2>1
  <1>12. Hole(InitProc, g) <=> g \in Boundaries /\ g \in Cov(a) /\ g \notin Cov(c) /\ g \notin Args
    BY <1>2, <1>5 DEF Hole
  <1>13. Hole(InitProc, g)' <=> g \in Boundaries /\ g \in Cov(b) /\ g \notin Cov(d) /\ g \notin Args
    <2>1. st'[InitProc] # "unused"
      BY <1>2 DEF GrowStep
    <2> QED BY <1>8, <2>1 DEF Hole
  <1>14. CASE /\ s = StackArea.start /\ e <= s /\ (BrkArea.end < e \/ e = s)
              /\ pos' = FirstNew(BrkArea.end) /\ stop' = e
    <2>1. d = c /\ s = s0 /\ e <= s /\ (e0 < e \/ e = s) /\ BrkStart + ArgSize <= e0 /\ e0 <= TOP
          /\ (e0 % PAGE = 0 /\ e0 < s => e0 \div PAGE \in Boundaries)
      BY <1>3, <1>4, <1>5, <1>7, <1>14
    <2>2. lft <=> g \in Left(FirstNew(e0), e)
      BY <1>5, <1>14
    <2>3. /\ g \in Cov(a) => ~lft /\ (g \in Cov(b) \/ g \in Cov(c))
          /\ g \in Cov(b) /\ ~lft => g \in Cov(a) \/ (g \in Boundaries /\ g \notin Args)
          /\ lft => g \in Cov(b) /\ g \notin Cov(c)
      BY <1>5, <1>6, <1>7, <2>1, <2>2, BrkPages
    <2> HIDE DEF img, old, new, lft
    <2>5. (old => new /\ ~lft) /\ (lft => new) /\ (new /\ ~lft =>
                \/ old /\ (Hole(InitProc, g) => Hole(InitProc, g)')
                \/ Hole(InitProc, g)')
      BY <1>9, <1>10, <1>11, <1>12, <1>13, <2>1, <2>3
    <2> QED BY <2>5 DEF old, new, lft
  <1>15. CASE /\ e = BrkArea.end /\ s = StackArea.start - PAGE
              /\ pos' = s /\ stop' = StackArea.start
              /\ \E h \in Page : PageOf(InitProc, h) = Null /\ Left(s, stop') = {h} /\ h \notin Args
    <2>1. a = b /\ s <= s0 /\ s0 <= TOP /\ s0 % PAGE = 0
      BY <1>3, <1>4, <1>5, <1>7, <1>15, Numbers
    <2>2. PICK h \in Page : PageOf(InitProc, h) = Null /\ Left(s, s0) = {h}
      BY <1>5, <1>15
    <2>3. lft <=> g = h
      BY <1>5, <1>15, <2>2
    <2>4. PagesOf(s, s0) = {h}
      BY <1>6, <2>2, LeftAligned
    <2>5. g \in Cov(d) <=> g \in Cov(c) \/ g = h
      BY <1>5, <1>6, <1>7, <2>1, <2>4, StackPages
    <2> HIDE DEF img, old, new, lft
    <2>6. (old /\ g # h => new /\ ~lft) /\ (lft => new) /\ (new /\ ~lft =>
                \/ old /\ (Hole(InitProc, g) => Hole(InitProc, g)')
                \/ Hole(InitProc, g)')
      BY <1>9, <1>10, <1>11, <1>12, <1>13, <2>1, <2>3, <2>5
    <2> QED BY <2>2, <2>6 DEF old, new, lft
  <1> QED BY <1>6, <1>14, <1>15

(* Growth leaves the pages it adds pending. *)
LEMMA GrowMap ==
    ASSUME IInv, Go, Grow
    PROVE  MapOK(InitProc)' /\ Within(InitProc)'
  <1>1. CallOK /\ InitProc \in Proc
    BY MemoryAssumption DEF IInv
  <1>2. GrowStep
    BY GrowIs
  <1>3. cur = Null /\ cur # InitProc
    BY <1>1, <1>2, NullApart DEF GrowStep, CallOK
  <1>4. pc' = "page" /\ cur' = InitProc /\ entry' = entry
    BY <1>2 DEF GrowStep
  <1>5. Owed(InitProc) = Covered(InitProc)
    BY <1>3 DEF Owed
  <1>6. Owed(InitProc)' = Covered(InitProc)' \ Left(pos', stop')
    BY <1>4 DEF Owed, Pending
  <1>7. MapOK(InitProc)
    BY <1>1, MappingIs DEF IInv
  <1>8. MapOK(InitProc)'
    <2> SUFFICES ASSUME NEW g \in Page
                 PROVE  /\ PageOf(InitProc, g)' # Null => g \in Owed(InitProc)'
                        /\ g \in Owed(InitProc)' => PageOf(InitProc, g)' # Null \/ Hole(InitProc, g)'
                        /\ PageOf(InitProc, g)' # Null =>
                            \A l \in 1..Levels : entry'[<<InitProc, TableEntry(l, g)>>] # Null
      BY DEF MapOK
    <2>1. /\ PageOf(InitProc, g) # Null => g \in Covered(InitProc)
          /\ g \in Covered(InitProc) => PageOf(InitProc, g) # Null \/ Hole(InitProc, g)
          /\ PageOf(InitProc, g) # Null =>
                \A l \in 1..Levels : entry[<<InitProc, TableEntry(l, g)>>] # Null
      BY <1>5, <1>7 DEF MapOK
    <2>2. PageOf(InitProc, g)' = PageOf(InitProc, g)
      BY <1>4 DEF PageOf
    <2> QED BY <1>4, <1>6, <2>1, <2>2, GrowPages
  <1>9. \A g \in Left(pos', stop') : g \in Page
    BY DEF Left
  <1>10. Left(pos', stop') \subseteq Covered(InitProc)'
    BY <1>9, GrowPages
  <1> QED BY <1>4, <1>8, <1>10 DEF Within

(* Every step keeps areas and pages together. *)
LEMMA MappingStep ==
    ASSUME IInv, Go
    PROVE  Mapping'
  <1>1. CallOK' /\ CallType'
    BY CallStep, CallTypeStep
  <1>2. ASSUME NEW p \in Proc
        PROVE  MapOK(p)' /\ (p = cur' => Within(p)')
    <2>1. CASE p = cur /\ p = cur'
      BY <2>1, StepMap
    <2>2. CASE p = cur /\ p # cur'
      BY <2>2, EndMap
    <2>3. CASE p # cur /\ p # cur'
      BY <2>3, OtherMap
    <2>4. CASE p # cur /\ p = cur'
      <3>1. CASE Grow
        <4>1. p = InitProc
          BY <2>4, <3>1, GrowIs DEF GrowStep
        <4> QED BY <3>1, <4>1, GrowMap
      <3>2. CASE ~Grow
        <4>1. MapOK(p)' /\ pc' = "area"
          BY <2>4, <3>2, BeginMap
        <4> QED BY <4>1 DEF Within
      <3> QED BY <3>1, <3>2
    <2> QED BY <2>1, <2>2, <2>3, <2>4
  <1> QED BY <1>1, <1>2, MappingParts

-----------------------------------------------------------------------------
(* What frames hold *)

(* Filling pages of cur changes the frames of those pages only. *)
LEMMA FillKeeps ==
    ASSUME NEW d, NEW s \in SUBSET Page, NEW c, NEW f \in Frame, \A g \in s : PageOf(cur, g) # f
    PROVE  Fill(d, s, c)[f] = d[f]
  BY DEF Fill, Reached

(* Filling pages that are all there writes to each. *)
LEMMA FillWrites ==
    ASSUME NEW d, NEW s \in SUBSET Page, NEW c, NEW g \in s, PageOf(cur, g) \in Frame,
           \A h \in s : h <= g => PageOf(cur, h) # Null
    PROVE  Fill(d, s, c)[PageOf(cur, g)] = c
  <1>1. g \in Reached(cur, s)
    BY DEF Reached
  <1> QED BY <1>1 DEF Fill

(* The pages between two addresses, by those of the first and the last byte. *)
LEMMA PagesBetween ==
    ASSUME NEW a \in Nat, NEW b \in Nat, NEW g \in PagesOf(a, b)
    PROVE  g \in Page /\ a \div PAGE <= g /\ g <= (b - 1) \div PAGE
  <1>1. g \in Page /\ a < b /\ g * PAGE < b /\ a < (g + 1) * PAGE
    BY DEF PagesOf
  <1>2. g \in Int /\ b > 0
    BY <1>1, PageFacts
  <1> QED BY <1>1, <1>2, BeforeEnd, StartsBefore

(* The file part of a segment and the rest have its pages. *)
LEMMA SegmentPages ==
    ASSUME NEW k \in 1..N
    PROVE  /\ PagesOf(Image[k].start, Image[k].file) \subseteq PagesOf(Image[k].start, Image[k].end)
           /\ PagesOf(Image[k].file, Image[k].end) \subseteq PagesOf(Image[k].start, Image[k].end)
           /\ \A g \in PagesOf(Image[k].start, Image[k].end) :
                g \notin PagesOf(Image[k].start, Image[k].file) => g \in PagesOf(Image[k].file, Image[k].end)
           /\ PagesOf(Image[k].start, Image[k].end) \subseteq Page
           /\ Cov(ExecPlan[k]) \subseteq PagesOf(Image[k].start, Image[k].end)
           /\ \A g \in Cov(ExecPlan[k]) : \A h \in PagesOf(Image[k].start, Image[k].end) :
                h <= g => h \in Cov(ExecPlan[k])
  <1>1. PICK a \in Nat, b \in Nat, c \in Nat : a = Image[k].start /\ b = Image[k].file /\ c = Image[k].end
    BY ImageFacts
  <1>2. a <= b /\ b <= c /\ a < c
    BY <1>1, ImageFacts
  <1>3. ASSUME NEW g \in Page
        PROVE  /\ g \in PagesOf(a, b) => g \in PagesOf(a, c)
               /\ g \in PagesOf(b, c) => g \in PagesOf(a, c)
               /\ g \in PagesOf(a, c) /\ g \notin PagesOf(a, b) => g \in PagesOf(b, c)
    <2>1. PICK u \in Nat : u = g * PAGE /\ (g + 1) * PAGE = u + PAGE
      BY PageFacts, NextTimes
    <2>2. PAGE \in Nat /\ PAGE > 0
      BY Numbers
    <2> QED BY <1>2, <2>1, <2>2 DEF PagesOf
  <1>4. \A x, y : PagesOf(x, y) \subseteq Page
    BY DEF PagesOf
  <1>5. k \in 1..(N + 2)
    BY ImageFacts
  <1>6. ExecPlan[k] \in Area /\ ExecPlan[k].start = a /\ ExecPlan[k].end = c
    BY <1>1, <1>5, PlanIs, PlanShaped
  <1>7. Cov(ExecPlan[k]) \subseteq PagesOf(a, c)
    BY <1>6 DEF Cov
  <1>8. \A g \in Cov(ExecPlan[k]) : \A h \in PagesOf(a, c) : h <= g => h \in Cov(ExecPlan[k])
    BY <1>6, CovBefore
  <1> QED BY <1>1, <1>3, <1>4, <1>7, <1>8

(* Segments share no page. *)
LEMMA SegmentsApart ==
    ASSUME NEW j \in 1..N, NEW k \in 1..N, j # k, NEW g \in PagesOf(Image[j].start, Image[j].end)
    PROVE  g \notin PagesOf(Image[k].start, Image[k].end)
  <1> SUFFICES ASSUME g \in PagesOf(Image[k].start, Image[k].end) PROVE FALSE
    OBVIOUS
  <1>1. /\ Image[j].start \in Nat /\ Image[j].end \in Nat /\ Image[k].start \in Nat /\ Image[k].end \in Nat
        /\ Image[j].end - 1 \in Nat /\ Image[k].end - 1 \in Nat
    BY ImageFacts
  <1>2. /\ g \in Page /\ Image[j].start \div PAGE <= g /\ g <= (Image[j].end - 1) \div PAGE
        /\ Image[k].start \div PAGE <= g /\ g <= (Image[k].end - 1) \div PAGE
    BY <1>1, PagesBetween
  <1>3. /\ g \in Nat /\ Image[j].start \div PAGE \in Nat /\ (Image[j].end - 1) \div PAGE \in Nat
        /\ Image[k].start \div PAGE \in Nat /\ (Image[k].end - 1) \div PAGE \in Nat
    BY <1>1, <1>2, PageFacts, Divide
  <1>4. CASE j < k
    <2>1. (Image[j].end - 1) \div PAGE < Image[k].start \div PAGE
      BY <1>4, ImageFacts
    <2> QED BY <1>2, <1>3, <2>1
  <1>5. CASE k < j
    <2>1. (Image[k].end - 1) \div PAGE < Image[j].start \div PAGE
      BY <1>5, ImageFacts
    <2> QED BY <1>2, <1>3, <2>1
  <1>6. j < k \/ k < j
    BY ImageFacts
  <1> QED BY <1>4, <1>5, <1>6

(* The image ends on a page before that with the arguments. *)
LEMMA SegmentBelow ==
    ASSUME NEW k \in 1..N, NEW g \in PagesOf(Image[k].start, Image[k].end)
    PROVE  ~(BrkStart <= g * PAGE) /\ g \notin Args
  <1>1. g \in Page /\ g * PAGE < Image[k].end /\ Image[k].end < BrkStart /\ Image[k].end \in Nat
    BY ImageFacts DEF PagesOf
  <1>2. g \in Nat /\ g * PAGE \in Nat /\ (g + 1) * PAGE = g * PAGE + PAGE
    BY <1>1, PageFacts, NextTimes
  <1>3. BrkStart \in Nat /\ BrkStart % PAGE = 0 /\ PAGE \in Nat
    BY ImageFacts, Numbers
  <1>4. g * PAGE < BrkStart
    BY <1>1, <1>2, <1>3
  <1>5. PICK m \in Nat : m = BrkStart \div PAGE /\ BrkStart = m * PAGE
    BY <1>3, Divide
  <1>6. ~(BrkStart < (g + 1) * PAGE)
    <2>1. m < g => m * PAGE + PAGE <= g * PAGE
      BY <1>2, <1>5, LaterTimes
    <2>2. g < m => g * PAGE + PAGE <= m * PAGE
      BY <1>2, <1>5, LaterTimes
    <2>3. m = g => m * PAGE = g * PAGE
      OBVIOUS
    <2> QED BY <1>2, <1>3, <1>4, <1>5, <2>1, <2>2, <2>3
  <1> QED BY <1>2, <1>3, <1>4, <1>6 DEF Args, PagesOf

(* What loading an area or copying it writes to. *)
LEMMA DoneKeeps ==
    ASSUME IInv, FillArea, NEW f \in Frame, \A g \in Page : PageOf(cur, g) # f
    PROVE  data'[f] = data[f]
  <1>1. TypeOK /\ Distinct /\ CallOK /\ ExecAreas /\ ForkAreas /\ Lists
    BY DEF IInv
  <1>2. FrameTypes /\ DataType
    BY <1>1, TypeParts
  <1>3. task \in {"exec", "fork"} /\ pc = "page"
    BY DEF FillArea
  <1>4. \A x, y : PagesOf(x, y) \in SUBSET Page
    BY DEF PagesOf
  <1>5. CASE task = "fork"
    <2>1. cur \in Proc /\ from \in Proc
      BY <1>1, <1>5, CurIs
    <2>2. PICK s \in SUBSET Page : data' = vmm_p4_memcpy(s)
      BY <1>4, <1>5 DEF FillArea
    <2>3. \A h \in Reached(cur, s) : PageOf(cur, h) # f
      BY DEF Reached
    <2> QED BY <1>1, <1>2, <2>1, <2>2, <2>3, CopyIs
  <1>6. CASE task = "exec" /\ i <= N
    <2>1. data' = Segment(Image[i])
      BY <1>6 DEF FillArea, N
    <2>2. PICK s \in SUBSET Page, t \in SUBSET Page : data' = Fill(Fill(data, s, File), t, Zero)
      BY <1>4, <2>1 DEF Segment
    <2> QED BY <2>2, FillKeeps
  <1>7. CASE task = "exec" /\ ~(i <= N)
    BY <1>7 DEF FillArea, N
  <1> QED BY <1>3, <1>5, <1>6, <1>7

(* What writing the arguments leaves alone. *)
LEMMA ArgsKeep ==
    ASSUME exec_elf, NEW f \in Frame, \A g \in Args : PageOf(cur, g) # f
    PROVE  data'[f] = data[f]
  <1>1. data' = Fill(data, Args, File)
    BY DEF exec_elf, Args
  <1>2. Args \in SUBSET Page
    BY DEF Args, PagesOf
  <1> QED BY <1>1, <1>2, FillKeeps

(* A frame that is in no entry keeps what it holds, or is given back. *)
LEMMA LooseData ==
    ASSUME IInv, Go, NEW f \in Frame, \A x \in Slot : entry[x] # f
    PROVE  data'[f] = data[f] \/ data'[f] = Junk
  <1>1. TypeOK /\ CallOK
    BY DEF IInv
  <1>2. data \in [Frame -> Value]
    BY <1>1, TypeParts DEF DataType
  <1>3. \A p \in Proc : \A g \in Page : PageOf(p, g) # f
    BY PageSlot DEF PageOf
  <1>4. CASE procmm_unmap \/ vmm_free_P4
    <2>1. data' = data \/ \E h : data' = [data EXCEPT ![h] = Junk]
      BY <1>4 DEF procmm_unmap, vmm_free_P4, pmm_free
    <2> QED BY <1>2, <2>1
  <1>a. CASE ScanPmm
    BY <1>2, <1>a DEF ScanPmm
  <1>5. CASE FillArea
    <2>1. cur \in Proc
      BY <1>1, <1>5, CurIs DEF FillArea
    <2> QED BY <1>3, <1>5, <2>1, DoneKeeps
  <1>6. CASE exec_elf
    <2>1. cur \in Proc /\ \A g \in Args : g \in Page
      BY <1>1, <1>6, CurIs DEF exec_elf, Args, PagesOf
    <2> QED BY <1>3, <1>6, <2>1, ArgsKeep
  <1>7. CASE Stores
    <2>1. PICK p \in Proc, g \in Touched : data' = [data EXCEPT ![PageOf(p, g)] = Mark]
      BY <1>7 DEF Stores, Store
    <2>2. Touched \subseteq Page
      BY MemoryAssumption
    <2>3. g \in Page /\ PageOf(p, g) # f
      BY <1>3, <2>2
    <2> QED BY <1>2, <2>1, <2>3
  <1>8. CASE data' = data
    BY <1>8
  <1> QED BY <1>4, <1>5, <1>6, <1>7, <1>8, <1>a, GoData

(* A frame comes to the stack when it is given back, and that spoils it. *)
LEMMA StackStep ==
    ASSUME IInv, Go, NEW f, InStack(f)'
    PROVE  InStack(f) \/ (f \in Frame /\ data'[f] = Junk)
  <1>1. TypeOK /\ CallOK
    BY DEF IInv
  <1>2. FrameTypes /\ data \in [Frame -> Value]
    BY <1>1, TypeParts DEF DataType
  <1>3. pmm_stack \in Seq(Frame) /\ Len(pmm_stack) \in Nat
    BY <1>2 DEF FrameTypes
  <1>4. CASE pmm_stack' = pmm_stack
    BY <1>4 DEF InStack
  <1>5. CASE Popped
    BY <1>3, <1>5, PopIs DEF InStack
  <1>6. CASE \E h \in Frame : pmm_stack' = Append(pmm_stack, h) /\ data'[h] = Junk
    <2>1. PICK h \in Frame : pmm_stack' = Append(pmm_stack, h) /\ data'[h] = Junk
      BY <1>6
    <2>2. /\ Len(pmm_stack') = Len(pmm_stack) + 1
          /\ \A k \in 1..Len(pmm_stack) : pmm_stack'[k] = pmm_stack[k]
          /\ pmm_stack'[Len(pmm_stack) + 1] = h
      BY <1>3, <2>1, PushIs
    <2>4. PICK k \in 1..Len(pmm_stack') : pmm_stack'[k] = f
      BY DEF InStack
    <2>5. k \in 1..Len(pmm_stack) \/ k = Len(pmm_stack) + 1
      BY <1>3, <2>2
    <2> QED BY <2>1, <2>2, <2>4, <2>5 DEF InStack
  <1>7. CASE ScanPmm
    <2>1. CASE ~Freed(boot, boot.areas[i], pos)
      BY <1>4, <1>7, <2>1 DEF ScanPmm
    <2>2. CASE Freed(boot, boot.areas[i], pos)
      <3>1. boot.areas[i].free
        BY <2>2 DEF Freed
      <3>2. pos \div PAGE \in Frame
        BY <1>7, <3>1, BootPage DEF ScanPmm
      <3>3. pmm_stack' = Append(pmm_stack, pos \div PAGE) /\ data'[pos \div PAGE] = Junk
        BY <1>2, <1>7, <2>2, <3>2 DEF ScanPmm
      <3> QED BY <1>6, <3>2, <3>3
    <2> QED BY <2>1, <2>2
  <1>8. CASE procmm_unmap
    <2>1. pc = "unmap" /\ pos < stop /\ pmm_free(PageOf(cur, pos \div PAGE))
      BY <1>8 DEF procmm_unmap
    <2>2. PageOf(cur, pos \div PAGE) \in Frame
      <3>1. cur \in Proc /\ pos \div PAGE \in Page /\ PageOf(cur, pos \div PAGE) # Null
        BY <2>1, NextToUnmap
      <3> QED BY <1>2, <3>1, PageFrame
    <2>3. PageOf(cur, pos \div PAGE) # Null
      BY <2>2, NullApart
    <2> QED BY <1>2, <1>6, <2>1, <2>2, <2>3 DEF pmm_free
  <1>9. CASE vmm_free_P4
    <2>1. cur \in Proc
      BY <1>1, <1>9, CurIs DEF vmm_free_P4, CallOK
    <2>2. PICK n \in Node : entry[<<cur, n>>] # Null /\ pmm_free(entry[<<cur, n>>])
      BY <1>9 DEF vmm_free_P4
    <2>3. entry[<<cur, n>>] \in Frame
      BY <1>2, <2>1, <2>2 DEF FrameTypes, Slot
    <2> QED BY <1>2, <1>6, <2>2, <2>3 DEF pmm_free
  <1>10. CASE cpu_init
    <2>1. PICK lost : /\ pmm_stack' = Append(SubSeq(pmm_stack, lost + 1, Len(pmm_stack) - Levels - 1), Top)
                      /\ ~(Len(pmm_stack) <= Levels) /\ lost \in Nat
      <3> DEFINE n == Len(pmm_stack)
                 bottom == {k \in 1..n : pmm_stack[k] = Trampoline}
                 lost == IF bottom = {} THEN 0 ELSE (CHOOSE k \in bottom : TRUE) - 1
      <3>1. /\ pmm_stack' = Append(SubSeq(pmm_stack, lost + 1, n - Levels - 1), pmm_stack[n])
            /\ ~(n <= Levels)
        BY <1>10 DEF cpu_init, Go
      <3>2. lost \in Nat
        <4>1. CASE bottom = {}
          BY <4>1
        <4>2. CASE bottom # {}
          <5>1. (CHOOSE k \in bottom : TRUE) \in bottom
            BY <4>2
          <5>2. (CHOOSE k \in bottom : TRUE) \in 1..n
            BY <5>1
          <5> HIDE DEF bottom
          <5> QED BY <1>3, <4>2, <5>2
        <4> QED BY <4>1, <4>2
      <3> QED BY <3>1, <3>2 DEF Top
    <2>2. Levels \in Nat
      BY Numbers
    <2>3. InStack(Top) /\ Top \in Frame
      <3>1. Len(pmm_stack) \in 1..Len(pmm_stack)
        BY <1>3, <2>1, <2>2
      <3> QED BY <1>3, <3>1 DEF InStack, Top
    <2> DEFINE r == SubSeq(pmm_stack, lost + 1, Len(pmm_stack) - Levels - 1)
    <2>4. r \in Seq(Frame) /\ Len(r) \in Nat /\ \A k \in 1..Len(r) : InStack(r[k])
      <3>1. \A k \in (lost + 1)..(Len(pmm_stack) - Levels - 1) : k \in 1..Len(pmm_stack)
        BY <1>3, <2>1, <2>2
      <3>2. PICK m \in Int, t \in Int : m = lost + 1 /\ t = Len(pmm_stack) - Levels - 1
        <4>1. lost + 1 \in Int
          BY <2>1
        <4>2. Len(pmm_stack) - Levels - 1 \in Int
          BY <1>3, <2>2
        <4> HIDE DEF r
        <4> QED BY <4>1, <4>2
      <3>3. r = SubSeq(pmm_stack, m, t)
        BY <3>2
      <3>4. r \in Seq(Frame) /\ Len(r) = (IF m <= t THEN t - m + 1 ELSE 0)
            /\ \A k \in 1..Len(r) : r[k] = pmm_stack[m + k - 1]
        <4>1. m >= 1 /\ t <= Len(pmm_stack)
          BY <1>3, <2>1, <2>2, <3>2
        <4> HIDE DEF r
        <4> QED BY <1>3, <3>2, <3>3, <4>1
      <3> HIDE DEF r
      <3>5. \A k \in 1..Len(r) : m + k - 1 \in m..t
        BY <3>2, <3>4
      <3>6. Len(r) \in Nat
        BY <3>2, <3>4
      <3> QED BY <3>1, <3>2, <3>4, <3>5, <3>6 DEF InStack
    <2> HIDE DEF r
    <2>5. Len(pmm_stack') = Len(r) + 1 /\ pmm_stack'[Len(r) + 1] = Top
          /\ \A k \in 1..Len(r) : pmm_stack'[k] = r[k]
      <3>1. pmm_stack' = Append(r, Top)
        BY <2>1 DEF r
      <3> QED BY <2>3, <2>4, <3>1
    <2>6. PICK k \in 1..Len(pmm_stack') : pmm_stack'[k] = f
      BY DEF InStack
    <2>7. k \in 1..Len(r) \/ k = Len(r) + 1
      BY <2>4, <2>5
    <2> QED BY <2>3, <2>4, <2>5, <2>6, <2>7
  <1>11. CASE ~ScanPmm /\ ~cpu_init /\ ~procmm_unmap /\ ~vmm_free_P4
    <2>1. pmm_stack' = pmm_stack \/ Popped
      <3>1. CASE multiboot_get_memory_area \/ FillArea \/ exec_elf
            \/ procmm_new_map \/ GrowDone \/ procmm_free_map \/ AreaRemoved \/ MapFreed
        BY <3>1 DEF multiboot_get_memory_area, FillArea, exec_elf, procmm_new_map, GrowDone,
            procmm_free_map, AreaRemoved, MapFreed
      <3>2. CASE procmm_map
        BY <3>2 DEF procmm_map
      <3>3. CASE Grow \/ Stores \/ Exits \/ Waits
        BY <3>3 DEF Go, Grow, procmm_resize, Undefined, procmm_page_fault, Stores, Store, Exits, exit, Waits, process_free
      <3>4. CASE AllocPage \/ vmm_find_page \/ vmm_set_page
        BY <3>4 DEF Go, AllocPage, vmm_find_page, vmm_set_page, Popped
      <3>5. CASE kmain \/ Forks \/ ksbrk
        BY <3>5 DEF Go, kmain, Forks, fork, ksbrk, Popped
      <3> QED BY <1>11, <3>1, <3>2, <3>3, <3>4, <3>5, GoIs
    <2> QED BY <1>4, <1>5, <2>1
  <1> QED BY <1>7, <1>8, <1>9, <1>10, <1>11

(* The free frames, and the one in hand, hold nothing. *)
LEMMA LooseStep ==
    ASSUME IInv, Go
    PROVE  /\ \A k \in DOMAIN pmm_stack' : data'[pmm_stack'[k]] = Junk
           /\ hand' # Null => data'[hand'] = Junk
  <1>1. TypeOK /\ Distinct /\ Contents
    BY DEF IInv
  <1>2. FrameTypes
    BY <1>1, TypeParts
  <1>3. FrameTypes'
    BY FrameStep
  <1>4. ASSUME NEW f, InStack(f)
        PROVE  f \in Frame /\ data[f] = Junk /\ \A x \in Slot : entry[x] # f
    <2>1. PICK k \in 1..Len(pmm_stack) : pmm_stack[k] = f
      BY <1>4 DEF InStack
    <2>2. DOMAIN pmm_stack = 1..Len(pmm_stack) /\ f \in Frame
      BY <1>2, <2>1 DEF FrameTypes
    <2>3. f # Null
      BY <2>2, NullApart
    <2> QED BY <1>1, <2>1, <2>2, <2>3 DEF Contents, Distinct
  <1>5. ASSUME NEW f, InStack(f)'
        PROVE  data'[f] = Junk
    <2>1. CASE InStack(f)
      BY <1>4, <2>1, LooseData
    <2>2. CASE data'[f] = Junk
      BY <2>2
    <2> QED BY <1>5, <2>1, <2>2, StackStep
  <1>6. \A k \in DOMAIN pmm_stack' : data'[pmm_stack'[k]] = Junk
    <2>1. DOMAIN pmm_stack' = 1..Len(pmm_stack')
      BY <1>3 DEF FrameTypes
    <2> TAKE k \in DOMAIN pmm_stack'
    <2>2. PICK f : f = pmm_stack'[k]
      OBVIOUS
    <2>3. InStack(f)'
      BY <2>1, <2>2 DEF InStack
    <2> QED BY <1>5, <2>2, <2>3
  <1>7. ASSUME hand' # Null
        PROVE  data'[hand'] = Junk
    <2>1. AllocPage \/ (hand' = hand /\ hand # Null)
      <3>1. CASE ScanPmm \/ cpu_init
        BY <1>7, <3>1 DEF Go, ScanPmm, cpu_init, Return
      <3>2. CASE multiboot_get_memory_area \/ procmm_map \/ FillArea \/ exec_elf
            \/ procmm_new_map \/ GrowDone \/ procmm_free_map \/ AreaRemoved \/ MapFreed
        BY <1>7, <3>2 DEF multiboot_get_memory_area, procmm_map, FillArea, exec_elf, procmm_new_map, GrowDone,
            procmm_free_map, AreaRemoved, MapFreed, Return
      <3>3. CASE Grow \/ Stores \/ Exits \/ Waits
        BY <1>7, <3>3 DEF Go, Grow, procmm_resize, Undefined, procmm_page_fault, Stores, Store, Exits, exit, Waits,
            process_free, Begin, call
      <3>4. CASE vmm_find_page \/ vmm_set_page \/ procmm_unmap \/ vmm_free_P4
        BY <1>7, <3>4 DEF Go, vmm_find_page, vmm_set_page, procmm_unmap, vmm_free_P4, call
      <3>5. CASE kmain \/ Forks \/ ksbrk
        BY <1>7, <3>5 DEF Go, kmain, Forks, fork, ksbrk, Begin, call
      <3> QED BY <3>1, <3>2, <3>3, <3>4, <3>5, GoIs
    <2>2. CASE AllocPage
      <3>1. Popped /\ hand' = Top /\ data' = data
        BY <2>2 DEF Go, AllocPage, Popped
      <3>2. Len(pmm_stack) \in 1..Len(pmm_stack)
        BY <1>2, <3>1, PopIs DEF FrameTypes
      <3>3. InStack(Top)
        BY <3>2 DEF InStack, Top
      <3> QED BY <1>4, <3>1, <3>3
    <2>3. CASE hand' = hand /\ hand # Null
      <3>1. hand \in Frame /\ data[hand] = Junk
        BY <1>1, <1>2, <2>3 DEF FrameTypes, Contents
      <3>2. \A x \in Slot : entry[x] # hand
        BY <1>1, <2>3 DEF Distinct
      <3> QED BY <2>3, <3>1, <3>2, LooseData
    <2> QED BY <2>1, <2>2, <2>3
  <1> QED BY <1>6, <1>7

(* A page that stays where it is keeps what it holds, unless the step stores or fills. *)
LEMMA PageKeeps ==
    ASSUME IInv, Go, NEW p \in Proc, NEW g \in Page, PageOf(p, g) # Null,
           PageOf(p, g)' = PageOf(p, g), ~Stores, FillArea \/ exec_elf => p # cur
    PROVE  data'[PageOf(p, g)] = data[PageOf(p, g)]
  <1>1. TypeOK /\ Distinct /\ CallOK
    BY DEF IInv
  <1>2. FrameTypes /\ data \in [Frame -> Value]
    BY <1>1, TypeParts DEF DataType
  <1>3. PICK f \in Frame : f = PageOf(p, g)
    BY <1>2, PageFrame
  <1>4. PICK x \in Slot : x = <<p, PageEntry(g)>> /\ entry[x] = f /\ entry'[x] = f
    BY <1>3, PageSlot DEF PageOf
  <1>5. f # Null
    BY <1>3, NullApart
  <1>6. CASE ScanPmm
    <2>1. entry[x] = Null
      BY <1>6, BootHeld DEF ScanPmm
    <2> QED BY <1>4, <1>5, <2>1
  <1>7. CASE FillArea \/ exec_elf
    <2>1. cur \in Proc /\ p # cur
      BY <1>1, <1>7, CurIs DEF FillArea, exec_elf
    <2>2. \A h \in Page : PageOf(cur, h) # f
      <3> TAKE h \in Page
      <3>1. PageOf(cur, h) = f => p = cur
        BY <1>1, <1>2, <1>3, <1>5, <2>1, PageOnce
      <3> QED BY <2>1, <3>1
    <2>3. \A h \in Args : h \in Page
      BY DEF Args, PagesOf
    <2> QED BY <1>3, <1>7, <2>2, <2>3, DoneKeeps, ArgsKeep
  <1>8. CASE procmm_unmap
    <2>1. cur \in Proc /\ pos \div PAGE \in Page /\ PageOf(cur, pos \div PAGE) # Null
          /\ data' = [data EXCEPT ![PageOf(cur, pos \div PAGE)] = Junk]
          /\ entry' = [entry EXCEPT ![<<cur, PageEntry(pos \div PAGE)>>] = Null]
      BY <1>8, NextToUnmap DEF procmm_unmap, pmm_free
    <2>2. PICK y \in Slot : y = <<cur, PageEntry(pos \div PAGE)>>
      BY <2>1, PageSlot
    <2>3. entry[y] = PageOf(cur, pos \div PAGE) /\ entry'[y] = Null
      BY <1>2, <2>1, <2>2 DEF FrameTypes, PageOf
    <2>4. entry[y] # f
      BY <1>1, <1>4, <1>5, <2>3 DEF Distinct
    <2> QED BY <1>2, <1>3, <2>1, <2>3, <2>4
  <1>9. CASE vmm_free_P4
    <2>1. cur \in Proc
      BY <1>1, <1>9, CurIs DEF vmm_free_P4, CallOK
    <2>2. PICK n \in Node : entry[<<cur, n>>] # Null /\ pmm_free(entry[<<cur, n>>])
                            /\ entry' = [entry EXCEPT ![<<cur, n>>] = Null]
      BY <1>9 DEF vmm_free_P4
    <2>3. PICK y \in Slot : y = <<cur, n>>
      BY <2>1 DEF Slot
    <2>4. entry'[y] = Null /\ data' = [data EXCEPT ![entry[y]] = Junk]
      BY <1>2, <2>2, <2>3 DEF FrameTypes, pmm_free
    <2>5. entry[y] # f
      BY <1>1, <1>4, <1>5, <2>4 DEF Distinct
    <2> QED BY <1>2, <1>3, <2>4, <2>5
  <1>10. CASE data' = data
    BY <1>10
  <1> QED BY <1>6, <1>7, <1>8, <1>9, <1>10, GoData

(* Which entries of pages a step changes. *)
LEMMA PageStep ==
    ASSUME IInv, Go, NEW p \in Proc, NEW g \in Page
    PROVE  \/ PageOf(p, g)' = PageOf(p, g)
           \/ p = cur /\ PageOf(p, g)' = Null /\ cur # InitProc /\ (procmm_unmap \/ vmm_free_P4)
           \/ vmm_set_page /\ p = cur /\ PageOf(p, g) = Null /\ PageOf(p, g)' = hand /\ g = pos \div PAGE
  <1>1. TypeOK /\ CallOK
    BY DEF IInv
  <1>2. FrameTypes
    BY <1>1, TypeParts
  <1>3. CASE p # cur
    BY <1>3, OtherPages
  <1>4. CASE p = cur /\ vmm_set_page
    <2>1. pc = "table"
      BY <1>4 DEF vmm_set_page
    <2>2. pos < stop
      BY <1>1, <2>1 DEF CallOK
    <2>3. PICK d \in Page : d = pos \div PAGE
      BY <2>1, <2>2, NextToMap
    <2>4. PageOf(p, d) = Null
      BY <1>4, <2>1, <2>2, <2>3, NextToMap
    <2>5. entry' = [entry EXCEPT ![<<p, PageEntry(d)>>] = hand]
      BY <1>4, <2>3 DEF vmm_set_page
    <2>6. <<p, PageEntry(g)>> \in Slot /\ (PageEntry(d) = PageEntry(g) => g = d)
      BY PageSlot, EntriesApart
    <2>7. PageOf(p, g)' = IF g = d THEN hand ELSE PageOf(p, g)
      BY <1>2, <2>5, <2>6 DEF PageOf, FrameTypes
    <2> QED BY <1>4, <2>3, <2>4, <2>7
  <1>5. CASE p = cur /\ vmm_find_page
    <2>1. pc = "table"
      BY <1>5 DEF vmm_find_page
    <2>2. pos < stop
      BY <1>1, <2>1 DEF CallOK
    <2>3. PICK d \in Page : d = pos \div PAGE
      BY <2>1, <2>2, NextToMap
    <2>4. PICK l \in Missing(d) : entry' = [entry EXCEPT ![<<p, TableEntry(l, d)>>] = Top]
      BY <1>5, <2>3 DEF Go, vmm_find_page
    <2>5. l \in 1..Levels
      BY DEF Missing
    <2>6. <<p, PageEntry(g)>> \in Slot /\ TableEntry(l, d) # PageEntry(g)
      BY <2>5, PageSlot, EntriesApart
    <2>7. PageOf(p, g)' = PageOf(p, g)
      BY <1>2, <2>4, <2>6 DEF PageOf, FrameTypes
    <2> QED BY <2>7
  <1>6. CASE p = cur /\ (procmm_unmap \/ vmm_free_P4)
    <2>1. cur # InitProc
      BY <1>1, <1>6 DEF CallOK, procmm_unmap, vmm_free_P4
    <2>2. PICK n : entry' = [entry EXCEPT ![<<p, n>>] = Null]
      BY <1>6 DEF procmm_unmap, vmm_free_P4
    <2>3. <<p, PageEntry(g)>> \in Slot
      BY PageSlot
    <2>4. PageOf(p, g)' = PageOf(p, g) \/ PageOf(p, g)' = Null
      BY <1>2, <2>2, <2>3 DEF PageOf, FrameTypes
    <2> QED BY <1>6, <2>1, <2>4
  <1>7. CASE p = cur /\ (kmain \/ Forks)
    <2>1. cur = Null
      BY <1>1, <1>7 DEF kmain, Forks, fork, Runs, Idle, CallOK
    <2> QED BY <1>7, <2>1, NullApart
  <1>8. CASE entry' = entry
    BY <1>8 DEF PageOf
  <1> QED BY <1>3, <1>4, <1>5, <1>6, <1>7, <1>8, GoEntry

(* Which processes come to be in use. *)
LEMMA UsedStep ==
    ASSUME IInv, Go, NEW p \in Proc, st'[p] # "unused"
    PROVE  \/ st[p] # "unused" /\ (~Stores => expect'[p] = expect[p])
           \/ exec_elf /\ p = cur
           \/ procmm_new_map /\ p = cur
  <1>1. TypeOK
    BY DEF IInv
  <1>2. st \in [Proc -> {"unused", "alive", "zombie"}] /\ expect \in [Proc -> [Page -> Value]]
    BY <1>1, TypeParts DEF ProcType
  <1>3. CASE exec_elf \/ procmm_new_map
    <2>1. p # cur => st'[p] = st[p] /\ expect'[p] = expect[p]
      BY <1>2, <1>3 DEF exec_elf, procmm_new_map
    <2> QED BY <1>3, <2>1
  <1>4. CASE Exits
    <2>1. PICK q \in Proc : st[q] = "alive" /\ st' = [st EXCEPT ![q] = "zombie"] /\ expect' = expect
      BY <1>4 DEF Exits, exit, Runs
    <2> QED BY <1>2, <2>1
  <1>5. CASE MapFreed
    <2>1. st' = [st EXCEPT ![cur] = "unused"] /\ expect' = [expect EXCEPT ![cur] = [g \in Page |-> Junk]]
      BY <1>5 DEF MapFreed
    <2>2. p # cur
      BY <1>2, <2>1
    <2> QED BY <1>2, <2>1, <2>2
  <1>6. CASE Stores
    BY <1>6 DEF Stores, Store
  <1>7. CASE st' = st /\ expect' = expect
    BY <1>7
  <1> QED BY <1>3, <1>4, <1>5, <1>6, <1>7, GoProcs

(* A program's store changes one page of its own. *)
LEMMA StoreIs ==
    ASSUME IInv, Go, Stores
    PROVE  \E q \in Proc, h \in Page :
            /\ PageOf(q, h) # Null /\ entry' = entry /\ st' = st
            /\ data' = [data EXCEPT ![PageOf(q, h)] = Mark]
            /\ \A p \in Proc : \A g \in Page :
                expect'[p][g] = IF p = q /\ g = h THEN Mark ELSE expect[p][g]
  <1>1. TypeOK
    BY DEF IInv
  <1>2. expect \in [Proc -> [Page -> Value]]
    BY <1>1, TypeParts DEF ProcType
  <1>3. PICK q \in Proc, h \in Touched : Store(q, h)
    BY DEF Stores
  <1>4. Touched \subseteq Page
    BY MemoryAssumption
  <1>5. h \in Page
    BY <1>4
  <1>6. /\ PageOf(q, h) # Null /\ entry' = entry /\ st' = st
        /\ data' = [data EXCEPT ![PageOf(q, h)] = Mark]
        /\ expect' = [expect EXCEPT ![q] = [expect[q] EXCEPT ![h] = Mark]]
    BY <1>3 DEF Store
  <1>7. PICK v : v = [expect[q] EXCEPT ![h] = Mark]
    OBVIOUS
  <1>8. \A g \in Page : v[g] = IF g = h THEN Mark ELSE expect[q][g]
    BY <1>2, <1>7
  <1>9. \A p \in Proc : expect'[p] = IF p = q THEN v ELSE expect[p]
    BY <1>2, <1>6, <1>7
  <1>10. \A p \in Proc : \A g \in Page :
            expect'[p][g] = IF p = q /\ g = h THEN Mark ELSE expect[p][g]
    BY <1>8, <1>9
  <1> QED BY <1>5, <1>6, <1>10

(* An area that has all its pages, and the pages that are of no area. *)
LEMMA AllMapped ==
    ASSUME IInv, task \in {"exec", "fork"}, Pending = {}, NEW g \in Page
    PROVE  /\ cur \in Proc /\ PageOf(cur, g) \in Frame \cup {Null}
           /\ (\E k \in DOMAIN areas[cur] : g \in Cov(areas[cur][k])) <=> PageOf(cur, g) # Null
  <1>1. TypeOK /\ CallOK
    BY DEF IInv
  <1>2. FrameTypes /\ cur \in Proc
    BY <1>1, TypeParts, CurIs
  <1>3. MapOK(cur)
    BY <1>2, MappingIs DEF IInv
  <1>4. ~Hole(cur, g)
    BY NoHole
  <1>5. Owed(cur) = Covered(cur) \ {}
    BY DEF Owed
  <1>6. g \in Owed(cur) <=> \E k \in DOMAIN areas[cur] : g \in Cov(areas[cur][k])
    BY <1>5 DEF Covered
  <1>7. g \in Owed(cur) <=> PageOf(cur, g) # Null
    BY <1>3, <1>4 DEF MapOK
  <1> QED BY <1>2, <1>6, <1>7, PageFrame

(* What init's pages should hold. *)
LEMMA ImageIs ==
    ASSUME NEW g \in Page
    PROVE  /\ g \in Args => ImageContents[g] = File
           /\ \A k \in 1..N : g \in PagesOf(Image[k].start, Image[k].file) => ImageContents[g] = File
           /\ \A k \in 1..N : /\ g \in PagesOf(Image[k].start, Image[k].end)
                             /\ g \notin PagesOf(Image[k].start, Image[k].file)
                                => ImageContents[g] = Zero
           /\ BrkStart <= g * PAGE /\ g \notin Args => ImageContents[g] = Junk
  <1> DEFINE inFile == \E k \in 1..N : g \in PagesOf(Image[k].start, Image[k].file)
             inImage == \E k \in 1..N : g \in PagesOf(Image[k].start, Image[k].end)
  <1>1. DOMAIN Image = 1..N /\ N \in Nat
    <2>1. Image \in Seq([start : Nat, file : Nat, end : Nat, offset : Nat])
      BY MemoryAssumption
    <2> QED BY <2>1 DEF N
  <1>2. ImageContents[g] = IF inFile \/ g \in Args THEN File ELSE IF inImage THEN Zero ELSE Junk
    BY <1>1 DEF ImageContents, Args
  <1>3. \A k \in 1..N :
            PagesOf(Image[k].start, Image[k].file) \subseteq PagesOf(Image[k].start, Image[k].end)
    BY SegmentPages
  <1>4. ASSUME NEW k \in 1..N, g \in PagesOf(Image[k].start, Image[k].end),
               g \notin PagesOf(Image[k].start, Image[k].file)
        PROVE  ~inFile /\ g \notin Args /\ inImage
    <2>1. g \notin Args
      BY <1>4, SegmentBelow
    <2>2. ASSUME NEW j \in 1..N, g \in PagesOf(Image[j].start, Image[j].file)
          PROVE  FALSE
      BY <1>3, <1>4, <2>2, SegmentsApart
    <2> QED BY <1>4, <2>1, <2>2
  <1>5. BrkStart <= g * PAGE => ~inFile /\ ~inImage
    BY <1>3, SegmentBelow
  <1>6. \A k \in 1..N : g \in PagesOf(Image[k].start, Image[k].file) => inFile
    OBVIOUS
  <1> HIDE DEF inFile, inImage
  <1> QED BY <1>2, <1>4, <1>5, <1>6

(* init is loaded: each page holds what it should. *)
LEMMA ExecLoads ==
    ASSUME IInv, exec_elf, NEW g \in Page
    PROVE  /\ cur = InitProc /\ expect'[cur] = ImageContents
           /\ PageOf(cur, g) # Null => data'[PageOf(cur, g)] = ImageContents[g]
           /\ BrkStart <= g * PAGE /\ PageOf(cur, g) = Null => ImageContents[g] = Junk
  <1>1. TypeOK /\ CallOK /\ ExecAreas /\ Contents /\ Distinct
    BY DEF IInv
  <1>2. /\ pc = "area" /\ task = "exec" /\ i > Len(Plan) /\ data' = Fill(data, Args, File)
        /\ expect' = [expect EXCEPT ![cur] = ImageContents]
    BY DEF exec_elf, Args
  <1>3. cur = InitProc /\ Plan = ExecPlan /\ Len(Plan) = N + 2 /\ N \in Nat /\ cur \in Proc
    BY <1>1, <1>2, PlanIs, ImageFacts, CurIs DEF Plan
  <1>4. /\ Len(areas[InitProc]) = N + 2
        /\ \A k \in 1..(N + 2) : areas[InitProc][k] = ExecPlan[k]
    BY <1>1, <1>2, <1>3 DEF ExecAreas, ImageArea
  <1>5. DOMAIN areas[InitProc] = 1..(N + 2)
    BY <1>1, <1>3, <1>4, ListTypes
  <1>6. Pending = {}
    BY <1>2 DEF Pending
  <1>7. expect'[cur] = ImageContents
    BY <1>1, <1>2, <1>3 DEF TypeOK
  <1>8. Cov(ExecPlan[N + 1]) = Args /\ Cov(ExecPlan[N + 2]) = {} /\ Args \in SUBSET Page
    <2>1. /\ ExecPlan[N + 1] \in Area /\ ExecPlan[N + 2] \in Area
          /\ ExecPlan[N + 1].start % PAGE = 0 /\ ExecPlan[N + 2].start % PAGE = 0
      <3>1. N + 1 \in 1..(N + 2) /\ N + 2 \in 1..(N + 2)
        BY <1>3
      <3> QED BY <3>1, PlanIs, PlanShaped, ImageFacts
    <2>2. Cov(ExecPlan[N + 1]) = Args /\ Cov(ExecPlan[N + 2]) = PagesOf(TOP, TOP)
      BY <2>1, CovAligned, PlanIs DEF Args
    <2>3. PagesOf(TOP, TOP) = {}
      BY Numbers DEF PagesOf
    <2> QED BY <2>2, <2>3 DEF Args, PagesOf
  <1>9. /\ N + 1 \in 1..(N + 2)
        /\ \A k \in 1..(N + 2) : k \in 1..N \/ k = N + 1 \/ k = N + 2
    BY <1>3
  <1>10. ASSUME BrkStart <= g * PAGE, PageOf(cur, g) = Null
         PROVE  ImageContents[g] = Junk
    <2>1. \A k \in 1..(N + 2) : g \notin Cov(ExecPlan[k])
      BY <1>2, <1>3, <1>4, <1>5, <1>6, <1>10, AllMapped
    <2>2. g \notin Args
      BY <1>8, <1>9, <2>1
    <2> QED BY <1>10, <2>2, ImageIs
  <1>11. ASSUME PageOf(cur, g) # Null
         PROVE  data'[PageOf(cur, g)] = ImageContents[g]
    <2>1. PICK k \in 1..(N + 2) : g \in Cov(ExecPlan[k])
      BY <1>2, <1>3, <1>4, <1>5, <1>6, <1>11, AllMapped
    <2>2. PageOf(cur, g) \in Frame
      BY <1>2, <1>6, <1>11, AllMapped
    <2>3. CASE k = N + 1
      <3>1. g \in Args
        BY <1>8, <2>1, <2>3
      <3>2. \A h \in Args : PageOf(cur, h) # Null
        <4> TAKE h \in Args
        <4>1. h \in Page /\ h \in Cov(areas[cur][N + 1]) /\ N + 1 \in DOMAIN areas[cur]
          BY <1>3, <1>4, <1>5, <1>8, <1>9
        <4> QED BY <1>2, <1>6, <4>1, AllMapped
      <3>3. data'[PageOf(cur, g)] = File
        BY <1>2, <1>8, <2>2, <3>1, <3>2, FillWrites
      <3> QED BY <3>1, <3>3, ImageIs
    <2>4. CASE k \in 1..N
      <3>1. data[PageOf(cur, g)] = ImageContents[g]
        <4>1. k \in DOMAIN areas[cur] /\ areas[cur][k] = ExecPlan[k] /\ k <= N
          BY <1>3, <1>4, <1>5, <2>4
        <4>2. Finished(k)
          BY <1>2 DEF Finished
        <4>3. \A h \in Cov(areas[cur][k]) : data[PageOf(cur, h)] = ImageContents[h]
          BY <1>1, <1>2, <4>1, <4>2 DEF Contents
        <4> QED BY <2>1, <4>1, <4>3
      <3>2. \A h \in Args : h \in Page /\ h # g
        <4>1. k < N + 1
          BY <1>3, <2>4
        <4>2. Apart(ExecPlan[k], ExecPlan[N + 1])
          BY <1>9, <4>1, PlanApart
        <4> QED BY <1>8, <2>1, <4>2 DEF Apart
      <3>3. FrameTypes
        BY <1>1, TypeParts
      <3>4. \A h \in Args : PageOf(cur, h) # PageOf(cur, g)
        BY <1>1, <1>3, <1>11, <3>2, <3>3, PageOnce
      <3> QED BY <2>2, <3>1, <3>4, ArgsKeep
    <2> QED BY <1>8, <1>9, <2>1, <2>3, <2>4
  <1> QED BY <1>3, <1>7, <1>10, <1>11

(* A child is complete: each page holds what its parent's does. *)
LEMMA ForkCopies ==
    ASSUME IInv, procmm_new_map, NoBoundary, NEW g \in Page, PageOf(cur, g) # Null
    PROVE  data'[PageOf(cur, g)] = expect'[cur][g]
  <1>1. TypeOK /\ CallOK /\ Contents
    BY DEF IInv
  <1>2. /\ pc = "area" /\ task = "fork" /\ data' = data
        /\ expect' = [expect EXCEPT ![cur] = expect[from]]
    BY DEF procmm_new_map
  <1>3. cur \in Proc
    BY <1>1, <1>2, CurIs
  <1>4. expect'[cur] = expect[from]
    BY <1>1, <1>2, <1>3 DEF TypeOK
  <1>5. Pending = {}
    BY <1>2 DEF Pending
  <1>6. PICK k \in DOMAIN areas[cur] : g \in Cov(areas[cur][k])
    BY <1>2, <1>5, AllMapped
  <1>7. Finished(k)
    BY <1>2 DEF Finished
  <1>8. data[PageOf(cur, g)] = expect[from][g]
    BY <1>1, <1>2, <1>6, <1>7 DEF Contents
  <1> QED BY <1>2, <1>4, <1>8

(* What init does not have, it expects nothing of. *)
LEMMA AbsentStep ==
    ASSUME IInv, Go, st'[InitProc] # "unused", NEW g \in Page, BrkStart <= g * PAGE,
           PageOf(InitProc, g)' = Null
    PROVE  expect'[InitProc][g] = Junk
  <1>1. CallOK /\ Contents /\ InitProc \in Proc
    BY MemoryAssumption DEF IInv
  <1>2. CASE exec_elf /\ InitProc = cur
    <2>1. entry' = entry
      BY <1>2 DEF exec_elf
    <2>2. PageOf(cur, g) = Null
      BY <1>2, <2>1 DEF PageOf
    <2> QED BY <1>2, <2>2, ExecLoads
  <1>3. CASE procmm_new_map /\ InitProc = cur
    BY <1>1, <1>3 DEF procmm_new_map, CallOK
  <1>4. CASE st[InitProc] # "unused" /\ (~Stores => expect'[InitProc] = expect[InitProc])
    <2>1. PageOf(InitProc, g) = Null
      <3>1. CallOK'
        BY CallStep
      <3>2. vmm_set_page => hand # Null
        BY <1>1 DEF vmm_set_page, CallOK
      <3> QED BY <1>1, <3>2, PageStep
    <2>2. expect[InitProc][g] = Junk
      BY <1>1, <1>4, <2>1 DEF Contents
    <2>3. CASE ~Stores
      BY <1>4, <2>2, <2>3
    <2>4. CASE Stores
      <3>1. PICK q \in Proc, h \in Page :
              /\ PageOf(q, h) # Null
              /\ \A p \in Proc : \A x \in Page :
                    expect'[p][x] = IF p = q /\ x = h THEN Mark ELSE expect[p][x]
        BY <2>4, StoreIs
      <3> QED BY <1>1, <2>1, <2>2, <3>1
    <2> QED BY <2>3, <2>4
  <1> QED BY <1>1, <1>2, <1>3, <1>4, UsedStep

(* The page of an address from brk's start on lies there too. *)
LEMMA AfterBrk ==
    ASSUME NEW a \in Nat, BrkStart <= a
    PROVE  BrkStart <= (a \div PAGE) * PAGE
  <1>1. BrkStart \in Nat /\ BrkStart % PAGE = 0 /\ PAGE \in Nat
    BY ImageFacts, Numbers
  <1>2. PICK m \in Nat : m = BrkStart \div PAGE /\ BrkStart = m * PAGE
    BY <1>1, Divide
  <1>3. PICK d \in Nat : d = a \div PAGE /\ a = d * PAGE + (a % PAGE) /\ d * PAGE \in Nat
    BY Divide
  <1>4. a % PAGE \in Nat /\ a % PAGE < PAGE
    BY Divide
  <1>5. d < m => d * PAGE + PAGE <= m * PAGE
    BY <1>2, <1>3, LaterTimes
  <1>6. m < d => m * PAGE + PAGE <= d * PAGE
    BY <1>2, <1>3, LaterTimes
  <1>7. m = d => m * PAGE = d * PAGE
    OBVIOUS
  <1> QED BY <1>1, <1>2, <1>3, <1>4, <1>5, <1>6, <1>7

(* Every process finds what it should. *)
LEMMA PrivateStep ==
    ASSUME IInv, Go, NoBoundary
    PROVE  Private'
  <1>1. TypeOK /\ CallOK /\ Contents /\ Distinct /\ Private
    BY DEF IInv, Contents
  <1>2. FrameTypes /\ data \in [Frame -> Value]
    BY <1>1, TypeParts DEF DataType
  <1> SUFFICES ASSUME NEW p \in Proc, NEW g \in Page, st'[p] # "unused", PageOf(p, g)' # Null
               PROVE  data'[PageOf(p, g)'] = expect'[p][g]
    BY DEF Private
  <1>3. CASE exec_elf /\ p = cur
    <2>1. PageOf(p, g)' = PageOf(p, g)
      BY <1>3 DEF exec_elf, PageOf
    <2> QED BY <1>3, <2>1, ExecLoads
  <1>4. CASE procmm_new_map /\ p = cur
    <2>1. PageOf(p, g)' = PageOf(p, g)
      BY <1>4 DEF procmm_new_map, PageOf
    <2> QED BY <1>4, <2>1, ForkCopies
  <1>5. CASE st[p] # "unused" /\ Stores
    <2>1. PICK q \in Proc, h \in Page :
            /\ PageOf(q, h) # Null /\ entry' = entry
            /\ data' = [data EXCEPT ![PageOf(q, h)] = Mark]
            /\ \A x \in Proc : \A y \in Page :
                expect'[x][y] = IF x = q /\ y = h THEN Mark ELSE expect[x][y]
      BY <1>5, StoreIs
    <2>2. PageOf(p, g)' = PageOf(p, g)
      BY <2>1 DEF PageOf
    <2>3. PageOf(p, g) \in Frame /\ PageOf(p, g) # Null /\ PageOf(q, h) \in Frame
      BY <1>2, <2>1, <2>2, PageFrame
    <2>4. data[PageOf(p, g)] = expect[p][g]
      BY <1>1, <1>5, <2>3 DEF Private
    <2>5. CASE p = q /\ g = h
      BY <1>2, <2>1, <2>2, <2>3, <2>5
    <2>6. CASE ~(p = q /\ g = h)
      <3>1. PageOf(p, g) # PageOf(q, h)
        BY <1>1, <1>2, <2>3, <2>6, PageOnce
      <3> QED BY <1>2, <2>1, <2>2, <2>3, <2>4, <2>6, <3>1
    <2> QED BY <2>5, <2>6
  <1>6. CASE st[p] # "unused" /\ ~Stores /\ expect'[p] = expect[p] /\ ~(exec_elf /\ p = cur)
    <2>1. CASE PageOf(p, g)' = PageOf(p, g)
      <3>1. data[PageOf(p, g)] = expect[p][g]
        BY <1>1, <1>6, <2>1 DEF Private
      <3>2. FillArea => p # cur
        BY <1>1, <1>6 DEF FillArea, CallOK
      <3>3. data'[PageOf(p, g)] = data[PageOf(p, g)]
        BY <1>6, <2>1, <3>2, PageKeeps
      <3> QED BY <1>6, <2>1, <3>1, <3>3
    <2>2. CASE /\ vmm_set_page /\ p = cur /\ PageOf(p, g) = Null /\ PageOf(p, g)' = hand
               /\ g = pos \div PAGE
      <3>1. pc = "table" /\ data' = data
        BY <2>2 DEF vmm_set_page
      <3>2. p = InitProc /\ hand # Null
        BY <1>1, <1>6, <2>2, <3>1 DEF CallOK
      <3>a. BrkStart <= g * PAGE
        <4>1. pos \in Nat /\ BrkStart <= pos
          BY <1>1, <1>6, <2>2, <3>1, <3>2 DEF TypeOK, CallOK, Contents
        <4> QED BY <2>2, <4>1, AfterBrk
      <3>3. data[hand] = Junk /\ expect[p][g] = Junk
        BY <1>1, <1>6, <2>2, <3>2, <3>a DEF Contents
      <3> QED BY <1>6, <2>2, <3>1, <3>3
    <2> QED BY <2>1, <2>2, PageStep
  <1> QED BY <1>3, <1>4, <1>5, <1>6, UsedStep

(* The area that was mapped last gets its contents. *)
LEMMA SegmentLoads ==
    ASSUME IInv, FillArea, task = "exec", i <= N, NEW g \in Cov(ExecPlan[i])
    PROVE  data'[PageOf(cur, g)] = ImageContents[g]
  <1>1. TypeOK /\ CallOK /\ ExecAreas /\ Distinct
    BY DEF IInv
  <1>2. pc = "page" /\ pos >= stop /\ data' = Segment(Image[i])
    BY DEF FillArea, N
  <1>3. cur = InitProc /\ cur \in Proc /\ N \in Nat
    BY <1>1, CurIs, ImageFacts
  <1>4. i \in 1..N /\ i \in DOMAIN areas[cur] /\ areas[cur][i] = ExecPlan[i]
    <2>1. DOMAIN areas[cur] = 1..Len(areas[cur]) /\ Len(areas[cur]) \in Nat
      BY <1>1, <1>3, ListTypes
    <2>2. i \in 1..(N + 3) /\ Len(areas[InitProc]) = i
          /\ \A k \in 1..Len(areas[InitProc]) : areas[InitProc][k] = ExecPlan[k]
      BY <1>1, <1>2 DEF ExecAreas, ImageArea
    <2> QED BY <1>3, <2>1, <2>2
  <1>5. Pending = {}
    <2>1. pos \in Nat /\ stop \in Nat
      BY <1>1 DEF TypeOK
    <2>2. Left(pos, stop) = {}
      BY <1>2, <2>1, LeftNone
    <2> QED BY <1>2, <2>2 DEF Pending
  <1> DEFINE s == PagesOf(Image[i].start, Image[i].file)
             t == PagesOf(Image[i].file, Image[i].end) \ s
             u == PagesOf(Image[i].start, Image[i].end)
  <1>6. /\ s \subseteq u /\ t \subseteq u /\ (g \notin s => g \in t) /\ g \in u
        /\ u \subseteq Page /\ s \cap t = {} /\ \A h \in u : h <= g => h \in Cov(ExecPlan[i])
    BY <1>4, SegmentPages
  <1>7. data' = Fill(Fill(data, s, File), t, Zero)
    BY <1>2 DEF Segment
  <1> HIDE DEF s, t, u
  <1>8. \A h \in Cov(ExecPlan[i]) : h \in Page /\ PageOf(cur, h) # Null /\ PageOf(cur, h) \in Frame
    <2>1. \A x : Cov(x) \subseteq Page
      BY DEF Cov, PagesOf
    <2> QED BY <1>4, <1>5, <2>1, AllMapped
  <1>9. s \in SUBSET Page /\ t \in SUBSET Page /\ g \in Page
    BY <1>6
  <1>10. CASE g \in s
    <2>1. FrameTypes
      BY <1>1, TypeParts
    <2>2. \A h \in t : PageOf(cur, h) # PageOf(cur, g)
      <3> TAKE h \in t
      <3>1. h # g /\ h \in Page /\ PageOf(cur, g) # Null
        BY <1>6, <1>8, <1>10
      <3> QED BY <1>1, <1>3, <1>9, <2>1, <3>1, PageOnce
    <2>3. data'[PageOf(cur, g)] = Fill(data, s, File)[PageOf(cur, g)]
      BY <1>7, <1>8, <1>9, <2>2, FillKeeps
    <2>4. Fill(data, s, File)[PageOf(cur, g)] = File
      BY <1>6, <1>8, <1>9, <1>10, FillWrites
    <2>5. ImageContents[g] = File
      BY <1>4, <1>9, <1>10, ImageIs DEF s
    <2> QED BY <2>3, <2>4, <2>5
  <1>11. CASE g \notin s
    <2>1. g \in t
      BY <1>6, <1>11
    <2>2. data'[PageOf(cur, g)] = Zero
      BY <1>6, <1>7, <1>8, <1>9, <2>1, FillWrites
    <2>3. ImageContents[g] = Zero
      BY <1>4, <1>6, <1>9, <1>11, ImageIs DEF s, u
    <2> QED BY <2>2, <2>3
  <1> QED BY <1>10, <1>11

(* Every segment loaded so far holds what it should. *)
LEMMA DoneExec ==
    ASSUME IInv, FillArea, task = "exec", NEW k \in DOMAIN areas[cur], k <= N, NEW g \in Cov(areas[cur][k])
    PROVE  data'[PageOf(cur, g)] = ImageContents[g]
  <1>1. TypeOK /\ CallOK /\ ExecAreas /\ Distinct /\ Contents
    BY DEF IInv
  <1>2. pc = "page" /\ pos >= stop /\ data' = (IF i <= N THEN Segment(Image[i]) ELSE data)
    BY DEF FillArea, N
  <1>3. cur = InitProc /\ cur \in Proc /\ N \in Nat /\ Plan = ExecPlan
    BY <1>1, CurIs, ImageFacts DEF Plan
  <1>4. /\ i \in 1..(N + 2) /\ k \in 1..(N + 2) /\ k <= i /\ areas[cur][k] = ExecPlan[k]
    <2>1. DOMAIN areas[cur] = 1..Len(areas[cur]) /\ Len(areas[cur]) \in Nat
      BY <1>1, <1>3, ListTypes
    <2>2. /\ i \in 1..(N + 3) /\ Len(areas[InitProc]) = i /\ Len(areas[InitProc]) <= N + 2
          /\ \A j \in 1..Len(areas[InitProc]) : areas[InitProc][j] = ExecPlan[j]
      BY <1>1, <1>2 DEF ExecAreas, ImageArea
    <2> QED BY <1>3, <2>1, <2>2
  <1>5. CASE k = i
    BY <1>4, <1>5, SegmentLoads
  <1>6. CASE k < i
    <2>1. ExecPlan[k].start < ExecPlan[i].start /\ Apart(ExecPlan[k], ExecPlan[i])
      BY <1>4, <1>6, PlanApart
    <2>2. Finished(k)
      BY <1>3, <1>4, <2>1 DEF Finished
    <2>3. data[PageOf(cur, g)] = ImageContents[g]
      BY <1>1, <2>2 DEF Contents
    <2>4. CASE ~(i <= N)
      BY <1>2, <2>3, <2>4
    <2>5. CASE i <= N
      <3> DEFINE s == PagesOf(Image[i].start, Image[i].file)
                 t == PagesOf(Image[i].file, Image[i].end) \ s
                 u == PagesOf(Image[i].start, Image[i].end)
      <3>1. i \in 1..N /\ k \in 1..N /\ k # i
        BY <1>3, <1>4, <1>6, <2>5
      <3>a. s \subseteq u /\ t \subseteq u /\ u \subseteq Page
        BY <3>1, SegmentPages
      <3>2. data' = Fill(Fill(data, s, File), t, Zero)
        BY <1>2, <2>5 DEF Segment
      <3>3. g \in Page /\ g \notin u
        <4>1. \A x : Cov(x) \subseteq Page
          BY DEF Cov, PagesOf
        <4>2. g \in PagesOf(Image[k].start, Image[k].end)
          BY <1>4, <3>1, SegmentPages
        <4> QED BY <3>1, <4>1, <4>2, SegmentsApart
      <3> HIDE DEF s, t, u
      <3>4. FrameTypes
        BY <1>1, TypeParts
      <3>5. Pending = {}
        <4>1. pos \in Nat /\ stop \in Nat
          BY <1>1 DEF TypeOK
        <4>2. Left(pos, stop) = {}
          BY <1>2, <4>1, LeftNone
        <4> QED BY <1>2, <4>2 DEF Pending
      <3>6. PageOf(cur, g) # Null /\ PageOf(cur, g) \in Frame
        BY <3>3, <3>5, AllMapped
      <3>7. \A h \in u : PageOf(cur, h) # PageOf(cur, g)
        BY <1>1, <1>3, <3>3, <3>4, <3>6, <3>a, PageOnce
      <3>8. s \in SUBSET Page /\ t \in SUBSET Page
            /\ (\A h \in s : PageOf(cur, h) # PageOf(cur, g))
            /\ (\A h \in t : PageOf(cur, h) # PageOf(cur, g))
        BY <3>7, <3>a
      <3>9. data'[PageOf(cur, g)] = Fill(data, s, File)[PageOf(cur, g)]
        BY <3>2, <3>6, <3>8, FillKeeps
      <3>10. Fill(data, s, File)[PageOf(cur, g)] = data[PageOf(cur, g)]
        BY <3>6, <3>8, FillKeeps
      <3> QED BY <2>3, <3>9, <3>10
    <2> QED BY <2>4, <2>5
  <1> QED BY <1>3, <1>4, <1>5, <1>6

(***************************************************************************)
(* Every area copied so far holds what the parent expects: where areas of  *)
(* the parent overlap, the second copy writes the same.                    *)
(***************************************************************************)
LEMMA DoneFork ==
    ASSUME IInv, FillArea, task = "fork", NoBoundary, NEW k \in DOMAIN areas[cur],
           NEW g \in Cov(areas[cur][k])
    PROVE  data'[PageOf(cur, g)] = expect[from][g]
  <1>1. TypeOK /\ CallOK /\ ForkAreas /\ Lists /\ Distinct /\ Contents /\ Private
    BY DEF IInv, Contents
  <1>2. pc = "page" /\ pos >= stop /\ data' = vmm_p4_memcpy(PagesOf(Plan[i].start, Plan[i].end))
    BY DEF FillArea
  <1>3. cur \in Proc /\ from \in Proc /\ from # cur /\ Plan = areas[from] /\ st[from] = "alive"
    BY <1>1, CurIs DEF CallOK, Plan
  <1>4. i \in DOMAIN areas[from]
    BY <1>1, <1>2, <1>3, ListTypes DEF ForkAreas
  <1>5. PICK s \in SUBSET Page : s = PagesOf(Plan[i].start, Plan[i].end)
    BY DEF PagesOf
  <1>a. PICK j \in DOMAIN areas[from] : areas[cur][k] = areas[from][j] /\ (j < i \/ j = i)
    BY <1>1, <1>2 DEF ForkAreas
  <1>b. areas[from][i] \in Area /\ areas[from][j] \in Area
    BY <1>1, <1>3, <1>4, ListTypes
  <1>6. ASSUME g \in s, NEW h \in s, h <= g
        PROVE  PageOf(from, h) # Null /\ data[PageOf(from, h)] = expect[from][h]
    <2>a. h \in Cov(areas[from][i]) \/ h = g
      <3> SUFFICES ASSUME h \notin Cov(areas[from][i]) PROVE h = g
        OBVIOUS
      <3>1. g \notin Cov(areas[from][i])
        BY <1>3, <1>5, <1>6, <1>b, CovBefore
      <3>2. g \in Skipped(areas[from][i]) /\ h \in Skipped(areas[from][i])
        BY <1>3, <1>5, <1>6, <3>1 DEF Cov
      <3> QED BY <3>2 DEF Skipped
    <2>1. h \in Covered(from)
      <3>1. \A x : Cov(x) \subseteq Page
        BY DEF Cov, PagesOf
      <3> QED BY <1>3, <1>4, <1>a, <2>a, <3>1 DEF Covered
    <2>2. h \in Owed(from) /\ ~Hole(from, h)
      BY <1>3, <2>1, NoBoundaries DEF Owed, Hole
    <2>3. MapOK(from)
      BY <1>3, MappingIs DEF IInv
    <2>4. PageOf(from, h) # Null
      BY <2>2, <2>3 DEF MapOK
    <2> QED BY <1>1, <1>3, <2>4 DEF Private
  <1>7. FrameTypes /\ DataType
    BY <1>1, TypeParts
  <1>8. Pending = {}
    <2>1. pos \in Nat /\ stop \in Nat
      BY <1>1 DEF TypeOK
    <2>2. Left(pos, stop) = {}
      BY <1>2, <2>1, LeftNone
    <2> QED BY <1>2, <2>2 DEF Pending
  <1>9. g \in Page /\ \A h \in Cov(areas[cur][k]) : h \in Page /\ PageOf(cur, h) # Null
    <2>1. \A x : Cov(x) \subseteq Page
      BY DEF Cov, PagesOf
    <2> QED BY <1>8, <2>1, AllMapped
  <1>10. PageOf(cur, g) # Null /\ PageOf(cur, g) \in Frame
    BY <1>3, <1>7, <1>9, PageFrame
  <1>11. CASE g \in Reached(cur, s)
    <2>1. g \in s
      BY <1>11 DEF Reached
    <2>2. g \in Reached(from, s) /\ g <= g
      BY <1>6, <1>9, <2>1, PageFacts DEF Reached
    <2>3. data'[PageOf(cur, g)] = data[PageOf(from, g)]
      BY <1>1, <1>2, <1>3, <1>5, <1>7, <1>11, <2>2, CopyIs
    <2> QED BY <1>6, <2>1, <2>2, <2>3
  <1>12. CASE g \notin Reached(cur, s)
    <2>2. j # i
      <3> SUFFICES ASSUME j = i PROVE FALSE
        OBVIOUS
      <3>1. areas[cur][k] = areas[from][i] /\ g \in s
        BY <1>3, <1>5, <1>a DEF Cov
      <3>2. \A h \in s : h <= g => h \in Cov(areas[cur][k])
        BY <1>3, <1>5, <1>b, <3>1, CovBefore
      <3>3. g \in Reached(cur, s)
        BY <1>9, <3>1, <3>2 DEF Reached
      <3> QED BY <1>12, <3>3
    <2>3. areas[from][j].start < areas[from][i].start
      BY <1>1, <1>3, <1>4, <1>a, <2>2 DEF Lists, Pair
    <2>4. Finished(k)
      BY <1>3, <1>a, <2>3 DEF Finished
    <2>5. data[PageOf(cur, g)] = expect[from][g]
      BY <1>1, <2>4 DEF Contents
    <2>6. \A h \in Reached(cur, s) : PageOf(cur, h) # PageOf(cur, g)
      <3> TAKE h \in Reached(cur, s)
      <3>1. h \in Page /\ h # g
        BY <1>5, <1>12 DEF Reached
      <3> QED BY <1>1, <1>3, <1>7, <1>9, <1>10, <3>1, PageOnce
    <2>7. data'[PageOf(cur, g)] = data[PageOf(cur, g)]
      BY <1>1, <1>2, <1>3, <1>5, <1>7, <1>10, <2>6, CopyIs
    <2> QED BY <2>5, <2>7
  <1> QED BY <1>11, <1>12

(* Areas that are complete stay so. *)
LEMMA FinishedStep ==
    ASSUME IInv, Go, task' \in {"exec", "fork"}, NEW k, k \in DOMAIN areas'[cur'], Finished(k)'
    PROVE  /\ pc' # "area" => Cov(areas'[cur'][k]) \cap Left(pos', stop') = {}
           /\ task' = "fork" /\ NoBoundary =>
                \A g \in Cov(areas'[cur'][k]) : data'[entry'[<<cur', PageEntry(g)>>]] = expect'[from'][g]
           /\ task' = "exec" /\ k <= N =>
                \A g \in Cov(areas'[cur'][k]) : data'[entry'[<<cur', PageEntry(g)>>]] = ImageContents[g]
  <1>1. TypeOK /\ CallOK /\ Contents /\ Vacant /\ InitProc \in Proc
    BY MemoryAssumption DEF IInv
  <1>2. CASE kmain \/ Forks
    <2>1. PICK q \in Proc : q = cur' /\ st[q] = "unused" /\ areas' = areas /\ pc = "idle"
      BY <1>1, <1>2 DEF Go, kmain, Forks, fork, Runs, Idle, Begin, list
    <2>2. areas[q] = <<>>
      BY <1>1, <2>1, NullApart DEF CallOK, Vacant
    <2>3. DOMAIN areas'[cur'] = {}
      BY <2>1, <2>2
    <2> QED BY <2>3
  <1>3. CASE /\ task' = task /\ cur' = cur /\ from' = from
             /\ procmm_map \/ AllocPage \/ vmm_find_page \/ vmm_set_page \/ FillArea
    <2>1. cur \in Proc /\ (task = "fork" => from \in Proc /\ from # cur)
      BY <1>1, <1>3, CurIs
    <2>2. expect' = expect
      BY <1>3, GoProcs DEF exec_elf, procmm_new_map, MapFreed, Stores, Store, Runs, Idle,
        procmm_map, AllocPage, vmm_find_page, vmm_set_page, FillArea, procs
    <2>3. \A h \in Page : PageOf(cur, h) = entry[<<cur, PageEntry(h)>>]
      BY DEF PageOf
    <2>4. \A x : Cov(x) \subseteq Page
      BY DEF Cov, PagesOf
    <2>5. CASE FillArea
      <3>1. pc' = "area" /\ areas' = areas /\ entry' = entry
        BY <2>5 DEF FillArea, list
      <3>2. k \in DOMAIN areas[cur]
        BY <1>3, <3>1
      <3>3. \A g : PageOf(cur, g) = entry[<<cur, PageEntry(g)>>]
        BY DEF PageOf
      <3>4. ASSUME task = "fork", NoBoundary, NEW g \in Cov(areas[cur][k])
            PROVE  data'[entry[<<cur, PageEntry(g)>>]] = expect[from][g]
        BY <2>5, <3>2, <3>3, <3>4, DoneFork
      <3>5. ASSUME task = "exec", k <= N, NEW g \in Cov(areas[cur][k])
            PROVE  data'[entry[<<cur, PageEntry(g)>>]] = ImageContents[g]
        BY <2>5, <3>2, <3>3, <3>5, DoneExec
      <3> QED BY <1>3, <2>2, <3>1, <3>4, <3>5
    <2>6. ASSUME k \in DOMAIN areas[cur], areas'[cur][k] = areas[cur][k], Finished(k), data' = data,
                 pc' # "area" => Cov(areas[cur][k]) \cap Left(pos', stop') = {},
                 \A g \in Cov(areas[cur][k]) : entry'[<<cur, PageEntry(g)>>] = entry[<<cur, PageEntry(g)>>]
          PROVE  /\ pc' # "area" => Cov(areas'[cur'][k]) \cap Left(pos', stop') = {}
                 /\ task' = "fork" /\ NoBoundary =>
                     \A g \in Cov(areas'[cur'][k]) : data'[entry'[<<cur', PageEntry(g)>>]] = expect'[from'][g]
                 /\ task' = "exec" /\ k <= N =>
                     \A g \in Cov(areas'[cur'][k]) : data'[entry'[<<cur', PageEntry(g)>>]] = ImageContents[g]
      <3>1. task = "fork" /\ NoBoundary =>
              \A g \in Cov(areas[cur][k]) : data[entry[<<cur, PageEntry(g)>>]] = expect[from][g]
        BY <1>1, <1>3, <2>6 DEF Contents, PageOf
      <3>2. task = "exec" /\ k <= N =>
              \A g \in Cov(areas[cur][k]) : data[entry[<<cur, PageEntry(g)>>]] = ImageContents[g]
        BY <1>1, <1>3, <2>6 DEF Contents, PageOf
      <3> QED BY <1>3, <2>2, <2>6, <3>1, <3>2
    <2>7. CASE procmm_map
      <3>1. /\ (Mapped \/ Refused) /\ MapStep /\ pc = "area"
            /\ i \in 1..Len(Plan) /\ Plan[i] \in Area /\ Plan[i].start \in Nat /\ Plan[i].end \in Nat
        BY <2>7, MapIs
      <3>2. data' = data /\ entry' = entry /\ i' = i /\ stop' = Plan[i].end /\ pc' = "page"
        BY <3>1 DEF MapStep
      <3>3. \A j : Finished(j)
        BY <3>1 DEF Finished
      <3>4. CASE Refused
        <4>1. areas' = areas /\ Left(pos', stop') = {}
          BY <3>1, <3>2, <3>4, LeftNone DEF Refused
        <4> QED BY <1>3, <2>6, <3>2, <3>3, <4>1
      <3>5. CASE Mapped
        <4>1. areas \in [Proc -> Seq(Area)] /\ DOMAIN areas[cur] = 1..Len(areas[cur])
          BY <1>1, <2>1, ListTypes, TypeParts DEF ListType
        <4>2. /\ \A q \in Proc : q # cur => areas'[q] = areas[q]
              /\ Len(areas[cur]) \in Nat /\ DOMAIN areas'[cur] = 1..(Len(areas[cur]) + 1)
              /\ areas'[cur][Len(areas[cur]) + 1] = Plan[i]
              /\ \A j \in 1..Len(areas[cur]) : areas'[cur][j] = areas[cur][j]
          BY <2>1, <3>1, <3>5, <4>1, AppendedIs DEF Mapped
        <4>3. k \in 1..Len(areas[cur])
          <5>1. k \in 1..(Len(areas[cur]) + 1)
            BY <1>3, <4>2
          <5>2. k # Len(areas[cur]) + 1
            <6> SUFFICES ASSUME k = Len(areas[cur]) + 1 PROVE FALSE
              OBVIOUS
            <6>1. areas'[cur'][k] = Plan[i]
              BY <1>3, <4>2
            <6>2. Plan' = Plan
              BY <1>3, <2>1, <4>2 DEF Plan
            <6>3. areas'[cur'][k].start < Plan'[i'].start
              BY <3>2 DEF Finished
            <6>4. Plan[i].start < Plan[i].start
              BY <3>2, <6>1, <6>2, <6>3
            <6> QED BY <3>1, <6>4
          <5> QED BY <4>2, <5>1, <5>2
        <4>4. Apart(areas[cur][k], Plan[i])
          BY <1>3, <3>1, <3>5, <4>3, Earlier DEF Mapped
        <4>5. Left(pos', stop') = Cov(Plan[i])
          <5>1. Shaped(Plan[i])
            BY <1>1, <1>3, <3>1, PlanItem DEF IInv
          <5> QED BY <3>2, <3>5, <5>1 DEF Mapped, Shaped
        <4>6. Cov(areas[cur][k]) \cap Left(pos', stop') = {}
          BY <4>4, <4>5 DEF Apart
        <4> QED BY <2>6, <3>2, <3>3, <4>1, <4>2, <4>3, <4>6
      <3> QED BY <3>1, <3>4, <3>5
    <2>8. CASE AllocPage \/ vmm_find_page \/ vmm_set_page
      <3>1. data' = data /\ areas' = areas /\ i' = i /\ pc \in {"page", "table"} /\ pc' # "area" /\ stop' = stop
        BY <2>8 DEF Go, AllocPage, vmm_find_page, vmm_set_page, list, call
      <3>2. k \in DOMAIN areas[cur] /\ areas'[cur][k] = areas[cur][k]
        BY <1>3, <3>1
      <3>3. Finished(k)
        <4>1. Plan' = Plan
          BY <1>3, <3>1 DEF Plan
        <4> QED BY <1>3, <3>1, <4>1 DEF Finished
      <3>4. pos < stop
        BY <1>1, <2>8 DEF CallOK, AllocPage, vmm_find_page, vmm_set_page
      <3>5. /\ pos \div PAGE \in Left(pos, stop)
            /\ Left(pos + PAGE, stop) = Left(pos, stop) \ {pos \div PAGE}
        BY <3>1, <3>4, NextToMap
      <3>6. Cov(areas[cur][k]) \cap Left(pos, stop) = {}
        BY <1>1, <1>3, <3>1, <3>2, <3>3 DEF Contents
      <3>7. Left(pos', stop') \subseteq Left(pos, stop)
        <4>1. pos' = pos \/ pos' = pos + PAGE
          BY <2>8 DEF Go, AllocPage, vmm_find_page, vmm_set_page, call
        <4> QED BY <3>1, <3>5, <4>1
      <3>8. ASSUME NEW g \in Cov(areas[cur][k])
            PROVE  entry'[<<cur, PageEntry(g)>>] = entry[<<cur, PageEntry(g)>>]
        <4>1. g \in Page /\ g # pos \div PAGE
          BY <2>4, <3>5, <3>6
        <4>2. PICK p \in Proc : p = cur
          BY <2>1
        <4>3. ~procmm_unmap /\ ~vmm_free_P4
          BY <3>1 DEF procmm_unmap, vmm_free_P4
        <4>4. PageOf(p, g)' = PageOf(p, g)
          BY <4>1, <4>2, <4>3, PageStep
        <4> QED BY <4>2, <4>4 DEF PageOf
      <3> QED BY <2>6, <3>1, <3>2, <3>3, <3>6, <3>7, <3>8
    <2> QED BY <1>3, <2>5, <2>7, <2>8
  <1> QED BY <1>2, <1>3, GoTask

(* Growth maps pages from brk's start on. *)
LEMMA GrowPos ==
    ASSUME IInv, Go, task' = "grow"
    PROVE  BrkStart <= pos'
  <1>1. TypeOK /\ CallOK /\ InitAreas /\ (task = "grow" => BrkStart <= pos)
    BY DEF IInv, Contents
  <1>2. pos \in Nat /\ BrkStart \in Nat /\ ArgSize \in Nat /\ PAGE \in Nat
    BY <1>1, ImageFacts, Numbers, MemoryAssumption DEF TypeOK
  <1>3. CASE Grow
    <2>1. st[InitProc] # "unused" /\ InitProc \in Proc /\ areas \in [Proc -> Seq(Area)]
      BY <1>1, <1>3, GrowIs, MemoryAssumption DEF TypeOK, Area
    <2>2. BrkStart + ArgSize <= BrkArea.end /\ Len(areas[InitProc]) = N + 2
      BY <1>1, <2>1 DEF InitAreas
    <2>3. N \in Nat
      BY MemoryAssumption DEF N
    <2>4. BrkArea.end \in Nat
      <3>1. BrkArea \in Area
        BY <2>1, <2>2, <2>3 DEF BrkArea
      <3> QED BY <3>1 DEF Area
    <2>5. BrkArea.end < FirstNew(BrkArea.end) /\ FirstNew(BrkArea.end) \in Nat
      BY <2>4, FirstNewIs
    <2>6. PICK s \in Nat : BrkStart + ArgSize <= s /\ (pos' = FirstNew(BrkArea.end) \/ pos' = s)
      BY <1>3, GrowIs
    <2> QED BY <1>2, <2>2, <2>4, <2>5, <2>6
  <1>4. CASE AllocPage \/ vmm_find_page \/ vmm_set_page
    <2>1. task = "grow" /\ (pos' = pos \/ pos' = pos + PAGE)
      BY <1>4 DEF Go, AllocPage, vmm_find_page, vmm_set_page, Halt, call
    <2> QED BY <1>1, <1>2, <2>1
  <1>5. CASE procmm_map \/ FillArea \/ exec_elf \/ procmm_new_map \/ GrowDone \/ MapFreed
    BY <1>5 DEF procmm_map, FillArea, exec_elf, procmm_new_map, GrowDone, MapFreed, Return
  <1>6. CASE procmm_free_map \/ procmm_unmap \/ AreaRemoved \/ vmm_free_P4
    BY <1>1, <1>6 DEF procmm_free_map, procmm_unmap, AreaRemoved, vmm_free_P4, call, CallOK
  <1>7. CASE multiboot_get_memory_area \/ ScanPmm \/ cpu_init \/ ksbrk
    BY <1>1, <1>7 DEF Go, multiboot_get_memory_area, ScanPmm, cpu_init, ksbrk, Return, Idle, call, CallOK
  <1>8. CASE Stores \/ Exits \/ Waits \/ kmain \/ Forks
    BY <1>1, <1>8 DEF Go, Stores, Store, Exits, exit, Waits, process_free, kmain, Forks, fork, Begin, Runs,
        Idle, call, CallOK
  <1> QED BY <1>3, <1>4, <1>5, <1>6, <1>7, <1>8, GoIs

(* Contents after a step. *)
LEMMA ContentsNext ==
    ASSUME \A k \in DOMAIN pmm_stack' : data'[pmm_stack'[k]] = Junk,
           hand' # Null => data'[hand'] = Junk,
           task' = "grow" => BrkStart <= pos',
           st'[InitProc] # "unused" =>
             \A g \in Page : BrkStart <= g * PAGE /\ PageOf(InitProc, g)' = Null =>
               expect'[InitProc][g] = Junk,
           NoBoundary => Private',
           task' \in {"exec", "fork"} => \A k \in DOMAIN areas'[cur'] : Finished(k)' =>
             /\ pc' # "area" => Cov(areas'[cur'][k]) \cap Left(pos', stop') = {}
             /\ task' = "fork" /\ NoBoundary =>
                 \A g \in Cov(areas'[cur'][k]) : data'[entry'[<<cur', PageEntry(g)>>]] = expect'[from'][g]
             /\ task' = "exec" /\ k <= N =>
                 \A g \in Cov(areas'[cur'][k]) : data'[entry'[<<cur', PageEntry(g)>>]] = ImageContents[g]
    PROVE  Contents'
  BY DEF Contents, PageOf

(* Every step keeps what frames should hold. *)
LEMMA ContentsStep ==
    ASSUME IInv, Go
    PROVE  Contents'
  <1>1. /\ \A k \in DOMAIN pmm_stack' : data'[pmm_stack'[k]] = Junk
        /\ hand' # Null => data'[hand'] = Junk
    BY LooseStep
  <1>2. st'[InitProc] # "unused" =>
          \A g \in Page : BrkStart <= g * PAGE /\ PageOf(InitProc, g)' = Null =>
            expect'[InitProc][g] = Junk
    BY AbsentStep
  <1>5. task' = "grow" => BrkStart <= pos'
    BY GrowPos
  <1>3. NoBoundary => Private'
    BY PrivateStep
  <1>4. task' \in {"exec", "fork"} => \A k \in DOMAIN areas'[cur'] : Finished(k)' =>
             /\ pc' # "area" => Cov(areas'[cur'][k]) \cap Left(pos', stop') = {}
             /\ task' = "fork" /\ NoBoundary =>
                 \A g \in Cov(areas'[cur'][k]) : data'[entry'[<<cur', PageEntry(g)>>]] = expect'[from'][g]
             /\ task' = "exec" /\ k <= N =>
                 \A g \in Cov(areas'[cur'][k]) : data'[entry'[<<cur', PageEntry(g)>>]] = ImageContents[g]
    BY FinishedStep
  <1> QED BY <1>1, <1>2, <1>3, <1>4, <1>5, ContentsNext

-----------------------------------------------------------------------------
(* The invariant *)

(* The invariant holds at boot. *)
LEMMA IInvInit ==
    ASSUME Init
    PROVE  IInv
  <1>1. /\ boot \in Loaders /\ pmm_stack = <<>> /\ data = [f \in Frame |-> Junk] /\ heap = {}
        /\ entry = [x \in Slot |-> Null] /\ areas = [p \in Proc |-> <<>>]
        /\ brk = [p \in Proc |-> 0] /\ stack = [p \in Proc |-> 0] /\ st = [p \in Proc |-> "unused"]
        /\ forks = 0 /\ halted = FALSE /\ expect = [p \in Proc |-> [g \in Page |-> Junk]]
        /\ pc = "pmm_init" /\ task = "none" /\ cur = Null /\ from = Null
        /\ i = 0 /\ pos = 0 /\ stop = 0 /\ hand = Null
    BY DEF Init, Slot
  <1>2. InitProc \in Proc
    BY MemoryAssumption
  <1>3. <<>> \in Seq(Frame) /\ <<>> \in Seq(Area) /\ DOMAIN pmm_stack = {}
        /\ Len(<<>>) = 0
    BY <1>1
  <1>4. FrameTypes
    BY <1>1, <1>3 DEF FrameTypes
  <1>5. DataType
    BY <1>1 DEF DataType, Value
  <1>6. ListType
    BY <1>1, <1>3 DEF ListType
  <1>7. ProcType
    <2>1. 0 \in 0..MaxForks
      BY MemoryAssumption
    <2>2. [g \in Page |-> Junk] \in [Page -> Value]
      BY DEF Value
    <2> QED BY <1>1, <2>1, <2>2 DEF ProcType
  <1>8. CallType
    BY <1>1 DEF CallType
  <1>9. TypeOK
    BY <1>4, <1>5, <1>6, <1>7, <1>8, TypeParts
  <1>10. Distinct
    BY <1>1, <1>3 DEF Distinct
  <1>11. Sound
    <2>1. \A f : f \notin Held
      BY <1>1, <1>3, <1>4, HeldIs DEF InStack, InEntry
    <2> QED BY <2>1 DEF Sound
  <1>12. Kept /\ CallOK /\ ExecAreas /\ ForkAreas
    BY <1>1, NullApart DEF Kept, CallOK, ExecAreas, ForkAreas
  <1>13. Scanning
    <2>1. Len(boot.areas) \in Nat
      BY <1>1, BootIs
    <2>2. i \in 0..Len(boot.areas) /\ 1..i = {} /\ ~(i > 0)
      BY <1>1, <2>1
    <2> QED BY <1>1, <1>3, <2>2 DEF Scanning
  <1>14. Vacant
    BY <1>1 DEF Vacant, Slot
  <1>15. Lists /\ Children
    <2>1. \A p \in Proc : DOMAIN areas[p] = {}
      BY <1>1
    <2> QED BY <1>1, <2>1 DEF Lists, Children
  <1>16. InitAreas
    BY <1>1, <1>2 DEF InitAreas
  <1>17. Mapping
    <2>1. \A p \in Proc : \A g \in Page : PageOf(p, g) = Null
      BY <1>1, PageSlot DEF PageOf
    <2>2. \A p \in Proc : Owed(p) = {}
      BY <1>1, NullApart DEF Owed, Covered
    <2> QED BY <1>1, <2>1, <2>2 DEF Mapping
  <1>18. Contents
    <2>1. Private
      BY <1>1 DEF Private
    <2> QED BY <1>1, <1>2, <1>3, <2>1 DEF Contents
  <1> QED BY <1>9, <1>10, <1>11, <1>12, <1>13, <1>14, <1>15, <1>16, <1>17, <1>18 DEF IInv

(* The invariant after a step is its parts. *)
LEMMA IInvNext ==
    ASSUME TypeOK', Distinct', Sound', Kept', Scanning', CallOK', Vacant', Lists', Children',
           InitAreas', ExecAreas', ForkAreas', Mapping', Contents'
    PROVE  IInv'
  BY DEF IInv

(* Every step keeps the invariant. *)
LEMMA IInvStep ==
    ASSUME IInv, [Next]_vars
    PROVE  IInv'
  <1>1. CASE Halt \/ UNCHANGED vars
    <2>1. Still
      BY <1>1 DEF Halt, Still, vars
    <2>2. halted' \in BOOLEAN
      BY <1>1 DEF Halt, vars, IInv, TypeOK
    <2> QED BY <2>1, <2>2, StillKeeps
  <1>2. CASE Next /\ ~Halt
    <2>1. Go
      BY <1>2 DEF Go
    <2>2. TypeOK' /\ Distinct' /\ Sound' /\ Kept' /\ Scanning' /\ CallOK' /\ Vacant'
      BY <2>1, TypeStep, FrameStep, CallStep, VacantStep
    <2>3. Lists' /\ Children' /\ InitAreas' /\ ExecAreas' /\ ForkAreas'
      BY <2>1, ListsStep, InitAreasStep, ExecAreasStep, ForkAreasStep
    <2>4. Mapping' /\ Contents'
      BY <2>1, MappingStep, ContentsStep
    <2> QED BY <2>2, <2>3, <2>4, IInvNext
  <1> QED BY <1>1, <1>2

(* The inductive invariant holds in every behaviour of the memory code. *)
THEOREM Invariant == Spec => []IInv
  <1>1. Init => IInv
    BY IInvInit
  <1>2. IInv /\ [Next]_vars => IInv'
    BY IInvStep
  <1> QED BY <1>1, <1>2, PTL DEF Spec

(***************************************************************************)
(* TypeOK in every behaviour: frames, maps and areas, and the call under   *)
(* way, keep their types through boot, exec, brk, faults, fork, exit and   *)
(* wait (pmm.c, vmm.c, procmm.c).                                          *)
(***************************************************************************)
THEOREM TypeCorrect == Spec => []TypeOK
  <1>1. IInv => TypeOK
    BY DEF IInv
  <1> QED BY <1>1, Invariant, PTL

(* The invariant has every spare frame in a place. *)
LEMMA Somewhere ==
    ASSUME IInv
    PROVE  NoLeak
  <1>1. TypeOK /\ Kept /\ Scanning
    BY DEF IInv
  <1>2. FrameTypes /\ boot \in Loaders
    BY <1>1, TypeParts DEF ProcType
  <1>3. CASE pc = "pmm_init"
    BY <1>3 DEF NoLeak
  <1>4. CASE pc = "cpu_init"
    <2>1. DOMAIN pmm_stack = 1..Len(pmm_stack)
      BY <1>2 DEF FrameTypes
    <2>2. \A f \in Frame : Spare(boot, f) => InStack(f)
      BY <1>1, <1>4, <2>1 DEF Scanning, InStack
    <2>3. \A f \in SpareFrames[boot] : f \in Frame /\ Spare(boot, f)
      BY <1>2 DEF SpareFrames
    <2>4. \A f \in SpareFrames[boot] : f \in Held
      BY <1>2, <2>2, <2>3, HeldIs
    <2> QED BY <2>4 DEF NoLeak
  <1>5. CASE pc \notin {"pmm_init", "cpu_init"}
    BY <1>1, <1>5 DEF Kept, NoLeak
  <1> QED BY <1>3, <1>4, <1>5

(***************************************************************************)
(* NoLeak in every behaviour: each frame that the loader's map has to      *)
(* spare is free, in the heap or in a process's map, whatever fork, brk,   *)
(* faults and exec took and wait gave back (procmm.c:27-41, vmm.c:32-71).  *)
(***************************************************************************)
THEOREM NoFrameLost == Spec => []NoLeak
  <1>1. IInv => NoLeak
    BY Somewhere
  <1> QED BY <1>1, Invariant, PTL

(* What is missing are holes, and those are of brk. *)
LEMMA AllPages ==
    ASSUME IInv
    PROVE  AreasMapped
  <1> SUFFICES ASSUME NEW p \in Proc \ {cur}, NEW g \in Page
               PROVE  /\ PageOf(p, g) # Null => \E k \in DOMAIN areas[p] : g \in Cov(areas[p][k])
                      /\ \A k \in DOMAIN areas[p] : g \in Cov(areas[p][k]) =>
                           PageOf(p, g) # Null \/ (k = brk[p] /\ g \in Boundaries)
                      /\ PageOf(p, g) # Null =>
                          \A l \in 1..Levels : entry[<<p, TableEntry(l, g)>>] # Null
    BY DEF AreasMapped, Cov
  <1>1. MapOK(p)
    BY MappingIs DEF IInv
  <1>2. g \in Owed(p) <=> \E k \in DOMAIN areas[p] : g \in Cov(areas[p][k])
    BY DEF Owed, Covered
  <1>3. ASSUME NEW k \in DOMAIN areas[p], g \in Cov(areas[p][k]), Hole(p, g)
        PROVE  k = brk[p] /\ g \in Boundaries
    <2>1. p = InitProc /\ st[InitProc] # "unused" /\ g \in Boundaries
          /\ g \in Cov(BrkArea) /\ g \notin Cov(StackArea)
      BY <1>3 DEF Hole
    <2>2. TypeOK /\ InitAreas /\ Lists
      BY DEF IInv
    <2>3. /\ Len(areas[p]) = N + 2 /\ brk[p] = N + 1
          /\ \A j \in 1..N : areas[p][j] = ExecPlan[j]
          /\ BrkArea.start = BrkStart
      BY <2>1, <2>2 DEF InitAreas, ImageArea
    <2>4. N \in Nat /\ DOMAIN areas[p] = 1..(N + 2)
      BY <2>2, <2>3, MemoryAssumption DEF N, TypeOK
    <2>5. k # N + 2
      BY <1>3, <2>1 DEF StackArea
    <2>6. ~(k <= N)
      <3>1. SUFFICES ASSUME k \in 1..N PROVE FALSE
        BY <2>4
      <3>2. Pair(areas[p][k], BrkArea)
        BY <2>1, <2>2, <2>4, <3>1 DEF Lists, BrkArea
      <3>3. ExecPlan[k].end < BrkStart
        BY <3>1, ImageFacts, PlanIs
      <3>4. Apart(areas[p][k], BrkArea)
        BY <2>3, <3>1, <3>2, <3>3 DEF Pair
      <3> QED BY <1>3, <2>1, <3>4 DEF Apart
    <2> QED BY <2>1, <2>3, <2>4, <2>5, <2>6
  <1> QED BY <1>1, <1>2, <1>3 DEF MapOK

(***************************************************************************)
(* AreasMapped in every behaviour: the pages of a process are those of its *)
(* areas, with all their tables; missing are at most the last page of an   *)
(* area that starts late in a page and ends early in one, and in init's    *)
(* brk a page where brk once ended (procmm.c:83-88, 121-126, 163-164).     *)
(***************************************************************************)
THEOREM AreasHavePages == Spec => []AreasMapped
  <1>1. IInv => AreasMapped
    BY AllPages
  <1> QED BY <1>1, Invariant, PTL

(***************************************************************************)
(* Private in every behaviour in which no brk ends at the boundary of a    *)
(* page: a process finds in its pages what it wrote, what was loaded, or   *)
(* what its parent had when it forked (procmm.c:15-22, vmm.c:125-148,      *)
(* elf.c:49-51).                                                           *)
(***************************************************************************)
THEOREM MemoryPrivate ==
    ASSUME NoBoundary
    PROVE  Spec => []Private
  <1>1. IInv => Private
    BY DEF IInv, Contents
  <1> QED BY <1>1, Invariant, PTL

(* As many elements as a function has arguments, when no two have the same value. *)
LEMMA Counted ==
    ASSUME NEW S, NEW T, IsFiniteSet(T), NEW f \in [S -> T],
           \A a, b \in S : f[a] = f[b] => a = b, \A t \in T : \E s \in S : f[s] = t
    PROVE  IsFiniteSet(S) /\ Cardinality(S) = Cardinality(T)
  <1>1. f \in Injection(S, T)
    BY DEF Injection, IsInjective
  <1>2. f \in Surjection(S, T)
    BY DEF Surjection
  <1> QED BY <1>1, <1>2, FS_Injection

(* Sets without a common element. *)
LEMMA CountUnion ==
    ASSUME NEW S, NEW T, IsFiniteSet(S), IsFiniteSet(T), S \cap T = {}
    PROVE  /\ IsFiniteSet(S \cup T) /\ Cardinality(S \cup T) = Cardinality(S) + Cardinality(T)
           /\ Cardinality(S) \in Nat /\ Cardinality(T) \in Nat
  <1>1. Cardinality(S \cap T) = 0
    BY FS_EmptySet
  <1>2. Cardinality(S) \in Nat /\ Cardinality(T) \in Nat
    BY FS_CardinalityType
  <1>3. /\ IsFiniteSet(S \cup T)
        /\ Cardinality(S \cup T) = Cardinality(S) + Cardinality(T) - Cardinality(S \cap T)
    BY FS_Union
  <1>4. Cardinality(S \cup T) = Cardinality(S) + Cardinality(T) - 0
    BY <1>1, <1>3
  <1> QED BY <1>2, <1>3, <1>4

(***************************************************************************)
(* The invariant gives each frame one use, and none that the loader's map  *)
(* speaks against.                                                         *)
(***************************************************************************)
LEMMA Once ==
    ASSUME IInv
    PROVE  OneUse
  <1>1. TypeOK /\ Distinct /\ Sound
    BY DEF IInv
  <1>2. FrameTypes /\ boot \in Loaders
    BY <1>1, TypeParts DEF ProcType
  <1>3. pmm_stack \in Seq(Frame) /\ Len(pmm_stack) \in Nat /\ DOMAIN pmm_stack = 1..Len(pmm_stack)
        /\ entry \in [Slot -> Frame \cup {Null}]
    BY <1>2 DEF FrameTypes
  <1>4. DistinctFacts
    BY <1>1, <1>3, DistinctIs
  <1>5. Held \cap TakenFrames[boot] = {}
    <2>1. \A f \in TakenFrames[boot] : Taken(boot, f)
      BY <1>2 DEF TakenFrames
    <2> QED BY <1>1, <2>1 DEF Sound
  <1>6. IsFiniteSet(Frame)
    BY Numbers, FS_Interval DEF Frame
  <1>7. Stacked \in SUBSET Frame /\ Entered \in SUBSET Frame /\ heap \in SUBSET Frame /\ InHand \in SUBSET Frame
    <2>1. Stacked \in SUBSET Frame
      BY <1>3 DEF Stacked
    <2>2. Entered \in SUBSET Frame
      BY <1>3 DEF Entered, Used, Slot
    <2> QED BY <1>2, <2>1, <2>2 DEF FrameTypes, InHand
  <1>8. IsFiniteSet(Stacked) /\ IsFiniteSet(Entered) /\ IsFiniteSet(heap) /\ IsFiniteSet(InHand)
    BY <1>6, <1>7, FS_Subset
  <1>9. Cardinality(Stacked) = Len(pmm_stack)
    <2>1. PICK f : f = [k \in 1..Len(pmm_stack) |-> pmm_stack[k]]
      OBVIOUS
    <2>2. f \in [1..Len(pmm_stack) -> Stacked]
      BY <1>3, <2>1 DEF Stacked
    <2>3. \A a, b \in 1..Len(pmm_stack) : f[a] = f[b] => a = b
      BY <1>4, <2>1 DEF DistinctFacts
    <2>4. \A t \in Stacked : \E s \in 1..Len(pmm_stack) : f[s] = t
      BY <1>3, <2>1 DEF Stacked
    <2>5. Cardinality(1..Len(pmm_stack)) = Cardinality(Stacked)
      <3> DEFINE s == 1..Len(pmm_stack)
      <3>1. /\ IsFiniteSet(Stacked) /\ f \in [s -> Stacked]
            /\ \A j, k \in s : f[j] = f[k] => j = k
            /\ \A t \in Stacked : \E k \in s : f[k] = t
        BY <1>8, <2>2, <2>3, <2>4
      <3> HIDE DEF s
      <3>2. Cardinality(s) = Cardinality(Stacked)
        BY <3>1, Counted
      <3> QED BY <3>2 DEF s
    <2>6. Cardinality(1..Len(pmm_stack)) = Len(pmm_stack)
      <3>1. PICK n \in Nat : n = Len(pmm_stack)
        BY <1>3
      <3>2. Cardinality(1..n) = IF 1 > n THEN 0 ELSE n - 1 + 1
        BY FS_Interval
      <3>3. (IF 1 > n THEN 0 ELSE n - 1 + 1) = n
        OBVIOUS
      <3> QED BY <3>1, <3>2, <3>3
    <2> QED BY <2>5, <2>6
  <1>10. Cardinality(Entered) = Cardinality(Used)
    <2>1. PICK f : f = [x \in Used |-> entry[x]]
      OBVIOUS
    <2>2. f \in [Used -> Entered]
      BY <2>1 DEF Entered
    <2>3. \A a, b \in Used : f[a] = f[b] => a = b
      BY <1>4, <2>1 DEF DistinctFacts, Used, Slot
    <2>4. \A t \in Entered : \E s \in Used : f[s] = t
      BY <2>1 DEF Entered
    <2> QED BY <1>8, <2>2, <2>3, <2>4, Counted
  <1>11. /\ Stacked \cap heap = {}
         /\ (Stacked \cup heap) \cap Entered = {}
         /\ (Stacked \cup heap \cup Entered) \cap InHand = {}
    <2>1. \A f \in Stacked : f \notin heap /\ f # hand
      BY <1>3, <1>4 DEF DistinctFacts, Stacked
    <2>2. \A f \in Entered : f \notin heap /\ f # hand /\ f \notin Stacked
      BY <1>3, <1>4 DEF DistinctFacts, Entered, Used, Slot, Stacked
    <2>3. hand \notin heap
      BY <1>4 DEF DistinctFacts
    <2> QED BY <2>1, <2>2, <2>3 DEF InHand
  <1>12. /\ IsFiniteSet(Stacked \cup heap)
         /\ Cardinality(Stacked \cup heap) = Cardinality(Stacked) + Cardinality(heap)
    BY <1>8, <1>11, CountUnion
  <1>13. /\ IsFiniteSet(Stacked \cup heap \cup Entered)
         /\ Cardinality(Stacked \cup heap \cup Entered) = Cardinality(Stacked \cup heap) + Cardinality(Entered)
    BY <1>8, <1>11, <1>12, CountUnion
  <1>14. Cardinality(Held) = Cardinality(Stacked \cup heap \cup Entered) + Cardinality(InHand)
    BY <1>8, <1>11, <1>13, CountUnion DEF Held
  <1> QED BY <1>5, <1>9, <1>10, <1>12, <1>13, <1>14 DEF OneUse

(***************************************************************************)
(* OneUse in every behaviour: a frame is free once, or in the heap, or one *)
(* table or one page of one process, and none has a byte of the kernel, of *)
(* the init program, of the map or of the loader's structure, of which     *)
(* version 1 keeps only the page it begins in (pmm.c:10-50,                *)
(* multiboot.c:131-153, vmm.c:32-71).                                      *)
(***************************************************************************)
THEOREM FramesOnce == Spec => []OneUse
  <1>1. IInv => OneUse
    BY Once
  <1> QED BY <1>1, Invariant, PTL
=============================================================================

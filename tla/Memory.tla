------------------------------- MODULE Memory -------------------------------
(***************************************************************************)
(* Memory of processes: the stack of free page frames (mem/pmm.c), page    *)
(* tables (mem/vmm.c), the areas of a process with its brk and its stack   *)
(* (proc/procmm.c, syscall/sys_mem.c), their copy by fork and their return *)
(* by wait, and the loading of init (proc/elf.c, proc/exec_elf.c).         *)
(*                                                                         *)
(* The kernel runs on one CPU and finishes a call before the next begins;  *)
(* a call takes a step for every page and every table, and pc says where   *)
(* it is.  Addresses count from 0 to TOP, PAGE to a page; the code's three *)
(* levels of tables below P4, all treated alike, are Levels levels of Span *)
(* entries.  A frame's contents are one value.  Which frames there are to  *)
(* begin with, BootInfo takes from what the boot loader says.  Where the   *)
(* code overwrites what it needs, or reads what is no longer there, the    *)
(* model stops: nothing is said of what follows.                           *)
(***************************************************************************)
EXTENDS BootInfo, FiniteSets

CONSTANTS
    Proc,       \* process slots
    InitProc,   \* the first process
    NumFrames,  \* page frames below the end of memory
    Levels,     \* levels of page tables below P4
    Span,       \* entries of a table
    Image,      \* init's segments: start, end of the file part, end, and offset in the file
    ArgSize,    \* bytes of init's arguments and environment
    Ends,       \* addresses that programs pass to brk
    Touched,    \* pages that programs write to, whether they have them or not
    MaxHeap,    \* bound: frames that the kernel heap takes
    MaxForks,   \* bound: how often programs fork
    Trampoline, \* TRAMPOLINE_ADDR / PAGE_SIZE
    RunOn,      \* bound: the loaders for which the kernel goes on after cpu_init
    Null        \* no frame, no process

Pages == Span ^ Levels
TOP   == Pages * PAGE      \* USERSPACE_TOP
Page  == 0..(Pages - 1)
Frame == 0..(NumFrames - 1)

(* The pages with a byte between start and end *)
PagesOf(start, end) ==
    {g \in Page : start < end /\ g * PAGE < end /\ start < (g + 1) * PAGE}

(* (a + PAGE_SIZE) & ~(PAGE_SIZE-1) *)
NextPage(a) == (a \div PAGE + 1) * PAGE

(* brk begins on the page after the image *)
BrkStart == NextPage(Image[Len(Image)].end)

(* Segments are in order and share no page, as linkers lay them out *)
ASSUME MemoryAssumption ==
    /\ InitProc \in Proc
    /\ NumFrames \in Nat \ {0}
    /\ Null \notin Frame \cup Proc
    /\ RunOn \subseteq Loaders
    /\ Trampoline \in Frame
    /\ \A b \in Loaders : \A r \in {b.kernel, b.module, b.info, b.map} : ~Touches(Trampoline, r)
    /\ \A b \in Loaders : \A k \in DOMAIN b.areas : b.areas[k].end <= NumFrames * PAGE
    /\ Levels \in Nat /\ Span \in Nat \ {0} /\ Pages \in Nat \ {0}
    /\ ArgSize \in Nat \ {0}
    /\ Image \in Seq([start : Nat, file : Nat, end : Nat, offset : Nat]) /\ Image # <<>>
    /\ \A k \in DOMAIN Image :
        /\ PAGE <= Image[k].start /\ Image[k].start <= Image[k].file
        /\ Image[k].file <= Image[k].end /\ Image[k].start < Image[k].end
        /\ \A j \in DOMAIN Image : k < j =>
            /\ Image[k].end < Image[j].start
            /\ (Image[k].end - 1) \div PAGE < Image[j].start \div PAGE
    /\ BrkStart + ArgSize < TOP
    /\ Ends \subseteq Nat \ {0}
    /\ Touched \subseteq Page
    /\ MaxHeap \in Nat
    /\ MaxForks \in Nat

(* What a frame holds *)
Zero == 0
File == 1
Mark == 2      \* written by a program
Junk == 3      \* anything else: a link, a table, what was there before

(***************************************************************************)
(* Where a process has frames: the entry of each page, the entry of each   *)
(* table above it, and P4                                                  *)
(***************************************************************************)
PageEntry(g)     == <<0, g>>
TableEntry(l, g) == <<l, g \div Span^l>>
P4               == <<Levels + 1, 0>>

Node ==
    {PageEntry(g) : g \in Page} \cup {TableEntry(l, g) : l \in 1..Levels, g \in Page} \cup {P4}

VARIABLES
    boot,     \* what the loader told
    pmm_stack, \* the stack of free frames, its top at the end
    data,     \* the contents of each frame
    heap,     \* frames that the kernel has mapped for its heap and the trampoline
    entry,    \* the frame in each entry of each process, or Null
    areas,    \* map->areas of each process
    brk,      \* map->brk and map->stack: an index of areas, or 0
    stack,
    st,       \* unused, alive or zombie
    forks,    \* how often programs have forked
    halted,   \* the CPU spins in the kernel for ever, or the model says no more
    expect,   \* history: what each process should find in its pages
    pc,       \* where the call under way is
    task,     \* what it is for: exec, fork, grow or wait
    cur,      \* the process whose map it changes
    from,     \* the process that forks
    i,        \* the area that it is at
    pos, stop, \* p and a->end in the loops over an area's pages
    hand      \* a frame that was allocated for a page and is not yet in its entry

list  == <<areas, brk, stack>>
procs == <<boot, st, forks, expect>>
call  == <<pc, task, cur, from, i, pos, stop, hand>>
vars  == <<pmm_stack, data, heap, entry, list, procs, halted, call>>

-----------------------------------------------------------------------------
(* Steps from which the kernel does not go on: an empty stack of frames, a *)
(* fault or a request it cannot serve                                      *)
Halt ==
    /\ halted' = TRUE
    /\ UNCHANGED <<pmm_stack, data, heap, entry, list, procs, call>>

(* Steps from which the kernel goes on with memory that is not what it takes it for *)
Undefined == Halt

(* The frame that pmm_alloc returns, and the stack it leaves *)
Top       == pmm_stack[Len(pmm_stack)]
pmm_alloc == pmm_stack' = SubSeq(pmm_stack, 1, Len(pmm_stack) - 1)

(* An entry without a page is 0, which is also the address of frame 0 *)
pmm_free(e) ==
    LET f == IF e = Null THEN 0 ELSE e IN
    /\ pmm_stack' = Append(pmm_stack, f)
    /\ data' = [data EXCEPT ![f] = Junk]

Idle    == ~halted /\ pc = "idle"
Runs(p) == Idle /\ st[p] = "alive"

(* A call begins at pc = c and has to map, or to unmap, the pages from a to b *)
Begin(c, t, p, q, a, b) ==
    /\ pc' = c /\ task' = t /\ cur' = p /\ from' = q
    /\ i' = 1 /\ pos' = a /\ stop' = b
    /\ UNCHANGED hand

Return ==
    /\ pc' = "idle" /\ task' = "none" /\ cur' = Null /\ from' = Null
    /\ i' = 0 /\ pos' = 0 /\ stop' = 0
    /\ UNCHANGED hand

-----------------------------------------------------------------------------
(* Boot *)

Init ==
    /\ boot \in Loaders
    /\ pmm_stack = <<>>
    /\ data = [f \in Frame |-> Junk]
    /\ heap = {}
    /\ entry = [x \in Proc \X Node |-> Null]
    /\ areas = [p \in Proc |-> <<>>]
    /\ brk = [p \in Proc |-> 0]
    /\ stack = [p \in Proc |-> 0]
    /\ st = [p \in Proc |-> "unused"]
    /\ forks = 0
    /\ halted = FALSE
    /\ expect = [p \in Proc |-> [g \in Page |-> Junk]]
    /\ pc = "pmm_init" /\ task = "none" /\ cur = Null /\ from = Null
    /\ i = 0 /\ pos = 0 /\ stop = 0 /\ hand = Null

(* multiboot_get_memory_area, until there is none *)
multiboot_get_memory_area ==
    /\ ~halted /\ pc = "pmm_init" /\ ~(pos + PAGE < stop)
    /\ IF i < mboot_data(boot).mmap_size
       THEN /\ i' = i + 1 /\ pos' = boot.areas[i + 1].start /\ stop' = boot.areas[i + 1].end
            /\ UNCHANGED pc
       ELSE pc' = "cpu_init" /\ i' = 0 /\ pos' = 0 /\ stop' = 0
    /\ UNCHANGED <<pmm_stack, data, heap, entry, list, procs, halted, task, cur, from, hand>>

(***************************************************************************)
(* A page of the area.  Its entry is written first, into a frame that may  *)
(* be needed.  A page that is given to pmm_free may have a part of the     *)
(* loader's structure of version 1; then the link overwrites fields that   *)
(* multiboot_page_used reads, or others.                                   *)
(***************************************************************************)
pmm_init ==
    LET f == pos \div PAGE
        freed == Freed(boot, boot.areas[i], pos)
    IN /\ ~halted /\ pc = "pmm_init" /\ pos + PAGE < stop
       /\ \/ Needed(boot, TableOf(f)) /\ Undefined
          \/ freed /\ boot.version = 1 /\ Touches(f, boot.info) /\ Undefined
          \/ /\ ~Needed(boot, TableOf(f))
             /\ pmm_stack' = IF freed THEN Append(pmm_stack, f) ELSE pmm_stack
             /\ data' = [data EXCEPT ![TableOf(f)] = Junk, ![f] = IF freed THEN Junk ELSE @]
             /\ pos' = pos + PAGE
             /\ UNCHANGED <<heap, entry, list, procs, halted, pc, task, cur, from, i, stop, hand>>

(***************************************************************************)
(* cpu_init takes a page and the tables to map the trampoline with, copies *)
(* the trampoline to its address, whose frame may be free, and gives the   *)
(* page back.  Where that frame had its link there is now code, which is   *)
(* no address: like a null pointer it stops the kernel when it is used, so *)
(* the stack now ends at that frame.  If the frame itself is one of the    *)
(* tables, or there are not enough, the kernel does not go on.             *)
(***************************************************************************)
cpu_init ==
    LET n == Len(pmm_stack)
        bottom == {k \in 1..n : pmm_stack[k] = Trampoline}
        lost   == IF bottom = {} THEN 0 ELSE (CHOOSE k \in bottom : TRUE) - 1
    IN /\ ~halted /\ pc = "cpu_init"
       /\ IF n <= Levels \/ \E k \in bottom : k >= n - Levels THEN Halt
          ELSE /\ pmm_stack' = Append(SubSeq(pmm_stack, lost + 1, n - Levels - 1), pmm_stack[n])
               /\ heap' = {pmm_stack[k] : k \in (n - Levels)..(n - 1)}
               /\ Return
               /\ UNCHANGED <<data, entry, list, procs, halted>>

(* The heap grows by a page *)
ksbrk ==
    /\ Idle /\ boot \in RunOn /\ Cardinality(heap) < Levels + MaxHeap
    /\ IF pmm_stack = <<>> THEN Halt
       ELSE /\ pmm_alloc
            /\ heap' = heap \cup {Top}
            /\ UNCHANGED <<data, entry, list, procs, halted, call>>

-----------------------------------------------------------------------------
(* Areas *)

Overlaps(a, start, last) == ~(a.end < start \/ a.start > last)

(* What exec_elf maps: the image, brk with the arguments, and an empty stack *)
ExecPlan ==
    [k \in 1..(Len(Image) + 2) |->
        IF k <= Len(Image) THEN [start |-> Image[k].start, end |-> Image[k].end]
        ELSE IF k = Len(Image) + 1 THEN [start |-> BrkStart, end |-> BrkStart + ArgSize]
        ELSE [start |-> TOP, end |-> TOP]]

(* What fork maps: the parent's areas *)
Plan == IF task = "exec" THEN ExecPlan ELSE areas[from]

(***************************************************************************)
(* procmm_map of the next area.  Callers map from low addresses to high    *)
(* ones, so it goes to the end of the list; one that overlaps another is   *)
(* refused and gets no pages.                                              *)
(***************************************************************************)
procmm_map ==
    /\ ~halted /\ pc = "area" /\ task \in {"exec", "fork"} /\ i <= Len(Plan)
    /\ IF \E k \in DOMAIN areas[cur] : Overlaps(areas[cur][k], Plan[i].start, Plan[i].end)
       THEN pos' = Plan[i].end /\ UNCHANGED list
       ELSE /\ pos' = Plan[i].start
            /\ areas' = [areas EXCEPT ![cur] = Append(areas[cur], Plan[i])]
            /\ brk' = [brk EXCEPT ![cur] =
                        IF task = "exec" /\ i = Len(Image) + 1 THEN Len(areas[cur]) + 1 ELSE @]
            /\ stack' = [stack EXCEPT ![cur] =
                        IF task = "exec" /\ i = Len(Image) + 2 THEN Len(areas[cur]) + 1 ELSE @]
    /\ stop' = Plan[i].end
    /\ pc' = "page"
    /\ UNCHANGED <<pmm_stack, data, heap, entry, procs, halted, task, cur, from, i, hand>>

(* The argument of vmm_set_page for the page at pos *)
AllocPage ==
    /\ ~halted /\ pc = "page" /\ pos < stop
    /\ IF pmm_stack = <<>> THEN Halt
       ELSE /\ pmm_alloc
            /\ hand' = Top
            /\ pc' = "table"
            /\ UNCHANGED <<data, heap, entry, list, procs, halted, task, cur, from, i, pos, stop>>

Missing(g) == {l \in 1..Levels : entry[<<cur, TableEntry(l, g)>>] = Null}

(* The highest table that is missing on the way to the page *)
vmm_find_page ==
    /\ ~halted /\ pc = "table"
    /\ \E l \in Missing(pos \div PAGE) :
        /\ \A k \in Missing(pos \div PAGE) : k <= l
        /\ IF pmm_stack = <<>> THEN Halt
           ELSE /\ pmm_alloc
                /\ entry' = [entry EXCEPT ![<<cur, TableEntry(l, pos \div PAGE)>>] = Top]
                /\ UNCHANGED <<data, heap, list, procs, halted, call>>

vmm_set_page ==
    /\ ~halted /\ pc = "table" /\ Missing(pos \div PAGE) = {}
    /\ entry' = [entry EXCEPT ![<<cur, PageEntry(pos \div PAGE)>>] = hand]
    /\ hand' = Null
    /\ pos' = pos + PAGE
    /\ pc' = "page"
    /\ UNCHANGED <<pmm_stack, data, heap, list, procs, halted, task, cur, from, i, stop>>

-----------------------------------------------------------------------------
(* exec and fork *)

(* The places where processes hold frames, and these frames *)
Used    == {x \in Proc \X Node : entry[x] # Null}
Entered == {entry[x] : x \in Used}

PageOf(p, g) == entry[<<p, PageEntry(g)>>]

(* The pages of s before the first that p does not have *)
Reached(p, s) == {g \in s : \A h \in s : h <= g => PageOf(p, h) # Null}

(* Frames with the pages s of cur are filled with one value *)
Fill(d, s, c) ==
    [f \in Frame |-> IF \E g \in Reached(cur, s) : PageOf(cur, g) = f THEN c ELSE d[f]]

(* vmm_p4_memcpy and vmm_p4_memset of load_elf_segment *)
Segment(s) ==
    LET file == PagesOf(s.start, s.file) IN
    Fill(Fill(data, file, File), PagesOf(s.file, s.end) \ file, Zero)

(* Mutant: only the first page is copied *)
vmm_p4_memcpy_OnePage(s) ==
    LET done == {g \in s : \A h \in s : g <= h} IN
    [f \in Frame |->
        LET g == {h \in done : PageOf(cur, h) = f /\ PageOf(from, h) # Null} IN
        IF g = {} THEN data[f] ELSE data[PageOf(from, CHOOSE h \in g : TRUE)]]

(* It gives up at the first page that is missing on either side *)
vmm_p4_memcpy(s) ==
    LET done == Reached(cur, s) \cap Reached(from, s) IN
    [f \in Frame |->
        LET g == {h \in done : PageOf(cur, h) = f} IN
        IF g = {} THEN data[f] ELSE data[PageOf(from, CHOOSE h \in g : TRUE)]]

(***************************************************************************)
(* Where a segment lies in the init program, vmm_p4_memcpy looks up in the *)
(* boot tables.  It finds the entries that pmm_init wrote, unless the      *)
(* frame that it takes for the table has since been given to someone.      *)
(***************************************************************************)
Found(s) ==
    LET first == boot.module.start + s.offset
        file  == [start |-> first, end |-> first + (s.file - s.start)]
    IN \A f \in Frame : s.start < s.file /\ Touches(f, file) =>
            Listed(boot, f) /\ TableOf(f) \notin heap \cup Entered

(* The area has its pages, and now gets its contents *)
AreaDone ==
    /\ ~halted /\ pc = "page" /\ pos >= stop /\ task \in {"exec", "fork"}
    /\ IF task = "exec" /\ i <= Len(Image) /\ ~Found(Image[i]) THEN Undefined
       ELSE /\ data' = IF task = "fork" THEN vmm_p4_memcpy(PagesOf(Plan[i].start, Plan[i].end))
                       ELSE IF i <= Len(Image) THEN Segment(Image[i])
                       ELSE data
            /\ pc' = "area" /\ i' = i + 1 /\ pos' = 0 /\ stop' = 0
            /\ UNCHANGED <<pmm_stack, heap, entry, list, procs, halted, task, cur, from, hand>>

(* What init should find: its image, and its arguments on the page after that *)
ImageContents ==
    LET inFile(g) == \E k \in DOMAIN Image : g \in PagesOf(Image[k].start, Image[k].file)
        inImage(g) == \E k \in DOMAIN Image : g \in PagesOf(Image[k].start, Image[k].end)
    IN [g \in Page |-> IF inFile(g) \/ g \in PagesOf(BrkStart, BrkStart + ArgSize) THEN File
                       ELSE IF inImage(g) THEN Zero ELSE Junk]

(* kmain: process_spawn(0) and exec_elf, which reads the executable from       *)
(* address 0 and faults if the loader has told of none                         *)
kmain ==
    /\ Idle /\ st[InitProc] = "unused" /\ boot \in RunOn
    /\ IF ~mboot_data(boot).init \/ pmm_stack = <<>> THEN Halt
       ELSE /\ pmm_alloc
            /\ entry' = [entry EXCEPT ![<<InitProc, P4>>] = Top]
            /\ Begin("area", "exec", InitProc, Null, 0, 0)
            /\ UNCHANGED <<data, heap, list, procs, halted>>

(* The arguments are written from brk's start *)
exec_elf ==
    /\ ~halted /\ pc = "area" /\ task = "exec" /\ i > Len(Plan)
    /\ data' = Fill(data, PagesOf(BrkStart, BrkStart + ArgSize), File)
    /\ st' = [st EXCEPT ![cur] = "alive"]
    /\ expect' = [expect EXCEPT ![cur] = ImageContents]
    /\ Return
    /\ UNCHANGED <<pmm_stack, heap, entry, list, boot, forks, halted>>

(* The memory of process_spawn(p): procmm_new_map begins with vmm_new_P4 *)
fork(p, q) ==
    /\ Runs(p) /\ st[q] = "unused" /\ q # InitProc
    /\ forks < MaxForks
    /\ IF pmm_stack = <<>> THEN Halt
       ELSE /\ pmm_alloc
            /\ entry' = [entry EXCEPT ![<<q, P4>>] = Top]
            /\ forks' = forks + 1
            /\ Begin("area", "fork", q, p, 0, 0)
            /\ UNCHANGED <<data, heap, list, boot, st, expect, halted>>

(* The new map has the areas and their contents, and neither brk nor stack *)
procmm_new_map ==
    /\ ~halted /\ pc = "area" /\ task = "fork" /\ i > Len(Plan)
    /\ st' = [st EXCEPT ![cur] = "alive"]
    /\ expect' = [expect EXCEPT ![cur] = expect[from]]
    /\ Return
    /\ UNCHANGED <<pmm_stack, data, heap, entry, list, boot, forks, halted>>

-----------------------------------------------------------------------------
(* Growth *)

(* Mutant: the first new page is left out *)
FirstNew_SkipOne(old) == NextPage(old) + PAGE

(* procmm_resize maps from the page after the old end *)
FirstNew(old) == NextPage(old)

(* brk with an address above the end: the area grows as far as the next one,  *)
(* the stack.  Down to its start it does not shrink, but halts.  Below that   *)
(* the length wraps around and the area is left with its end before its       *)
(* start.  brk(0) only returns the end.                                       *)
procmm_resize(p, addr) ==
    LET a   == areas[p][brk[p]]
        max == areas[p][brk[p] + 1].start
        to  == IF addr > max THEN max ELSE addr
    IN /\ Runs(p)
       /\ IF brk[p] = 0 THEN Halt
          ELSE IF addr < a.start THEN Undefined
          ELSE IF addr <= a.end THEN Halt
          ELSE /\ areas' = [areas EXCEPT ![p] =
                    [areas[p] EXCEPT ![brk[p]] = [start |-> a.start, end |-> to]]]
               /\ Begin("page", "grow", p, Null, FirstNew(a.end), to)
               /\ UNCHANGED <<pmm_stack, data, heap, entry, brk, stack, procs, halted>>

(* The system call *)
Brk(p) == \E addr \in Ends : procmm_resize(p, addr)

(***************************************************************************)
(* A program touches a page it does not have.  The stack grows down by a   *)
(* page when that is where the address is or above; otherwise nobody       *)
(* handles the fault.                                                      *)
(***************************************************************************)
procmm_page_fault(p, g) ==
    LET a == areas[p][stack[p]]
        start == a.start - PAGE
    IN /\ Runs(p) /\ PageOf(p, g) = Null
       /\ IF stack[p] = 0 \/ start \div PAGE > g THEN Halt
          ELSE /\ areas' = [areas EXCEPT ![p] =
                    [areas[p] EXCEPT ![stack[p]] = [start |-> start, end |-> a.end]]]
               /\ Begin("page", "grow", p, Null, start, start + PAGE)
               /\ UNCHANGED <<pmm_stack, data, heap, entry, brk, stack, procs, halted>>

GrowDone ==
    /\ ~halted /\ pc = "page" /\ task = "grow" /\ pos >= stop
    /\ Return
    /\ UNCHANGED <<pmm_stack, data, heap, entry, list, procs, halted>>

(* A program writes to a page it has *)
Store(p, g) ==
    /\ Runs(p) /\ PageOf(p, g) # Null
    /\ data' = [data EXCEPT ![PageOf(p, g)] = Mark]
    /\ expect' = [expect EXCEPT ![p] = [expect[p] EXCEPT ![g] = Mark]]
    /\ UNCHANGED <<pmm_stack, heap, entry, list, boot, st, forks, halted, call>>

-----------------------------------------------------------------------------
(* exit and wait *)

(* Mutant: the process is DONE before its parent has waited for it *)
exit_Done(p) ==
    /\ Runs(p)
    /\ st' = [st EXCEPT ![p] = "done"]
    /\ UNCHANGED <<pmm_stack, data, heap, entry, list, boot, forks, expect, halted, call>>

(* process_exit leaves the memory alone *)
exit(p) ==
    /\ Runs(p)
    /\ st' = [st EXCEPT ![p] = "zombie"]
    /\ UNCHANGED <<pmm_stack, data, heap, entry, list, boot, forks, expect, halted, call>>

(* process_free, called by wait in another process *)
process_free(q) ==
    /\ Idle /\ st[q] = "zombie" /\ q # InitProc
    /\ \E p \in Proc : Runs(p)
    /\ Begin("area", "wait", q, Null, 0, 0)
    /\ UNCHANGED <<pmm_stack, data, heap, entry, list, procs, halted>>

(* procmm_free_map unmaps the first area, until there is none *)
procmm_free_map ==
    /\ ~halted /\ pc = "area" /\ task = "wait"
    /\ IF areas[cur] = <<>> THEN pc' = "free_P4" /\ UNCHANGED <<pos, stop>>
       ELSE /\ pc' = "unmap"
            /\ pos' = Head(areas[cur]).start /\ stop' = Head(areas[cur]).end
    /\ UNCHANGED <<pmm_stack, data, heap, entry, list, procs, halted, task, cur, from, i, hand>>

(* Mutant: the entry of a page that was given back stays *)
procmm_unmap_KeepEntry ==
    /\ ~halted /\ pc = "unmap" /\ pos < stop
    /\ pmm_free(PageOf(cur, pos \div PAGE))
    /\ pos' = pos + PAGE
    /\ UNCHANGED <<heap, entry, list, procs, halted, pc, task, cur, from, i, stop, hand>>

(* A page is given back; AreasMapped has its entry and the tables above it *)
procmm_unmap ==
    /\ ~halted /\ pc = "unmap" /\ pos < stop
    /\ pmm_free(PageOf(cur, pos \div PAGE))
    /\ entry' = [entry EXCEPT ![<<cur, PageEntry(pos \div PAGE)>>] = Null]
    /\ pos' = pos + PAGE
    /\ UNCHANGED <<heap, list, procs, halted, pc, task, cur, from, i, stop, hand>>

(* LIST_REMOVE at the end of procmm_unmap *)
AreaRemoved ==
    /\ ~halted /\ pc = "unmap" /\ pos >= stop
    /\ areas' = [areas EXCEPT ![cur] = Tail(areas[cur])]
    /\ pc' = "area" /\ pos' = 0 /\ stop' = 0
    /\ UNCHANGED <<pmm_stack, data, heap, entry, brk, stack, procs, halted, task, cur, from, i, hand>>

(* The loops of vmm_free_P4 come to n before m: what lies below a table comes first *)
Before(n, m) ==
    LET last(k) == (k[2] + 1) * Span^k[1] IN
    last(n) < last(m) \/ (last(n) = last(m) /\ n[1] < m[1])

(* Mutant: the tables are not given back *)
vmm_free_P4_KeepTables ==
    /\ ~halted /\ pc = "free_P4"
    /\ \E n \in Node :
        /\ entry[<<cur, n>>] # Null
        /\ \A m \in Node : entry[<<cur, m>>] # Null /\ m # n => Before(n, m)
        /\ IF n[1] \in 1..Levels THEN UNCHANGED <<pmm_stack, data>> ELSE pmm_free(entry[<<cur, n>>])
        /\ entry' = [entry EXCEPT ![<<cur, n>>] = Null]
    /\ UNCHANGED <<heap, list, procs, halted, call>>

(* Pages still mapped, tables, and P4 itself *)
vmm_free_P4 ==
    /\ ~halted /\ pc = "free_P4"
    /\ \E n \in Node :
        /\ entry[<<cur, n>>] # Null
        /\ \A m \in Node : entry[<<cur, m>>] # Null /\ m # n => Before(n, m)
        /\ pmm_free(entry[<<cur, n>>])
        /\ entry' = [entry EXCEPT ![<<cur, n>>] = Null]
    /\ UNCHANGED <<heap, list, procs, halted, call>>

(* The process is gone *)
MapFreed ==
    /\ ~halted /\ pc = "free_P4" /\ \A n \in Node : entry[<<cur, n>>] = Null
    /\ brk' = [brk EXCEPT ![cur] = 0]
    /\ stack' = [stack EXCEPT ![cur] = 0]
    /\ st' = [st EXCEPT ![cur] = "unused"]
    /\ expect' = [expect EXCEPT ![cur] = [g \in Page |-> Junk]]
    /\ Return
    /\ UNCHANGED <<pmm_stack, data, heap, entry, areas, boot, forks, halted>>

-----------------------------------------------------------------------------
Boot   == multiboot_get_memory_area \/ pmm_init \/ cpu_init
NewMap == procmm_map \/ AllocPage \/ vmm_find_page \/ vmm_set_page \/ AreaDone \/ exec_elf
            \/ procmm_new_map \/ GrowDone
OldMap == procmm_free_map \/ procmm_unmap \/ AreaRemoved \/ vmm_free_P4 \/ MapFreed

Next ==
    \/ Boot \/ NewMap \/ OldMap
    \/ kmain
    \/ ksbrk
    \/ \E p \in Proc :
        \/ Brk(p)
        \/ \E g \in Touched : Store(p, g) \/ procmm_page_fault(p, g)
        \/ \E q \in Proc : fork(p, q)
        \/ exit(p)
        \/ process_free(p)

Spec == Init /\ [][Next]_vars

-----------------------------------------------------------------------------
(* Type invariant of frames, maps and areas, and of the call under way. *)
TypeOK ==
    /\ boot \in Loaders
    /\ pmm_stack \in Seq(Frame)
    /\ data \in [Frame -> {Zero, File, Mark, Junk}]
    /\ heap \subseteq Frame
    /\ entry \in [Proc \X Node -> Frame \cup {Null}]
    /\ areas \in [Proc -> Seq([start : Nat, end : Nat])]
    /\ brk \in [Proc -> Nat] /\ stack \in [Proc -> Nat]
    /\ \A p \in Proc : brk[p] <= Len(areas[p]) /\ stack[p] <= Len(areas[p])
    /\ st \in [Proc -> {"unused", "alive", "zombie"}]
    /\ forks \in 0..MaxForks
    /\ halted \in BOOLEAN
    /\ expect \in [Proc -> [Page -> {Zero, File, Mark, Junk}]]
    /\ pc \in {"pmm_init", "cpu_init", "idle", "area", "page", "table", "unmap", "free_P4"}
    /\ task \in {"none", "exec", "fork", "grow", "wait"}
    /\ cur \in Proc \cup {Null} /\ from \in Proc \cup {Null}
    /\ i \in Nat /\ pos \in Nat /\ stop \in Nat
    /\ hand \in Frame \cup {Null}

Stacked == {pmm_stack[k] : k \in DOMAIN pmm_stack}
InHand  == {hand} \ {Null}

(* The frames that are free, in the heap or in these places *)
Held == Stacked \cup heap \cup Entered \cup InHand

TakenFrames == [b \in Loaders |-> {f \in Frame : Taken(b, f)}]

(* The frames that the link under the trampoline led to cannot be reached any more *)
LostFrames(b) == IF Spare(b, Trampoline) THEN 0..(Trampoline - 1) ELSE {}

SpareFrames == [b \in Loaders |-> {f \in Frame : Spare(b, f)} \ LostFrames(b)]

(***************************************************************************)
(* A frame has one use: it is free once, or belongs to the kernel's heap,  *)
(* or is one table or one page of one process, after every sequence of     *)
(* brk, faults, fork, exit and wait (pmm.c:10-30, vmm.c:32-71,             *)
(* process.c:114-115); and no such frame has a byte of the kernel, of the  *)
(* init program, of the memory map, of memory that is not there or of the  *)
(* loader's structure, of which version 1 keeps only the page it begins in *)
(* (pmm.c:40-50, multiboot.c:131-153).                                     *)
(***************************************************************************)
OneUse ==
    /\ Held \cap TakenFrames[boot] = {}
    /\ Cardinality(Held) =
        Len(pmm_stack) + Cardinality(heap) + Cardinality(Used) + Cardinality(InHand)

(***************************************************************************)
(* No frame is lost: what fork, brk, faults and exec took, wait gives back *)
(* with all tables, so each frame that the loader's map has to spare is    *)
(* always somewhere, but for those that lay below the trampoline's in the  *)
(* stack (pmm.c:38-50, cpu.c:55-68, procmm.c:27-41, vmm.c:32-71).          *)
(***************************************************************************)
NoLeak == pc # "pmm_init" => SpareFrames[boot] \subseteq Held

(* The last page of an area, to which steps of PAGE from the area's start do *)
(* not come if the start lies later in its page than the last byte           *)
Skipped(a) == {g \in Page : g = (a.end - 1) \div PAGE /\ a.start % PAGE > (a.end - 1) % PAGE}

(* The pages at whose beginning brk ends after exec or a call of it *)
Boundaries == {e \div PAGE : e \in {x \in Ends \cup {BrkStart + ArgSize} : x % PAGE = 0}}

(***************************************************************************)
(* The pages of a process are those of its areas: none is mapped beside    *)
(* them, and each has its tables, which is what procmm_unmap relies on.    *)
(* Two loops leave pages out, and no other page is missing after loading,  *)
(* growing and forking: the last page of an area that starts late in a     *)
(* page and ends early in one (procmm.c:83-88, 163-164), and in init's brk *)
(* a page that begins just where brk once ended (procmm.c:121-126).        *)
(***************************************************************************)
AreasMapped ==
    \A p \in Proc \ {cur} : \A g \in Page :
        LET mapped == PageOf(p, g) # Null
            pages(k) == PagesOf(areas[p][k].start, areas[p][k].end) \ Skipped(areas[p][k])
        IN /\ mapped => \E k \in DOMAIN areas[p] : g \in pages(k)
           /\ \A k \in DOMAIN areas[p] : g \in pages(k) =>
                mapped \/ (k = brk[p] /\ g \in Boundaries)
           /\ mapped => \A l \in 1..Levels : entry[<<p, TableEntry(l, g)>>] # Null

(***************************************************************************)
(* Memory is private: in each of its pages a process finds what it wrote   *)
(* there, or what was loaded, or what its parent had when it forked,       *)
(* whatever other processes write, take and give back (procmm.c:15-22,     *)
(* vmm.c:125-148, elf.c:49-51).                                            *)
(***************************************************************************)
Private ==
    \A p \in Proc : \A g \in Page :
        st[p] # "unused" /\ PageOf(p, g) # Null => data[PageOf(p, g)] = expect[p][g]
=============================================================================

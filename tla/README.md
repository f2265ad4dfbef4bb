# Verification of the mittos64 kernel

TLA+ models of the mittos64 kernel (`src/kernel`), their TLC configurations, and
machine-checked proofs about them. `PROJECT.json` maps every definition to the
source lines it models.

## The system

mittos64 is a small 64-bit kernel for x86 machines with several processors. It
is **not preemptible**: system calls and interrupts run with interrupts off, so
on one CPU kernel code is interrupted nowhere but in the idle loop of
`scheduler()`, and during boot in `kmain` after its `sti`, by the PIT's tick, which
only counts; it gives the CPU away only where it calls `schedule()`. A page fault
may nest in a system call. Concurrency in the kernel is concurrency between CPUs, and
between the threads that call `schedule()` in the middle of a system call.

| Component | State | Operations | Interacts with | Hard part |
|---|---|---|---|---|
| Scheduler (`proc/scheduler.c`) | ready queue, `scheduler_lock`, per CPU the current and last thread | insert, next, dispatch, yield, timer | processes, APIC timer | CPUs take and return threads at once |
| Processes (`proc/process.c`, `syscall/sys_proc.c`) | process and thread states, family tree, pid counter | fork, exit, wait, free | scheduler, files, memory | one CPU frees what another was running; polling |
| Pipes (`fs/pipe.c`) | ring buffer, two positions, lock, reader and writer counts | read, write, open, close | scheduler (yield), heap | wraparound, full and empty, lock dropped inside a loop |
| Open files (`fs/vfs.c`, `syscall/sys_fs.c`) | descriptor tables, reference counts | open, close, pipe, and parts of fork and exit | pipes, heap | counts in step with tables over any sequence; failure paths |
| Heap (`mem/heap.c`) | list of chunks, `heap_max`, `brk` | kmalloc, kcalloc, krealloc, kfree | everything | no lock; boundary sizes; merging |
| Disk files (`fs/ata_fs.c`, `drivers/ata.c`) | the drive, file position | read, write, seek | files | partial blocks, retries, ignored errors |
| Processor start (`cpu/*`, `drivers/pit.c`, `interrupts/apic.c`) | `current_state`, `ap_gs_base`, `all_ap_started`, PIT | `ap_init`, trampoline, `ap_start`, calibration | scheduler | time limits, late answers, one timer for all |
| Path lookup (`fs/vfs.c`) | list of mount points | mount, umount, namef | files | comparison of prefixes |
| Entry (`interrupts/*`, `syscall/syscall*`, `proc/swtch.S`, `arch/sse.S`) | frames on kernel stacks, `gs`, stack pointers per CPU, saved registers | syscall, interrupt, fault, return, switch of stacks | scheduler, processes | nesting; which `gs`, which stack, whose registers |
| Boot information (`boot/multiboot.c`, `arch/acpi.c`) | `mboot_data`, the list of processors | parse, memory areas, pages in use | physical memory, processor start | data at unaligned addresses, ends of loops |
| Physical memory, page tables (`mem/pmm.c`, `mem/vmm.c`) | stack of free pages, tables | alloc, free, map, copy | heap, address spaces | no lock; a page must have one owner |
| Address spaces (`proc/procmm.c`, `syscall/sys_mem.c`) | areas, brk, stack | map, unmap, brk, page fault, copy on fork | memory, processes | page boundaries; fork and free |
| Loader (`proc/elf.c`, `proc/exec_elf.c`) | none | exec | address spaces | runs once |
| Interrupt controllers, console, descriptor tables, C library | tables that are constant after boot | set-up, output | - | straight-line code |

What makes each part correct is stated by its properties, below. The hazards,
each at its line and with the properties that cover it, are in `PROJECT.json`.

## Modules

| Module | Models | Runs |
|---|---|---|
| `Scheduler` (`MCScheduler`: symmetry) | scheduler, processes, fork/exit/wait on several CPUs | `MCScheduler.cfg`, `MCSchedulerOrphans.cfg` |
| `SchedulerProof` | proofs about `Scheduler` | - |
| `Pipe`, `ByteStream` | data path of a pipe; the bounded FIFO it implements | `MCPipe.cfg` |
| `PipeProof` | proofs about `Pipe` | - |
| `Heap` | kernel heap | `MCHeap.cfg` |
| `HeapProof` | proofs about `Heap` | - |
| `Paths` | mount points and the names of files; extended by `Files` | - |
| `Files` (`MCFiles`: mounts, symmetry) | mounting, descriptors, references, life of a pipe | `MCFiles.cfg`, `MCFilesFreed.cfg` |
| `FilesProof` | proofs about `Files` and `Paths` | - |
| `Entry` | the way into the kernel and back, switch of stacks and registers | `MCEntry.cfg` |
| `EntryProof` | proofs about `Entry` | - |
| `Acpi` | which processors there are; extended by `SmpBoot` | - |
| `SmpBoot` (`MCSmpBoot`: tables of ACPI) | start of the processors | `MCSmpBoot.cfg`, `MCSmpBootCalibrated.cfg` |
| `SmpBootProof` | proofs about `SmpBoot` | - |
| `Disk` | disk files | `MCDisk.cfg` |
| `DiskProof` | proofs about `Disk` | - |
| `BootInfo` | what the loader says, which frames boot frees; extended by `Memory` | - |
| `Memory` (`MCMemory`: loaders, a program image, symmetry) | free frames, page tables, address spaces, loading of init | `MCMemory.cfg`, `MCMemoryFork.cfg` |
| `MemoryProof` | proofs about `Memory` and `BootInfo` | - |

`Paths`, `Acpi` and `BootInfo` are algorithms without state of their own: operators
named after the functions they model. The module that extends each of them starts
its state machine from what they compute, so that an error in a table's parsing
shows as a frame with two uses or a processor that never runs.

Definitions whose name has a suffix such as `_NoWait` and whose comment begins
with "Mutant" are variants of the definition after them with a plausible bug.
They show that a property depends on the code and are used by no specification.

### Scheduler

One member of `Proc` names a process and its only thread (`process_attach` is
called once per process). Slots are never reused, so a use after `kfree` shows as
a reference to a slot in state `FREED`. The variable `cpc` says where a CPU is in
`scheduler()`, `tpc` where a thread is in its system call. One action is a
stretch of code between points at which another CPU can see a difference: taking
`scheduler_lock` (`Acquire`), the two halves of `scheduler_next` (`NextFirst`,
`NextRemove`), the load and the store of `pid++` (`ForkLoad`, `ForkSpawn`), the parts
of `process_exit` and those of `process_free`. `scheduler_remove` is never called and
left out; registers and stacks are in `Entry`, address spaces in `Memory`, descriptors
in `Files`.

Lists are sequences, but an edit of a list of children has a beginning and an end:
`fork` links the new process (`ForkSpawn`, `ForkAppend`), `process_exit` takes a child
off its own list and puts it on init's (`ExitAdopt`, `AdoptRemove`, `AdoptAppend`,
`AdoptNext`), and `process_free` takes one off its parent's (`free_thread`, `FreeNext`,
`process_free`). The locks do not keep these apart: adoption holds the lock of the dying
process while it writes to init's list, and `process_free` holds none. `Overlap` says
that two threads are editing one list at once. Then the links that both write may lead
anywhere; the model sets `undefined` and goes no further. It does the same where
`LIST_FOREACH` reads the next link of a thread that `free_thread` has just given back
and another CPU may have been given that memory (`FreeNext`). So the properties about
lists are claimed up to the first such event, and everything about the queue, the CPUs
and the states of threads always. That the loop in `process_exit` stops after one child
is in `AdoptNext`: it follows the link that its body has cleared.

* `SingleOwner`: a thread is queued once or held by one CPU, never both.
* `NoUseAfterFree`: no CPU or queue refers to freed memory, nor, until `undefined`, does
  a child list; a child is freed once, its thread first.
* `ExitNeverReturns`: the panic after `schedule()` in `exit` is unreachable.
* `FamilyTree`: until `undefined`, `parent` and `children` agree through all the steps of
  an edit.
* `DeathIsFinal`: what is ZOMBIE, FINISHED or freed never comes back.
* `ReadyRuns`, `WaitReturns`: liveness (or the model comes to `undefined`), see Fairness.

Two CPUs that fork at once may load the same value of `pid`; the model has it so,
and as no comment or caller relies on distinct pids, no run asks for them.

### Pipe and ByteStream

Threads call `pipe_read` and `pipe_write` with any length. Each of the two
`memcpy`s is an action of its own, so is the test, and so is the update of the
position. The byte `<<w, k>>` is the k-th of writer w: bytes that are lost,
repeated or swapped show. `sent` and `rcvd` record what entered and left.
`ByteStream` is the promise: a FIFO of at most `Size` bytes. `Conserved` says the
ring holds exactly what was sent and not yet received, `WriterOrder` that chunks
of concurrent writes do not disorder one writer's bytes, `ImplementsByteStream` is
the refinement. `InWindow`, that the positions stay within `Size`, is
part of the refinement's `Send` and is proved on its own.

### Heap

Addresses and sizes are small numbers; `chunk` maps the address of each header
to its fields. The search of `kmalloc` is a step for each chunk it passes (`Pass`, with
the locals `c` and `p`), then it takes the chunk (`Take`) or grows the heap and starts
over (`Grow`), which is the recursive call. On one CPU the properties hold: chunks
tile the heap from `KERNEL_HEAP_S` to `heap_max` and no two
free ones are neighbours (`Tiled`), every block in use is a used chunk of at least
the size asked for and `kfree` would accept it, an empty one at the very end
included (`BlocksAreChunks`), and memory is mapped up to the end and not a page
further (`Backed`). The heap has no lock. With two members of `Cpu` the
searches interleave, as in the code: two that find the heap empty both grow it, and
`Tiled` fails. The project makes claims about one CPU only.

### Files and Paths

`Files` begins in `kmain`: `fs_mount` mounts `Boot` in order, `Kmain` opens the
debug file for init. Then come descriptor tables of all processes, `refs` of every
file, the counts of a pipe's ends, and a history of `kfree` calls. The loops of fork
and exit are one step per open descriptor. Paths are sequences of characters here,
because their comparison is what is at stake: `fs_closest_mp` passes the length of
the mount point minus one to `strncmp`, and the kernel's `strncmp` returns the
difference of the characters *after* the n that were equal. Each is off by one, and
together they are right: `LookupExact` says, for every string up to `MaxPath`, that
a lookup gives the file mounted at exactly that path and nothing else. With a
`strncmp` as in the C library, `/dev/sdb` would find the first drive. The drivers at mount
points have no `readdir`, so a path that goes on below one is not found, and
`fs_namef` keeps its reference: `RefsCount` allows mounted files more references
than descriptors, pipes not. A path without a leading `/` has no mount point;
`fs_namef` uses the null pointer, and the kernel stops (`OpenHalts`). Descriptor
numbers that user code passes are valid ones. Waiting for a process and freeing it
do not touch descriptors and are in `Scheduler`.

### Entry

A register holds a token that says whose program put it there and when, so that a
register of another thread, of an earlier time or of the kernel is told apart.
`frames` has for each kernel stack the `registers_t` on it, the outermost first;
that one lies where `th->r` is, at the top of the stack. `ctx` is what `swtch` has
left there. `gs` is "cpu" when GS holds the `cpu_t` and "user" when the program's
value is in it. Each of `syscall_entry`, `isr_common`, the handlers, `schedule`,
`sse_save`, `scheduler`, `sse_restore`, `swtch`, `isr_return` and the return is an
action; programs compute, call, fault and are interrupted at any time, system calls
may fault and wait, and the timer may come in the idle loop.

* `GsRight`: kernel code has the `cpu_t` in `gs` and a program never has. The code
  decides by the IOPL in the stored flags, which only programs' flags have.
* `OwnStack`: both ways into the kernel use the stack of the thread that runs; no
  stack is used twice, nor queued while in use.
* `ContextKept`: a program finds its registers again, a child those of its parent;
  the frame that `fork` copies is that of the call under way; callee-saved
  registers survive `swtch`; on one CPU the SSE registers survive too.

All CPUs share one `_sse_buffer` without a lock. `Fxsave`, `Schedule`, `Pick` and
`Run` are separate steps so that the model has that race; nothing is claimed about
SSE registers while several CPUs run, and no document does. A forked child starts
with cleared SSE registers, not its parent's. `Scheduler` has the processes and the
lock, which are left out here.

### SmpBoot and Acpi

`Acpi` finds the RSDP, the MADT and in it the processors; its input is a record of
what is in memory, what follows the MADT included. The loop over the MADT ends a
header's length past the table or at a field of length 0, so it may read fields
that are not there; `cpu_add` keeps at most `MAX_NUMCPU`. `SmpBoot` starts from the
list this gives. `ap_init`'s view of a processor is `current_state`; the processor
itself is `ap`. A startup interrupt is taken only by a processor that waits for
one. Any processor may be as slow as it likes, or never come.

Time is the PIT's, in units of 10 ms. `delay()` is a step for each of its port accesses
(`GateOff`, `Command`, `LowByte`, `HighByte`, `GateOn`, `Poll`), on whichever processor
runs it, under no lock. Channel 2 takes what it is given: `expects` is the byte it waits
for, `loaded` says that it has a whole count, `pit` is what is left of that. A command of
one processor between the bytes of another shifts them, and the channel may wait for a
byte that nobody sends: both processors then poll for ever. The longer delays are cut
into pieces of 50 ms as `pit_delay` does (`Slice`).

`missed` records the processors that `ap_init` gave up before they had reported. Such a
processor may still come and read the `ap_gs_base` of a later one, or find the
trampoline gone. If two then run on one stack, or one has faulted without an interrupt
table, the model ends (`Undefined`).

* `OwnCpu`: a processor uses its own `cpu_t`, though all read one variable, unless it or
  one before it was given up; never that of an earlier one.
* `NoCrash`: the trampoline is not unmapped under a processor, unless likewise.
* `AllRun`: boot completes, and every enabled processor schedules, unless likewise,
  however late it reports. The hypothesis is that no two processors are between command
  and high byte at once (`Mixed`) and that nothing is `Undefined`: the code leaves both to
  chance.

One that was given up as FAILED may still arrive and run. `ap_init` sends interrupts to
the id that ACPI gives a processor, not to its APIC id: `AcpiAssumption` takes firmware in
which the two are equal. It also takes the first processor of the table for the one
that boots, as `cpu_add` does.

### Disk

`Call` to `Return` is one system call. `faults`, chosen once, is "passing" (reads
may be refused, but not `Retries` times in a row) or "lasting" (anything may fail,
and requests may pass the end of the drive). The block buffer on the kernel stack
starts as `Junk`, as does a reader's buffer. `WriteExact` and `ReadExact` say that
the drive and the reader's buffer hold exactly the bytes asked for after every
block. With lasting faults `WriteExact` still says that blocks outside the request
are untouched, and `CallReturns` that calls end. The loops of `ata_send_command` that
wait for the drive to be no longer busy have no limit: `SendCommand` and the answer wait
for `DriveDone`, and `CallReturns` has the hypothesis that the drive is never busy for
good. A drive that `init_drive` does not
find returns 0 bytes. A block's number is cut to what a command holds (`LBA`, 28
bits in the code), so requests far beyond the end wrap around. With lasting faults
`ata_read` and `ata_write` report success whatever the drive said: the model has
it so (`ReadGiveUp`, `WriteFails`), and no document promises otherwise.

### Memory

`pmm_stack` is the stack of free frames, its top at the end, and `data` has one value
per frame for its contents. `entry` is the frame in each place where a process can hold
one: an entry for each page, one for each table above it, level by level, and `P4`;
`areas`, `brk` and `stack` are the fields of `proc->mmap`. One CPU runs the kernel, and a
call is finished before the next begins, but a call is many steps, one for each frame
it takes, each table it makes, each entry it sets and each page it gives back. `pc`,
`task` and the locals (`cur`, `from`, `i`, `pos`, `stop`) say where it is, and `hand` is the
frame that was allocated for a page while the tables on the way to it are still being
made. `procmm_map`, `AllocPage`, `vmm_find_page`, `vmm_set_page` and `AreaDone` are
shared by `exec_elf`, `fork`, `brk` and stack faults; `procmm_free_map`,
`procmm_unmap`, `AreaRemoved`, `vmm_free_P4` and `MapFreed` are the way back, in `wait`.
The kernel heap takes its frames between calls (`ksbrk`); in the code it may also do so
inside one, for the records of areas, which takes other frames but no other path. The
contents of an area are copied or filled in one step, up to the first page that
is missing, where the code's loops give up.

`halted` stands for the places where the kernel spins: no frame left, a fault that no
handler takes, `brk` at or below the current end, and `brk` or a stack fault in a forked
process, which `procmm_new_map` gives neither a brk nor a stack area. It also stands for
the places where the model ends because the code goes on with memory that is not what it
takes it for (`Undefined`): each is named below.

`boot` is one of `Loaders`, records of what a boot loader left in memory. `pmm_init` goes
through their areas page by page, with the tests that `BootInfo` has. First it enters the
page in the boot tables, which map the first GiB in huge pages of `Region` frames:
`vmm_find_page` does not look at the flag that says so, takes **the first frame of the huge
page for the table**, and the entry is written there (`TableOf`). If that frame has a
byte of the kernel, the init program or the loader's data (`Needed`), the model ends. If
not, nothing is lost, and `vmm_p4_memcpy` later finds these entries when it looks up the
init program, unless its page was not entered or the frame with the entry has been
handed out in the meantime (`Found`); then the model ends at that segment. The loaders
`Over` and `High` of the run are of these two kinds. That all memory lies in the first
GiB is an assumption; beyond it, tables would be allocated.

`cpu_init` takes a page and the tables to map the trampoline with and copies it to page 1,
**which is in the stack of free frames**: the link in it is overwritten. The frames
below it in the stack can never be used, and once page 1 has been allocated the next
allocation reads code as an address; as for an empty stack the model stops there.
`NoLeak` counts the frames below as lost and asks that there are no others. Of a
multiboot 2 loader no module is taken, so `exec_elf` reads address 0 and the kernel
stops (`kmain`).

Of the structure of a version 1 loader `multiboot_page_used` keeps `sizeof(data)` bytes, the
size of a pointer. A structure that goes on in another page loses that page to the free
stack: the model frees it, and may end there, as the link may overwrite fields that are
read later. `OneUse` counts only the page in which such a structure begins as taken. Two
loaders of the run have a structure across pages, one of them from the last byte of a page.

`BootInfoAssumption` names what the code takes for granted: there is a memory map, its
areas do not overlap, free ones begin on a page boundary, and a version 2 structure has
the map in it. `MemoryAssumption` adds that nothing the loader left lies in the
trampoline's page, that memory ends at `NumFrames`, and that the segments of the
executable are in order and share no page, as the linker lays them out (if two shared
one, the second `procmm_map` would put another frame in place of the first's).
Where in its page a segment begins and ends is free, and so are the addresses passed to
`brk`: below the start of the area the length wraps around, the area is left with its end
before its start, and the model ends.

* `OneUse`: a frame is free once, or in one use of one process or of the heap; and it
  has no byte of the kernel, the init program, the map, a reserved area or the loader's
  structure, as far as the code keeps it.
* `NoLeak`: every frame to spare in the loader's map is always somewhere.
* `AreasMapped`: the pages of a process are those of its areas, which is what
  `procmm_unmap` relies on when it frees without looking, but for two kinds of page.
* `Private`: a process finds in its pages what was loaded, inherited or written
  by itself. `expect` records that.

`AreasMapped` speaks of the processes whose map no call is changing. Its exceptions are
what two loops leave out. The loop of `procmm_map` goes in steps of a page from the area's
start, so that it does not come to the last page of an area that starts later in its page
than it ends in one (`Skipped`); the data segment of the run is like that. `procmm_unmap`
goes in the same steps and so never meets the missing page. And `procmm_resize` starts
at the page after the next one when brk was left on a page boundary (`Boundaries`): init
has a hole there. `memory` has no such address among `Ends`; `memory_fork` has, and
follows the hole to its effect, a fork that stops copying at it. Init is never freed; its
children get every page of the area, so holes do not reach `pmm_free`.

## Runs

| Run | Instance | Shows |
|---|---|---|
| scheduler | 2 CPUs, init and 2 processes | the safety properties, and `ReadyRuns`, `WaitReturns` |
| scheduler_orphans | 2 CPUs, init and 3 | **violated**: the second child of a dead process is not adopted |
| pipe | 1 reader, 2 writers, Size 2, requests up to 3 | safety, refinement and progress |
| heap | 1 CPU, header 2, page 4, sizes 0-3, heap 16 | integrity of the heap |
| files | init and 2 processes, 3 descriptors, 1 pipe, 4 mount points, paths of up to 5 of 5 characters | counts and tables, exact lookup |
| entry | 1 or 2 CPUs, 2 threads, 2 frames on a stack | `gs`, stacks and registers |
| files_freed | same | **violated**: double free at a pipe's last close |
| smp_boot | a MADT of 7 fields with 4 enabled processors, room for 3, each of any speed | own `cpu_t`, trampoline, all run |
| smp_boot_calibrated | 3 processors of any speed | **violated**: calibration is cut short |
| disk | 3 blocks of 2 bytes, block numbers modulo 4, 2 attempts, both kinds of fault, with and without a drive, busy for any time | exact reads and writes, calls return |
| memory | 38 loaders; for three of them init and 2 processes, 44 frames, pages of 2 bytes, 8 pages under 3 levels of tables, 2 forks | frames have one use, none is lost, areas are mapped, memory is private |
| memory_fork | same, and brk may stop on a page boundary | **violated**: fork does not copy what lies behind the page that brk skipped |

### Why the bounds are enough

Two CPUs give every pairwise race. Two processes besides init give siblings as well
as a child and a grandchild of init, and so adoption; that three would make a
difference to safety is excluded by the proofs, which hold for any number. In
`Pipe`, a request longer than the buffer and more bytes in all than the buffer holds
give wraparound and full and empty rings; two writers give interleaved chunks. The
proofs again hold for every size. In `Heap`, 16 units hold up to eight chunks, with
sizes that leave exactly no room, room for a header, and more. In `Files`, three
descriptors let tables be full, nearly full and free; init has one open at the
start; pipes do not interact, and one shows every order in which its ends are shared
and closed. Its mount points have a common prefix, one that is a prefix of the
others, and names that differ in the last character only; strings of up to five
characters go past each of them. In `Entry`, two CPUs and two threads give a thread
that moves from CPU to CPU, and two frames a fault in a system call; a third would
need a fault in a fault handler, which in this kernel is never left. In `Disk` a
request of four bytes at an odd offset has a partial first, a whole middle and a
partial last block. In `SmpBoot`, two processors to start besides the first give one that
is late and a successor whose `cpu_t` it may take, and three that use the PIT; a third would
only repeat this, and the proofs hold for any number. In `Memory`, two forks give siblings, a grandchild, and a slot
used again after `wait`; the image, brk and the stack fill all but the first page, under
tables that some of them share. The frames serve init and one more process with room to
spare, and run out for some, so that `Halt` happens. The loaders put the init program
across, at and inside page boundaries, before the kernel and at the end of memory, and
where a huge page begins; 16 frames to a huge page make three of them;
only for `RunOn` does the kernel go on after boot. `MaxRefs`, `MaxBytes`, `MaxHeap`,
`MaxForks` and `MaxElapsed` only keep counters finite. Symmetry is used only where
no liveness is checked.

### Fairness

`Scheduler`: a CPU keeps executing, the timer that dispatch arms fires, and a CPU
that asks for the lock again and again while it becomes free again and again gets
it (strong fairness; `cmpxchg` alone does not promise it, bus arbitration does).
No user thread is made to call anything. `Pipe`: likewise, a thread that polls is
scheduled again, which is `ReadyRuns`, and gets the lock (strong fairness).
`SmpBoot`: the PIT counts, the first processor executes, and each other one from its
report on; before that a processor may stop for good. `Disk`: the kernel goes on with a
call; of the drive nothing is assumed but what `CallReturns` says.

CHECK_DEADLOCK is off in `Files`, `SmpBoot` and `Memory`: processes may all have
exited with no slot left, booting ends, and the kernel may spin.

## Proofs

For every number of CPUs and processes, `SchedulerProof` proves `TypeOK`,
`SingleOwner`, `NoUseAfterFree`, `ExitNeverReturns`, `FamilyTree` and
`DeathIsFinal`, from `ConstantsAssumption` only. The inductive invariant `IInv`
adds to them what the code relies on without saying so: a CPU is in a critical
section iff the lock names it (`LockHeld`), `current_thread`, `current_process`,
`last_thread` and the place in the code agree (`CpuConsistent`), where a thread is
determines its state (`StatesByPlace`), thread and process states agree
(`StatesAgree`), and, until `undefined`, what a thread links, hands over or frees is a
child of its own that nobody else has in hand (`ChildKnown`: `ChildOf`, `OneLinker`,
`BeingFreed`). `SingleOwner` alone is not inductive: that a thread put back into
the queue is not already there follows only from its state and its CPU's place.
That `wait` cannot free a thread still held by a CPU follows from `StatesByPlace`:
a thread that is neither RUNNING nor READY is held by nobody. `FamilyTree` needs that a
process is never linked by two threads at once: while a parent is handing a child to
init, the child's thread and init's `wait` can change its state but not its place. Where
two edits of one list do overlap, nothing about lists remains, and the proof shows that
the other parts do not rest on them.

For every `Size`, and any readers and writers, `PipeProof` proves `TypeOK`,
`Exclusive`, `InWindow`, `Conserved` and the refinement `ImplementsByteStream`.
The invariant `PInv` relates each byte of the ring to its position in `sent`
(`StoredOK`), and the locals of the one thread in the critical section to the
positions it read (`ReadOK`, `WriteOK`): after the first copy a reader has the
first n bytes, after the second all of them; a writer's bytes lie outside the
window that readers may see until it advances. The arithmetic of the ring
(`ModShift`, `ModWrap`, `ModDistinct`) is stated once as lemmas.

`WriterOrder` is about positions in `sent`: two bytes of one writer are in its order,
and none is beyond what it has handed over. With `PInv` it is inductive as it stands.

For every number of CPUs and threads, `EntryProof` proves `TypeOK`, `GsRight`,
`OwnStack` and `ContextKept`. `gs` alone is not inductive: which `swapgs` is due at
`isr_common` and at the way out depends on the flags in the frame on top, so the
invariant says for each place in the kernel on which stack the CPU is (`Place`), what
lies on it (`StackOf`, `FramesOf`: a frame of a program, under at most one of a fault in
a system call; on the idle stack only that of a timer interrupt), and which flags and
registers it has (`FlagsOf`, `RegsOf`). A thread that no CPU runs has on its stack what
it needs to go on (`ParkedInv`), and is queued or held once (`Ownership`).

For every size of a block, drive and request, `DiskProof` proves `TypeOK`, `WriteExact`
and `ReadExact`, from facts about division stated once. The invariant needs where the
loop is between two blocks (`LoopOK`, `BlockOK`) and that before a part of a block is
written the rest of it is in the buffer (`PartOK`), unless the drive keeps failing. How
long the drive is busy, and with what, makes no difference to it.

For every number of processors, `SmpBootProof` proves `TypeOK`, `OwnCpu` and `NoCrash`.
The argument is about order, not time, so that it holds for processors of any speed and
for any mixture of port accesses: a processor is touched only when its turn has come
(`Turn`), `ap_gs_base` only grows, and when a turn is over its processor has reported or
is in `missed` (`TrampolineOK`). That `ap_init` does not take the report of another
processor for this one's needs `ReportOK`: `SIPI_REC` in a `cpu_t` was written by a processor
that uses it, and without one in `missed` before it that is its own.
What `cpu_add` makes of a MADT is a fold over its fields, which
the prover cannot compute: the proof takes the shape of the list from the assumption
`CpuTable` (the first processor STARTED, the others STOPPED, ids in agreement),
which TLC evaluates for the table of the run.

For any processes, descriptor tables, pipes and list of mount points, `FilesProof`
proves `TypeOK`, `RefsCount`, `NoDangling`, `PipeCounts` and `LookupExact`. The counts
are cardinalities of the set of descriptors that hold a file; each step of a fork, close
or exit adds or removes one of them. The invariant has both counts of a pipe's end
(`EndOK`), says when its data is freed (`DataOK`), that dead processes hold nothing
(`TableOK`), and how far the loop under way has come (`CallOK`). `LookupExact` rests on
what the kernel's `strncmp` says of two strings and on the longest mount point that
passes it being unique: `fs_closest_mp` is stated as the greatest match instead of
by the loop that finds it. `FilesAssumption` has what kmain provides: the root is
mounted first, no path twice, every mount point begins with `/`, and files and what
`kcalloc` returns are different things.

On one CPU, for every size of header, page and heap, `HeapProof` proves `TypeOK`,
`Tiled`, `BlocksAreChunks` and `Backed`. `OneCpu` is a hypothesis of each theorem,
because without it they are false. The invariant is a doubly linked list whose chunks
do not overlap (`Placed`, `Linked`); lemmas say what splitting, joining, marking and
adding a chunk do to it. What the search has passed does not fit (`Searching`), which is
needed twice: so that the heap grows only when there is no chunk, and so that, when the
heap has grown behind a free chunk, the new one is the only one that fits and two
free neighbours never outlive the call.

For every memory map, number of frames, shape of the tables, executable and number of
processes, `MemoryProof` proves `TypeOK`, `OneUse`, `NoLeak` and `AreasMapped`, and under the
hypothesis `NoBoundary` also `Private`. `NoBoundary` says that neither the arguments of
init nor a `brk` end on a page boundary; without it `Private` is false, which is what
`memory_fork` shows. The invariant `IInv` has these parts:

* Frames. `Distinct`: a frame is in the stack once, or in the heap, or in one entry, or in
  hand, which is `OneUse` without counting; `Sound`: none of them is `Taken`; `Kept`: none
  to spare is missing. `Scanning` is the invariant of `pmm_init`: the frames of the areas
  passed so far, and no others, are in the stack, in rising order, which is what makes
  the frames under the trampoline's the ones that `cpu_init` loses.
* The call. `CallOK` relates `pc`, `task` and the locals; `Vacant` says that a slot
  without a process has no frames, so that a new map starts empty.
* Areas. `Lists`, `Children`, `InitAreas`, `ExecAreas` and `ForkAreas` say which areas a
  process has: those of init are its segments, brk and the stack, in order and apart,
  unless brk has grown until it met the stack; a forked process has areas of its
  parent, and none that overlap, because `procmm_map` refuses a stack that brk has met;
  while a map is being made, it has as many as the call has come to.
* Pages. `Mapping` says that the pages of a map are those of its areas that a loop over
  them comes to (`Cov`), except for the pages that the call under way still has to map or
  has already given back (`Pending`), and for the page that `procmm_resize` left out
  (`Hole`), and only init's brk has one. That no hole is in a child's map is why
  `procmm_unmap` never frees frame 0 for a missing page, and why `OneUse` and `NoLeak` need
  no hypothesis. `Shaped` is the arithmetic of it: steps of `PAGE` from the start of an
  area come to all of its pages but the skipped one.
* Contents. An area that is finished holds what was loaded, or what the parent's holds.

`OneUse` is stated with cardinalities; that they follow from `Distinct` is a lemma
about unions of images of injections, from the theorems on finite sets.

Only model-checked:

* liveness (`ReadyRuns`, `WaitReturns`, `ReadProgress`, `WriteProgress`, `AllRun`,
  `CallReturns`), because the prover does not reason about fairness;
* `Acpi`, on which `SmpBoot`'s initial state rests: the processors that a MADT lists are
  a fold over its fields, and what a fold computes for every input needs induction over
  data.

Every invariant and every action property that a run checks on a passing instance is
also stated by a theorem.

## Not modelled

* Unlocked data on several CPUs beyond `Scheduler`, `Pipe`, `Entry` and `SmpBoot`: the heap,
  the stack of free frames, reference counts and the ATA registers have no lock, and one
  who reads the code sees that two CPUs can break them. No line of the repository says
  otherwise, so there is nothing to check them against; the models of these parts say what
  holds on one CPU. Lists of children have no lock either: `Scheduler` says when two CPUs
  edit one at once, and ends there. The hazards list each of them.
* `list.h` at the level of pointers; lists are sequences in the models.
* Interrupt controllers (`pic.c`, `ioapic.c`): written once. `pit_init` registers
  `timer_tick` and unmasks the line of the PIT, so that `kmain` is interrupted after its
  `sti`, and later programs and the idle loop too; the handler counts a tick, acknowledges
  and returns, on the paths that `Entry` has for the APIC timer without its `schedule()`.
  No other line is unmasked. `gdt.c`, `msr.c`, `cpuid.c`, `ports.c`: single instructions; what the
  TSS and the MSRs are for is in `Entry`.
* `boot.S` before `kmain`. Memory beyond the first GiB, which its tables map: there
  `vmm_find_page` would allocate tables, by the pointer that moves behind the kernel.
* `fs_umount`, `scheduler_remove`, `heap_print`: called by nothing, or output only.
  Console and debug output. The C library and the init program run in user mode.

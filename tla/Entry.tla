------------------------------- MODULE Entry -------------------------------
(***************************************************************************)
(* How a thread leaves user mode and comes back to it with its registers:  *)
(* interrupts and faults (interrupts/isr_common.S), system calls           *)
(* (syscall/syscall_entry.S, syscall/syscall.c), the switch of stacks      *)
(* (proc/swtch.S, proc/thread.c, proc/scheduler.c) and of SSE registers    *)
(* (arch/sse.S).                                                           *)
(*                                                                         *)
(* A register's content is a token, <<thread, register, n>> for what the   *)
(* program of a thread has put there.  The ready queue carries no process: *)
(* module Scheduler has those.  The scheduler's thread of a CPU is named   *)
(* by the CPU.                                                             *)
(***************************************************************************)
EXTENDS Naturals, Sequences, SequencesExt

CONSTANTS
    Cpu, Bsp,      \* the processors, and the one that boots
    Thread, First, \* the user threads, and the one of the init program
    NoThread,
    MaxFrames      \* bound: frames of registers on one kernel stack

ASSUME EntryAssumption ==
    /\ Bsp \in Cpu
    /\ First \in Thread
    /\ Cpu \cap Thread = {}
    /\ NoThread \notin Cpu \cup Thread
    /\ MaxFrames \in Nat \ {0}

Stack == Cpu \cup Thread     \* every thread is the top of its kernel stack

VARIABLES
    cpu,         \* of each CPU its registers and its cpu_t
    frames,      \* the registers_t on a stack, the outermost first: that is th->r
    ctx,         \* what swtch has left on a stack for the time it is resumed
    sse_mem,     \* th->sse_registers
    sse_buffer,  \* _sse_buffer
    ready,       \* ready_queue
    born, dead,  \* threads that new_thread has made, that have called exit
    online,      \* the CPUs that have been started
    view         \* history: the registers as the program of a thread knows them

vars == <<cpu, frames, ctx, sse_mem, sse_buffer, ready, born, dead, online, view>>

Register == {"rax", "rcx", "r11", "args", "saved", "rip", "rsp"}
Interrupt == {"SYSCALL", "PF", "TIMER", "NONE"}
KernelC == {"kmain", "handler", "waiting", "schedule", "fxsaved", "scheduler", "pick", "loaded",
            "isr_return", "halted"}
Pc == KernelC \cup {"off", "user", "syscall_entry", "isr_common", "leave"}

Flags(iopl, if) == <<"flags", iopl, if>>
UserFlags == Flags(TRUE, TRUE)
Junk == <<"junk">>
Zero == <<"zero">>

(* What the program of t has in its registers at its n-th stage *)
Program(t, n) == [g \in Register |-> <<t, g, n>>]
(* What C code of the kernel on the stack of t has in them *)
Kernel(t) == [g \in Register |-> IF g = "saved" THEN <<t, "saved">> ELSE Junk]
(* What exec_elf and new_thread put in the frame of the first thread *)
Entered(t) == [g \in Register |-> IF g \in {"rip", "rsp", "args"} THEN <<t, g, 0>> ELSE Zero]

Frame(regs, no, flags, pc) == [regs |-> regs, int_no |-> no, rflags |-> flags, pc |-> pc]

(* new_thread: for a user thread swtch's ret leads to isr_return, whose      *)
(* argument is the thread; for the scheduler to the function                 *)
NewContext(pc) == [pc |-> pc, saved |-> Zero]

(* The end of kmain and of ap_start: current_thread is 0, cpu_init has done  *)
(* swapgs, and only the first CPU has done sti                               *)
Init ==
    /\ online \in {{Bsp}, Cpu}
    /\ cpu = [c \in Cpu |->
         [pc |-> IF c = Bsp THEN "kmain" ELSE IF c \in online THEN "schedule" ELSE "off",
          regs |-> [g \in Register |-> Junk], sse |-> Junk, gs |-> "cpu",
          rflags |-> Flags(FALSE, c = Bsp), stack |-> NoThread,
          current_thread |-> NoThread, rsp0 |-> NoThread, kernel_stack |-> NoThread,
          last_thread |-> NoThread, timer |-> FALSE]]
    /\ frames = [t \in Stack |->
         IF t = First THEN <<Frame(Entered(t), "NONE", UserFlags, "user")>> ELSE <<>>]
    /\ ctx = [t \in Stack |-> NewContext(IF t \in Cpu THEN "scheduler" ELSE "isr_return")]
    /\ sse_mem = [t \in Stack |-> Zero]
    /\ sse_buffer = Zero
    /\ ready = <<>>
    /\ born = {First}
    /\ dead = {}
    /\ view = [t \in Thread |-> [regs |-> Entered(t), sse |-> Zero, stage |-> 0]]

Alone == online = {Bsp}

At(c, l) == cpu[c].pc = l
IfSet(c) == cpu[c].rflags[3]
CurrentThread(c) == cpu[c].current_thread

(* The registers_t that the handler of c was given *)
Top(c) == Last(frames[cpu[c].stack])

(* A system call that begins, or that goes on after schedule() *)
Begins(c) == At(c, "handler") /\ Top(c).int_no = "SYSCALL"
InSyscall(c) == Begins(c) \/ At(c, "waiting")

Room(c) == cpu[c].stack \in Stack => Len(frames[cpu[c].stack]) < MaxFrames

Other(side) == IF side = "cpu" THEN "user" ELSE "cpu"
(* isr_common and isr_return do swapgs when the stored RFLAGS have an IOPL *)
SwapIf(flags, side) == IF flags[2] THEN Other(side) ELSE side

(* A registers_t is pushed on the stack t from its very top, or below what   *)
(* is there                                                                  *)
PushTop(t, f) == frames' = [frames EXCEPT ![t] = <<f>>]
Push(t, f) == frames' = [frames EXCEPT ![t] = Append(@, f)]
-----------------------------------------------------------------------------
(* A program computes.  Bound: while several CPUs run it leaves the SSE      *)
(* registers alone.                                                          *)
Compute(c) ==
    LET t == CurrentThread(c)
        n == 1 - view[t].stage
    IN  /\ At(c, "user")
        /\ cpu' = [cpu EXCEPT ![c].regs = Program(t, n),
                              ![c].sse = IF Alone THEN <<t, "sse", n>> ELSE @]
        /\ view' = [view EXCEPT ![t] = [regs |-> Program(t, n), sse |-> cpu'[c].sse, stage |-> n]]
        /\ UNCHANGED <<frames, ctx, sse_mem, sse_buffer, ready, born, dead, online>>

(* The instruction syscall: FMASK takes IF from RFLAGS, and nothing else     *)
Syscall(c) ==
    LET t == CurrentThread(c)
        regs == [cpu[c].regs EXCEPT !["rcx"] = cpu[c].regs["rip"], !["r11"] = cpu[c].rflags]
    IN  /\ At(c, "user")
        /\ cpu' = [cpu EXCEPT ![c].pc = "syscall_entry", ![c].regs = regs,
                              ![c].rflags = Flags(@[2], FALSE)]
        /\ view' = [view EXCEPT ![t].regs = regs]
        /\ UNCHANGED <<frames, ctx, sse_mem, sse_buffer, ready, born, dead, online>>

(* syscall_entry: the stack comes from the cpu_t, so gs is swapped for it;   *)
(* it is swapped back since isr_common will swap it again                    *)
SyscallEntry(c) ==
    LET g == cpu[c].regs
        f == Frame([g EXCEPT !["rip"] = g["rcx"]], "SYSCALL", g["r11"], "user")
    IN  /\ At(c, "syscall_entry")
        /\ PushTop(cpu[c].kernel_stack, f)
        /\ cpu' = [cpu EXCEPT ![c].pc = "isr_common", ![c].stack = cpu[c].kernel_stack,
                              ![c].gs = Other(Other(@))]
        /\ UNCHANGED <<ctx, sse_mem, sse_buffer, ready, born, dead, online, view>>

(* The processor delivers an interrupt or a fault: from user mode to the     *)
(* stack in the TSS, from the kernel on the stack it is on.  The gates clear *)
(* IF; IOPL stays.                                                           *)
Deliver(c, no) ==
    LET f == Frame(cpu[c].regs, no, cpu[c].rflags, cpu[c].pc)
        t == IF At(c, "user") THEN cpu[c].rsp0 ELSE cpu[c].stack
    IN  /\ IF At(c, "user") THEN PushTop(t, f) ELSE Push(t, f)
        /\ cpu' = [cpu EXCEPT ![c].pc = "isr_common", ![c].stack = t,
                              ![c].rflags = Flags(@[2], FALSE),
                              ![c].timer = @ /\ no # "TIMER"]
        /\ UNCHANGED <<ctx, sse_mem, sse_buffer, ready, born, dead, online, view>>

(* The timer interrupt, once it is due, comes whenever IF is set *)
TimerInterrupt(c) ==
    /\ cpu[c].timer
    /\ IfSet(c)
    /\ Room(c)
    /\ Deliver(c, "TIMER")

(* A page fault, in a program or where a system call uses its memory *)
PageFault(c) ==
    /\ At(c, "user") \/ InSyscall(c)
    /\ Room(c)
    /\ Deliver(c, "PF")

(* isr_common: the registers are in the frame, RFLAGS is cleared *)
IsrCommon(c) ==
    /\ At(c, "isr_common")
    /\ cpu' = [cpu EXCEPT ![c].pc = "handler", ![c].regs = Kernel(cpu[c].stack),
                          ![c].rflags = Flags(FALSE, FALSE),
                          ![c].gs = SwapIf(Top(c).rflags, @)]
    /\ UNCHANGED <<frames, ctx, sse_mem, sse_buffer, ready, born, dead, online, view>>
-----------------------------------------------------------------------------
(* int_handler: apic_timer_handler calls schedule(), page_fault_handler      *)
(* returns once procmm_page_fault has mapped the page                        *)
TimerHandler(c) ==
    /\ At(c, "handler")
    /\ Top(c).int_no = "TIMER"
    /\ cpu' = [cpu EXCEPT ![c].pc = "schedule"]
    /\ UNCHANGED <<frames, ctx, sse_mem, sse_buffer, ready, born, dead, online, view>>

FaultHandled(c) ==
    /\ At(c, "handler")
    /\ Top(c).int_no = "PF"
    /\ cpu' = [cpu EXCEPT ![c].pc = "isr_return"]
    /\ UNCHANGED <<frames, ctx, sse_mem, sse_buffer, ready, born, dead, online, view>>

(* A fault outside every area, a system call that has no handler: for(;;) *)
Unhandled(c) ==
    /\ At(c, "handler")
    /\ Top(c).int_no # "TIMER"
    /\ cpu' = [cpu EXCEPT ![c].pc = "halted"]
    /\ UNCHANGED <<frames, ctx, sse_mem, sse_buffer, ready, born, dead, online, view>>

Halted(c) == At(c, "halted") /\ UNCHANGED vars

(* syscall_handler puts the result in the frame *)
Result(t) == <<t, "result">>
WithResult(t) == [frames EXCEPT ![t][Len(frames[t])].regs["rax"] = Result(t)]

SyscallHandler(c) ==
    LET t == cpu[c].stack IN
    /\ InSyscall(c)
    /\ frames' = WithResult(t)
    /\ cpu' = [cpu EXCEPT ![c].pc = "isr_return"]
    /\ view' = [view EXCEPT ![t].regs["rax"] = Result(t)]
    /\ UNCHANGED <<ctx, sse_mem, sse_buffer, ready, born, dead, online>>

(* A handler that waits: read, write and wait call schedule() until they are done *)
Wait(c) ==
    /\ InSyscall(c)
    /\ cpu' = [cpu EXCEPT ![c].pc = "schedule"]
    /\ UNCHANGED <<frames, ctx, sse_mem, sse_buffer, ready, born, dead, online, view>>

(* fork: the child is given a copy of the th->r of its parent, with a 0 in   *)
(* rax.  Its SSE registers are those of a new thread.                        *)
Fork(c, child) ==
    LET t == CurrentThread(c)
        r == [frames[t][1] EXCEPT !.regs["rax"] = Zero]
    IN  /\ Begins(c)
        /\ child \notin born
        /\ frames' = [WithResult(cpu[c].stack) EXCEPT ![child] = <<r>>]
        /\ ctx' = [ctx EXCEPT ![child] = NewContext("isr_return")]
        /\ sse_mem' = [sse_mem EXCEPT ![child] = Zero]
        /\ ready' = Append(ready, child)
        /\ born' = born \cup {child}
        /\ cpu' = [cpu EXCEPT ![c].pc = "isr_return"]
        /\ view' = [view EXCEPT ![t].regs["rax"] = Result(t),
                               ![child] = [regs |-> [view[t].regs EXCEPT !["rax"] = Zero],
                                           sse |-> Zero, stage |-> 0]]
        /\ UNCHANGED <<sse_buffer, dead, online>>

(* exit: process_exit, then schedule() *)
Exit(c) ==
    /\ Begins(c)
    /\ dead' = dead \cup {CurrentThread(c)}
    /\ cpu' = [cpu EXCEPT ![c].pc = "schedule"]
    /\ UNCHANGED <<frames, ctx, sse_mem, sse_buffer, ready, born, online, view>>
-----------------------------------------------------------------------------
(* Mutant: swtch keeps no callee-saved register *)
SwitchThreadBare(c, old, new, resume, state) ==
    /\ ctx' = IF old = NoThread THEN ctx ELSE [ctx EXCEPT ![old].pc = resume]
    /\ cpu' = [cpu EXCEPT ![c] =
         [state EXCEPT !.current_thread = new, !.rsp0 = new, !.kernel_stack = new, !.stack = new,
                       !.pc = ctx[new].pc, !.regs["saved"] = ctx[new].saved]]

(* switch_thread and swtch: current_thread and both stacks for the way back  *)
(* into the kernel; then the callee-saved registers and the return address   *)
(* to the old stack, and from the new one                                    *)
SwitchThread(c, old, new, resume, state) ==
    /\ ctx' = IF old = NoThread THEN ctx
              ELSE [ctx EXCEPT ![old] = [pc |-> resume, saved |-> state.regs["saved"]]]
    /\ cpu' = [cpu EXCEPT ![c] =
         [state EXCEPT !.current_thread = new, !.rsp0 = new, !.kernel_stack = new, !.stack = new,
                       !.pc = ctx[new].pc, !.regs["saved"] = ctx[new].saved]]

(* Where schedule() returns to on the stack of t: apic_timer_handler returns *)
(* its argument, a system call goes on                                       *)
AfterSchedule(t) == IF Last(frames[t]).int_no = "TIMER" THEN "isr_return" ELSE "waiting"

(* schedule() of the scheduler's own thread *)
ScheduleReturns(c) ==
    /\ At(c, "schedule")
    /\ CurrentThread(c) = c
    /\ cpu' = [cpu EXCEPT ![c].pc = AfterSchedule(c)]
    /\ UNCHANGED <<frames, ctx, sse_mem, sse_buffer, ready, born, dead, online, view>>

(* schedule() at the end of kmain and of ap_start *)
ScheduleFirst(c) ==
    /\ At(c, "schedule")
    /\ CurrentThread(c) = NoThread
    /\ SwitchThread(c, NoThread, c, "none", cpu[c])
    /\ UNCHANGED <<frames, sse_mem, sse_buffer, ready, born, dead, online, view>>

(* Mutant: schedule() itself puts the thread back in the queue *)
FxsaveInserts(c) ==
    LET t == CurrentThread(c) IN
    /\ At(c, "schedule")
    /\ t \in Thread
    /\ sse_buffer' = cpu[c].sse
    /\ ready' = IF t \in dead THEN ready ELSE Append(ready, t)
    /\ cpu' = [cpu EXCEPT ![c].pc = "fxsaved", ![c].last_thread = NoThread]
    /\ UNCHANGED <<frames, ctx, sse_mem, born, dead, online, view>>

(* schedule() of a user thread: sse_save puts its registers in the buffer ... *)
Fxsave(c) ==
    /\ At(c, "schedule")
    /\ CurrentThread(c) \in Thread
    /\ sse_buffer' = cpu[c].sse
    /\ cpu' = [cpu EXCEPT ![c].pc = "fxsaved"]
    /\ UNCHANGED <<frames, ctx, sse_mem, ready, born, dead, online, view>>

(* Mutant: the copy is left out *)
ScheduleNoCopy(c) ==
    LET t == CurrentThread(c) IN
    /\ At(c, "fxsaved")
    /\ SwitchThread(c, t, c, AfterSchedule(t), cpu[c])
    /\ UNCHANGED <<frames, sse_mem, sse_buffer, ready, born, dead, online, view>>

(* ... and copies it to the thread, which then gives the CPU away *)
Schedule(c) ==
    LET t == CurrentThread(c) IN
    /\ At(c, "fxsaved")
    /\ sse_mem' = [sse_mem EXCEPT ![t] = sse_buffer]
    /\ SwitchThread(c, t, c, AfterSchedule(t), cpu[c])
    /\ UNCHANGED <<frames, sse_buffer, ready, born, dead, online, view>>

(* Mutant: last_thread is not compared with 0 *)
SchedulerNoTest(c) ==
    LET old == cpu[c].last_thread IN
    /\ At(c, "scheduler")
    /\ ready' = IF old \in dead THEN ready ELSE Append(ready, old)
    /\ cpu' = [cpu EXCEPT ![c].pc = "pick"]
    /\ UNCHANGED <<frames, ctx, sse_mem, sse_buffer, born, dead, online, view>>

(* The top of scheduler()'s loop.  A timer that has expired stays due when   *)
(* apic_timer_stop masks it.                                                 *)
Scheduler(c) ==
    LET old == cpu[c].last_thread IN
    /\ At(c, "scheduler")
    /\ ready' = IF old = NoThread \/ old \in dead THEN ready ELSE Append(ready, old)
    /\ \E due \in {FALSE, cpu[c].timer} :
         cpu' = [cpu EXCEPT ![c].pc = "pick", ![c].timer = due]
    /\ UNCHANGED <<frames, ctx, sse_mem, sse_buffer, born, dead, online, view>>

(* while(!(new = scheduler_next())) asm("sti") *)
Idle(c) ==
    /\ At(c, "pick")
    /\ ready = <<>>
    /\ cpu' = [cpu EXCEPT ![c].rflags = Flags(@[2], TRUE)]
    /\ UNCHANGED <<frames, ctx, sse_mem, sse_buffer, ready, born, dead, online, view>>

(* Mutant: interrupts stay enabled after the idle loop *)
PickNoCli(c) ==
    LET new == Head(ready) IN
    /\ At(c, "pick")
    /\ ready # <<>>
    /\ ready' = Tail(ready)
    /\ sse_buffer' = sse_mem[new]
    /\ cpu' = [cpu EXCEPT ![c].pc = "loaded", ![c].last_thread = new]
    /\ UNCHANGED <<frames, ctx, sse_mem, born, dead, online, view>>

(* A thread is there: cli, last_thread, and sse_restore copies its registers *)
(* to the buffer ...                                                         *)
Pick(c) ==
    LET new == Head(ready) IN
    /\ At(c, "pick")
    /\ ready # <<>>
    /\ ready' = Tail(ready)
    /\ sse_buffer' = sse_mem[new]
    /\ cpu' = [cpu EXCEPT ![c].pc = "loaded", ![c].last_thread = new,
                          ![c].rflags = Flags(@[2], FALSE)]
    /\ UNCHANGED <<frames, ctx, sse_mem, born, dead, online, view>>

(* ... and loads them from it; apic_timer; switch_thread *)
Run(c) ==
    /\ At(c, "loaded")
    /\ SwitchThread(c, c, cpu[c].last_thread, "scheduler",
                    [cpu[c] EXCEPT !.sse = sse_buffer, !.timer = TRUE])
    /\ UNCHANGED <<frames, sse_mem, sse_buffer, ready, born, dead, online, view>>

(* The end of kmain: the first thread is ready, and the CPU schedules *)
Kmain(c) ==
    /\ At(c, "kmain")
    /\ ready' = Append(ready, First)
    /\ cpu' = [cpu EXCEPT ![c].pc = "schedule"]
    /\ UNCHANGED <<frames, ctx, sse_mem, sse_buffer, born, dead, online, view>>
-----------------------------------------------------------------------------
(* isr_return: gs is that of a program again when the frame is one's *)
IsrReturn(c) ==
    /\ At(c, "isr_return")
    /\ cpu' = [cpu EXCEPT ![c].pc = "leave", ![c].gs = SwapIf(Top(c).rflags, @)]
    /\ UNCHANGED <<frames, ctx, sse_mem, sse_buffer, ready, born, dead, online, view>>

(* The registers are popped.  A system call ends with sysretq, everything    *)
(* else with iretq; a thread that has been forked has the int_no of its      *)
(* parent's frame.                                                           *)
Leave(c) ==
    LET f == Top(c)
        t == cpu[c].stack
        sysret == [f.regs EXCEPT !["rcx"] = f.regs["rip"], !["r11"] = f.rflags]
    IN  /\ At(c, "leave")
        /\ cpu' = [cpu EXCEPT ![c].pc = IF f.int_no = "SYSCALL" THEN "user" ELSE f.pc,
                              ![c].regs = IF f.int_no = "SYSCALL" THEN sysret ELSE f.regs,
                              ![c].rflags = f.rflags,
                              ![c].stack = IF f.pc = "user" THEN NoThread ELSE t]
        /\ frames' = [frames EXCEPT ![t] = Front(@)]
        /\ UNCHANGED <<ctx, sse_mem, sse_buffer, ready, born, dead, online, view>>

Next ==
    \E c \in Cpu :
        \/ Compute(c) \/ Syscall(c) \/ SyscallEntry(c)
        \/ TimerInterrupt(c) \/ PageFault(c) \/ IsrCommon(c)
        \/ TimerHandler(c) \/ FaultHandled(c) \/ Unhandled(c) \/ Halted(c)
        \/ SyscallHandler(c) \/ Wait(c) \/ Exit(c)
        \/ \E child \in Thread : Fork(c, child)
        \/ ScheduleReturns(c) \/ ScheduleFirst(c) \/ Fxsave(c) \/ Schedule(c)
        \/ Scheduler(c) \/ Idle(c) \/ Pick(c) \/ Run(c) \/ Kmain(c)
        \/ IsrReturn(c) \/ Leave(c)

Spec == Init /\ [][Next]_vars
-----------------------------------------------------------------------------
Token == {Junk, Zero} \cup {Flags(i, f) : i, f \in BOOLEAN}
         \cup (Thread \X (Register \cup {"sse"}) \X {0, 1})
         \cup (Stack \X {"saved", "result"})
Registers == [Register -> Token]
Rflags == {Flags(i, f) : i, f \in BOOLEAN}

(* The variables hold values of their types. *)
TypeOK ==
    /\ cpu \in [Cpu -> [pc : Pc, regs : Registers, sse : Token, gs : {"cpu", "user"},
                        rflags : Rflags, stack : Stack \cup {NoThread},
                        current_thread : Stack \cup {NoThread}, rsp0 : Stack \cup {NoThread},
                        kernel_stack : Stack \cup {NoThread},
                        last_thread : Thread \cup {NoThread}, timer : BOOLEAN]]
    /\ \A t \in Stack : \A k \in DOMAIN frames[t] :
         /\ k <= MaxFrames
         /\ frames[t][k] \in [regs : Registers, int_no : Interrupt, rflags : Rflags, pc : Pc]
    /\ ctx \in [Stack -> [pc : Pc, saved : Token]]
    /\ sse_mem \in [Stack -> Token] /\ sse_buffer \in Token
    /\ ready \in Seq(Thread)
    /\ dead \subseteq born /\ born \subseteq Thread /\ online \subseteq Cpu
    /\ view \in [Thread -> [regs : Registers, sse : Token, stage : {0, 1}]]

(* Whatever is interrupted by what, C code of the kernel finds its cpu_t in  *)
(* gs, and a program never has it: the swapgs of syscall_entry, isr_common   *)
(* and isr_return are paired on every path, though only the IOPL in a frame  *)
(* tells them where it came from (isr_common.S:30-34, 44-48).                *)
GsRight ==
    \A c \in online :
        /\ cpu[c].pc \in KernelC => cpu[c].gs = "cpu"
        /\ cpu[c].pc \in {"user", "syscall_entry"} => cpu[c].gs = "user"

(* The next entry to the kernel lands on the kernel stack of the thread that *)
(* runs, by the TSS as by kernel_stack; the kernel is on the stack of the    *)
(* current thread; and no stack is used by two CPUs, or waits to be picked   *)
(* while a CPU is still on it (thread.c:46-54, scheduler.c:50-65).           *)
OwnStack ==
    /\ \A c \in online :
         LET p == cpu[c] IN
         /\ p.pc = "user" => p.current_thread \in Thread
         /\ p.current_thread # NoThread =>
              p.rsp0 = p.current_thread /\ p.kernel_stack = p.current_thread
         /\ p.pc \in KernelC => p.stack = p.current_thread
    /\ \A c, d \in online :
         c # d /\ CurrentThread(c) # NoThread => CurrentThread(c) # CurrentThread(d)
    /\ \A c \in online : CurrentThread(c) \notin Range(ready)

(* A program finds its registers as it left them: after an interrupt or a    *)
(* fault all of them, after a system call all but rax, rcx and r11, in the   *)
(* child of a fork those of the parent with 0 in rax.  The th->r that fork   *)
(* reads is the frame of the call under way (sys_proc.c:21), C code has its  *)
(* callee-saved registers after a switch of stacks (swtch.S), and with one   *)
(* CPU the SSE registers survive the one buffer that they pass through       *)
(* (sse.S).                                                                  *)
ContextKept ==
    \A c \in online :
        LET p == cpu[c]
            t == p.current_thread
        IN  /\ p.pc = "user" => p.regs = view[t].regs /\ p.rflags = UserFlags
            /\ InSyscall(c) => frames[t][1].regs = view[t].regs /\ Len(frames[t]) = 1
            /\ p.pc \in {"handler", "waiting"} => p.regs["saved"] = <<t, "saved">>
            /\ p.pc \in {"scheduler", "pick", "loaded"} => p.regs["saved"] = Zero
            /\ p.pc = "user" /\ Alone => p.sse = view[t].sse
=============================================================================

----------------------------- MODULE EntryProof -----------------------------
(***************************************************************************)
(* Theorems about Entry, for any number of CPUs and threads and any bound  *)
(* on the frames of a stack.  The inductive invariant says, for each place *)
(* in the kernel, on which stack the CPU is, what lies on that stack and   *)
(* which flags and registers it has; and for each thread that no CPU runs, *)
(* that what it needs to go on is on its stack.                            *)
(***************************************************************************)
EXTENDS Entry, SequenceTheorems, TLAPS

-----------------------------------------------------------------------------
(* The inductive invariant *)

Side == {"cpu", "user"}
AnyStack == Stack \cup {NoThread}
AnyThread == Thread \cup {NoThread}

CpuType == [pc : Pc, regs : Registers, sse : Token, gs : Side, rflags : Rflags,
            stack : AnyStack, current_thread : AnyStack, rsp0 : AnyStack,
            kernel_stack : AnyStack, last_thread : AnyThread, timer : BOOLEAN]
FrameType == [regs : Registers, int_no : Interrupt, rflags : Rflags, pc : Pc]
ViewType == [regs : Registers, sse : Token, stage : {0, 1}]

CpuTyped == cpu \in [Cpu -> CpuType]
FramesTyped ==
    /\ frames \in [Stack -> Seq(FrameType)]
    /\ \A t \in Stack : Len(frames[t]) <= MaxFrames
ViewTyped == view \in [Thread -> ViewType]
SseTyped == sse_mem \in [Stack -> Token] /\ sse_buffer \in Token
CtxTyped == ctx \in [Stack -> [pc : Pc, saved : Token]]
SetsTyped ==
    /\ ready \in Seq(Thread)
    /\ dead \subseteq born /\ born \subseteq Thread /\ online \subseteq Cpu

Typed == CpuTyped /\ FramesTyped /\ ViewTyped /\ SseTyped /\ CtxTyped /\ SetsTyped

(* The stack, the current thread and the last thread of a CPU go with the  *)
(* place where it is; a thread that has exited only gives its CPU away.    *)
Place(c) ==
    LET p == cpu[c]
        t == p.current_thread
    IN  /\ p.pc = "off" <=> c \notin online
        /\ p.pc = "kmain" => c = Bsp
        /\ t \in Thread \cup {c, NoThread}
        /\ p.pc \in {"off", "kmain"} => t = NoThread
        /\ t = NoThread => /\ p.pc \in {"off", "kmain", "schedule"}
                           /\ ~p.timer
                           /\ p.last_thread = NoThread
        /\ t # NoThread => p.rsp0 = t /\ p.kernel_stack = t
        /\ p.stack = IF p.pc \in {"user", "syscall_entry"} THEN NoThread ELSE t
        /\ p.pc \in {"scheduler", "pick", "loaded"} => t = c
        /\ p.pc \in {"user", "syscall_entry", "waiting", "fxsaved", "halted"} => t \in Thread
        /\ t \in Thread => p.last_thread = t
        /\ p.pc = "loaded" => p.last_thread \in Thread \ dead
        /\ t \in dead => p.pc \in {"schedule", "fxsaved"}

(* Between the two ways in and isr_common, and between isr_return and the  *)
(* way out, gs goes with the flags in the frame on top.                    *)
GsOf(c) ==
    LET p == cpu[c]
    IN  /\ p.pc \in KernelC => p.gs = "cpu"
        /\ p.pc \in {"user", "syscall_entry"} => p.gs = "user"
        /\ p.pc \in {"isr_common", "leave"} =>
              p.gs = IF Top(c).rflags[2] THEN "user" ELSE "cpu"

(* IF is set in a program and in the idle loop, and otherwise only as long *)
(* as no timer has been started.                                           *)
FlagsOf(c) ==
    LET p == cpu[c]
    IN  /\ p.pc = "user" => p.rflags = UserFlags
        /\ p.pc = "syscall_entry" => p.rflags = Flags(TRUE, FALSE)
        /\ p.pc \in {"isr_common", "leave"} => ~IfSet(c)
        /\ p.pc \in KernelC => ~p.rflags[2]
        /\ p.pc \in {"handler", "waiting", "fxsaved", "loaded", "isr_return", "halted"} => ~IfSet(c)
        /\ p.pc \in {"schedule", "scheduler"} => ~(IfSet(c) /\ p.timer)
        /\ p.pc = "schedule" /\ p.current_thread # NoThread => ~IfSet(c)

(* The frame that a program leaves behind; the one of a fault where a      *)
(* system call uses the memory of its program; the one of a timer          *)
(* interrupt in the idle loop.                                             *)
UserFrame(f) ==
    /\ f.rflags = UserFlags
    /\ f.pc = "user"
    /\ f.int_no = "SYSCALL" => f.regs["rcx"] = f.regs["rip"] /\ f.regs["r11"] = UserFlags

FaultFrame(t, f) ==
    /\ f.rflags = Flags(FALSE, FALSE)
    /\ f.pc \in {"handler", "waiting"}
    /\ f.int_no = "PF"
    /\ f.regs["saved"] = <<t, "saved">>

IdleFrame(f) ==
    /\ f.rflags = Flags(FALSE, TRUE)
    /\ f.pc = "pick"
    /\ f.int_no = "TIMER"
    /\ f.regs["saved"] = Zero

(* What can lie on the kernel stack of a thread. *)
StackOf(t) ==
    \/ frames[t] = <<>>
    \/ Len(frames[t]) = 1 /\ UserFrame(frames[t][1])
    \/ /\ Len(frames[t]) = 2
       /\ UserFrame(frames[t][1]) /\ frames[t][1].int_no = "SYSCALL"
       /\ FaultFrame(t, frames[t][2])

(* What lies on the stack that a CPU uses, by the place where it is: a     *)
(* thread in the kernel has the registers of its program in its frame.     *)
FramesOf(c) ==
    LET p == cpu[c]
        t == p.current_thread
    IN  /\ IF t = c /\ p.pc \notin {"scheduler", "pick", "loaded"}
           THEN Len(frames[c]) = 1 /\ IdleFrame(frames[c][1])
           ELSE frames[c] = <<>>
        /\ t \in Thread /\ p.pc \notin {"user", "syscall_entry"} =>
              frames[t] # <<>> /\ frames[t][1].regs = view[t].regs
        /\ t \in Thread /\ p.pc \in {"waiting", "schedule", "fxsaved"} => Len(frames[t]) = 1
        /\ t \in Thread /\ p.pc \in {"schedule", "fxsaved"} =>
              frames[t][1].int_no \in {"SYSCALL", "TIMER"}
        /\ p.pc = "waiting" => frames[t][1].int_no = "SYSCALL"

(* The registers of a CPU, by the place where it is. *)
RegsOf(c) ==
    LET p == cpu[c]
        t == p.current_thread
    IN  /\ p.pc \in {"user", "syscall_entry"} => p.regs = view[t].regs
        /\ p.pc = "syscall_entry" => p.regs["rcx"] = p.regs["rip"] /\ p.regs["r11"] = UserFlags
        /\ p.pc \in {"scheduler", "pick", "loaded"} => p.regs["saved"] = Zero
        /\ t # NoThread /\ p.pc \in {"handler", "waiting", "schedule", "fxsaved"} =>
              p.regs["saved"] = <<t, "saved">>

(* With one CPU its SSE registers, and the buffer between fxsave and the   *)
(* copy, are those of the thread that runs or is about to.                 *)
SseOf(c) ==
    LET p == cpu[c]
        t == p.current_thread
    IN  Alone =>
        /\ t \in Thread \ dead => p.sse = view[t].sse
        /\ p.pc = "fxsaved" => sse_buffer = p.sse
        /\ p.pc = "loaded" => sse_buffer = view[p.last_thread].sse

CpuInv(c) == Place(c) /\ GsOf(c) /\ FlagsOf(c) /\ FramesOf(c) /\ RegsOf(c) /\ SseOf(c)

(* The thread that a CPU runs, has just taken off or is about to put on. *)
Held(c) ==
    IF CurrentThread(c) \in Thread \/ At(c, "scheduler") \/ At(c, "loaded")
    THEN cpu[c].last_thread ELSE NoThread

Has(s, x) == \E i \in 1..Len(s) : s[i] = x
NoRepeat(s) == \A i, j \in 1..Len(s) : s[i] = s[j] => i = j

Queued(t) == Has(ready, t)

(* A thread is held by one CPU or queued once, and not both; before kmain  *)
(* the first thread is neither.                                            *)
Ownership ==
    /\ NoRepeat(ready)
    /\ \A t \in Thread : Queued(t) => t \in born \ dead
    /\ \A c \in Cpu : Held(c) \in born \cup {NoThread} /\ ~Queued(Held(c))
    /\ \A c, d \in Cpu : c # d /\ Held(c) # NoThread => Held(c) # Held(d)
    /\ First \in born
    /\ At(Bsp, "kmain") =>
          First \notin dead /\ ~Queued(First) /\ \A c \in Cpu : Held(c) # First

(* The threads that wait to be run, or are about to. *)
Parked(t) ==
    \/ Queued(t)
    \/ At(Bsp, "kmain") /\ t = First
    \/ \E c \in Cpu : /\ At(c, "scheduler") \/ At(c, "loaded")
                      /\ cpu[c].last_thread = t

(* A thread that can go on where it was. *)
Resumable(t) ==
    /\ Len(frames[t]) = 1
    /\ frames[t][1].regs = view[t].regs
    /\ \/ ctx[t].pc = "isr_return"
       \/ /\ ctx[t].pc = "waiting"
          /\ ctx[t].saved = <<t, "saved">>
          /\ frames[t][1].int_no = "SYSCALL"
    /\ Alone => sse_mem[t] = view[t].sse

ParkedInv == \A t \in Thread : Parked(t) /\ t \notin dead => Resumable(t)

SchedulerContext == \A c \in Cpu : ctx[c] = [pc |-> "scheduler", saved |-> Zero]

IInv ==
    /\ Typed
    /\ \A c \in Cpu : CpuInv(c)
    /\ \A t \in Thread : StackOf(t)
    /\ Ownership
    /\ ParkedInv
    /\ SchedulerContext

(* What a step leaves alone when it switches no thread. *)
SameThread(c) ==
    /\ cpu'[c].current_thread = cpu[c].current_thread
    /\ cpu'[c].rsp0 = cpu[c].rsp0
    /\ cpu'[c].kernel_stack = cpu[c].kernel_stack
    /\ cpu'[c].last_thread = cpu[c].last_thread

OthersSame(c) == \A d \in Cpu \ {c} : cpu'[d] = cpu[d]

-----------------------------------------------------------------------------
(* Facts about the values *)

(* The flags that are stored are those that are read. *)
LEMMA FlagsLemma ==
    /\ \A i, f \in BOOLEAN : Flags(i, f) \in Rflags /\ Flags(i, f)[2] = i /\ Flags(i, f)[3] = f
    /\ \A i \in BOOLEAN : /\ Flags(i, TRUE)[3] /\ ~Flags(i, FALSE)[3]
                          /\ Flags(TRUE, i)[2] /\ ~Flags(FALSE, i)[2]
    /\ \A r \in Rflags : r[2] \in BOOLEAN /\ r[3] \in BOOLEAN /\ r = Flags(r[2], r[3])
    /\ Rflags \subseteq Token
  BY DEF Flags, Rflags, Token

(* What the actions put in registers. *)
LEMMA TokenLemma ==
    /\ Junk \in Token /\ Zero \in Token
    /\ \A t \in Thread, n \in {0, 1} : Program(t, n) \in Registers /\ <<t, "sse", n>> \in Token
    /\ \A t \in Stack : Kernel(t) \in Registers /\ Kernel(t)["saved"] = <<t, "saved">>
    /\ \A t \in Thread : Entered(t) \in Registers
    /\ \A t \in Stack : Result(t) \in Token /\ <<t, "saved">> \in Token
  <1>1. Junk \in Token /\ Zero \in Token
    BY DEF Token
  <1>2. \A t \in Thread, g \in Register \cup {"sse"}, n \in {0, 1} : <<t, g, n>> \in Token
    BY DEF Token
  <1>3. \A t \in Stack : <<t, "result">> \in Token /\ <<t, "saved">> \in Token
    BY DEF Token
  <1>4. \A t \in Thread, n \in {0, 1} : Program(t, n) \in Registers
    BY <1>2 DEF Program, Registers
  <1>5. \A t \in Stack : Kernel(t) \in Registers /\ Kernel(t)["saved"] = <<t, "saved">>
    BY <1>1, <1>3 DEF Kernel, Registers, Register
  <1>6. \A t \in Thread : Entered(t) \in Registers
    BY <1>1, <1>2 DEF Entered, Registers
  <1> QED BY <1>1, <1>2, <1>3, <1>4, <1>5, <1>6 DEF Result

(* The last frame of a stack and the stack below it. *)
LEMMA FrameLemma ==
    ASSUME NEW S, NEW s \in Seq(S), s # <<>>
    PROVE  /\ Len(s) \in Nat \ {0}
           /\ 1 \in DOMAIN s /\ s[1] \in S
           /\ Last(s) \in S
           /\ Front(s) \in Seq(S)
           /\ Len(Front(s)) = Len(s) - 1
           /\ Len(s) = 1 => Last(s) = s[1] /\ Front(s) = <<>>
           /\ Len(s) = 2 => Last(s) = s[2] /\ Front(s)[1] = s[1]
  <1>1. Len(s) \in Nat \ {0} /\ DOMAIN s = 1..Len(s) /\ s \in [1..Len(s) -> S]
    BY EmptySeq
  <1>2. 1 \in DOMAIN s /\ s[1] \in S /\ s[Len(s)] \in S
    BY <1>1
  <1>3. /\ Front(s) \in Seq(S)
        /\ Len(Front(s)) = Len(s) - 1
        /\ \A i \in 1..(Len(s) - 1) : Front(s)[i] = s[i]
    BY <1>1 DEF Front
  <1>4. Len(s) = 1 => Front(s) = <<>>
    BY <1>3, EmptySeq
  <1> QED BY <1>1, <1>2, <1>3, <1>4 DEF Last

(* A thread is put at the end of the ready queue, *)
LEMMA AppendLemma ==
    ASSUME NEW S, NEW s \in Seq(S), NEW e \in S, NoRepeat(s), ~Has(s, e)
    PROVE  /\ Append(s, e) \in Seq(S)
           /\ NoRepeat(Append(s, e))
           /\ \A x : Has(Append(s, e), x) <=> (Has(s, x) \/ x = e)
  BY DEF NoRepeat, Has

(* and taken from its front. *)
LEMMA TailLemma ==
    ASSUME NEW S, NEW s \in Seq(S), NoRepeat(s), s # <<>>
    PROVE  /\ Head(s) \in S
           /\ Tail(s) \in Seq(S)
           /\ Has(s, Head(s))
           /\ NoRepeat(Tail(s))
           /\ \A x : Has(Tail(s), x) <=> (Has(s, x) /\ x # Head(s))
  BY DEF NoRepeat, Has

-----------------------------------------------------------------------------
(* What a step of one CPU leaves alone *)

(* A CPU notices nothing of a step of another one that touches only the    *)
(* thread of that one, or one that is just made.                           *)
LEMMA OtherCpus ==
    ASSUME IInv, NEW c \in Cpu, c \in online, online' = online, dead' \subseteq Thread,
           \A d \in Cpu \ {c} : cpu'[d] = cpu[d] /\ frames'[d] = frames[d],
           \A t \in born : t # Held(c) =>
               frames'[t] = frames[t] /\ view'[t] = view[t] /\ (t \in dead' <=> t \in dead)
    PROVE  \A d \in Cpu \ {c} : CpuInv(d)'
  <1> SUFFICES ASSUME NEW d \in Cpu \ {c} PROVE CpuInv(d)'
    OBVIOUS
  <1>1. cpu'[d] = cpu[d] /\ frames'[d] = frames[d] /\ CpuInv(d)
    BY DEF IInv
  <1>2. Held(d) # NoThread =>
          /\ frames'[Held(d)] = frames[Held(d)]
          /\ view'[Held(d)] = view[Held(d)]
          /\ (Held(d) \in dead' <=> Held(d) \in dead)
    BY DEF IInv, Ownership
  <1>3. /\ CurrentThread(d) \in Thread => Held(d) = CurrentThread(d)
        /\ At(d, "loaded") => Held(d) = cpu[d].last_thread /\ Held(d) # NoThread
    BY <1>1, EntryAssumption DEF CpuInv, Place, Held, CurrentThread, At
  <1>4. CurrentThread(d) \in Thread \cup {d, NoThread}
    BY <1>1 DEF CpuInv, Place, CurrentThread
  <1>5. Place(d)'
    BY <1>1, <1>2, <1>3, <1>4, EntryAssumption DEF CpuInv, Place, CurrentThread, At
  <1>6. cpu[d].pc \in {"isr_common", "leave"} => Top(d)' = Top(d)
    BY <1>1, <1>2, <1>3, <1>4, EntryAssumption DEF CpuInv, Place, Top, CurrentThread
  <1>7. GsOf(d)'
    BY <1>1, <1>6 DEF CpuInv, GsOf
  <1>8. FlagsOf(d)'
    BY <1>1 DEF CpuInv, FlagsOf, IfSet
  <1>9. FramesOf(d)'
    BY <1>1, <1>2, <1>3, <1>4, EntryAssumption DEF CpuInv, FramesOf, Place, CurrentThread
  <1>10. RegsOf(d)'
    BY <1>1, <1>2, <1>3, <1>4, EntryAssumption DEF CpuInv, RegsOf, Place, CurrentThread
  <1>11. SseOf(d)'
    BY <1>1, EntryAssumption DEF CpuInv, SseOf, Place, Alone
  <1> QED BY <1>5, <1>7, <1>8, <1>9, <1>10, <1>11 DEF CpuInv

(* A thread that runs is not parked. *)
LEMMA RunningNotParked ==
    ASSUME IInv, NEW c \in Cpu, CurrentThread(c) \in Thread
    PROVE  ~Parked(CurrentThread(c)) /\ Held(c) = CurrentThread(c)
  <1>1. Held(c) = CurrentThread(c)
    BY DEF IInv, CpuInv, Place, Held, CurrentThread
  <1>2. ~(At(c, "scheduler") \/ At(c, "loaded"))
    BY EntryAssumption DEF IInv, CpuInv, Place, CurrentThread, At
  <1> QED BY <1>1, <1>2, EntryAssumption DEF IInv, Ownership, Parked, Held
(* A step that changes only a CPU in the kernel or in a program, the stack *)
(* of its current thread and what the program of that thread knows, keeps  *)
(* the invariant if it keeps what this says of that CPU and that stack.    *)
LEMMA LocalStep ==
    ASSUME IInv, NEW c \in Cpu, CurrentThread(c) # NoThread,
           UNCHANGED <<ctx, sse_mem, ready, born, dead, online>>,
           \A d \in Cpu \ {c} : cpu'[d] = cpu[d],
           CurrentThread(c)' = CurrentThread(c),
           Held(c)' = Held(c),
           ~At(c, "kmain")',
           ~At(c, "scheduler")', ~At(c, "loaded")',
           \A t \in Stack : t # CurrentThread(c) => frames'[t] = frames[t],
           \A t \in Thread : t # CurrentThread(c) => view'[t] = view[t],
           Typed', CpuInv(c)',
           CurrentThread(c) \in Thread => StackOf(CurrentThread(c))'
    PROVE  IInv'
  <1>1. CurrentThread(c) \in Thread \cup {c} /\ c \in online
    BY EntryAssumption DEF IInv, CpuInv, Place, CurrentThread
  <1>2. born \subseteq Thread /\ dead \subseteq born
    BY DEF IInv, Typed, SetsTyped
  <1>3. CurrentThread(c) \in Thread => ~Parked(CurrentThread(c)) /\ Held(c) = CurrentThread(c)
    BY RunningNotParked
  <1>4. \A d \in Cpu : CpuInv(d)'
    <2>1. \A d \in Cpu \ {c} : cpu'[d] = cpu[d] /\ frames'[d] = frames[d]
      BY <1>1, EntryAssumption DEF Stack
    <2>2. \A t \in born : t # Held(c) =>
            frames'[t] = frames[t] /\ view'[t] = view[t] /\ (t \in dead' <=> t \in dead)
      BY <1>1, <1>2, <1>3, EntryAssumption DEF Stack
    <2> QED BY <1>1, <1>2, <2>1, <2>2, OtherCpus
  <1>5. \A t \in Thread : StackOf(t)'
    <2>1. \A t \in Thread : t # CurrentThread(c) => StackOf(t)'
      BY DEF IInv, StackOf, Stack
    <2> QED BY <2>1
  <1>6. \A d \in Cpu : Held(d)' = Held(d)
    <2>1. \A d \in Cpu \ {c} : Held(d)' = Held(d)
      BY DEF Held, CurrentThread, At
    <2> QED BY <2>1
  <1>7. At(Bsp, "kmain")' => At(Bsp, "kmain")
    BY EntryAssumption DEF At
  <1>8. \A t \in Thread : Queued(t)' <=> Queued(t)
    BY DEF Queued
  <1>9. Ownership'
    <2>1. \A d \in Cpu : Held(d)' \in born' \cup {NoThread} /\ ~Queued(Held(d))'
      BY <1>6 DEF IInv, Ownership, Queued
    <2>2. \A d, e \in Cpu : d # e /\ Held(d)' # NoThread => Held(d)' # Held(e)'
      BY <1>6 DEF IInv, Ownership
    <2>3. \A t \in Thread : Queued(t)' => t \in born' \ dead'
      BY <1>8 DEF IInv, Ownership
    <2>4. At(Bsp, "kmain")' =>
            First \notin dead' /\ ~Queued(First)' /\ \A d \in Cpu : Held(d)' # First
      BY <1>6, <1>7, <1>8, EntryAssumption DEF IInv, Ownership
    <2>5. NoRepeat(ready)' /\ First \in born'
      BY DEF IInv, Ownership
    <2> QED BY <2>1, <2>2, <2>3, <2>4, <2>5 DEF Ownership
  <1>10. ParkedInv'
    <2>1. ASSUME NEW t \in Thread, Parked(t)' PROVE Parked(t)
      BY <1>7, <1>8, <2>1 DEF Parked, At
    <2>2. \A t \in Thread : Parked(t) => frames'[t] = frames[t] /\ view'[t] = view[t]
      BY <1>3 DEF Stack
    <2> QED BY <2>1, <2>2 DEF IInv, ParkedInv, Resumable, Alone
  <1>11. SchedulerContext'
    BY DEF IInv, SchedulerContext
  <1> QED BY <1>4, <1>5, <1>9, <1>10, <1>11 DEF IInv

(* The same for a step that changes nothing but the CPU, and the buffer of *)
(* the SSE registers.                                                      *)
LEMMA CpuStep ==
    ASSUME IInv, NEW c \in Cpu, CurrentThread(c) # NoThread,
           UNCHANGED <<frames, ctx, sse_mem, ready, born, dead, online, view>>,
           sse_buffer' \in Token,
           SameThread(c), OthersSame(c), CpuTyped',
           ~At(c, "scheduler"), ~At(c, "loaded"),
           ~At(c, "kmain")', ~At(c, "scheduler")', ~At(c, "loaded")',
           CpuInv(c)'
    PROVE  IInv'
  <1>1. Held(c)' = Held(c) /\ CurrentThread(c)' = CurrentThread(c)
    BY DEF Held, At, CurrentThread, SameThread
  <1>2. \A t \in Thread : StackOf(t)'
    BY DEF IInv, StackOf
  <1>3. Typed'
    BY DEF IInv, Typed, FramesTyped, ViewTyped, SseTyped, CtxTyped, SetsTyped
  <1> QED BY <1>1, <1>2, <1>3, LocalStep DEF OthersSame

(* The type of cpu, from that of its new value. *)
LEMMA CpuTypedLemma ==
    ASSUME Typed, NEW c \in Cpu, cpu' = [cpu EXCEPT ![c] = cpu'[c]], cpu'[c] \in CpuType
    PROVE  CpuTyped'
  BY DEF Typed, CpuTyped

(* A stack is given other frames. *)
LEMMA FramesLemma ==
    ASSUME Typed, NEW t \in Stack, NEW s \in Seq(FrameType), Len(s) <= MaxFrames,
           frames' = [frames EXCEPT ![t] = s]
    PROVE  /\ FramesTyped'
           /\ frames'[t] = s
           /\ \A u \in Stack : u # t => frames'[u] = frames[u]
  <1>1. frames' \in [Stack -> Seq(FrameType)]
    BY DEF Typed, FramesTyped
  <1>2. frames'[t] = s /\ \A u \in Stack : u # t => frames'[u] = frames[u]
    BY DEF Typed, FramesTyped
  <1>3. \A u \in Stack : Len(frames'[u]) <= MaxFrames
    <2> TAKE u \in Stack
    <2>1. CASE u = t
      BY <1>2, <2>1
    <2>2. CASE u # t
      BY <1>2, <2>2 DEF Typed, FramesTyped
    <2> QED BY <2>1, <2>2
  <1> QED BY <1>1, <1>2, <1>3 DEF FramesTyped

(* A step that only goes on to the next place. *)
LEMMA PcEffect ==
    ASSUME Typed, NEW c \in Cpu, NEW l \in Pc, cpu' = [cpu EXCEPT ![c].pc = l]
    PROVE  /\ CpuTyped'
           /\ SameThread(c) /\ OthersSame(c)
           /\ cpu'[c].pc = l /\ cpu'[c].regs = cpu[c].regs /\ cpu'[c].sse = cpu[c].sse
           /\ cpu'[c].gs = cpu[c].gs /\ cpu'[c].rflags = cpu[c].rflags
           /\ cpu'[c].stack = cpu[c].stack /\ cpu'[c].timer = cpu[c].timer
  <1>1. CpuTyped'
    BY DEF Typed, CpuTyped, CpuType
  <1> QED BY <1>1 DEF Typed, CpuTyped, CpuType, SameThread, OthersSame

(* Where a handler can be, and what its argument is. *)
LEMMA HandlerLemma ==
    ASSUME IInv, NEW c \in Cpu, At(c, "handler")
    PROVE  /\ CurrentThread(c) \in Thread \cup {c} /\ CurrentThread(c) # NoThread
           /\ cpu[c].stack = CurrentThread(c)
           /\ Top(c) = Last(frames[CurrentThread(c)])
           /\ frames[CurrentThread(c)] # <<>>
           /\ CurrentThread(c) = c => Top(c).int_no = "TIMER"
           /\ CurrentThread(c) \in Thread /\ Top(c).int_no # "PF" => Len(frames[CurrentThread(c)]) = 1
           /\ Len(frames[CurrentThread(c)]) = 1 => Top(c) = frames[CurrentThread(c)][1]
  <1> DEFINE t == CurrentThread(c)
  <1>1. /\ t \in Thread \cup {c} /\ t # NoThread
        /\ cpu[c].stack = t
    BY EntryAssumption DEF IInv, CpuInv, Place, At, CurrentThread
  <1>2. Top(c) = Last(frames[t])
    BY <1>1 DEF Top
  <1>3. frames[t] \in Seq(FrameType)
    BY <1>1 DEF IInv, Typed, FramesTyped, Stack
  <1>4. t = c => Len(frames[t]) = 1 /\ frames[t][1].int_no = "TIMER"
    BY DEF IInv, CpuInv, FramesOf, At, CurrentThread, IdleFrame
  <1>5. t \in Thread => frames[t] # <<>> /\ StackOf(t)
    BY DEF IInv, CpuInv, FramesOf, At, CurrentThread
  <1>6. Len(frames[t]) = 1 => Last(frames[t]) = frames[t][1]
    BY DEF Last
  <1>7. t \in Thread /\ Last(frames[t]).int_no # "PF" => Len(frames[t]) = 1
    BY <1>5 DEF StackOf, FaultFrame, Last
  <1>8. t = c => frames[t] # <<>>
    BY <1>4
  <1> QED BY <1>1, <1>2, <1>4, <1>5, <1>6, <1>7, <1>8

(* A system call has one frame, that of its program. *)
LEMMA SyscallLemma ==
    ASSUME IInv, NEW c \in Cpu, InSyscall(c)
    PROVE  /\ CurrentThread(c) \in Thread \ dead /\ CurrentThread(c) # NoThread
           /\ cpu[c].stack = CurrentThread(c)
           /\ cpu[c].pc \in {"handler", "waiting"}
           /\ Len(frames[CurrentThread(c)]) = 1
           /\ UserFrame(frames[CurrentThread(c)][1])
           /\ frames[CurrentThread(c)][1].int_no = "SYSCALL"
           /\ frames[CurrentThread(c)][1].regs = view[CurrentThread(c)].regs
           /\ frames[CurrentThread(c)] \in Seq(FrameType)
  <1> DEFINE t == CurrentThread(c)
  <1>1. cpu[c].pc \in {"handler", "waiting"}
    BY DEF InSyscall, Begins, At
  <1>2. /\ t \in Thread /\ Len(frames[t]) = 1 /\ frames[t][1].int_no = "SYSCALL"
        /\ cpu[c].stack = t /\ t # NoThread
    <2>1. CASE At(c, "waiting")
      BY <2>1, EntryAssumption DEF At, IInv, CpuInv, Place, FramesOf, CurrentThread
    <2>2. CASE Begins(c)
      BY <2>2, HandlerLemma DEF Begins
    <2> QED BY <2>1, <2>2 DEF InSyscall
  <1>3. t \notin dead
    BY <1>1 DEF IInv, CpuInv, Place, CurrentThread
  <1>4. UserFrame(frames[t][1])
    BY <1>2 DEF IInv, StackOf
  <1>5. frames[t][1].regs = view[t].regs
    BY <1>1, <1>2 DEF IInv, CpuInv, FramesOf, CurrentThread
  <1>6. frames[t] \in Seq(FrameType)
    BY <1>2 DEF IInv, Typed, FramesTyped, Stack
  <1> QED BY <1>1, <1>2, <1>3, <1>4, <1>5, <1>6

-----------------------------------------------------------------------------
(* Steps of a program and of the ways into the kernel *)

(* A program computes. *)
LEMMA ComputeStep ==
    ASSUME IInv, NEW c \in Cpu, Compute(c)
    PROVE  IInv'
  <1> DEFINE p == cpu[c]
             t == p.current_thread
             n == 1 - view[t].stage
             sse == IF Alone THEN <<t, "sse", n>> ELSE p.sse
  <1> USE DEF CurrentThread, At
  <1>1. p.pc = "user" /\ t \in Thread /\ t # NoThread
    BY EntryAssumption DEF Compute, IInv, CpuInv, Place
  <1>2. n \in {0, 1} /\ Typed /\ CpuInv(c)
    BY <1>1 DEF IInv, Typed, ViewTyped, ViewType
  <1>3. Program(t, n) \in Registers /\ sse \in Token
    BY <1>1, <1>2, TokenLemma DEF Typed, CpuTyped, CpuType
  <1>4. cpu' = [cpu EXCEPT ![c].regs = Program(t, n), ![c].sse = sse]
    BY DEF Compute
  <1> HIDE DEF n, sse
  <1>5. /\ cpu'[c].regs = Program(t, n) /\ cpu'[c].sse = sse
        /\ cpu'[c].pc = "user" /\ cpu'[c].gs = p.gs /\ cpu'[c].rflags = p.rflags
        /\ cpu'[c].stack = p.stack /\ cpu'[c].timer = p.timer
        /\ SameThread(c) /\ OthersSame(c)
    BY <1>1, <1>2, <1>4 DEF Typed, CpuTyped, CpuType, SameThread, OthersSame
  <1>6. /\ view' = [view EXCEPT ![t] = [regs |-> Program(t, n), sse |-> sse, stage |-> n]]
        /\ view'[t].regs = Program(t, n) /\ view'[t].sse = sse
    <2>1. view' = [view EXCEPT ![t] = [regs |-> Program(t, n), sse |-> sse, stage |-> n]]
      BY <1>5 DEF Compute, n
    <2> QED BY <1>1, <1>2, <2>1 DEF Typed, ViewTyped
  <1>7. Typed'
    <2>1. CpuTyped'
      BY <1>2, <1>3, <1>4 DEF Typed, CpuTyped, CpuType
    <2>2. ViewTyped'
      BY <1>1, <1>2, <1>3, <1>6 DEF Typed, ViewTyped, ViewType
    <2> QED BY <1>2, <2>1, <2>2 DEF Compute, Typed, FramesTyped, SseTyped, CtxTyped, SetsTyped
  <1>8. CpuInv(c)'
    <2>1. Place(c)'
      BY <1>1, <1>2, <1>5 DEF Compute, CpuInv, Place, SameThread
    <2>2. GsOf(c)' /\ FlagsOf(c)'
      BY <1>1, <1>2, <1>5 DEF CpuInv, GsOf, FlagsOf, IfSet, KernelC
    <2>3. FramesOf(c)' /\ RegsOf(c)'
      BY <1>1, <1>2, <1>5, <1>6 DEF Compute, CpuInv, FramesOf, RegsOf, SameThread
    <2>4. SseOf(c)'
      BY <1>1, <1>2, <1>5, <1>6 DEF Compute, CpuInv, SseOf, Alone, SameThread
    <2> QED BY <2>1, <2>2, <2>3, <2>4 DEF CpuInv
  <1>9. Held(c)' = Held(c) /\ StackOf(t)'
    BY <1>1, <1>5 DEF Compute, Held, IInv, StackOf, UserFrame, FaultFrame, SameThread
  <1>10. \A u \in Thread : u # t => view'[u] = view[u]
    BY <1>2, <1>6 DEF Typed, ViewTyped
  <1>11. UNCHANGED <<frames, ctx, sse_mem, ready, born, dead, online>>
    BY DEF Compute
  <1> QED BY <1>1, <1>5, <1>7, <1>8, <1>9, <1>10, <1>11, LocalStep DEF SameThread, OthersSame

(* apic_timer_handler calls schedule(). *)
LEMMA TimerHandlerStep ==
    ASSUME IInv, NEW c \in Cpu, TimerHandler(c)
    PROVE  IInv'
  <1> USE DEF CurrentThread, At
  <1>1. cpu[c].pc = "handler" /\ Top(c).int_no = "TIMER" /\ CurrentThread(c) # NoThread
    BY HandlerLemma DEF TimerHandler
  <1>2. Typed /\ CpuInv(c) /\ cpu' = [cpu EXCEPT ![c].pc = "schedule"]
    BY DEF TimerHandler, IInv
  <1>3. "schedule" \in Pc
    BY DEF Pc, KernelC
  <1>4. UNCHANGED <<frames, ctx, sse_mem, sse_buffer, ready, born, dead, online, view>>
    BY DEF TimerHandler
  <1>5. CpuInv(c)'
    <2>1. Place(c)'
      BY <1>1, <1>2, <1>3, <1>4, PcEffect DEF CpuInv, Place, SameThread
    <2>2. GsOf(c)' /\ FlagsOf(c)'
      BY <1>1, <1>2, <1>3, PcEffect DEF CpuInv, GsOf, FlagsOf, IfSet, KernelC
    <2>3. FramesOf(c)' /\ RegsOf(c)'
      BY <1>1, <1>2, <1>3, <1>4, PcEffect, HandlerLemma DEF CpuInv, FramesOf, RegsOf, SameThread
    <2>4. SseOf(c)'
      BY <1>1, <1>2, <1>3, <1>4, PcEffect DEF CpuInv, SseOf, Alone, SameThread
    <2> QED BY <2>1, <2>2, <2>3, <2>4 DEF CpuInv
  <1> QED BY <1>1, <1>2, <1>3, <1>4, <1>5, PcEffect, CpuStep DEF IInv, Typed, SseTyped

(* page_fault_handler returns. *)
LEMMA FaultHandledStep ==
    ASSUME IInv, NEW c \in Cpu, FaultHandled(c)
    PROVE  IInv'
  <1> USE DEF CurrentThread, At
  <1>1. cpu[c].pc = "handler" /\ Top(c).int_no = "PF" /\ CurrentThread(c) # NoThread
    BY HandlerLemma DEF FaultHandled
  <1>2. Typed /\ CpuInv(c) /\ cpu' = [cpu EXCEPT ![c].pc = "isr_return"]
    BY DEF FaultHandled, IInv
  <1>3. "isr_return" \in Pc
    BY DEF Pc, KernelC
  <1>4. UNCHANGED <<frames, ctx, sse_mem, sse_buffer, ready, born, dead, online, view>>
    BY DEF FaultHandled
  <1>5. CpuInv(c)'
    <2>1. Place(c)'
      BY <1>1, <1>2, <1>3, <1>4, PcEffect DEF CpuInv, Place, SameThread
    <2>2. GsOf(c)' /\ FlagsOf(c)'
      BY <1>1, <1>2, <1>3, PcEffect DEF CpuInv, GsOf, FlagsOf, IfSet, KernelC
    <2>3. FramesOf(c)' /\ RegsOf(c)'
      BY <1>1, <1>2, <1>3, <1>4, PcEffect, HandlerLemma DEF CpuInv, FramesOf, RegsOf, SameThread
    <2>4. SseOf(c)'
      BY <1>1, <1>2, <1>3, <1>4, PcEffect DEF CpuInv, SseOf, Alone, SameThread
    <2> QED BY <2>1, <2>2, <2>3, <2>4 DEF CpuInv
  <1> QED BY <1>1, <1>2, <1>3, <1>4, <1>5, PcEffect, CpuStep DEF IInv, Typed, SseTyped

(* A handler stops the CPU. *)
LEMMA UnhandledStep ==
    ASSUME IInv, NEW c \in Cpu, Unhandled(c)
    PROVE  IInv'
  <1> USE DEF CurrentThread, At
  <1>1. cpu[c].pc = "handler" /\ CurrentThread(c) \in Thread /\ CurrentThread(c) # NoThread
    BY HandlerLemma DEF Unhandled
  <1>2. Typed /\ CpuInv(c) /\ cpu' = [cpu EXCEPT ![c].pc = "halted"]
    BY DEF Unhandled, IInv
  <1>3. "halted" \in Pc
    BY DEF Pc, KernelC
  <1>4. UNCHANGED <<frames, ctx, sse_mem, sse_buffer, ready, born, dead, online, view>>
    BY DEF Unhandled
  <1>5. CpuInv(c)'
    <2>1. Place(c)'
      BY <1>1, <1>2, <1>3, <1>4, PcEffect DEF CpuInv, Place, SameThread
    <2>2. GsOf(c)' /\ FlagsOf(c)'
      BY <1>1, <1>2, <1>3, PcEffect DEF CpuInv, GsOf, FlagsOf, IfSet, KernelC
    <2>3. FramesOf(c)' /\ RegsOf(c)'
      BY <1>1, <1>2, <1>3, <1>4, PcEffect, HandlerLemma DEF CpuInv, FramesOf, RegsOf, SameThread
    <2>4. SseOf(c)'
      BY <1>1, <1>2, <1>3, <1>4, PcEffect DEF CpuInv, SseOf, Alone, SameThread
    <2> QED BY <2>1, <2>2, <2>3, <2>4 DEF CpuInv
  <1> QED BY <1>1, <1>2, <1>3, <1>4, <1>5, PcEffect, CpuStep DEF IInv, Typed, SseTyped

(* A system call calls schedule(). *)
LEMMA WaitStep ==
    ASSUME IInv, NEW c \in Cpu, Wait(c)
    PROVE  IInv'
  <1> USE DEF CurrentThread, At
  <1>1. cpu[c].pc \in {"handler", "waiting"} /\ CurrentThread(c) \in Thread /\ CurrentThread(c) # NoThread
    BY SyscallLemma DEF Wait
  <1>2. Typed /\ CpuInv(c) /\ cpu' = [cpu EXCEPT ![c].pc = "schedule"]
    BY DEF Wait, IInv
  <1>3. "schedule" \in Pc
    BY DEF Pc, KernelC
  <1>4. UNCHANGED <<frames, ctx, sse_mem, sse_buffer, ready, born, dead, online, view>>
    BY DEF Wait
  <1>5. CpuInv(c)'
    <2>1. Place(c)'
      BY <1>1, <1>2, <1>3, <1>4, PcEffect DEF CpuInv, Place, SameThread
    <2>2. GsOf(c)' /\ FlagsOf(c)'
      BY <1>1, <1>2, <1>3, PcEffect DEF CpuInv, GsOf, FlagsOf, IfSet, KernelC
    <2>3. FramesOf(c)' /\ RegsOf(c)'
      BY <1>1, <1>2, <1>3, <1>4, PcEffect, SyscallLemma DEF CpuInv, FramesOf, RegsOf, SameThread, Wait
    <2>4. SseOf(c)'
      BY <1>1, <1>2, <1>3, <1>4, PcEffect DEF CpuInv, SseOf, Alone, SameThread
    <2> QED BY <2>1, <2>2, <2>3, <2>4 DEF CpuInv
  <1> QED BY <1>1, <1>2, <1>3, <1>4, <1>5, PcEffect, CpuStep DEF IInv, Typed, SseTyped

(* schedule() does nothing in the idle loop. *)
LEMMA ScheduleReturnsStep ==
    ASSUME IInv, NEW c \in Cpu, ScheduleReturns(c)
    PROVE  IInv'
  <1> USE DEF CurrentThread, At
  <1>1. /\ cpu[c].pc = "schedule" /\ CurrentThread(c) = c
        /\ Len(frames[c]) = 1 /\ IdleFrame(frames[c][1])
        /\ CurrentThread(c) # NoThread
    BY EntryAssumption DEF ScheduleReturns, IInv, CpuInv, FramesOf
  <1>2. Typed /\ CpuInv(c) /\ cpu' = [cpu EXCEPT ![c].pc = "isr_return"]
    BY <1>1 DEF ScheduleReturns, IInv, AfterSchedule, IdleFrame, Last
  <1>3. "isr_return" \in Pc
    BY DEF Pc, KernelC
  <1>4. UNCHANGED <<frames, ctx, sse_mem, sse_buffer, ready, born, dead, online, view>>
    BY DEF ScheduleReturns
  <1>5. CpuInv(c)'
    <2>1. Place(c)'
      BY <1>1, <1>2, <1>3, <1>4, PcEffect, EntryAssumption DEF CpuInv, Place, SameThread, Typed, SetsTyped
    <2>2. GsOf(c)' /\ FlagsOf(c)'
      BY <1>1, <1>2, <1>3, PcEffect DEF CpuInv, GsOf, FlagsOf, IfSet, KernelC
    <2>3. FramesOf(c)' /\ RegsOf(c)'
      BY <1>1, <1>2, <1>3, <1>4, PcEffect, EntryAssumption DEF CpuInv, FramesOf, RegsOf, SameThread
    <2>4. SseOf(c)'
      BY <1>1, <1>2, <1>3, <1>4, PcEffect DEF CpuInv, SseOf, Alone, SameThread
    <2> QED BY <2>1, <2>2, <2>3, <2>4 DEF CpuInv
  <1> QED BY <1>1, <1>2, <1>3, <1>4, <1>5, PcEffect, CpuStep DEF IInv, Typed, SseTyped

(* isr_common: the handler finds its cpu_t in gs. *)
LEMMA IsrCommonStep ==
    ASSUME IInv, NEW c \in Cpu, IsrCommon(c)
    PROVE  IInv'
  <1> DEFINE p == cpu[c]
             t == p.current_thread
             gs == SwapIf(Top(c).rflags, p.gs)
  <1> USE DEF CurrentThread, At
  <1>1. p.pc = "isr_common" /\ t \in Thread \cup {c} /\ t # NoThread /\ p.stack = t
    BY EntryAssumption DEF IsrCommon, IInv, CpuInv, Place
  <1>2. Typed /\ CpuInv(c)
    BY DEF IInv
  <1>3. gs = "cpu"
    BY <1>1, <1>2 DEF CpuInv, GsOf, SwapIf, Other
  <1>4. /\ Kernel(t) \in Registers /\ Kernel(t)["saved"] = <<t, "saved">>
        /\ Flags(FALSE, FALSE) \in Rflags /\ ~Flags(FALSE, FALSE)[2] /\ ~Flags(FALSE, FALSE)[3]
        /\ "handler" \in Pc /\ "cpu" \in Side
    <2>1. Kernel(t) \in Registers /\ Kernel(t)["saved"] = <<t, "saved">>
      BY <1>1, TokenLemma DEF Stack
    <2>2. Flags(FALSE, FALSE) \in Rflags /\ ~Flags(FALSE, FALSE)[2] /\ ~Flags(FALSE, FALSE)[3]
      BY FlagsLemma
    <2> QED BY <2>1, <2>2 DEF Pc, KernelC, Side
  <1>5. cpu' = [cpu EXCEPT ![c].pc = "handler", ![c].regs = Kernel(t),
                           ![c].rflags = Flags(FALSE, FALSE), ![c].gs = "cpu"]
    BY <1>1, <1>3 DEF IsrCommon
  <1>6. /\ cpu'[c].pc = "handler" /\ cpu'[c].regs = Kernel(t) /\ cpu'[c].gs = "cpu"
        /\ cpu'[c].rflags = Flags(FALSE, FALSE) /\ cpu'[c].sse = p.sse
        /\ cpu'[c].stack = p.stack /\ cpu'[c].timer = p.timer
        /\ SameThread(c) /\ OthersSame(c)
    BY <1>2, <1>5 DEF Typed, CpuTyped, CpuType, SameThread, OthersSame
  <1>7. CpuTyped'
    <2>1. cpu'[c] \in CpuType
      BY <1>2, <1>4, <1>5 DEF Typed, CpuTyped, CpuType
    <2>2. cpu' = [cpu EXCEPT ![c] = cpu'[c]]
      BY <1>2, <1>5 DEF Typed, CpuTyped
    <2> QED BY <1>2, <2>1, <2>2, CpuTypedLemma
  <1>8. UNCHANGED <<frames, ctx, sse_mem, sse_buffer, ready, born, dead, online, view>>
    BY DEF IsrCommon
  <1>9. CpuInv(c)'
    <2>1. Place(c)'
      BY <1>1, <1>2, <1>6, <1>8 DEF CpuInv, Place, SameThread
    <2>2. GsOf(c)' /\ FlagsOf(c)'
      BY <1>4, <1>6 DEF GsOf, FlagsOf, IfSet, KernelC
    <2>3. FramesOf(c)' /\ RegsOf(c)'
      BY <1>1, <1>2, <1>4, <1>6, <1>8 DEF CpuInv, FramesOf, RegsOf, SameThread
    <2>4. SseOf(c)'
      BY <1>1, <1>2, <1>6, <1>8 DEF CpuInv, SseOf, Alone, SameThread
    <2> QED BY <2>1, <2>2, <2>3, <2>4 DEF CpuInv
  <1> QED BY <1>1, <1>2, <1>6, <1>7, <1>8, <1>9, CpuStep DEF Typed, SseTyped

(* isr_return: gs goes with the frame that is about to be popped. *)
LEMMA IsrReturnStep ==
    ASSUME IInv, NEW c \in Cpu, IsrReturn(c)
    PROVE  IInv'
  <1> DEFINE p == cpu[c]
             t == p.current_thread
             gs == SwapIf(Top(c).rflags, p.gs)
  <1> USE DEF CurrentThread, At
  <1>1. p.pc = "isr_return" /\ t \in Thread \cup {c} /\ t # NoThread /\ p.stack = t
    BY EntryAssumption DEF IsrReturn, IInv, CpuInv, Place
  <1>2. Typed /\ CpuInv(c)
    BY DEF IInv
  <1>3. gs = (IF Top(c).rflags[2] THEN "user" ELSE "cpu") /\ gs \in Side /\ "leave" \in Pc
    BY <1>1, <1>2 DEF CpuInv, GsOf, KernelC, SwapIf, Other, Side, Pc
  <1>4. cpu' = [cpu EXCEPT ![c].pc = "leave", ![c].gs = gs]
    BY <1>1 DEF IsrReturn
  <1> HIDE DEF gs
  <1>5. /\ cpu'[c].pc = "leave" /\ cpu'[c].regs = p.regs /\ cpu'[c].gs = gs
        /\ cpu'[c].rflags = p.rflags /\ cpu'[c].sse = p.sse
        /\ cpu'[c].stack = p.stack /\ cpu'[c].timer = p.timer
        /\ SameThread(c) /\ OthersSame(c)
    BY <1>2, <1>4 DEF Typed, CpuTyped, CpuType, SameThread, OthersSame
  <1>6. CpuTyped'
    BY <1>2, <1>3, <1>4 DEF Typed, CpuTyped, CpuType
  <1>7. UNCHANGED <<frames, ctx, sse_mem, sse_buffer, ready, born, dead, online, view>>
    BY DEF IsrReturn
  <1>8. CpuInv(c)'
    <2>1. Place(c)'
      BY <1>1, <1>2, <1>5, <1>7 DEF CpuInv, Place, SameThread
    <2>2. GsOf(c)' /\ FlagsOf(c)'
      BY <1>1, <1>2, <1>3, <1>5, <1>7 DEF CpuInv, GsOf, FlagsOf, IfSet, KernelC, Top
    <2>3. FramesOf(c)' /\ RegsOf(c)'
      BY <1>1, <1>2, <1>5, <1>7 DEF CpuInv, FramesOf, RegsOf, SameThread
    <2>4. SseOf(c)'
      BY <1>1, <1>2, <1>5, <1>7 DEF CpuInv, SseOf, Alone, SameThread
    <2> QED BY <2>1, <2>2, <2>3, <2>4 DEF CpuInv
  <1> QED BY <1>1, <1>2, <1>5, <1>6, <1>7, <1>8, CpuStep DEF Typed, SseTyped

(* The idle loop sets IF. *)
LEMMA IdleStep ==
    ASSUME IInv, NEW c \in Cpu, Idle(c)
    PROVE  IInv'
  <1> DEFINE p == cpu[c]
             t == p.current_thread
             flags == Flags(p.rflags[2], TRUE)
  <1> USE DEF CurrentThread, At
  <1>1. p.pc = "pick" /\ t = c /\ t # NoThread
    BY EntryAssumption DEF Idle, IInv, CpuInv, Place
  <1>2. Typed /\ CpuInv(c) /\ p.rflags \in Rflags
    BY DEF IInv, Typed, CpuTyped, CpuType
  <1>3. flags \in Rflags /\ flags[2] = p.rflags[2]
    BY <1>2, FlagsLemma
  <1>4. cpu' = [cpu EXCEPT ![c].rflags = flags]
    BY DEF Idle
  <1> HIDE DEF flags
  <1>5. /\ cpu'[c].pc = "pick" /\ cpu'[c].regs = p.regs /\ cpu'[c].gs = p.gs
        /\ cpu'[c].rflags = flags /\ cpu'[c].sse = p.sse
        /\ cpu'[c].stack = p.stack /\ cpu'[c].timer = p.timer
        /\ SameThread(c) /\ OthersSame(c)
    BY <1>1, <1>2, <1>4 DEF Typed, CpuTyped, CpuType, SameThread, OthersSame
  <1>6. CpuTyped'
    BY <1>2, <1>3, <1>4 DEF Typed, CpuTyped, CpuType
  <1>7. UNCHANGED <<frames, ctx, sse_mem, sse_buffer, ready, born, dead, online, view>>
    BY DEF Idle
  <1>8. CpuInv(c)'
    <2>1. Place(c)'
      BY <1>1, <1>2, <1>5, <1>7 DEF CpuInv, Place, SameThread
    <2>2. GsOf(c)' /\ FlagsOf(c)'
      BY <1>1, <1>2, <1>3, <1>5, <1>7 DEF CpuInv, GsOf, FlagsOf, IfSet, KernelC
    <2>3. FramesOf(c)' /\ RegsOf(c)'
      BY <1>1, <1>2, <1>5, <1>7 DEF CpuInv, FramesOf, RegsOf, SameThread
    <2>4. SseOf(c)'
      BY <1>1, <1>2, <1>5, <1>7 DEF CpuInv, SseOf, Alone, SameThread
    <2> QED BY <2>1, <2>2, <2>3, <2>4 DEF CpuInv
  <1> QED BY <1>1, <1>2, <1>5, <1>6, <1>7, <1>8, CpuStep DEF Typed, SseTyped

(* sse_save puts the registers of the thread in the buffer. *)
LEMMA FxsaveStep ==
    ASSUME IInv, NEW c \in Cpu, Fxsave(c)
    PROVE  IInv'
  <1> USE DEF CurrentThread, At
  <1>1. cpu[c].pc = "schedule" /\ CurrentThread(c) \in Thread /\ CurrentThread(c) # NoThread
    BY EntryAssumption DEF Fxsave
  <1>2. Typed /\ CpuInv(c) /\ cpu' = [cpu EXCEPT ![c].pc = "fxsaved"]
    BY DEF Fxsave, IInv
  <1>3. "fxsaved" \in Pc /\ cpu[c].sse \in Token
    BY <1>2 DEF Pc, KernelC, Typed, CpuTyped, CpuType
  <1>4. /\ UNCHANGED <<frames, ctx, sse_mem, ready, born, dead, online, view>>
        /\ sse_buffer' = cpu[c].sse
    BY DEF Fxsave
  <1>5. CpuInv(c)'
    <2>1. Place(c)'
      BY <1>1, <1>2, <1>3, <1>4, PcEffect DEF CpuInv, Place, SameThread
    <2>2. GsOf(c)' /\ FlagsOf(c)'
      BY <1>1, <1>2, <1>3, PcEffect DEF CpuInv, GsOf, FlagsOf, IfSet, KernelC
    <2>3. FramesOf(c)' /\ RegsOf(c)'
      BY <1>1, <1>2, <1>3, <1>4, PcEffect DEF CpuInv, FramesOf, RegsOf, SameThread
    <2>4. SseOf(c)'
      BY <1>1, <1>2, <1>3, <1>4, PcEffect DEF CpuInv, SseOf, Alone, SameThread
    <2> QED BY <2>1, <2>2, <2>3, <2>4 DEF CpuInv
  <1> QED BY <1>1, <1>2, <1>3, <1>4, <1>5, PcEffect, CpuStep

(* The instruction syscall. *)
LEMMA SyscallStep ==
    ASSUME IInv, NEW c \in Cpu, Syscall(c)
    PROVE  IInv'
  <1> DEFINE p == cpu[c]
             t == p.current_thread
             regs == [p.regs EXCEPT !["rcx"] = p.regs["rip"], !["r11"] = p.rflags]
  <1> USE DEF CurrentThread, At
  <1>1. p.pc = "user" /\ t \in Thread /\ t # NoThread
    BY EntryAssumption DEF Syscall, IInv, CpuInv, Place
  <1>2. Typed /\ CpuInv(c) /\ p.regs \in Registers /\ p.rflags = UserFlags
    BY <1>1 DEF IInv, Typed, CpuTyped, CpuType, CpuInv, FlagsOf
  <1>3. /\ UserFlags \in Token /\ UserFlags[2] = TRUE
        /\ Flags(TRUE, FALSE) \in Rflags /\ ~Flags(TRUE, FALSE)[3]
    BY FlagsLemma DEF UserFlags
  <1>4. regs \in Registers /\ regs["rcx"] = regs["rip"] /\ regs["r11"] = UserFlags
    BY <1>2, <1>3 DEF Registers, Register
  <1>5. /\ cpu' = [cpu EXCEPT ![c].pc = "syscall_entry", ![c].regs = regs,
                              ![c].rflags = Flags(TRUE, FALSE)]
        /\ view' = [view EXCEPT ![t].regs = regs]
    BY <1>2, <1>3 DEF Syscall
  <1> HIDE DEF regs
  <1>6. /\ cpu'[c].pc = "syscall_entry" /\ cpu'[c].regs = regs /\ cpu'[c].gs = p.gs
        /\ cpu'[c].rflags = Flags(TRUE, FALSE) /\ cpu'[c].sse = p.sse
        /\ cpu'[c].stack = p.stack /\ cpu'[c].timer = p.timer
        /\ SameThread(c) /\ OthersSame(c)
    BY <1>2, <1>5 DEF Typed, CpuTyped, CpuType, SameThread, OthersSame
  <1>7. /\ view'[t].regs = regs /\ view'[t].sse = view[t].sse
        /\ \A u \in Thread : u # t => view'[u] = view[u]
    BY <1>1, <1>2, <1>5 DEF Typed, ViewTyped, ViewType
  <1>8. UNCHANGED <<frames, ctx, sse_mem, sse_buffer, ready, born, dead, online>>
    BY DEF Syscall
  <1>9. Typed'
    <2>1. CpuTyped'
      <3>1. "syscall_entry" \in Pc
        BY DEF Pc
      <3>2. cpu'[c] \in CpuType
        BY <1>2, <1>3, <1>4, <1>5, <3>1 DEF Typed, CpuTyped, CpuType
      <3>3. cpu' = [cpu EXCEPT ![c] = cpu'[c]]
        BY <1>2, <1>5 DEF Typed, CpuTyped
      <3> QED BY <1>2, <3>2, <3>3, CpuTypedLemma
    <2>2. ViewTyped'
      BY <1>1, <1>2, <1>4, <1>5 DEF Typed, ViewTyped, ViewType
    <2> QED BY <1>2, <1>8, <2>1, <2>2 DEF Typed, FramesTyped, SseTyped, CtxTyped, SetsTyped
  <1>10. CpuInv(c)'
    <2>1. Place(c)'
      BY <1>1, <1>2, <1>6, <1>8 DEF CpuInv, Place, SameThread
    <2>2. GsOf(c)' /\ FlagsOf(c)'
      BY <1>1, <1>2, <1>3, <1>6 DEF CpuInv, GsOf, FlagsOf, IfSet, KernelC
    <2>3. FramesOf(c)' /\ RegsOf(c)'
      BY <1>1, <1>2, <1>4, <1>6, <1>7, <1>8 DEF CpuInv, FramesOf, RegsOf, SameThread
    <2>4. SseOf(c)'
      BY <1>1, <1>2, <1>6, <1>7, <1>8 DEF CpuInv, SseOf, Alone, SameThread
    <2> QED BY <2>1, <2>2, <2>3, <2>4 DEF CpuInv
  <1>11. Held(c)' = Held(c) /\ StackOf(t)'
    BY <1>1, <1>6, <1>8 DEF Held, IInv, StackOf, UserFrame, FaultFrame, SameThread
  <1> QED BY <1>1, <1>6, <1>7, <1>8, <1>9, <1>10, <1>11, LocalStep DEF SameThread, OthersSame

(* syscall_entry: the frame holds the registers of the program. *)
LEMMA SyscallEntryStep ==
    ASSUME IInv, NEW c \in Cpu, SyscallEntry(c)
    PROVE  IInv'
  <1> DEFINE p == cpu[c]
             t == p.current_thread
             f == Frame(p.regs, "SYSCALL", UserFlags, "user")
  <1> USE DEF CurrentThread, At
  <1>1. p.pc = "syscall_entry" /\ t \in Thread /\ t # NoThread /\ p.kernel_stack = t
    BY EntryAssumption DEF SyscallEntry, IInv, CpuInv, Place
  <1>2. Typed /\ CpuInv(c) /\ p.regs \in Registers /\ p.gs \in Side
    BY <1>1 DEF IInv, Typed, CpuTyped, CpuType
  <1>3. p.regs["rcx"] = p.regs["rip"] /\ p.regs["r11"] = UserFlags /\ p.regs = view[t].regs
    BY <1>1, <1>2 DEF CpuInv, RegsOf
  <1>4. /\ f \in FrameType /\ UserFrame(f) /\ f.regs = p.regs
        /\ f.rflags[2] /\ Flags(TRUE, FALSE) \in Rflags /\ ~Flags(TRUE, FALSE)[3]
    <2>1. UserFlags \in Rflags /\ UserFlags[2] /\ Flags(TRUE, FALSE) \in Rflags
          /\ ~Flags(TRUE, FALSE)[3]
      BY FlagsLemma DEF UserFlags
    <2>2. "user" \in Pc /\ "SYSCALL" \in Interrupt
      BY DEF Pc, Interrupt
    <2> QED BY <1>2, <1>3, <2>1, <2>2 DEF Frame, FrameType, UserFrame
  <1>5. /\ frames' = [frames EXCEPT ![t] = <<f>>]
        /\ cpu' = [cpu EXCEPT ![c].pc = "isr_common", ![c].stack = t, ![c].gs = p.gs]
    <2>1. [p.regs EXCEPT !["rip"] = p.regs["rcx"]] = p.regs
      BY <1>2, <1>3 DEF Registers, Register
    <2>2. Other(Other(p.gs)) = p.gs
      BY <1>2 DEF Other, Side
    <2> QED BY <1>1, <1>3, <2>1, <2>2 DEF SyscallEntry, PushTop
  <1> HIDE DEF f
  <1>6. /\ cpu'[c].pc = "isr_common" /\ cpu'[c].regs = p.regs /\ cpu'[c].gs = p.gs
        /\ cpu'[c].rflags = p.rflags /\ cpu'[c].sse = p.sse
        /\ cpu'[c].stack = t /\ cpu'[c].timer = p.timer
        /\ SameThread(c) /\ OthersSame(c)
    BY <1>2, <1>5 DEF Typed, CpuTyped, CpuType, SameThread, OthersSame
  <1>7. /\ frames'[t] = <<f>> /\ Len(frames'[t]) = 1 /\ frames'[t][1] = f /\ Last(frames'[t]) = f
        /\ \A u \in Stack : u # t => frames'[u] = frames[u]
    BY <1>1, <1>2, <1>5 DEF Typed, FramesTyped, Stack, Last
  <1>8. UNCHANGED <<ctx, sse_mem, sse_buffer, ready, born, dead, online, view>>
    BY DEF SyscallEntry
  <1>9. Typed'
    <2>1. CpuTyped'
      <3>1. "isr_common" \in Pc /\ t \in AnyStack
        BY <1>1 DEF Pc, AnyStack, Stack
      <3>2. cpu'[c] \in CpuType
        BY <1>2, <1>4, <1>5, <3>1 DEF Typed, CpuTyped, CpuType
      <3>3. cpu' = [cpu EXCEPT ![c] = cpu'[c]]
        BY <1>2, <1>5 DEF Typed, CpuTyped
      <3> QED BY <1>2, <3>2, <3>3, CpuTypedLemma
    <2>2. FramesTyped'
      <3>1. <<f>> \in Seq(FrameType) /\ Len(<<f>>) <= MaxFrames
        BY <1>4, EntryAssumption
      <3> QED BY <1>1, <1>2, <1>5, <3>1, FramesLemma DEF Stack
    <2> QED BY <1>2, <1>8, <2>1, <2>2 DEF Typed, ViewTyped, SseTyped, CtxTyped, SetsTyped
  <1>10. CpuInv(c)'
    <2>1. Place(c)'
      BY <1>1, <1>2, <1>6, <1>8 DEF CpuInv, Place, SameThread
    <2>2. GsOf(c)'
      BY <1>1, <1>2, <1>4, <1>6, <1>7 DEF CpuInv, GsOf, KernelC, Top
    <2>3. FlagsOf(c)'
      BY <1>1, <1>2, <1>4, <1>6 DEF CpuInv, FlagsOf, IfSet, KernelC
    <2>4. FramesOf(c)' /\ RegsOf(c)'
      BY <1>1, <1>2, <1>3, <1>4, <1>6, <1>7, <1>8, EntryAssumption
         DEF CpuInv, FramesOf, RegsOf, SameThread, Stack
    <2>5. SseOf(c)'
      BY <1>1, <1>2, <1>6, <1>8 DEF CpuInv, SseOf, Alone, SameThread
    <2> QED BY <2>1, <2>2, <2>3, <2>4, <2>5 DEF CpuInv
  <1>11. Held(c)' = Held(c) /\ StackOf(t)'
    BY <1>1, <1>4, <1>6, <1>7 DEF Held, StackOf, SameThread
  <1> QED BY <1>1, <1>6, <1>7, <1>8, <1>9, <1>10, <1>11, LocalStep DEF SameThread, OthersSame

(* An interrupt or a fault, where it can come. *)
LEMMA DeliverStep ==
    ASSUME IInv, NEW c \in Cpu, NEW no \in {"TIMER", "PF"}, Deliver(c, no), Room(c),
           \/ At(c, "user")
           \/ At(c, "pick") /\ no = "TIMER" /\ IfSet(c)
           \/ InSyscall(c) /\ no = "PF"
    PROVE  IInv'
  <1> DEFINE p == cpu[c]
             t == p.current_thread
             f == Frame(p.regs, no, p.rflags, p.pc)
             s == IF p.pc = "user" THEN <<f>> ELSE Append(frames[t], f)
             flags == Flags(p.rflags[2], FALSE)
             timer == p.timer /\ no # "TIMER"
  <1> USE DEF CurrentThread, At
  <1>1. /\ t \in Thread \cup {c} /\ t # NoThread /\ t \in Stack
        /\ p.pc # "user" => p.stack = t
        /\ p.rsp0 = t
    BY EntryAssumption DEF InSyscall, Begins, IInv, CpuInv, Place, Stack
  <1>2. Typed /\ CpuInv(c) /\ p \in CpuType /\ frames[t] \in Seq(FrameType)
    BY <1>1 DEF IInv, Typed, CpuTyped, FramesTyped
  <1>3. /\ p.pc \in {"user", "pick", "handler", "waiting"} /\ p.rflags \in Rflags
        /\ p.pc = "user" => t \in Thread
        /\ p.pc = "pick" => t = c /\ no = "TIMER" /\ IfSet(c)
        /\ p.pc \in {"handler", "waiting"} => InSyscall(c) /\ no = "PF"
    BY <1>2 DEF InSyscall, Begins, CpuInv, Place, CpuType
  <1>4. f \in FrameType /\ f.regs = p.regs /\ f.rflags = p.rflags /\ f.pc = p.pc /\ f.int_no = no
    <2>1. no \in Interrupt
      BY DEF Interrupt
    <2> QED BY <1>2, <2>1 DEF Frame, FrameType, CpuType
  <1>5. /\ frames' = [frames EXCEPT ![t] = s]
        /\ cpu' = [cpu EXCEPT ![c].pc = "isr_common", ![c].stack = t, ![c].rflags = flags,
                              ![c].timer = timer]
        /\ UNCHANGED <<ctx, sse_mem, sse_buffer, ready, born, dead, online, view>>
    <2>1. CASE p.pc = "user"
      BY <1>1, <2>1 DEF Deliver, PushTop
    <2>2. CASE p.pc # "user"
      BY <1>1, <1>2, <2>2 DEF Deliver, Push, Typed, FramesTyped
    <2> QED BY <2>1, <2>2
  <1>6. flags \in Rflags /\ ~flags[3] /\ timer \in BOOLEAN
    BY <1>3, FlagsLemma
  <1> HIDE DEF f, flags, timer
  <1>7. /\ cpu'[c].pc = "isr_common" /\ cpu'[c].regs = p.regs /\ cpu'[c].gs = p.gs
        /\ cpu'[c].rflags = flags /\ cpu'[c].sse = p.sse /\ cpu'[c].stack = t
        /\ SameThread(c) /\ OthersSame(c)
    BY <1>2, <1>5 DEF Typed, CpuTyped, CpuType, SameThread, OthersSame
  <1>8. /\ s \in Seq(FrameType) /\ Len(s) <= MaxFrames /\ s # <<>> /\ s[Len(s)] = f
        /\ p.pc = "user" => Len(s) = 1 /\ s[1] = f
        /\ p.pc = "pick" => Len(s) = 1 /\ s[1] = f
        /\ p.pc \in {"handler", "waiting"} => Len(s) = 2 /\ s[1] = frames[t][1] /\ s[2] = f
    <2>1. CASE p.pc = "user"
      BY <1>4, <2>1, EntryAssumption
    <2>2. CASE p.pc = "pick"
      <3>1. frames[t] = <<>>
        BY <1>2, <1>3, <2>2 DEF CpuInv, FramesOf
      <3>2. s = <<f>>
        BY <2>2, <3>1
      <3> HIDE DEF s
      <3> QED BY <1>4, <2>2, <3>2, EntryAssumption
    <2>3. CASE p.pc \in {"handler", "waiting"}
      <3>1. Len(frames[t]) = 1
        BY <1>3, <2>3, SyscallLemma
      <3>2. 1 < MaxFrames
        BY <1>1, <2>3, <3>1 DEF Room
      <3>3. s = Append(frames[t], f)
        BY <2>3
      <3> HIDE DEF s
      <3>4. Len(frames[t]) + 1 = 2 /\ 1 \in 1..Len(frames[t]) /\ 2 <= MaxFrames
        BY <3>1, <3>2, EntryAssumption
      <3>5. /\ s \in Seq(FrameType) /\ s # <<>> /\ Len(s) = Len(frames[t]) + 1
            /\ s[Len(frames[t]) + 1] = f
            /\ \A i \in 1..Len(frames[t]) : s[i] = frames[t][i]
        BY <1>2, <1>4, <3>3, AppendProperties
      <3>6. Len(s) = 2 /\ s[2] = f /\ s[1] = frames[t][1]
        BY <3>4, <3>5, Zenon
      <3> QED BY <2>3, <3>4, <3>5, <3>6
    <2> QED BY <1>3, <2>1, <2>2, <2>3
  <1> HIDE DEF s
  <1>9. frames'[t] = s /\ FramesTyped' /\ \A u \in Stack : u # t => frames'[u] = frames[u]
    BY <1>1, <1>2, <1>5, <1>8, FramesLemma
  <1>10. Typed'
    <2>1. "isr_common" \in Pc /\ t \in AnyStack
      BY <1>1 DEF Pc, AnyStack
    <2>2. cpu'[c] \in CpuType
      BY <1>2, <1>5, <1>6, <2>1 DEF Typed, CpuTyped, CpuType
    <2>3. cpu' = [cpu EXCEPT ![c] = cpu'[c]]
      BY <1>2, <1>5 DEF Typed, CpuTyped
    <2>4. CpuTyped'
      BY <1>2, <2>2, <2>3, CpuTypedLemma
    <2> QED BY <1>2, <1>5, <1>9, <2>4 DEF Typed, ViewTyped, SseTyped, CtxTyped, SetsTyped
  <1>11. /\ p.pc = "user" => UserFrame(f)
         /\ p.pc = "pick" => IdleFrame(f)
         /\ p.pc \in {"handler", "waiting"} => FaultFrame(t, f)
    <2>1. CASE p.pc = "user"
      BY <1>2, <1>4, <2>1 DEF CpuInv, FlagsOf, UserFrame
    <2>2. CASE p.pc = "pick"
      <3>1. f.rflags = Flags(FALSE, TRUE)
        <4>1. ~p.rflags[2] /\ p.rflags[3]
          BY <1>2, <1>3, <2>2 DEF CpuInv, FlagsOf, KernelC, IfSet
        <4> QED BY <1>3, <1>4, <4>1, FlagsLemma
      <3> QED BY <1>2, <1>3, <1>4, <2>2, <3>1 DEF CpuInv, RegsOf, IdleFrame
    <2>3. CASE p.pc \in {"handler", "waiting"}
      <3>1. f.rflags = Flags(FALSE, FALSE)
        <4>1. ~p.rflags[2] /\ ~p.rflags[3]
          BY <1>2, <2>3 DEF CpuInv, FlagsOf, KernelC, IfSet
        <4> QED BY <1>3, <1>4, <4>1, FlagsLemma
      <3> QED BY <1>1, <1>2, <1>3, <1>4, <2>3, <3>1 DEF CpuInv, RegsOf, FaultFrame
    <2> QED BY <2>1, <2>2, <2>3
  <1>12. StackOf(t)' \/ t = c
    <2>1. CASE p.pc = "user"
      BY <1>7, <1>8, <1>9, <1>11, <2>1 DEF StackOf, SameThread
    <2>2. CASE p.pc \in {"handler", "waiting"}
      BY <1>3, <1>7, <1>8, <1>9, <1>11, <2>2, SyscallLemma DEF StackOf, SameThread
    <2> QED BY <1>3, <2>1, <2>2
  <1>13. CpuInv(c)'
    <2>1. Place(c)'
      <3>1. ~(t \in dead)
        BY <1>2, <1>3 DEF CpuInv, Place
      <3> QED BY <1>1, <1>2, <1>5, <1>7, <3>1 DEF CpuInv, Place, SameThread
    <2>2. GsOf(c)'
      <3>1. Top(c)' = f
        BY <1>7, <1>8, <1>9 DEF Top, Last
      <3>2. p.gs = IF f.rflags[2] THEN "user" ELSE "cpu"
        <4>1. UserFlags[2]
          BY FlagsLemma DEF UserFlags
        <4> QED BY <1>2, <1>3, <1>4, <4>1 DEF CpuInv, GsOf, FlagsOf, KernelC
      <3> QED BY <1>7, <3>1, <3>2 DEF GsOf, KernelC
    <2>3. FlagsOf(c)'
      BY <1>6, <1>7 DEF FlagsOf, IfSet, KernelC
    <2>4. FramesOf(c)'
      <3>1. CASE p.pc = "user"
        <4>1. t \in Thread /\ t # c /\ frames'[c] = frames[c] /\ frames[c] = <<>>
          BY <1>2, <1>3, <1>9, <3>1, EntryAssumption DEF CpuInv, FramesOf, Stack
        <4>2. p.regs = view[t].regs
          BY <1>2, <3>1 DEF CpuInv, RegsOf
        <4> QED BY <1>4, <1>5, <1>7, <1>8, <1>9, <3>1, <4>1, <4>2 DEF FramesOf, SameThread
      <3>2. CASE p.pc = "pick"
        BY <1>3, <1>7, <1>8, <1>9, <1>11, <3>2, EntryAssumption DEF FramesOf, SameThread
      <3>3. CASE p.pc \in {"handler", "waiting"}
        <4>1. t \in Thread /\ t # c /\ frames'[c] = frames[c] /\ frames[c] = <<>>
          BY <1>2, <1>3, <1>9, <3>3, SyscallLemma, EntryAssumption DEF CpuInv, FramesOf, Stack
        <4>2. frames[t][1].regs = view[t].regs
          BY <1>3, <3>3, SyscallLemma
        <4> QED BY <1>5, <1>7, <1>8, <1>9, <3>3, <4>1, <4>2 DEF FramesOf, SameThread
      <3> QED BY <1>3, <3>1, <3>2, <3>3
    <2>5. RegsOf(c)'
      BY <1>7 DEF RegsOf
    <2>6. SseOf(c)'
      BY <1>2, <1>5, <1>7 DEF CpuInv, SseOf, Alone, SameThread
    <2> QED BY <2>1, <2>2, <2>3, <2>4, <2>5, <2>6 DEF CpuInv
  <1>14. Held(c)' = Held(c)
    BY <1>3, <1>7 DEF Held, SameThread
  <1>15. t \in Thread => StackOf(t)'
    BY <1>12, EntryAssumption
  <1> QED BY <1>1, <1>5, <1>7, <1>9, <1>10, <1>13, <1>14, <1>15, LocalStep DEF SameThread, OthersSame

(* The timer interrupt comes in a program or in the idle loop. *)
LEMMA TimerInterruptStep ==
    ASSUME IInv, NEW c \in Cpu, TimerInterrupt(c)
    PROVE  IInv'
  <1>1. cpu[c].timer /\ IfSet(c) /\ Room(c) /\ Deliver(c, "TIMER")
    BY DEF TimerInterrupt
  <1>2. cpu[c].pc \in Pc
    BY DEF IInv, Typed, CpuTyped, CpuType
  <1>3. cpu[c].pc \in {"user", "pick"}
    <2>1. UserFlags[2] /\ ~Flags(TRUE, FALSE)[3]
      BY FlagsLemma DEF UserFlags
    <2> QED BY <1>1, <1>2, <2>1 DEF IInv, CpuInv, Place, FlagsOf, Pc, KernelC, IfSet
  <1> QED BY <1>1, <1>3, DeliverStep DEF At

(* A page fault comes in a program or in a system call. *)
LEMMA PageFaultStep ==
    ASSUME IInv, NEW c \in Cpu, PageFault(c)
    PROVE  IInv'
  BY DeliverStep DEF PageFault

-----------------------------------------------------------------------------
(* System calls, and the way out of the kernel *)

(* The frame of a program, with a result in it. *)
Resulted(t) == [frames[t][1] EXCEPT !.regs = [frames[t][1].regs EXCEPT !["rax"] = Result(t)]]

(* That is the frame that syscall_handler leaves. *)
LEMMA ResultLemma ==
    ASSUME IInv, NEW c \in Cpu, InSyscall(c), NEW t, t = CurrentThread(c), NEW f, f = Resulted(t)
    PROVE  /\ WithResult(t) = [frames EXCEPT ![t] = <<f>>]
           /\ f \in FrameType
           /\ UserFrame(f)
           /\ f.int_no = "SYSCALL"
           /\ f.regs = [view[t].regs EXCEPT !["rax"] = Result(t)]
           /\ f.regs \in Registers
  <1> DEFINE g == frames[t][1]
             r == [g.regs EXCEPT !["rax"] = Result(t)]
  <1>1. /\ t \in Thread /\ t \in Stack /\ frames[t] \in Seq(FrameType) /\ Len(frames[t]) = 1
        /\ UserFrame(g) /\ g.int_no = "SYSCALL" /\ g.regs = view[t].regs
    BY SyscallLemma DEF Stack
  <1>2. g \in FrameType /\ Result(t) \in Token
    <2>1. g \in FrameType
      BY <1>1
    <2>2. Result(t) \in Token
      BY <1>1, TokenLemma
    <2> QED BY <2>1, <2>2
  <1>3. g.regs \in Registers
    BY <1>2 DEF FrameType
  <1>4. r \in Registers /\ r["rcx"] = g.regs["rcx"] /\ r["rip"] = g.regs["rip"] /\ r["r11"] = g.regs["r11"]
    BY <1>2, <1>3 DEF Registers, Register
  <1>5. f = [g EXCEPT !.regs = r]
    BY DEF Resulted
  <1> HIDE DEF r
  <1>6. /\ f \in FrameType /\ f.regs = r /\ f.int_no = g.int_no /\ f.rflags = g.rflags
        /\ f.pc = g.pc
    BY <1>2, <1>4, <1>5 DEF FrameType
  <1>7. UserFrame(f)
    BY <1>1, <1>4, <1>6 DEF UserFrame
  <1>8. WithResult(t) = [frames EXCEPT ![t] = <<f>>]
    <2>1. frames \in [Stack -> Seq(FrameType)]
      BY DEF IInv, Typed, FramesTyped
    <2>2. WithResult(t) = [frames EXCEPT ![t] = [frames[t] EXCEPT ![1] = f]]
      BY <1>1, <1>5, <2>1 DEF WithResult, r
    <2>3. [frames[t] EXCEPT ![1] = f] = <<f>>
      BY <1>1, <1>6
    <2> QED BY <2>2, <2>3
  <1> QED BY <1>1, <1>4, <1>6, <1>7, <1>8 DEF r

(* syscall_handler returns. *)
LEMMA SyscallHandlerStep ==
    ASSUME IInv, NEW c \in Cpu, SyscallHandler(c)
    PROVE  IInv'
  <1> DEFINE p == cpu[c]
             t == p.current_thread
             regs == [view[t].regs EXCEPT !["rax"] = Result(t)]
             f == Resulted(t)
  <1> USE DEF CurrentThread, At
  <1>1. /\ t \in Thread /\ t # NoThread /\ p.stack = t /\ t \in Stack
        /\ p.pc \in {"handler", "waiting"} /\ InSyscall(c)
    BY SyscallLemma DEF SyscallHandler, Stack
  <1>2. Typed /\ CpuInv(c)
    BY DEF IInv
  <1>3. /\ WithResult(t) = [frames EXCEPT ![t] = <<f>>]
        /\ f \in FrameType /\ UserFrame(f) /\ f.int_no = "SYSCALL"
        /\ f.regs = regs /\ regs \in Registers
    BY <1>1, ResultLemma
  <1>4. /\ frames' = [frames EXCEPT ![t] = <<f>>]
        /\ cpu' = [cpu EXCEPT ![c].pc = "isr_return"]
        /\ view' = [view EXCEPT ![t].regs = regs]
        /\ UNCHANGED <<ctx, sse_mem, sse_buffer, ready, born, dead, online>>
    BY <1>1, <1>3 DEF SyscallHandler
  <1> HIDE DEF f, regs
  <1>5. "isr_return" \in Pc
    BY DEF Pc, KernelC
  <1>6. /\ CpuTyped' /\ SameThread(c) /\ OthersSame(c)
        /\ cpu'[c].pc = "isr_return" /\ cpu'[c].regs = p.regs /\ cpu'[c].sse = p.sse
        /\ cpu'[c].gs = p.gs /\ cpu'[c].rflags = p.rflags
        /\ cpu'[c].stack = p.stack /\ cpu'[c].timer = p.timer
    BY <1>2, <1>4, <1>5, PcEffect
  <1>7. /\ view'[t].regs = regs /\ view'[t].sse = view[t].sse
        /\ \A u \in Thread : u # t => view'[u] = view[u]
    BY <1>1, <1>2, <1>4 DEF Typed, ViewTyped, ViewType
  <1>8. /\ FramesTyped' /\ frames'[t] = <<f>> /\ Len(frames'[t]) = 1 /\ frames'[t][1] = f
        /\ \A u \in Stack : u # t => frames'[u] = frames[u]
    <2>1. <<f>> \in Seq(FrameType) /\ Len(<<f>>) <= MaxFrames
      BY <1>3, EntryAssumption
    <2>2. Len(<<f>>) = 1 /\ <<f>>[1] = f
      OBVIOUS
    <2> QED BY <1>1, <1>2, <1>4, <2>1, <2>2, FramesLemma
  <1>9. Typed'
    <2>1. ViewTyped'
      BY <1>1, <1>2, <1>3, <1>4 DEF Typed, ViewTyped, ViewType
    <2> QED BY <1>2, <1>4, <1>6, <1>8, <2>1 DEF Typed, SseTyped, CtxTyped, SetsTyped
  <1>10. CpuInv(c)'
    <2>1. Place(c)'
      BY <1>1, <1>2, <1>4, <1>6 DEF CpuInv, Place, SameThread
    <2>2. GsOf(c)' /\ FlagsOf(c)'
      BY <1>1, <1>2, <1>6 DEF CpuInv, GsOf, FlagsOf, IfSet, KernelC
    <2>3. FramesOf(c)' /\ RegsOf(c)'
      BY <1>1, <1>2, <1>3, <1>6, <1>7, <1>8, EntryAssumption
         DEF CpuInv, FramesOf, RegsOf, SameThread, Stack
    <2>4. SseOf(c)'
      BY <1>1, <1>2, <1>4, <1>6, <1>7 DEF CpuInv, SseOf, Alone, SameThread
    <2> QED BY <2>1, <2>2, <2>3, <2>4 DEF CpuInv
  <1>11. Held(c)' = Held(c) /\ StackOf(t)'
    BY <1>1, <1>3, <1>6, <1>8 DEF Held, StackOf, SameThread
  <1> QED BY <1>1, <1>4, <1>6, <1>7, <1>8, <1>9, <1>10, <1>11, LocalStep DEF SameThread, OthersSame

(* The registers are popped, and the CPU goes on where the frame says. *)
LEMMA LeaveStep ==
    ASSUME IInv, NEW c \in Cpu, Leave(c)
    PROVE  IInv'
  <1> DEFINE p == cpu[c]
             t == p.current_thread
             f == Last(frames[t])
             sysret == [f.regs EXCEPT !["rcx"] = f.regs["rip"], !["r11"] = f.rflags]
             stack == IF f.pc = "user" THEN NoThread ELSE t
  <1> USE DEF CurrentThread, At
  <1>1. p.pc = "leave" /\ t \in Thread \cup {c} /\ t # NoThread /\ p.stack = t /\ t \in Stack
        /\ t \notin dead
    BY EntryAssumption DEF Leave, IInv, CpuInv, Place, Stack
  <1>2. Typed /\ CpuInv(c) /\ frames[t] \in Seq(FrameType) /\ (t \in Thread => StackOf(t))
    BY <1>1 DEF IInv, Typed, FramesTyped
  <1>3. /\ frames[t] # <<>> /\ (t \in Thread => frames[t][1].regs = view[t].regs)
        /\ t = c => Len(frames[t]) = 1 /\ IdleFrame(frames[t][1])
    BY <1>1, <1>2 DEF CpuInv, FramesOf
  <1>4. /\ f \in FrameType /\ Front(frames[t]) \in Seq(FrameType)
        /\ Len(Front(frames[t])) = Len(frames[t]) - 1
        /\ Len(frames[t]) = 1 => f = frames[t][1] /\ Front(frames[t]) = <<>>
        /\ Len(frames[t]) = 2 => f = frames[t][2] /\ Front(frames[t])[1] = frames[t][1]
    BY <1>2, <1>3, FrameLemma
  <1>5. \/ t = c /\ Len(frames[t]) = 1 /\ IdleFrame(f)
        \/ t \in Thread /\ Len(frames[t]) = 1 /\ UserFrame(f) /\ f.regs = view[t].regs
        \/ /\ t \in Thread /\ Len(frames[t]) = 2 /\ FaultFrame(t, f)
           /\ UserFrame(frames[t][1]) /\ frames[t][1].int_no = "SYSCALL"
    BY <1>1, <1>2, <1>3, <1>4 DEF StackOf
  <1>6. f.int_no = "SYSCALL" => f.pc = "user" /\ sysret = f.regs
    <2>1. f.int_no = "SYSCALL" => UserFrame(f)
      BY <1>5 DEF IdleFrame, FaultFrame
    <2> QED BY <1>4, <2>1 DEF UserFrame, FrameType, Registers, Register
  <1>7. /\ cpu' = [cpu EXCEPT ![c].pc = f.pc, ![c].regs = f.regs, ![c].rflags = f.rflags,
                              ![c].stack = stack]
        /\ frames' = [frames EXCEPT ![t] = Front(frames[t])]
        /\ UNCHANGED <<ctx, sse_mem, sse_buffer, ready, born, dead, online, view>>
    BY <1>1, <1>6 DEF Leave, Top
  <1> HIDE DEF f, stack
  <1>8. /\ cpu'[c].pc = f.pc /\ cpu'[c].regs = f.regs /\ cpu'[c].rflags = f.rflags
        /\ cpu'[c].stack = stack /\ cpu'[c].sse = p.sse
        /\ cpu'[c].gs = p.gs /\ cpu'[c].timer = p.timer
        /\ SameThread(c) /\ OthersSame(c)
    BY <1>2, <1>7 DEF Typed, CpuTyped, CpuType, SameThread, OthersSame
  <1>9. /\ FramesTyped' /\ frames'[t] = Front(frames[t])
        /\ \A u \in Stack : u # t => frames'[u] = frames[u]
    <2>1. Len(frames[t]) <= MaxFrames /\ Len(frames[t]) \in Nat
      BY <1>1, <1>2 DEF Typed, FramesTyped
    <2>2. Len(Front(frames[t])) <= MaxFrames
      BY <1>4, <2>1, EntryAssumption
    <2> QED BY <1>1, <1>2, <1>4, <1>7, <2>2, FramesLemma
  <1>10. Typed'
    <2>1. stack \in AnyStack
      BY <1>1 DEF stack, AnyStack
    <2>2. cpu'[c] \in CpuType
      BY <1>2, <1>4, <1>7, <2>1 DEF Typed, CpuTyped, CpuType, FrameType
    <2>3. cpu' = [cpu EXCEPT ![c] = cpu'[c]]
      BY <1>2, <1>7 DEF Typed, CpuTyped
    <2>4. CpuTyped'
      BY <1>2, <2>2, <2>3, CpuTypedLemma
    <2> QED BY <1>2, <1>7, <1>9, <2>4 DEF Typed, ViewTyped, SseTyped, CtxTyped, SetsTyped
  <1>11. p.gs = IF f.rflags[2] THEN "user" ELSE "cpu"
    BY <1>1, <1>2 DEF CpuInv, GsOf, Top, f
  <1>12. CpuInv(c)'
    <2>1. SseOf(c)'
      <3>1. f.pc \notin {"fxsaved", "loaded"}
        BY <1>5 DEF IdleFrame, UserFrame, FaultFrame
      <3> QED BY <1>1, <1>2, <1>7, <1>8, <3>1 DEF CpuInv, SseOf, Alone, SameThread
    <2>2. CASE t = c /\ Len(frames[t]) = 1 /\ IdleFrame(f)
      <3>1. f.pc = "pick" /\ ~f.rflags[2] /\ frames'[c] = <<>> /\ t \notin Thread
        BY <1>4, <1>9, <2>2, FlagsLemma, EntryAssumption DEF IdleFrame
      <3>2. Place(c)'
        BY <1>1, <1>2, <1>7, <1>8, <2>2, <3>1 DEF CpuInv, Place, SameThread, stack
      <3>3. GsOf(c)' /\ FlagsOf(c)'
        BY <1>8, <1>11, <3>1 DEF GsOf, FlagsOf, IfSet, KernelC
      <3>4. FramesOf(c)' /\ RegsOf(c)'
        BY <1>8, <2>2, <3>1 DEF FramesOf, RegsOf, SameThread, IdleFrame
      <3> QED BY <2>1, <3>2, <3>3, <3>4 DEF CpuInv
    <2>3. CASE t \in Thread /\ Len(frames[t]) = 1 /\ UserFrame(f) /\ f.regs = view[t].regs
      <3>1. f.pc = "user" /\ f.rflags = UserFlags /\ f.rflags[2] /\ t # c
        BY <2>3, FlagsLemma, EntryAssumption DEF UserFrame, UserFlags
      <3>2. Place(c)'
        BY <1>1, <1>2, <1>7, <1>8, <2>3, <3>1 DEF CpuInv, Place, SameThread, stack
      <3>3. GsOf(c)' /\ FlagsOf(c)'
        BY <1>8, <1>11, <3>1 DEF GsOf, FlagsOf, IfSet, KernelC
      <3>4. frames'[c] = <<>>
        BY <1>1, <1>2, <1>9, <3>1 DEF CpuInv, FramesOf, Stack
      <3>5. FramesOf(c)' /\ RegsOf(c)'
        BY <1>7, <1>8, <2>3, <3>1, <3>4 DEF FramesOf, RegsOf, SameThread
      <3> QED BY <2>1, <3>2, <3>3, <3>5 DEF CpuInv
    <2>4. CASE /\ t \in Thread /\ Len(frames[t]) = 2 /\ FaultFrame(t, f)
               /\ UserFrame(frames[t][1]) /\ frames[t][1].int_no = "SYSCALL"
      <3>1. f.pc \in {"handler", "waiting"} /\ ~f.rflags[2] /\ ~f.rflags[3] /\ t # c
        BY <2>4, FlagsLemma, EntryAssumption DEF FaultFrame
      <3>2. Place(c)'
        BY <1>1, <1>2, <1>7, <1>8, <2>4, <3>1 DEF CpuInv, Place, SameThread, stack
      <3>3. GsOf(c)' /\ FlagsOf(c)'
        BY <1>8, <1>11, <3>1 DEF GsOf, FlagsOf, IfSet, KernelC
      <3>4. frames'[c] = <<>>
        BY <1>1, <1>2, <1>9, <3>1 DEF CpuInv, FramesOf, Stack
      <3>5. Len(frames'[t]) = 1 /\ frames'[t][1] = frames[t][1] /\ frames'[t] # <<>>
        BY <1>4, <1>9, <2>4
      <3>6. FramesOf(c)'
        BY <1>3, <1>7, <1>8, <2>4, <3>1, <3>4, <3>5 DEF FramesOf, SameThread
      <3>7. RegsOf(c)'
        BY <1>8, <2>4, <3>1 DEF RegsOf, SameThread, FaultFrame
      <3> QED BY <2>1, <3>2, <3>3, <3>6, <3>7 DEF CpuInv
    <2> QED BY <1>5, <2>2, <2>3, <2>4
  <1>13. f.pc \in {"user", "pick", "handler", "waiting"}
    BY <1>5 DEF IdleFrame, UserFrame, FaultFrame
  <1>14. Held(c)' = Held(c)
    BY <1>1, <1>8, <1>13 DEF Held, SameThread
  <1>15. t \in Thread => StackOf(t)'
    <2>1. CASE Len(frames[t]) = 1
      BY <1>4, <1>8, <1>9, <2>1 DEF StackOf, SameThread
    <2>2. CASE Len(frames[t]) = 2
      <3>1. Len(frames'[t]) = 1 /\ frames'[t][1] = frames[t][1]
        BY <1>4, <1>9, <2>2
      <3> QED BY <1>5, <1>8, <2>2, <3>1, EntryAssumption DEF StackOf, SameThread
    <2> QED BY <1>5, <2>1, <2>2
  <1> QED BY <1>1, <1>7, <1>8, <1>9, <1>10, <1>12, <1>13, <1>14, <1>15, LocalStep
      DEF SameThread, OthersSame

(* exit: the thread does not run again. *)
LEMMA ExitStep ==
    ASSUME IInv, NEW c \in Cpu, Exit(c)
    PROVE  IInv'
  <1> DEFINE p == cpu[c]
             t == p.current_thread
  <1> USE DEF CurrentThread, At
  <1>1. /\ t \in Thread /\ t # NoThread /\ InSyscall(c) /\ p.stack = t
        /\ Len(frames[t]) = 1 /\ frames[t][1].int_no = "SYSCALL"
        /\ p.pc = "handler"
    BY SyscallLemma DEF Exit, InSyscall, Begins
  <1>2. Typed /\ CpuInv(c) /\ Ownership
    BY DEF IInv
  <1>3. /\ cpu' = [cpu EXCEPT ![c].pc = "schedule"]
        /\ dead' = dead \cup {t}
        /\ UNCHANGED <<frames, ctx, sse_mem, sse_buffer, ready, born, online, view>>
    BY DEF Exit
  <1>4. "schedule" \in Pc
    BY DEF Pc, KernelC
  <1>5. /\ CpuTyped' /\ SameThread(c) /\ OthersSame(c)
        /\ cpu'[c].pc = "schedule" /\ cpu'[c].regs = p.regs /\ cpu'[c].sse = p.sse
        /\ cpu'[c].gs = p.gs /\ cpu'[c].rflags = p.rflags
        /\ cpu'[c].stack = p.stack /\ cpu'[c].timer = p.timer
    BY <1>2, <1>3, <1>4, PcEffect
  <1>6. ~Parked(t) /\ Held(c) = t /\ t \in born /\ c \in online
    <2>1. ~Parked(t) /\ Held(c) = t
      BY <1>1, RunningNotParked
    <2> QED BY <1>1, <1>2, <2>1 DEF Ownership, CpuInv, Place
  <1>7. Typed'
    BY <1>2, <1>3, <1>5, <1>6 DEF Typed, FramesTyped, ViewTyped, SseTyped, CtxTyped, SetsTyped
  <1>8. CpuInv(c)'
    <2>1. Place(c)'
      BY <1>1, <1>2, <1>3, <1>5 DEF CpuInv, Place, SameThread
    <2>2. GsOf(c)' /\ FlagsOf(c)'
      BY <1>1, <1>2, <1>5 DEF CpuInv, GsOf, FlagsOf, IfSet, KernelC
    <2>3. FramesOf(c)' /\ RegsOf(c)'
      BY <1>1, <1>2, <1>3, <1>5 DEF CpuInv, FramesOf, RegsOf, SameThread
    <2>4. SseOf(c)'
      BY <1>1, <1>3, <1>5 DEF SseOf, SameThread
    <2> QED BY <2>1, <2>2, <2>3, <2>4 DEF CpuInv
  <1>9. \A d \in Cpu : CpuInv(d)'
    <2>1. dead' \subseteq Thread
      BY <1>7 DEF Typed, SetsTyped
    <2> QED BY <1>3, <1>5, <1>6, <1>8, <2>1, OtherCpus DEF OthersSame
  <1>10. \A u \in Thread : StackOf(u)'
    BY <1>3 DEF IInv, StackOf
  <1>11. \A d \in Cpu : Held(d)' = Held(d)
    BY <1>1, <1>5 DEF Held, SameThread, OthersSame
  <1>12. At(Bsp, "kmain")' => At(Bsp, "kmain")
    BY <1>5, EntryAssumption DEF OthersSame
  <1>13. \A x : Queued(x)' <=> Queued(x)
    BY <1>3 DEF Queued
  <1>14. Ownership'
    <2>1. \A d \in Cpu : Held(d)' \in born' \cup {NoThread} /\ ~Queued(Held(d))'
      BY <1>2, <1>3, <1>11 DEF Ownership, Queued
    <2>2. \A d, e \in Cpu : d # e /\ Held(d)' # NoThread => Held(d)' # Held(e)'
      BY <1>2, <1>11 DEF Ownership
    <2>3. \A u \in Thread : Queued(u)' => u \in born' \ dead'
      BY <1>2, <1>3, <1>6, <1>13 DEF Ownership
    <2>4. At(Bsp, "kmain")' =>
            First \notin dead' /\ ~Queued(First)' /\ \A d \in Cpu : Held(d)' # First
      BY <1>2, <1>3, <1>6, <1>11, <1>12, <1>13, EntryAssumption DEF Ownership
    <2>5. NoRepeat(ready)' /\ First \in born'
      BY <1>2, <1>3 DEF Ownership
    <2> QED BY <2>1, <2>2, <2>3, <2>4, <2>5 DEF Ownership
  <1>15. ParkedInv'
    <2>1. ASSUME NEW u \in Thread, Parked(u)' PROVE Parked(u)
      BY <1>5, <1>12, <1>13, <2>1 DEF Parked, OthersSame
    <2> QED BY <1>3, <2>1 DEF IInv, ParkedInv, Resumable, Alone
  <1>16. SchedulerContext'
    BY <1>3 DEF IInv, SchedulerContext
  <1> QED BY <1>7, <1>9, <1>10, <1>14, <1>15, <1>16 DEF IInv

(* fork: the child has the registers of its parent, and waits to be run. *)
LEMMA ForkStep ==
    ASSUME IInv, NEW c \in Cpu, NEW child \in Thread, Fork(c, child)
    PROVE  IInv'
  <1> DEFINE p == cpu[c]
             t == p.current_thread
             f == Resulted(t)
             regs == [view[t].regs EXCEPT !["rax"] = Result(t)]
             cregs == [view[t].regs EXCEPT !["rax"] = Zero]
             r == [frames[t][1] EXCEPT !.regs = [frames[t][1].regs EXCEPT !["rax"] = Zero]]
             v == [regs |-> cregs, sse |-> Zero, stage |-> 0]
  <1> USE DEF CurrentThread, At
  <1>1. /\ t \in Thread /\ t # NoThread /\ InSyscall(c) /\ p.stack = t /\ t \in Stack
        /\ Len(frames[t]) = 1 /\ frames[t][1].int_no = "SYSCALL" /\ UserFrame(frames[t][1])
        /\ frames[t][1].regs = view[t].regs /\ frames[t] \in Seq(FrameType)
        /\ p.pc = "handler"
    BY SyscallLemma DEF Fork, InSyscall, Begins, Stack
  <1>2. Typed /\ CpuInv(c) /\ Ownership
    BY DEF IInv
  <1>3. /\ WithResult(t) = [frames EXCEPT ![t] = <<f>>]
        /\ f \in FrameType /\ UserFrame(f) /\ f.int_no = "SYSCALL"
        /\ f.regs = regs /\ regs \in Registers
    BY <1>1, ResultLemma
  <1>4. /\ r \in FrameType /\ UserFrame(r) /\ r.regs = cregs /\ cregs \in Registers
    <2> DEFINE g == frames[t][1]
    <2>1. g \in FrameType
      BY <1>1
    <2>2. g.regs \in Registers /\ Zero \in Token
      BY <2>1, TokenLemma DEF FrameType
    <2>3. /\ cregs \in Registers /\ cregs["rcx"] = g.regs["rcx"]
          /\ cregs["rip"] = g.regs["rip"] /\ cregs["r11"] = g.regs["r11"]
      BY <1>1, <2>2 DEF Registers, Register
    <2>4. r = [g EXCEPT !.regs = cregs]
      BY <1>1
    <2> HIDE DEF cregs, r
    <2>5. /\ r \in FrameType /\ r.regs = cregs /\ r.int_no = g.int_no /\ r.rflags = g.rflags
          /\ r.pc = g.pc
      BY <2>1, <2>3, <2>4 DEF FrameType
    <2> QED BY <1>1, <2>3, <2>5 DEF UserFrame
  <1>5. child \notin born /\ child # t /\ child \in Stack /\ child # NoThread
    <2>1. child \notin born
      BY DEF Fork
    <2>2. t \in born
      BY <1>1, <1>2, EntryAssumption DEF Ownership, Held, CpuInv, Place
    <2> QED BY <2>1, <2>2, EntryAssumption DEF Stack
  <1>6. /\ frames' = [[frames EXCEPT ![t] = <<f>>] EXCEPT ![child] = <<r>>]
        /\ ctx' = [ctx EXCEPT ![child] = NewContext("isr_return")]
        /\ sse_mem' = [sse_mem EXCEPT ![child] = Zero]
        /\ ready' = Append(ready, child)
        /\ born' = born \cup {child}
        /\ cpu' = [cpu EXCEPT ![c].pc = "isr_return"]
        /\ UNCHANGED <<sse_buffer, dead, online>>
    BY <1>1, <1>3 DEF Fork
  <1>7. view' = [view EXCEPT ![t].regs = regs, ![child] = v]
    BY DEF Fork
  <1> HIDE DEF f, regs, cregs, r
  <1>8. "isr_return" \in Pc
    BY DEF Pc, KernelC
  <1>9. /\ CpuTyped' /\ SameThread(c) /\ OthersSame(c)
        /\ cpu'[c].pc = "isr_return" /\ cpu'[c].regs = p.regs /\ cpu'[c].sse = p.sse
        /\ cpu'[c].gs = p.gs /\ cpu'[c].rflags = p.rflags
        /\ cpu'[c].stack = p.stack /\ cpu'[c].timer = p.timer
    BY <1>2, <1>6, <1>8, PcEffect
  <1>10. /\ frames'[t] = <<f>> /\ Len(frames'[t]) = 1 /\ frames'[t][1] = f
         /\ frames'[child] = <<r>> /\ Len(frames'[child]) = 1 /\ frames'[child][1] = r
         /\ \A u \in Stack : u # t /\ u # child => frames'[u] = frames[u]
    BY <1>1, <1>2, <1>5, <1>6 DEF Typed, FramesTyped
  <1>11. /\ view'[t].regs = regs /\ view'[t].sse = view[t].sse
         /\ view'[child].regs = cregs /\ view'[child].sse = Zero
         /\ \A u \in Thread : u # t /\ u # child => view'[u] = view[u]
    BY <1>1, <1>2, <1>5, <1>7 DEF Typed, ViewTyped, ViewType
  <1>12. ready \in Seq(Thread) /\ NoRepeat(ready) /\ ~Has(ready, child)
    BY <1>2, <1>5 DEF Typed, SetsTyped, Ownership, Queued
  <1>13. /\ ready' \in Seq(Thread) /\ NoRepeat(ready')
         /\ \A x : Queued(x)' <=> (Queued(x) \/ x = child)
    BY <1>6, <1>12, AppendLemma DEF Queued
  <1>14. Typed'
    <2>1. FramesTyped'
      <3>1. <<f>> \in Seq(FrameType) /\ <<r>> \in Seq(FrameType)
        BY <1>3, <1>4
      <3>2. frames' \in [Stack -> Seq(FrameType)]
        BY <1>1, <1>2, <1>5, <1>6, <3>1 DEF Typed, FramesTyped
      <3>3. ASSUME NEW u \in Stack PROVE Len(frames'[u]) <= MaxFrames
        <4>1. CASE u = t \/ u = child
          <5>1. Len(frames'[u]) = 1
            BY <1>10, <4>1
          <5> QED BY <5>1, EntryAssumption
        <4>2. CASE u # t /\ u # child
          BY <1>2, <1>10, <4>2 DEF Typed, FramesTyped
        <4> QED BY <4>1, <4>2
      <3> QED BY <3>2, <3>3 DEF FramesTyped
    <2>2. ViewTyped'
      <3>1. v \in ViewType
        BY <1>4, TokenLemma DEF ViewType
      <3> HIDE DEF v
      <3>2. [view EXCEPT ![t].regs = regs] \in [Thread -> ViewType]
        BY <1>1, <1>2, <1>3 DEF Typed, ViewTyped, ViewType
      <3>3. view' = [[view EXCEPT ![t].regs = regs] EXCEPT ![child] = v]
        BY <1>7
      <3> QED BY <3>1, <3>2, <3>3 DEF ViewTyped
    <2>3. CtxTyped' /\ SseTyped'
      BY <1>2, <1>5, <1>6, <1>8, TokenLemma DEF Typed, CtxTyped, SseTyped, NewContext
    <2>4. SetsTyped'
      BY <1>2, <1>6, <1>13 DEF Typed, SetsTyped
    <2> QED BY <1>9, <2>1, <2>2, <2>3, <2>4 DEF Typed
  <1>15. CpuInv(c)'
    <2>1. Place(c)'
      BY <1>1, <1>2, <1>6, <1>9 DEF CpuInv, Place, SameThread
    <2>2. GsOf(c)' /\ FlagsOf(c)'
      BY <1>1, <1>2, <1>9 DEF CpuInv, GsOf, FlagsOf, IfSet, KernelC
    <2>3. frames'[c] = frames[c] /\ t # c
      BY <1>1, <1>10, EntryAssumption DEF Stack
    <2>4. FramesOf(c)' /\ RegsOf(c)'
      BY <1>1, <1>2, <1>3, <1>9, <1>10, <1>11, <2>3
         DEF CpuInv, FramesOf, RegsOf, SameThread
    <2>5. SseOf(c)'
      BY <1>1, <1>2, <1>6, <1>9, <1>11 DEF CpuInv, SseOf, Alone, SameThread
    <2> QED BY <2>1, <2>2, <2>4, <2>5 DEF CpuInv
  <1>16. ~Parked(t) /\ Held(c) = t /\ c \in online
    BY <1>1, <1>2, RunningNotParked DEF CpuInv, Place
  <1>17. \A d \in Cpu : CpuInv(d)'
    <2>1. dead' \subseteq Thread /\ born \subseteq Thread
      BY <1>2, <1>6 DEF Typed, SetsTyped
    <2>2. \A d \in Cpu \ {c} : cpu'[d] = cpu[d] /\ frames'[d] = frames[d]
      BY <1>1, <1>9, <1>10, EntryAssumption DEF OthersSame, Stack
    <2>3. \A u \in born : u # Held(c) =>
            frames'[u] = frames[u] /\ view'[u] = view[u] /\ (u \in dead' <=> u \in dead)
      BY <1>5, <1>6, <1>10, <1>11, <1>16, <2>1 DEF Stack
    <2> QED BY <1>6, <1>15, <1>16, <2>1, <2>2, <2>3, OtherCpus
  <1>18. \A u \in Thread : StackOf(u)'
    <2> TAKE u \in Thread
    <2>1. CASE u = t
      BY <1>3, <1>9, <1>10, <2>1 DEF StackOf, SameThread
    <2>2. CASE u = child
      BY <1>4, <1>10, <2>2 DEF StackOf
    <2>3. CASE u # t /\ u # child
      BY <1>10, <2>3 DEF IInv, StackOf, Stack
    <2> QED BY <2>1, <2>2, <2>3
  <1>19. \A d \in Cpu : Held(d)' = Held(d)
    BY <1>1, <1>9 DEF Held, SameThread, OthersSame
  <1>20. At(Bsp, "kmain")' => At(Bsp, "kmain")
    BY <1>9, EntryAssumption DEF OthersSame
  <1>21. Ownership'
    <2>1. \A d \in Cpu : Held(d)' \in born' \cup {NoThread} /\ ~Queued(Held(d))'
      <3> TAKE d \in Cpu
      <3>1. Held(d) # child /\ Held(d) \in born \cup {NoThread} /\ ~Queued(Held(d))
        BY <1>2, <1>5 DEF Ownership
      <3>2. Queued(Held(d))' <=> Has(ready', Held(d))
        BY <1>19 DEF Queued
      <3>3. Has(ready', Held(d)) <=> (Has(ready, Held(d)) \/ Held(d) = child)
        BY <1>13 DEF Queued
      <3> QED BY <1>6, <1>19, <3>1, <3>2, <3>3 DEF Queued
    <2>2. \A d, e \in Cpu : d # e /\ Held(d)' # NoThread => Held(d)' # Held(e)'
      BY <1>2, <1>19 DEF Ownership
    <2>3. \A u \in Thread : Queued(u)' => u \in born' \ dead'
      BY <1>2, <1>5, <1>6, <1>13 DEF Ownership, Typed, SetsTyped
    <2>4. At(Bsp, "kmain")' =>
            First \notin dead' /\ ~Queued(First)' /\ \A d \in Cpu : Held(d)' # First
      BY <1>2, <1>5, <1>6, <1>13, <1>19, <1>20, EntryAssumption DEF Ownership
    <2> QED BY <1>2, <1>6, <1>13, <2>1, <2>2, <2>3, <2>4 DEF Ownership
  <1>22. ParkedInv'
    <2>1. ASSUME NEW u \in Thread, Parked(u)', u # child PROVE Parked(u)
      BY <1>9, <1>13, <1>20, <2>1 DEF Parked, OthersSame
    <2>2. ASSUME NEW u \in Thread, u # child
          PROVE  ctx'[u] = ctx[u] /\ sse_mem'[u] = sse_mem[u]
      BY <1>2, <1>6, <2>2 DEF Typed, CtxTyped, SseTyped, Stack
    <2>3. ctx'[child].pc = "isr_return" /\ sse_mem'[child] = Zero
      BY <1>2, <1>5, <1>6 DEF Typed, CtxTyped, SseTyped, NewContext
    <2>4. ASSUME NEW u \in Thread, Parked(u), u # child
          PROVE  frames'[u] = frames[u] /\ view'[u] = view[u]
      BY <1>10, <1>11, <1>16, <2>4 DEF Stack
    <2>5. ASSUME NEW u \in Thread, Parked(u)', u \notin dead' PROVE Resumable(u)'
      <3>1. CASE u = child
        BY <1>4, <1>10, <1>11, <2>3, <3>1 DEF Resumable
      <3>2. CASE u # child
        <4>1. Resumable(u)
          BY <1>6, <2>1, <2>5, <3>2 DEF IInv, ParkedInv
        <4> QED BY <1>6, <2>1, <2>2, <2>4, <2>5, <3>2, <4>1 DEF Resumable, Alone
      <3> QED BY <3>1, <3>2
    <2> QED BY <2>5 DEF ParkedInv
  <1>23. SchedulerContext'
    BY <1>2, <1>6, EntryAssumption DEF IInv, SchedulerContext, Typed, CtxTyped, Stack
  <1> QED BY <1>14, <1>17, <1>18, <1>21, <1>22, <1>23 DEF IInv

-----------------------------------------------------------------------------
(* The switch of threads *)

(* What switch_thread and swtch leave in the CPU and on the old stack. *)
Switched(c, old, new, resume, state) ==
    /\ cpu'[c].current_thread = new /\ cpu'[c].rsp0 = new
    /\ cpu'[c].kernel_stack = new /\ cpu'[c].stack = new
    /\ cpu'[c].pc = ctx[new].pc /\ cpu'[c].regs["saved"] = ctx[new].saved
    /\ cpu'[c].sse = state.sse /\ cpu'[c].gs = state.gs /\ cpu'[c].rflags = state.rflags
    /\ cpu'[c].last_thread = state.last_thread /\ cpu'[c].timer = state.timer
    /\ \A t \in Stack : t # old => ctx'[t] = ctx[t]
    /\ old # NoThread => ctx'[old] = [pc |-> resume, saved |-> state.regs["saved"]]

(* They change nothing else. *)
LEMMA SwitchLemma ==
    ASSUME Typed, NEW c \in Cpu, NEW old, old \in Stack \cup {NoThread}, NEW new \in Stack,
           NEW resume, old # NoThread => resume \in Pc, NEW state, state \in CpuType,
           SwitchThread(c, old, new, resume, state)
    PROVE  CpuTyped' /\ CtxTyped' /\ OthersSame(c) /\ Switched(c, old, new, resume, state)
  <1> DEFINE regs == [state.regs EXCEPT !["saved"] = ctx[new].saved]
             pc == ctx[new].pc
             q == [state EXCEPT !.current_thread = new, !.rsp0 = new, !.kernel_stack = new,
                                !.stack = new, !.pc = pc, !.regs = regs]
  <1>1. /\ ctx[new].pc \in Pc /\ ctx[new].saved \in Token /\ state.regs \in Registers
        /\ new \in AnyStack
    BY DEF Typed, CtxTyped, CpuType, AnyStack
  <1>2. regs \in Registers /\ regs["saved"] = ctx[new].saved
    BY <1>1 DEF Registers, Register
  <1>3. cpu' = [cpu EXCEPT ![c] = q]
    BY DEF SwitchThread
  <1> HIDE DEF regs, pc
  <1>4. /\ q.current_thread = new /\ q.rsp0 = new /\ q.kernel_stack = new /\ q.stack = new
        /\ q.pc = pc /\ q.regs = regs /\ q.sse = state.sse /\ q.gs = state.gs
        /\ q.rflags = state.rflags /\ q.last_thread = state.last_thread /\ q.timer = state.timer
    BY DEF CpuType
  <1>5. q \in CpuType
    BY <1>1, <1>2 DEF CpuType, pc
  <1> HIDE DEF q
  <1>6. cpu'[c] = q /\ OthersSame(c) /\ CpuTyped'
    BY <1>3, <1>5 DEF Typed, CpuTyped, OthersSame
  <1>7. /\ CtxTyped'
        /\ \A t \in Stack : t # old => ctx'[t] = ctx[t]
        /\ old # NoThread => ctx'[old] = [pc |-> resume, saved |-> state.regs["saved"]]
    <2>1. CASE old = NoThread
      BY <2>1 DEF SwitchThread, Typed, CtxTyped
    <2>2. CASE old # NoThread
      <3>1. state.regs["saved"] \in Token
        BY <1>1 DEF Registers, Register
      <3> QED BY <2>2, <3>1 DEF SwitchThread, Typed, CtxTyped
    <2> QED BY <2>1, <2>2
  <1> QED BY <1>2, <1>4, <1>6, <1>7 DEF pc, Switched

(* The first schedule() of a CPU leads to its scheduler. *)
LEMMA ScheduleFirstStep ==
    ASSUME IInv, NEW c \in Cpu, ScheduleFirst(c)
    PROVE  IInv'
  <1> DEFINE p == cpu[c]
  <1> USE DEF CurrentThread, At
  <1>1. p.pc = "schedule" /\ p.current_thread = NoThread /\ SwitchThread(c, NoThread, c, "none", p)
    BY DEF ScheduleFirst
  <1>2. Typed /\ CpuInv(c) /\ Ownership /\ p \in CpuType /\ c \in Stack /\ c \notin Thread
    BY EntryAssumption DEF IInv, Typed, CpuTyped, Stack
  <1>3. /\ CpuTyped' /\ CtxTyped' /\ OthersSame(c)
        /\ cpu'[c].current_thread = c /\ cpu'[c].rsp0 = c
        /\ cpu'[c].kernel_stack = c /\ cpu'[c].stack = c
        /\ cpu'[c].pc = "scheduler" /\ cpu'[c].regs["saved"] = Zero
        /\ cpu'[c].sse = p.sse /\ cpu'[c].gs = p.gs /\ cpu'[c].rflags = p.rflags
        /\ cpu'[c].last_thread = p.last_thread /\ cpu'[c].timer = p.timer
        /\ \A t \in Stack : ctx'[t] = ctx[t]
    <2>1. ctx[c].pc = "scheduler" /\ ctx[c].saved = Zero
      BY DEF IInv, SchedulerContext
    <2>2. \A t \in Stack : t # NoThread
      BY EntryAssumption DEF Stack
    <2>3. CpuTyped' /\ CtxTyped' /\ OthersSame(c) /\ Switched(c, NoThread, c, "none", p)
      BY <1>1, <1>2, SwitchLemma
    <2> QED BY <2>1, <2>2, <2>3 DEF Switched
  <1>4. UNCHANGED <<frames, sse_mem, sse_buffer, ready, born, dead, online, view>>
    BY DEF ScheduleFirst
  <1>5. /\ p.last_thread = NoThread /\ ~p.timer /\ c \in online /\ p.gs = "cpu"
        /\ ~p.rflags[2] /\ frames[c] = <<>> /\ c \notin dead
    <2>1. dead \subseteq Thread
      BY <1>2 DEF Typed, SetsTyped
    <2> QED BY <1>1, <1>2, <2>1, EntryAssumption
            DEF CpuInv, Place, GsOf, FlagsOf, FramesOf, KernelC
  <1>6. Typed'
    BY <1>2, <1>3, <1>4 DEF Typed, FramesTyped, ViewTyped, SseTyped, SetsTyped
  <1>7. CpuInv(c)'
    <2>1. Place(c)'
      BY <1>1, <1>2, <1>3, <1>4, <1>5, EntryAssumption DEF Place
    <2>2. GsOf(c)' /\ FlagsOf(c)'
      BY <1>3, <1>5 DEF GsOf, FlagsOf, IfSet, KernelC
    <2>3. FramesOf(c)' /\ RegsOf(c)' /\ SseOf(c)'
      BY <1>2, <1>3, <1>4, <1>5 DEF FramesOf, RegsOf, SseOf
    <2> QED BY <2>1, <2>2, <2>3 DEF CpuInv
  <1>8. \A d \in Cpu : CpuInv(d)'
    <2>1. dead' \subseteq Thread
      BY <1>6 DEF Typed, SetsTyped
    <2> QED BY <1>3, <1>4, <1>5, <1>7, <2>1, OtherCpus DEF OthersSame
  <1>9. \A u \in Thread : StackOf(u)'
    BY <1>4 DEF IInv, StackOf
  <1>10. \A d \in Cpu : Held(d)' = Held(d)
    BY <1>1, <1>2, <1>3, <1>5, EntryAssumption DEF Held, OthersSame
  <1>11. At(Bsp, "kmain")' => At(Bsp, "kmain")
    BY <1>3, EntryAssumption DEF OthersSame
  <1>12. Ownership'
    <2>1. \A d \in Cpu : Held(d)' \in born' \cup {NoThread} /\ ~Queued(Held(d))'
      BY <1>2, <1>4, <1>10 DEF Ownership, Queued
    <2>2. \A d, e \in Cpu : d # e /\ Held(d)' # NoThread => Held(d)' # Held(e)'
      BY <1>2, <1>10 DEF Ownership
    <2>3. \A u \in Thread : Queued(u)' => u \in born' \ dead'
      BY <1>2, <1>4 DEF Ownership, Queued
    <2>4. At(Bsp, "kmain")' =>
            First \notin dead' /\ ~Queued(First)' /\ \A d \in Cpu : Held(d)' # First
      BY <1>2, <1>4, <1>10, <1>11 DEF Ownership, Queued
    <2>5. NoRepeat(ready)' /\ First \in born'
      BY <1>2, <1>4 DEF Ownership
    <2> QED BY <2>1, <2>2, <2>3, <2>4, <2>5 DEF Ownership
  <1>13. ParkedInv'
    <2>1. ASSUME NEW u \in Thread, Parked(u)' PROVE Parked(u)
      <3>1. u # NoThread
        BY EntryAssumption
      <3> QED BY <1>3, <1>4, <1>5, <1>11, <2>1, <3>1 DEF Parked, OthersSame, Queued
    <2> QED BY <1>3, <1>4, <2>1 DEF IInv, ParkedInv, Resumable, Alone, Stack
  <1>14. SchedulerContext'
    BY <1>3 DEF IInv, SchedulerContext, Stack
  <1> QED BY <1>6, <1>8, <1>9, <1>12, <1>13, <1>14 DEF IInv

(* schedule() leaves a thread resumable, in the hands of its CPU. *)
LEMMA ScheduleStep ==
    ASSUME IInv, NEW c \in Cpu, Schedule(c)
    PROVE  IInv'
  <1> DEFINE p == cpu[c]
             t == p.current_thread
             resume == AfterSchedule(t)
  <1> USE DEF At
  <1>1. /\ p.pc = "fxsaved" /\ SwitchThread(c, t, c, resume, p)
        /\ sse_mem' = [sse_mem EXCEPT ![t] = sse_buffer]
    BY DEF Schedule, CurrentThread
  <1>2. Typed /\ CpuInv(c) /\ Ownership /\ p \in CpuType /\ c \in Stack /\ c \notin Thread
    BY EntryAssumption DEF IInv, Typed, CpuTyped, Stack
  <1>3. /\ t \in Thread /\ t \in Stack /\ t # NoThread /\ t # c /\ Len(frames[t]) = 1
        /\ frames[t][1].int_no \in {"SYSCALL", "TIMER"} /\ frames[t][1].regs = view[t].regs
        /\ p.regs["saved"] = <<t, "saved">> /\ p.last_thread = t
    BY <1>1, <1>2, EntryAssumption DEF CpuInv, Place, FramesOf, RegsOf, Stack
  <1>4. /\ resume \in Pc
        /\ resume = "isr_return" \/ (resume = "waiting" /\ frames[t][1].int_no = "SYSCALL")
    <2>1. Last(frames[t]) = frames[t][1]
      BY <1>3 DEF Last
    <2>2. "isr_return" \in Pc /\ "waiting" \in Pc
      BY DEF Pc, KernelC
    <2> QED BY <1>3, <2>1, <2>2 DEF AfterSchedule
  <1> HIDE DEF resume
  <1>5. /\ CpuTyped' /\ CtxTyped' /\ OthersSame(c)
        /\ cpu'[c].current_thread = c /\ cpu'[c].rsp0 = c
        /\ cpu'[c].kernel_stack = c /\ cpu'[c].stack = c
        /\ cpu'[c].pc = "scheduler" /\ cpu'[c].regs["saved"] = Zero
        /\ cpu'[c].sse = p.sse /\ cpu'[c].gs = p.gs /\ cpu'[c].rflags = p.rflags
        /\ cpu'[c].last_thread = t /\ cpu'[c].timer = p.timer
        /\ \A u \in Stack : u # t => ctx'[u] = ctx[u]
        /\ ctx'[t].pc = resume /\ ctx'[t].saved = <<t, "saved">>
    <2>1. ctx[c].pc = "scheduler" /\ ctx[c].saved = Zero
      BY DEF IInv, SchedulerContext
    <2>2. CpuTyped' /\ CtxTyped' /\ OthersSame(c) /\ Switched(c, t, c, resume, p)
      BY <1>1, <1>2, <1>3, <1>4, SwitchLemma
    <2> QED BY <1>3, <2>1, <2>2 DEF Switched
  <1>6. UNCHANGED <<frames, sse_buffer, ready, born, dead, online, view>>
    BY DEF Schedule
  <1>7. /\ c \in online /\ p.gs = "cpu" /\ ~p.rflags[2] /\ ~p.rflags[3]
        /\ frames[c] = <<>> /\ c \notin dead
        /\ Alone => sse_buffer = p.sse /\ (t \notin dead => p.sse = view[t].sse)
    <2>1. dead \subseteq Thread
      BY <1>2 DEF Typed, SetsTyped
    <2> QED BY <1>1, <1>2, <1>3, <2>1 DEF CpuInv, Place, GsOf, FlagsOf, FramesOf, SseOf, KernelC, IfSet
  <1>8. Typed'
    BY <1>1, <1>2, <1>5, <1>6 DEF Typed, FramesTyped, ViewTyped, SseTyped, SetsTyped
  <1>9. CpuInv(c)'
    <2>1. Place(c)'
      BY <1>2, <1>5, <1>6, <1>7, EntryAssumption DEF Place
    <2>2. GsOf(c)' /\ FlagsOf(c)'
      BY <1>5, <1>7 DEF GsOf, FlagsOf, IfSet, KernelC
    <2>3. FramesOf(c)' /\ RegsOf(c)' /\ SseOf(c)'
      BY <1>2, <1>5, <1>6, <1>7 DEF FramesOf, RegsOf, SseOf
    <2> QED BY <2>1, <2>2, <2>3 DEF CpuInv
  <1>10. \A d \in Cpu : CpuInv(d)'
    <2>1. dead' \subseteq Thread
      BY <1>8 DEF Typed, SetsTyped
    <2> QED BY <1>5, <1>6, <1>7, <1>9, <2>1, OtherCpus DEF OthersSame
  <1>11. \A u \in Thread : StackOf(u)'
    BY <1>6 DEF IInv, StackOf
  <1>12. \A d \in Cpu : Held(d)' = Held(d)
    BY <1>3, <1>5 DEF Held, OthersSame, CurrentThread
  <1>13. At(Bsp, "kmain")' => At(Bsp, "kmain")
    BY <1>5, EntryAssumption DEF OthersSame
  <1>14. Ownership'
    <2>1. \A d \in Cpu : Held(d)' \in born' \cup {NoThread} /\ ~Queued(Held(d))'
      BY <1>2, <1>6, <1>12 DEF Ownership, Queued
    <2>2. \A d, e \in Cpu : d # e /\ Held(d)' # NoThread => Held(d)' # Held(e)'
      BY <1>2, <1>12 DEF Ownership
    <2>3. \A u \in Thread : Queued(u)' => u \in born' \ dead'
      BY <1>2, <1>6 DEF Ownership, Queued
    <2>4. At(Bsp, "kmain")' =>
            First \notin dead' /\ ~Queued(First)' /\ \A d \in Cpu : Held(d)' # First
      BY <1>2, <1>6, <1>12, <1>13 DEF Ownership, Queued
    <2>5. NoRepeat(ready)' /\ First \in born'
      BY <1>2, <1>6 DEF Ownership
    <2> QED BY <2>1, <2>2, <2>3, <2>4, <2>5 DEF Ownership
  <1>15. ParkedInv'
    <2> SUFFICES ASSUME NEW u \in Thread, Parked(u)', u \notin dead' PROVE Resumable(u)'
      BY DEF ParkedInv
    <2>1. CASE u = t
      <3>1. sse_mem'[t] = sse_buffer
        BY <1>1, <1>2, <1>3 DEF Typed, SseTyped
      <3> QED BY <1>3, <1>4, <1>5, <1>6, <1>7, <2>1, <3>1 DEF Resumable, Alone
    <2>2. CASE u # t
      <3>1. Parked(u)
        BY <1>5, <1>6, <1>13, <2>2 DEF Parked, OthersSame, Queued
      <3>2. sse_mem'[u] = sse_mem[u] /\ ctx'[u] = ctx[u]
        BY <1>1, <1>2, <1>5, <2>2 DEF Typed, SseTyped, Stack
      <3> QED BY <1>6, <3>1, <3>2 DEF IInv, ParkedInv, Resumable, Alone
    <2> QED BY <2>1, <2>2
  <1>16. SchedulerContext'
    BY <1>3, <1>5, EntryAssumption DEF IInv, SchedulerContext, Stack
  <1> QED BY <1>8, <1>10, <1>11, <1>14, <1>15, <1>16 DEF IInv

(* The scheduler puts the last thread back in the queue. *)
LEMMA SchedulerStep ==
    ASSUME IInv, NEW c \in Cpu, Scheduler(c)
    PROVE  IInv'
  <1> DEFINE p == cpu[c]
             old == p.last_thread
  <1> USE DEF CurrentThread, At
  <1>1. PICK due \in {FALSE, p.timer} : cpu' = [cpu EXCEPT ![c].pc = "pick", ![c].timer = due]
    BY DEF Scheduler
  <1>2. /\ p.pc = "scheduler"
        /\ ready' = IF old = NoThread \/ old \in dead THEN ready ELSE Append(ready, old)
        /\ UNCHANGED <<frames, ctx, sse_mem, sse_buffer, born, dead, online, view>>
    BY DEF Scheduler
  <1>3. /\ Typed /\ CpuInv(c) /\ Ownership /\ p \in CpuType /\ p.current_thread = c
        /\ c \notin Thread /\ c # NoThread /\ c \in online
    BY <1>2, EntryAssumption DEF IInv, Typed, CpuTyped, CpuInv, Place
  <1>4. due \in BOOLEAN /\ "pick" \in Pc
    BY <1>1, <1>3 DEF CpuType, Pc, KernelC
  <1>5. /\ cpu'[c].pc = "pick" /\ cpu'[c].regs = p.regs /\ cpu'[c].sse = p.sse
        /\ cpu'[c].gs = p.gs /\ cpu'[c].rflags = p.rflags /\ cpu'[c].stack = p.stack
        /\ SameThread(c) /\ OthersSame(c)
    BY <1>1, <1>3 DEF Typed, CpuTyped, CpuType, SameThread, OthersSame
  <1>6. Held(c) = old /\ ~Queued(old) /\ old \in AnyThread
    BY <1>2, <1>3 DEF Held, Ownership, CpuType
  <1>7. /\ ready' \in Seq(Thread) /\ NoRepeat(ready')
        /\ \A x : Queued(x)' <=> (Queued(x) \/ (x = old /\ old # NoThread /\ old \notin dead))
    <2>1. ready \in Seq(Thread) /\ NoRepeat(ready)
      BY <1>3 DEF Typed, SetsTyped, Ownership
    <2>2. CASE old = NoThread \/ old \in dead
      BY <1>2, <2>1, <2>2 DEF Queued
    <2>3. CASE old # NoThread /\ old \notin dead
      <3>1. ready' = Append(ready, old) /\ old \in Thread /\ ~Has(ready, old)
        BY <1>2, <1>6, <2>3 DEF Queued, AnyThread
      <3> QED BY <2>1, <2>3, <3>1, AppendLemma DEF Queued
    <2> QED BY <2>2, <2>3
  <1>8. Typed'
    <2>1. cpu'[c] \in CpuType
      BY <1>1, <1>3, <1>4 DEF Typed, CpuTyped, CpuType
    <2>2. cpu' = [cpu EXCEPT ![c] = cpu'[c]]
      BY <1>1, <1>3 DEF Typed, CpuTyped
    <2>3. CpuTyped'
      BY <1>3, <2>1, <2>2, CpuTypedLemma
    <2> QED BY <1>2, <1>3, <1>7, <2>3
            DEF Typed, FramesTyped, ViewTyped, SseTyped, CtxTyped, SetsTyped
  <1>9. CpuInv(c)'
    <2>1. Place(c)'
      <3>1. c \notin dead
        BY <1>3 DEF Typed, SetsTyped
      <3> QED BY <1>2, <1>3, <1>5, <3>1 DEF CpuInv, Place, SameThread
    <2>2. GsOf(c)' /\ FlagsOf(c)'
      BY <1>2, <1>3, <1>5 DEF CpuInv, GsOf, FlagsOf, IfSet, KernelC
    <2>3. FramesOf(c)' /\ RegsOf(c)' /\ SseOf(c)'
      BY <1>2, <1>3, <1>5 DEF CpuInv, FramesOf, RegsOf, SseOf, SameThread
    <2> QED BY <2>1, <2>2, <2>3 DEF CpuInv
  <1>10. \A d \in Cpu : CpuInv(d)'
    <2>1. dead' \subseteq Thread
      BY <1>8 DEF Typed, SetsTyped
    <2> QED BY <1>2, <1>3, <1>5, <1>9, <2>1, OtherCpus DEF OthersSame
  <1>11. \A u \in Thread : StackOf(u)'
    BY <1>2 DEF IInv, StackOf
  <1>12. Held(c)' = NoThread /\ \A d \in Cpu \ {c} : Held(d)' = Held(d)
    BY <1>3, <1>5 DEF Held, OthersSame, SameThread
  <1>13. At(Bsp, "kmain")' => At(Bsp, "kmain")
    BY <1>5, EntryAssumption DEF OthersSame
  <1>14. Ownership'
    <2>1. \A d \in Cpu : Held(d)' \in born' \cup {NoThread} /\ ~Queued(Held(d))'
      <3> TAKE d \in Cpu
      <3>1. \A x : Has(ready', x) => x \in Thread
        BY <1>7 DEF Has
      <3>2. CASE d = c
        BY <1>12, <3>1, <3>2, EntryAssumption DEF Queued
      <3>3. CASE d # c
        <4>1. /\ Held(d) \in born \cup {NoThread} /\ ~Queued(Held(d))
              /\ Held(d) = old => old = NoThread
          BY <1>3, <1>6, <3>3 DEF Ownership
        <4>2. ~Has(ready', Held(d))
          BY <1>7, <4>1 DEF Queued
        <4> QED BY <1>2, <1>12, <3>3, <4>1, <4>2 DEF Queued
      <3> QED BY <3>2, <3>3
    <2>2. \A d, e \in Cpu : d # e /\ Held(d)' # NoThread => Held(d)' # Held(e)'
      BY <1>3, <1>12 DEF Ownership
    <2>3. \A u \in Thread : Queued(u)' => u \in born' \ dead'
      BY <1>2, <1>3, <1>6, <1>7 DEF Ownership
    <2>4. At(Bsp, "kmain")' =>
            First \notin dead' /\ ~Queued(First)' /\ \A d \in Cpu : Held(d)' # First
      BY <1>2, <1>3, <1>6, <1>7, <1>12, <1>13, EntryAssumption DEF Ownership
    <2> QED BY <1>2, <1>3, <1>7, <2>1, <2>2, <2>3, <2>4 DEF Ownership
  <1>15. ParkedInv'
    <2>1. ASSUME NEW u \in Thread, Parked(u)', u \notin dead' PROVE Parked(u)
      <3>1. CASE Queued(u)'
        BY <1>2, <1>7, <3>1 DEF Parked
      <3>2. CASE ~Queued(u)'
        BY <1>5, <1>13, <2>1, <3>2 DEF Parked, OthersSame
      <3> QED BY <3>1, <3>2
    <2> QED BY <1>2, <2>1 DEF IInv, ParkedInv, Resumable, Alone
  <1>16. SchedulerContext'
    BY <1>2 DEF IInv, SchedulerContext
  <1> QED BY <1>8, <1>10, <1>11, <1>14, <1>15, <1>16 DEF IInv

(* The scheduler takes a thread from the queue. *)
LEMMA PickStep ==
    ASSUME IInv, NEW c \in Cpu, Pick(c)
    PROVE  IInv'
  <1> DEFINE p == cpu[c]
             new == Head(ready)
             flags == Flags(p.rflags[2], FALSE)
  <1> USE DEF CurrentThread, At
  <1>1. /\ p.pc = "pick" /\ ready # <<>> /\ ready' = Tail(ready)
        /\ sse_buffer' = sse_mem[new]
        /\ cpu' = [cpu EXCEPT ![c].pc = "loaded", ![c].last_thread = new, ![c].rflags = flags]
        /\ UNCHANGED <<frames, ctx, sse_mem, born, dead, online, view>>
    BY DEF Pick
  <1>2. /\ Typed /\ CpuInv(c) /\ Ownership /\ p \in CpuType /\ p.current_thread = c
        /\ c \notin Thread /\ c # NoThread /\ c \in online
    BY <1>1, EntryAssumption DEF IInv, Typed, CpuTyped, CpuInv, Place
  <1>3. /\ new \in Thread /\ ready' \in Seq(Thread) /\ NoRepeat(ready') /\ Queued(new)
        /\ \A x : Queued(x)' <=> (Queued(x) /\ x # new)
    <2>1. ready \in Seq(Thread) /\ NoRepeat(ready)
      BY <1>2 DEF Typed, SetsTyped, Ownership
    <2> QED BY <1>1, <2>1, TailLemma DEF Queued
  <1>4. new \in born \ dead /\ Resumable(new) /\ new # NoThread
    BY <1>2, <1>3, EntryAssumption DEF Ownership, IInv, ParkedInv, Parked
  <1>5. flags \in Rflags /\ flags[2] = p.rflags[2] /\ ~flags[3] /\ "loaded" \in Pc /\ new \in AnyThread
    <2>1. flags \in Rflags /\ flags[2] = p.rflags[2] /\ ~flags[3]
      BY <1>2, FlagsLemma DEF CpuType
    <2> QED BY <1>3, <2>1 DEF Pc, KernelC, AnyThread
  <1> HIDE DEF flags, new
  <1>6. /\ cpu'[c].pc = "loaded" /\ cpu'[c].regs = p.regs /\ cpu'[c].sse = p.sse
        /\ cpu'[c].gs = p.gs /\ cpu'[c].rflags = flags /\ cpu'[c].stack = p.stack
        /\ cpu'[c].current_thread = c /\ cpu'[c].rsp0 = p.rsp0
        /\ cpu'[c].kernel_stack = p.kernel_stack /\ cpu'[c].last_thread = new
        /\ cpu'[c].timer = p.timer /\ OthersSame(c)
    BY <1>1, <1>2 DEF Typed, CpuTyped, CpuType, OthersSame
  <1>7. Typed'
    <2>1. cpu'[c] \in CpuType
      BY <1>1, <1>2, <1>5 DEF Typed, CpuTyped, CpuType
    <2>2. cpu' = [cpu EXCEPT ![c] = cpu'[c]]
      BY <1>1, <1>2 DEF Typed, CpuTyped
    <2>3. CpuTyped'
      BY <1>2, <2>1, <2>2, CpuTypedLemma
    <2>4. SseTyped'
      BY <1>1, <1>2, <1>3 DEF Typed, SseTyped, Stack
    <2> QED BY <1>1, <1>2, <1>3, <2>3, <2>4
            DEF Typed, FramesTyped, ViewTyped, CtxTyped, SetsTyped
  <1>8. CpuInv(c)'
    <2>1. Place(c)'
      <3>1. c \notin dead
        BY <1>2 DEF Typed, SetsTyped
      <3> QED BY <1>1, <1>2, <1>3, <1>4, <1>6, <3>1 DEF CpuInv, Place
    <2>2. GsOf(c)' /\ FlagsOf(c)'
      BY <1>1, <1>2, <1>5, <1>6 DEF CpuInv, GsOf, FlagsOf, IfSet, KernelC
    <2>3. FramesOf(c)' /\ RegsOf(c)'
      BY <1>1, <1>2, <1>6 DEF CpuInv, FramesOf, RegsOf
    <2>4. SseOf(c)'
      BY <1>1, <1>2, <1>4, <1>6 DEF SseOf, Resumable, Alone
    <2> QED BY <2>1, <2>2, <2>3, <2>4 DEF CpuInv
  <1>9. \A d \in Cpu : CpuInv(d)'
    <2>1. dead' \subseteq Thread
      BY <1>7 DEF Typed, SetsTyped
    <2> QED BY <1>1, <1>2, <1>6, <1>8, <2>1, OtherCpus DEF OthersSame
  <1>10. \A u \in Thread : StackOf(u)'
    BY <1>1 DEF IInv, StackOf
  <1>11. Held(c)' = new /\ Held(c) = NoThread /\ \A d \in Cpu \ {c} : Held(d)' = Held(d)
    <2>1. Held(c)' = new
      BY <1>2, <1>6 DEF Held
    <2>2. Held(c) = NoThread
      BY <1>1, <1>2 DEF Held
    <2>3. \A d \in Cpu \ {c} : Held(d)' = Held(d)
      BY <1>6 DEF Held, OthersSame
    <2> QED BY <2>1, <2>2, <2>3
  <1>12. At(Bsp, "kmain")' => At(Bsp, "kmain")
    BY <1>6, EntryAssumption DEF OthersSame
  <1>13. \A d \in Cpu : Held(d) # new
    BY <1>2, <1>3 DEF Ownership
  <1>14. Ownership'
    <2>1. \A d \in Cpu : Held(d)' \in born' \cup {NoThread} /\ ~Queued(Held(d))'
      <3> TAKE d \in Cpu
      <3>1. ~Has(ready', new) /\ ~Has(ready', Held(d)) /\ Held(d) \in born \cup {NoThread}
        BY <1>2, <1>3 DEF Queued, Ownership
      <3> QED BY <1>1, <1>4, <1>11, <3>1 DEF Queued
    <2>2. \A d, e \in Cpu : d # e /\ Held(d)' # NoThread => Held(d)' # Held(e)'
      BY <1>2, <1>11, <1>13 DEF Ownership
    <2>3. \A u \in Thread : Queued(u)' => u \in born' \ dead'
      BY <1>1, <1>2, <1>3 DEF Ownership
    <2>4. At(Bsp, "kmain")' =>
            First \notin dead' /\ ~Queued(First)' /\ \A d \in Cpu : Held(d)' # First
      BY <1>1, <1>2, <1>3, <1>11, <1>12, EntryAssumption DEF Ownership
    <2> QED BY <1>1, <1>2, <1>3, <2>1, <2>2, <2>3, <2>4 DEF Ownership
  <1>15. ParkedInv'
    <2>1. ASSUME NEW u \in Thread, Parked(u)' PROVE Parked(u)
      <3>1. CASE u = new
        BY <1>3, <3>1 DEF Parked
      <3>2. CASE u # new
        BY <1>3, <1>6, <1>12, <2>1, <3>2 DEF Parked, OthersSame
      <3> QED BY <3>1, <3>2
    <2> QED BY <1>1, <2>1 DEF IInv, ParkedInv, Resumable, Alone
  <1>16. SchedulerContext'
    BY <1>1 DEF IInv, SchedulerContext
  <1> QED BY <1>7, <1>9, <1>10, <1>14, <1>15, <1>16 DEF IInv

(* The scheduler switches to the thread that it has taken. *)
LEMMA RunStep ==
    ASSUME IInv, NEW c \in Cpu, Run(c)
    PROVE  IInv'
  <1> DEFINE p == cpu[c]
             new == p.last_thread
             state == [p EXCEPT !.sse = sse_buffer, !.timer = TRUE]
  <1> USE DEF At
  <1>1. /\ p.pc = "loaded" /\ SwitchThread(c, c, new, "scheduler", state)
        /\ UNCHANGED <<frames, sse_mem, sse_buffer, ready, born, dead, online, view>>
    BY DEF Run
  <1>2. /\ Typed /\ CpuInv(c) /\ Ownership /\ p \in CpuType /\ p.current_thread = c
        /\ c \notin Thread /\ c # NoThread /\ c \in online /\ c \in Stack
    BY <1>1, EntryAssumption DEF IInv, Typed, CpuTyped, CpuInv, Place, Stack
  <1>3. new \in Thread \ dead /\ new \in Stack /\ new # c /\ new # NoThread
    BY <1>1, <1>2, EntryAssumption DEF CpuInv, Place, Stack
  <1>4. /\ state \in CpuType /\ state.sse = sse_buffer /\ state.timer = TRUE
        /\ state.gs = p.gs /\ state.rflags = p.rflags /\ state.last_thread = new
        /\ state.regs = p.regs
    <2>1. sse_buffer \in Token
      BY <1>2 DEF Typed, SseTyped
    <2> QED BY <1>2, <2>1 DEF CpuType
  <1> HIDE DEF state
  <1>5. /\ Resumable(new) /\ p.gs = "cpu" /\ ~p.rflags[2] /\ ~p.rflags[3]
        /\ p.regs["saved"] = Zero /\ frames[c] = <<>>
        /\ Alone => sse_buffer = view[new].sse
    <2>1. Resumable(new)
      BY <1>1, <1>3 DEF IInv, ParkedInv, Parked
    <2> QED BY <1>1, <1>2, <2>1 DEF CpuInv, GsOf, FlagsOf, RegsOf, FramesOf, SseOf, KernelC, IfSet
  <1>6. /\ CpuTyped' /\ CtxTyped' /\ OthersSame(c)
        /\ cpu'[c].current_thread = new /\ cpu'[c].rsp0 = new
        /\ cpu'[c].kernel_stack = new /\ cpu'[c].stack = new
        /\ cpu'[c].pc = ctx[new].pc /\ cpu'[c].regs["saved"] = ctx[new].saved
        /\ cpu'[c].sse = sse_buffer /\ cpu'[c].gs = "cpu" /\ cpu'[c].rflags = p.rflags
        /\ cpu'[c].last_thread = new
        /\ \A u \in Stack : u # c => ctx'[u] = ctx[u]
        /\ ctx'[c] = [pc |-> "scheduler", saved |-> Zero]
    <2>1. "scheduler" \in Pc
      BY DEF Pc, KernelC
    <2>2. CpuTyped' /\ CtxTyped' /\ OthersSame(c) /\ Switched(c, c, new, "scheduler", state)
      BY <1>1, <1>2, <1>3, <1>4, <2>1, SwitchLemma
    <2> QED BY <1>2, <1>4, <1>5, <2>2 DEF Switched
  <1>7. /\ cpu'[c].pc \in {"isr_return", "waiting"}
        /\ cpu'[c].pc = "waiting" => /\ cpu'[c].regs["saved"] = <<new, "saved">>
                                     /\ frames[new][1].int_no = "SYSCALL"
    BY <1>5, <1>6 DEF Resumable
  <1>8. Typed'
    BY <1>1, <1>2, <1>6 DEF Typed, FramesTyped, ViewTyped, SseTyped, SetsTyped
  <1>9. CpuInv(c)'
    <2>1. Place(c)'
      BY <1>1, <1>2, <1>3, <1>6, <1>7 DEF Place
    <2>2. GsOf(c)' /\ FlagsOf(c)'
      BY <1>5, <1>6, <1>7 DEF GsOf, FlagsOf, IfSet, KernelC
    <2>3. FramesOf(c)'
      <3>1. Len(frames[new]) = 1 /\ frames[new] # <<>> /\ frames[new][1].regs = view[new].regs
        BY <1>5 DEF Resumable
      <3> QED BY <1>1, <1>3, <1>5, <1>6, <1>7, <3>1 DEF FramesOf
    <2>4. RegsOf(c)'
      BY <1>6, <1>7 DEF RegsOf
    <2>5. SseOf(c)'
      BY <1>1, <1>5, <1>6, <1>7 DEF SseOf, Alone
    <2> QED BY <2>1, <2>2, <2>3, <2>4, <2>5 DEF CpuInv
  <1>10. \A d \in Cpu : CpuInv(d)'
    <2>1. dead' \subseteq Thread
      BY <1>8 DEF Typed, SetsTyped
    <2> QED BY <1>1, <1>2, <1>6, <1>9, <2>1, OtherCpus DEF OthersSame
  <1>11. \A u \in Thread : StackOf(u)'
    BY <1>1 DEF IInv, StackOf
  <1>12. \A d \in Cpu : Held(d)' = Held(d)
    BY <1>1, <1>3, <1>6 DEF Held, OthersSame, CurrentThread
  <1>13. At(Bsp, "kmain")' => At(Bsp, "kmain")
    BY <1>6, <1>7, EntryAssumption DEF OthersSame
  <1>14. Ownership'
    <2>1. \A d \in Cpu : Held(d)' \in born' \cup {NoThread} /\ ~Queued(Held(d))'
      BY <1>1, <1>2, <1>12 DEF Ownership, Queued
    <2>2. \A d, e \in Cpu : d # e /\ Held(d)' # NoThread => Held(d)' # Held(e)'
      BY <1>2, <1>12 DEF Ownership
    <2>3. \A u \in Thread : Queued(u)' => u \in born' \ dead'
      BY <1>1, <1>2 DEF Ownership, Queued
    <2>4. At(Bsp, "kmain")' =>
            First \notin dead' /\ ~Queued(First)' /\ \A d \in Cpu : Held(d)' # First
      BY <1>1, <1>2, <1>12, <1>13 DEF Ownership, Queued
    <2>5. NoRepeat(ready)' /\ First \in born'
      BY <1>1, <1>2 DEF Ownership
    <2> QED BY <2>1, <2>2, <2>3, <2>4, <2>5 DEF Ownership
  <1>15. ParkedInv'
    <2>1. ASSUME NEW u \in Thread, Parked(u)' PROVE Parked(u)
      BY <1>1, <1>6, <1>7, <1>13, <2>1 DEF Parked, OthersSame, Queued
    <2>2. \A u \in Thread : ctx'[u] = ctx[u]
      BY <1>2, <1>6 DEF Stack
    <2> QED BY <1>1, <2>1, <2>2 DEF IInv, ParkedInv, Resumable, Alone
  <1>16. SchedulerContext'
    BY <1>6 DEF IInv, SchedulerContext, Stack
  <1> QED BY <1>8, <1>10, <1>11, <1>14, <1>15, <1>16 DEF IInv

(* kmain hands the first thread to the scheduler. *)
LEMMA KmainStep ==
    ASSUME IInv, NEW c \in Cpu, Kmain(c)
    PROVE  IInv'
  <1> DEFINE p == cpu[c]
  <1> USE DEF CurrentThread, At
  <1>1. /\ p.pc = "kmain" /\ ready' = Append(ready, First)
        /\ cpu' = [cpu EXCEPT ![c].pc = "schedule"]
        /\ UNCHANGED <<frames, ctx, sse_mem, sse_buffer, born, dead, online, view>>
    BY DEF Kmain
  <1>2. /\ Typed /\ CpuInv(c) /\ Ownership /\ p.current_thread = NoThread
        /\ c = Bsp /\ c \in online /\ p.last_thread = NoThread /\ ~p.timer
    BY <1>1 DEF IInv, CpuInv, Place
  <1>3. "schedule" \in Pc
    BY DEF Pc, KernelC
  <1>4. /\ CpuTyped' /\ SameThread(c) /\ OthersSame(c)
        /\ cpu'[c].pc = "schedule" /\ cpu'[c].regs = p.regs /\ cpu'[c].sse = p.sse
        /\ cpu'[c].gs = p.gs /\ cpu'[c].rflags = p.rflags
        /\ cpu'[c].stack = p.stack /\ cpu'[c].timer = p.timer
    BY <1>1, <1>2, <1>3, PcEffect
  <1>5. /\ First \in born \ dead /\ ~Queued(First) /\ \A d \in Cpu : Held(d) # First
    BY <1>1, <1>2 DEF Ownership
  <1>6. /\ ready' \in Seq(Thread) /\ NoRepeat(ready')
        /\ \A x : Queued(x)' <=> (Queued(x) \/ x = First)
    <2>1. ready \in Seq(Thread) /\ NoRepeat(ready) /\ ~Has(ready, First) /\ First \in Thread
      BY <1>2, <1>5, EntryAssumption DEF Typed, SetsTyped, Ownership, Queued
    <2> QED BY <1>1, <2>1, AppendLemma DEF Queued
  <1>7. Typed'
    BY <1>1, <1>2, <1>4, <1>6 DEF Typed, FramesTyped, ViewTyped, SseTyped, CtxTyped, SetsTyped
  <1>8. CpuInv(c)'
    <2>1. Place(c)'
      BY <1>1, <1>2, <1>4, EntryAssumption DEF CpuInv, Place, SameThread
    <2>2. GsOf(c)' /\ FlagsOf(c)'
      BY <1>1, <1>2, <1>4 DEF CpuInv, GsOf, FlagsOf, IfSet, KernelC, SameThread
    <2>3. FramesOf(c)' /\ RegsOf(c)' /\ SseOf(c)'
      BY <1>1, <1>2, <1>4, EntryAssumption DEF CpuInv, FramesOf, RegsOf, SseOf, SameThread
    <2> QED BY <2>1, <2>2, <2>3 DEF CpuInv
  <1>9. \A d \in Cpu : CpuInv(d)'
    <2>1. dead' \subseteq Thread
      BY <1>7 DEF Typed, SetsTyped
    <2> QED BY <1>1, <1>2, <1>4, <1>8, <2>1, OtherCpus DEF OthersSame
  <1>10. \A u \in Thread : StackOf(u)'
    BY <1>1 DEF IInv, StackOf
  <1>11. \A d \in Cpu : Held(d)' = Held(d)
    BY <1>1, <1>2, <1>4, EntryAssumption DEF Held, OthersSame, SameThread
  <1>12. ~At(Bsp, "kmain")'
    BY <1>2, <1>4
  <1>13. Ownership'
    <2>1. \A d \in Cpu : Held(d)' \in born' \cup {NoThread} /\ ~Queued(Held(d))'
      <3> TAKE d \in Cpu
      <3>1. ~Has(ready', Held(d)) /\ Held(d) \in born \cup {NoThread}
        BY <1>2, <1>5, <1>6 DEF Queued, Ownership
      <3> QED BY <1>1, <1>11, <3>1 DEF Queued
    <2>2. \A d, e \in Cpu : d # e /\ Held(d)' # NoThread => Held(d)' # Held(e)'
      BY <1>2, <1>11 DEF Ownership
    <2>3. \A u \in Thread : Queued(u)' => u \in born' \ dead'
      BY <1>1, <1>2, <1>5, <1>6 DEF Ownership
    <2> QED BY <1>1, <1>2, <1>6, <1>12, <2>1, <2>2, <2>3 DEF Ownership
  <1>14. ParkedInv'
    <2>1. ASSUME NEW u \in Thread, Parked(u)' PROVE Parked(u)
      BY <1>1, <1>2, <1>4, <1>6, <1>12, <2>1 DEF Parked, OthersSame
    <2> QED BY <1>1, <2>1 DEF IInv, ParkedInv, Resumable, Alone
  <1>15. SchedulerContext'
    BY <1>1 DEF IInv, SchedulerContext
  <1> QED BY <1>7, <1>9, <1>10, <1>13, <1>14, <1>15 DEF IInv

-----------------------------------------------------------------------------
(* The theorems *)

(* The invariant holds at the end of kmain and of ap_start. *)
LEMMA InitInv == Init => IInv
  <1> SUFFICES ASSUME Init PROVE IInv
    OBVIOUS
  <1> DEFINE boot(c) ==
        [pc |-> IF c = Bsp THEN "kmain" ELSE IF c \in online THEN "schedule" ELSE "off",
         regs |-> [g \in Register |-> Junk], sse |-> Junk, gs |-> "cpu",
         rflags |-> Flags(FALSE, c = Bsp), stack |-> NoThread,
         current_thread |-> NoThread, rsp0 |-> NoThread, kernel_stack |-> NoThread,
         last_thread |-> NoThread, timer |-> FALSE]
         f == Frame(Entered(First), "NONE", UserFlags, "user")
  <1>1. Bsp \in online /\ online \subseteq Cpu
    BY EntryAssumption DEF Init
  <1>2. cpu = [c \in Cpu |-> boot(c)]
    BY DEF Init
  <1>3. ASSUME NEW c \in Cpu
        PROVE  /\ cpu[c] \in CpuType
               /\ cpu[c].pc = IF c = Bsp THEN "kmain" ELSE IF c \in online THEN "schedule" ELSE "off"
               /\ cpu[c].gs = "cpu" /\ cpu[c].rflags = Flags(FALSE, c = Bsp)
               /\ cpu[c].stack = NoThread /\ cpu[c].current_thread = NoThread
               /\ cpu[c].last_thread = NoThread /\ cpu[c].timer = FALSE
    <2>1. cpu[c] = boot(c)
      BY <1>2
    <2>2. Flags(FALSE, c = Bsp) \in Rflags
      <3>1. (c = Bsp) \in BOOLEAN
        OBVIOUS
      <3> QED BY <3>1, FlagsLemma
    <2>3. [g \in Register |-> Junk] \in Registers /\ Junk \in Token
      BY TokenLemma DEF Registers
    <2>4. boot(c).pc \in Pc
      BY DEF Pc, KernelC
    <2>5. "cpu" \in Side /\ NoThread \in AnyStack /\ NoThread \in AnyThread
      BY DEF Side, AnyStack, AnyThread
    <2>6. boot(c) \in CpuType
      BY <2>2, <2>3, <2>4, <2>5 DEF CpuType
    <2> QED BY <2>1, <2>6
  <1>4. f \in FrameType /\ UserFrame(f) /\ f.regs = Entered(First)
    <2>1. UserFlags \in Rflags /\ Entered(First) \in Registers
      BY FlagsLemma, TokenLemma, EntryAssumption DEF UserFlags
    <2>2. "user" \in Pc /\ "NONE" \in Interrupt
      BY DEF Pc, Interrupt
    <2> QED BY <2>1, <2>2 DEF Frame, FrameType, UserFrame
  <1>5. frames = [t \in Stack |-> IF t = First THEN <<f>> ELSE <<>>]
    BY DEF Init
  <1> HIDE DEF f, boot
  <1>6. /\ frames[First] = <<f>> /\ Len(frames[First]) = 1 /\ frames[First][1] = f
        /\ \A t \in Stack : t # First => frames[t] = <<>>
    BY <1>5, EntryAssumption DEF Stack
  <1>7. Typed
    <2>1. CpuTyped
      <3>1. \A c \in Cpu : boot(c) \in CpuType
        BY <1>2, <1>3
      <3> QED BY <1>2, <3>1 DEF CpuTyped
    <2>2. FramesTyped
      <3>1. <<f>> \in Seq(FrameType) /\ <<>> \in Seq(FrameType)
        BY <1>4
      <3>2. frames \in [Stack -> Seq(FrameType)]
        BY <1>5, <3>1
      <3>3. ASSUME NEW t \in Stack PROVE Len(frames[t]) <= MaxFrames
        <4>1. CASE t = First
          <5>1. Len(frames[t]) = 1
            BY <1>6, <4>1
          <5> QED BY <5>1, EntryAssumption
        <4>2. CASE t # First
          <5>1. frames[t] = <<>>
            BY <1>6, <4>2
          <5>2. Len(<<>>) = 0
            OBVIOUS
          <5> QED BY <5>1, <5>2, EntryAssumption
        <4> QED BY <4>1, <4>2
      <3> QED BY <3>2, <3>3 DEF FramesTyped
    <2>3. ViewTyped
      BY TokenLemma DEF Init, ViewTyped, ViewType
    <2>4. SseTyped /\ CtxTyped
      <3>1. "scheduler" \in Pc /\ "isr_return" \in Pc
        BY DEF Pc, KernelC
      <3> QED BY <3>1, TokenLemma DEF Init, SseTyped, CtxTyped, NewContext
    <2>5. SetsTyped
      BY <1>1, EntryAssumption DEF Init, SetsTyped
    <2> QED BY <2>1, <2>2, <2>3, <2>4, <2>5 DEF Typed
  <1>8. ASSUME NEW c \in Cpu PROVE CpuInv(c)
    <2>1. Place(c)
      <3>1. dead = {}
        BY DEF Init
      <3> QED BY <1>1, <1>3, <3>1, EntryAssumption DEF Place
    <2>2. GsOf(c)
      BY <1>3 DEF GsOf
    <2>3. FlagsOf(c)
      <3>1. ~Flags(FALSE, c = Bsp)[2]
        <4>1. (c = Bsp) \in BOOLEAN
          OBVIOUS
        <4> QED BY <4>1, FlagsLemma
      <3> QED BY <1>3, <3>1 DEF FlagsOf, IfSet, KernelC
    <2>4. FramesOf(c)
      BY <1>3, <1>6, EntryAssumption DEF FramesOf, Stack
    <2>5. RegsOf(c) /\ SseOf(c)
      BY <1>3, EntryAssumption DEF RegsOf, SseOf
    <2> QED BY <2>1, <2>2, <2>3, <2>4, <2>5 DEF CpuInv
  <1>9. \A t \in Thread : StackOf(t)
    BY <1>4, <1>6 DEF StackOf, Stack
  <1>10. \A c \in Cpu : Held(c) = NoThread
    BY <1>3, EntryAssumption DEF Held, At, CurrentThread
  <1>11. ready = <<>> /\ born = {First} /\ dead = {} /\ \A x : ~Queued(x)
    BY DEF Init, Queued, Has
  <1>12. Ownership
    BY <1>10, <1>11, EntryAssumption DEF Ownership, NoRepeat
  <1>13. ParkedInv
    <2>1. \A t \in Thread : Parked(t) => t = First
      BY <1>3, <1>11, EntryAssumption DEF Parked, At
    <2>2. Resumable(First)
      BY <1>4, <1>6, EntryAssumption DEF Init, Resumable, NewContext, Stack
    <2> QED BY <2>1, <2>2 DEF ParkedInv
  <1>14. SchedulerContext
    BY DEF Init, SchedulerContext, NewContext, Stack
  <1> QED BY <1>7, <1>8, <1>9, <1>12, <1>13, <1>14 DEF IInv

(* Every step keeps it. *)
LEMMA NextInv == IInv /\ [Next]_vars => IInv'
  <1> SUFFICES ASSUME IInv, [Next]_vars PROVE IInv'
    OBVIOUS
  <1>1. CASE UNCHANGED vars
    <2> USE <1>1 DEF vars
    <2>1. Typed'
      BY DEF IInv, Typed, CpuTyped, FramesTyped, ViewTyped, SseTyped, CtxTyped, SetsTyped
    <2>2. ASSUME NEW c \in Cpu PROVE CpuInv(c)'
      <3>1. Place(c)' <=> Place(c)
        BY DEF Place
      <3>2. (GsOf(c)' <=> GsOf(c)) /\ (FlagsOf(c)' <=> FlagsOf(c))
        BY DEF GsOf, FlagsOf, Top, IfSet
      <3>3. (FramesOf(c)' <=> FramesOf(c)) /\ (RegsOf(c)' <=> RegsOf(c))
        BY DEF FramesOf, RegsOf
      <3>4. SseOf(c)' <=> SseOf(c)
        BY DEF SseOf, Alone
      <3> QED BY <3>1, <3>2, <3>3, <3>4 DEF IInv, CpuInv
    <2>3. \A t \in Thread : StackOf(t)'
      BY DEF IInv, StackOf
    <2>4. Ownership'
      BY DEF IInv, Ownership, Held, Queued, At, CurrentThread
    <2>5. ParkedInv'
      BY DEF IInv, ParkedInv, Parked, Queued, At, Resumable, Alone
    <2>6. SchedulerContext'
      BY DEF IInv, SchedulerContext
    <2> QED BY <2>1, <2>2, <2>3, <2>4, <2>5, <2>6 DEF IInv
  <1>2. ASSUME NEW c \in Cpu, Halted(c) PROVE IInv'
    BY <1>1, <1>2 DEF Halted
  <1>3. ASSUME NEW c \in Cpu,
               \/ Compute(c) \/ Syscall(c) \/ SyscallEntry(c)
               \/ TimerInterrupt(c) \/ PageFault(c) \/ IsrCommon(c)
        PROVE  IInv'
    BY <1>3, ComputeStep, SyscallStep, SyscallEntryStep, TimerInterruptStep, PageFaultStep,
       IsrCommonStep
  <1>4. ASSUME NEW c \in Cpu,
               \/ TimerHandler(c) \/ FaultHandled(c) \/ Unhandled(c)
               \/ SyscallHandler(c) \/ Wait(c) \/ Exit(c)
               \/ \E child \in Thread : Fork(c, child)
        PROVE  IInv'
    BY <1>4, TimerHandlerStep, FaultHandledStep, UnhandledStep, SyscallHandlerStep, WaitStep,
       ExitStep, ForkStep
  <1>5. ASSUME NEW c \in Cpu,
               \/ ScheduleReturns(c) \/ ScheduleFirst(c) \/ Fxsave(c) \/ Schedule(c)
               \/ Scheduler(c) \/ Idle(c) \/ Pick(c) \/ Run(c) \/ Kmain(c)
               \/ IsrReturn(c) \/ Leave(c)
        PROVE  IInv'
    BY <1>5, ScheduleReturnsStep, ScheduleFirstStep, FxsaveStep, ScheduleStep, SchedulerStep,
       IdleStep, PickStep, RunStep, KmainStep, IsrReturnStep, LeaveStep
  <1> QED BY <1>1, <1>2, <1>3, <1>4, <1>5 DEF Next

(* The invariant holds in every state that the kernel reaches. *)
THEOREM Invariant == Spec => []IInv
  <1>1. Init => IInv
    BY InitInv
  <1>2. IInv /\ [Next]_vars => IInv'
    BY NextInv
  <1> QED BY <1>1, <1>2, PTL DEF Spec

(* The variables keep their types, and a stack never holds more frames     *)
(* than the bound: TypeOK, for every number of CPUs and threads.           *)
THEOREM TypeCorrect == Spec => []TypeOK
  <1>1. IInv => TypeOK
    <2> SUFFICES ASSUME IInv PROVE TypeOK
      OBVIOUS
    <2>1. cpu \in [Cpu -> [pc : Pc, regs : Registers, sse : Token, gs : {"cpu", "user"},
                           rflags : Rflags, stack : Stack \cup {NoThread},
                           current_thread : Stack \cup {NoThread}, rsp0 : Stack \cup {NoThread},
                           kernel_stack : Stack \cup {NoThread},
                           last_thread : Thread \cup {NoThread}, timer : BOOLEAN]]
      BY DEF IInv, Typed, CpuTyped, CpuType, Side, AnyStack, AnyThread
    <2>2. ASSUME NEW t \in Stack, NEW k \in DOMAIN frames[t]
          PROVE  /\ k <= MaxFrames
                 /\ frames[t][k] \in [regs : Registers, int_no : Interrupt, rflags : Rflags, pc : Pc]
      <3>1. frames[t] \in Seq(FrameType) /\ Len(frames[t]) <= MaxFrames
        BY DEF IInv, Typed, FramesTyped
      <3>2. Len(frames[t]) \in Nat /\ k \in 1..Len(frames[t]) /\ frames[t][k] \in FrameType
        BY <3>1, <2>2
      <3> QED BY <3>1, <3>2, EntryAssumption DEF FrameType
    <2> QED BY <2>1, <2>2 DEF IInv, Typed, ViewTyped, ViewType, SseTyped, CtxTyped, SetsTyped, TypeOK
  <1> QED BY <1>1, Invariant, PTL

(* gs is the cpu_t in C code and never in a program: the swapgs of         *)
(* syscall_entry, isr_common and isr_return are paired whatever interrupts *)
(* what.                                                                   *)
THEOREM GsAlwaysRight == Spec => []GsRight
  <1>1. IInv => GsRight
    BY DEF IInv, Typed, SetsTyped, CpuInv, GsOf, GsRight
  <1> QED BY <1>1, Invariant, PTL

(* The kernel is on the stack of the current thread, and no two CPUs are   *)
(* ever on the same one, nor is one queued that a CPU is on.               *)
THEOREM StackOwned == Spec => []OwnStack
  <1>1. IInv => OwnStack
    <2> SUFFICES ASSUME IInv PROVE OwnStack
      OBVIOUS
    <2> USE DEF CurrentThread, At
    <2>1. online \subseteq Cpu /\ ready \in Seq(Thread)
      BY DEF IInv, Typed, SetsTyped
    <2>2. ASSUME NEW c \in online
          PROVE  LET p == cpu[c] IN
                 /\ p.pc = "user" => p.current_thread \in Thread
                 /\ p.current_thread # NoThread =>
                      p.rsp0 = p.current_thread /\ p.kernel_stack = p.current_thread
                 /\ p.pc \in KernelC => p.stack = p.current_thread
      BY <2>1 DEF IInv, CpuInv, Place, KernelC
    <2>3. ASSUME NEW c \in Cpu, CurrentThread(c) \in Thread PROVE Held(c) = CurrentThread(c)
      BY <2>3, RunningNotParked
    <2>4. ASSUME NEW c \in online, NEW d \in online, c # d, CurrentThread(c) # NoThread
          PROVE  CurrentThread(c) # CurrentThread(d)
      <3>1. /\ CurrentThread(c) \in Thread \cup {c, NoThread}
            /\ CurrentThread(d) \in Thread \cup {d, NoThread}
        BY <2>1 DEF IInv, CpuInv, Place
      <3>2. CASE CurrentThread(c) \in Thread /\ CurrentThread(d) \in Thread
        BY <2>1, <2>3, <2>4, <3>2 DEF IInv, Ownership
      <3>3. CASE ~(CurrentThread(c) \in Thread /\ CurrentThread(d) \in Thread)
        BY <2>1, <2>4, <3>1, <3>3, EntryAssumption
      <3> QED BY <3>2, <3>3
    <2>5. ASSUME NEW c \in online, CurrentThread(c) \in Range(ready) PROVE FALSE
      <3>1. Queued(CurrentThread(c)) /\ CurrentThread(c) \in Thread
        BY <2>1, <2>5 DEF Range, Queued, Has
      <3> QED BY <2>1, <2>3, <3>1 DEF IInv, Ownership
    <2> QED BY <2>2, <2>4, <2>5 DEF OwnStack
  <1> QED BY <1>1, Invariant, PTL

(* A program finds its registers as it left them, the th->r that fork      *)
(* copies is the frame of the call under way, and C code has its           *)
(* callee-saved registers after a switch of stacks.                        *)
THEOREM ContextPreserved == Spec => []ContextKept
  <1>1. IInv => ContextKept
    <2> SUFFICES ASSUME IInv, NEW c \in online PROVE
            LET p == cpu[c]
                t == p.current_thread
            IN  /\ p.pc = "user" => p.regs = view[t].regs /\ p.rflags = UserFlags
                /\ InSyscall(c) => frames[t][1].regs = view[t].regs /\ Len(frames[t]) = 1
                /\ p.pc \in {"handler", "waiting"} => p.regs["saved"] = <<t, "saved">>
                /\ p.pc \in {"scheduler", "pick", "loaded"} => p.regs["saved"] = Zero
                /\ p.pc = "user" /\ Alone => p.sse = view[t].sse
      BY DEF ContextKept
    <2>1. c \in Cpu
      BY DEF IInv, Typed, SetsTyped
    <2>2. InSyscall(c) => /\ frames[cpu[c].current_thread][1].regs = view[cpu[c].current_thread].regs
                          /\ Len(frames[cpu[c].current_thread]) = 1
      BY <2>1, SyscallLemma DEF CurrentThread
    <2>3. CpuInv(c)
      BY <2>1 DEF IInv
    <2>4. cpu[c].pc \in {"handler", "waiting"} => cpu[c].current_thread # NoThread
      BY <2>3, EntryAssumption DEF CpuInv, Place
    <2> QED BY <2>2, <2>3, <2>4 DEF CpuInv, FlagsOf, RegsOf, SseOf, Place
  <1> QED BY <1>1, Invariant, PTL
=============================================================================

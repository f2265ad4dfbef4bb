----------------------------- MODULE Scheduler -----------------------------
(***************************************************************************)
(* Threads, processes and the SMP scheduler of the kernel:                 *)
(* proc/scheduler.c, the process life cycle of proc/process.c, and the     *)
(* system calls fork, exit and wait of syscall/sys_proc.c.                 *)
(*                                                                         *)
(* A process has exactly one thread (process_attach is called once per     *)
(* process, by exec_elf and by fork), so one member of Proc names both.    *)
(* Slots are never reused: a freed slot stays "FREED", which makes every   *)
(* use after kfree visible.                                                *)
(*                                                                         *)
(* The kernel is not preemptible: a CPU interleaves with the other CPUs    *)
(* only, and leaves a thread only where the thread calls schedule() or     *)
(* where the timer interrupts user mode.  One action is a stretch of code  *)
(* between two points where another CPU can see a difference.              *)
(*                                                                         *)
(* The lists of children have no lock of their own.  An edit of one is two *)
(* steps, and edits of one list that overlap leave links that no C program *)
(* may follow.  The model goes as far as that: "undefined" is set, and     *)
(* nothing happens afterwards.                                             *)
(***************************************************************************)
EXTENDS Naturals, FiniteSets, Sequences, SequencesExt

CONSTANTS
    Cpu,        \* the CPUs that run scheduler()
    Proc,       \* process slots, each with its thread
    InitProc,   \* init_proc, spawned by kmain
    NoProc,     \* the null pointer; as current_thread, the CPU's scheduler
    NoCpu       \* the value of a free scheduler_lock

ASSUME ConstantsAssumption ==
    /\ InitProc \in Proc
    /\ NoProc \notin Proc
    /\ NoCpu \notin Cpu

VARIABLES
    ready_queue,      \* threads waiting for a CPU, in order
    scheduler_lock,   \* the CPU that holds scheduler_lock
    th_state,         \* thread_t.state
    proc_state,       \* process_t.state
    parent,           \* process_t.parent
    children,         \* process_t.children, in order
    current_thread,   \* cpu_t.current_thread
    last_thread,      \* cpu_t.last_thread
    current_process,  \* cpu_t.current_process
    cpc,              \* where each CPU is in the kernel's scheduler
    arg,              \* the thread scheduler_insert or scheduler() works on
    tpc,              \* where each thread is in its system call
    child,            \* the process that a thread links, hands over or frees
    undefined,        \* memory is not what the code takes it for any more
    pid,              \* the global pid counter
    pidOf,            \* process_t.pid
    new_pid           \* the value of pid a CPU holds in process_spawn, 0 outside

runVars  == <<ready_queue, scheduler_lock, th_state>>
famVars  == <<parent, children, undefined>>
cpuVars  == <<current_thread, last_thread, current_process, cpc, arg>>
pidVars  == <<pid, pidOf, new_pid>>
vars     == <<runVars, proc_state, famVars, cpuVars, tpc, child, pidVars>>

ThreadState == {"UNUSED", "READY", "RUNNING", "FINISHED", "FREED"}
ProcState   == {"UNUSED", "READY", "RUNNING", "ZOMBIE", "FREED"}
CpuPc       == {"top", "insert", "append", "next", "first", "remove", "dispatch", "thread"}
ThreadPc    == {"user", "spawn", "link", "adopt", "orphan", "linked", "adopted", "exit",
                "panic", "scan", "free", "next", "unlink", "waited"}

(* The macro of list.h: it changes nothing when e is in no list *)
LIST_REMOVE(s, e) ==
    IF Contains(s, e)
    THEN RemoveAt(s, CHOOSE i \in 1..Len(s) : s[i] = e)
    ELSE s

process_alive(p) == proc_state[p] \in {"READY", "RUNNING"}

(***************************************************************************)
(* The process whose list of children thread t is editing.  The edit that  *)
(* hands a child to init ends where LIST_FOREACH has read the next link.   *)
(***************************************************************************)
Edits(t) ==
    CASE tpc[t] \in {"link", "adopt"} -> t
      [] tpc[t] \in {"orphan", "linked"} -> InitProc
      [] tpc[t] = "unlink" -> parent[child[t]]
      [] OTHER -> NoProc

Overlap(t) == \E u \in Proc \ {t} : Edits(u) = Edits(t)

(***************************************************************************)
(* The writes at the end of an edit, with the lists as they should become. *)
(* If another CPU is editing the same list, its writes and these mix: this *)
(* edit is lost or not, and some links lead to the wrong place.            *)
(***************************************************************************)
Edited(t, lists) ==
    IF Overlap(t)
    THEN undefined' = TRUE /\ children' \in {children, lists}
    ELSE children' = lists /\ UNCHANGED undefined

(***************************************************************************)
(* kmain has spawned init and inserted its thread; every CPU has entered   *)
(* scheduler() through the schedule() at the end of kmain or of ap_start.  *)
(***************************************************************************)
Init ==
    /\ ready_queue = <<InitProc>>
    /\ scheduler_lock = NoCpu
    /\ th_state = [t \in Proc |-> IF t = InitProc THEN "READY" ELSE "UNUSED"]
    /\ proc_state = [p \in Proc |-> IF p = InitProc THEN "READY" ELSE "UNUSED"]
    /\ parent = [p \in Proc |-> NoProc]
    /\ children = [p \in Proc |-> <<>>]
    /\ current_thread = [c \in Cpu |-> NoProc]
    /\ last_thread = [c \in Cpu |-> NoProc]
    /\ current_process = [c \in Cpu |-> NoProc]
    /\ cpc = [c \in Cpu |-> "top"]
    /\ arg = [c \in Cpu |-> NoProc]
    /\ tpc = [t \in Proc |-> "user"]
    /\ child = [t \in Proc |-> NoProc]
    /\ undefined = FALSE
    /\ pid = 2
    /\ pidOf = [p \in Proc |-> IF p = InitProc THEN 1 ELSE 0]
    /\ new_pid = [c \in Cpu |-> 0]

-----------------------------------------------------------------------------
(* The scheduler thread of a CPU *)

(* Mutant: the process that stops running becomes READY whatever it was *)
Switched_AlwaysReady(c, proc) ==
    [p \in Proc |->
        CASE p = proc -> "RUNNING"
          [] p = current_process[c] /\ p # proc -> "READY"
          [] OTHER -> proc_state[p]]

(***************************************************************************)
(* switch_process(proc), as a new value of proc_state: the process that    *)
(* was current on c stops being RUNNING, proc starts.                      *)
(***************************************************************************)
Switched(c, proc) ==
    LET old == current_process[c] IN
    [p \in Proc |->
        CASE p = proc -> "RUNNING"
          [] p = old /\ p # proc /\ proc_state[p] = "RUNNING" -> "READY"
          [] OTHER -> proc_state[p]]

(* schedule(), called on c by its current thread t, which goes on at pc *)
schedule(c, t, pc) ==
    /\ proc_state' = Switched(c, NoProc)
    /\ current_process' = [current_process EXCEPT ![c] = NoProc]
    /\ current_thread' = [current_thread EXCEPT ![c] = NoProc]
    /\ cpc' = [cpc EXCEPT ![c] = "top"]
    /\ tpc' = [tpc EXCEPT ![t] = pc]
    /\ UNCHANGED <<runVars, famVars, last_thread, arg, pidVars>>

(* Mutant: last_thread is not tested before it is put back *)
Requeue_NoNullTest(c) ==
    LET old == last_thread[c]
        again == old = NoProc \/ process_alive(old)
    IN
    /\ cpc[c] = "top"
    /\ cpc' = [cpc EXCEPT ![c] = IF again THEN "insert" ELSE "next"]
    /\ arg' = [arg EXCEPT ![c] = IF again THEN old ELSE NoProc]
    /\ th_state' = IF old = NoProc THEN th_state
                   ELSE [th_state EXCEPT ![old] = IF again THEN "READY" ELSE "FINISHED"]
    /\ UNCHANGED <<ready_queue, scheduler_lock, proc_state, famVars, current_thread,
                   last_thread, current_process, tpc, child, pidVars>>

(* Mutant: the thread of a dead process is not marked FINISHED *)
Requeue_NotFinished(c) ==
    LET old == last_thread[c]
        again == old # NoProc /\ th_state[old] # "FINISHED" /\ process_alive(old)
    IN
    /\ cpc[c] = "top"
    /\ cpc' = [cpc EXCEPT ![c] = IF again THEN "insert" ELSE "next"]
    /\ arg' = [arg EXCEPT ![c] = IF again THEN old ELSE NoProc]
    /\ th_state' = IF old = NoProc THEN th_state
                   ELSE [th_state EXCEPT ![old] = IF again THEN "READY" ELSE @]
    /\ UNCHANGED <<ready_queue, scheduler_lock, proc_state, famVars, current_thread,
                   last_thread, current_process, tpc, child, pidVars>>

(* scheduler(): put the thread that ran last back, or mark it FINISHED *)
Requeue(c) ==
    LET old == last_thread[c]
        again == old # NoProc /\ th_state[old] # "FINISHED" /\ process_alive(old)
    IN
    /\ cpc[c] = "top"
    /\ cpc' = [cpc EXCEPT ![c] = IF again THEN "insert" ELSE "next"]
    /\ arg' = [arg EXCEPT ![c] = IF again THEN old ELSE NoProc]
    /\ th_state' = IF old = NoProc THEN th_state
                   ELSE [th_state EXCEPT ![old] = IF again THEN "READY" ELSE "FINISHED"]
    /\ UNCHANGED <<ready_queue, scheduler_lock, proc_state, famVars, current_thread,
                   last_thread, current_process, tpc, child, pidVars>>

(* Mutant: the lock is taken without waiting for it *)
Acquire_NoWait(c) ==
    /\ ~undefined /\ cpc[c] \in {"insert", "next"}
    /\ scheduler_lock' = c
    /\ cpc' = [cpc EXCEPT ![c] = IF cpc[c] = "insert" THEN "append" ELSE "first"]
    /\ UNCHANGED <<ready_queue, th_state, proc_state, famVars, current_thread,
                   last_thread, current_process, arg, tpc, child, pidVars>>

(* spin_lock(&scheduler_lock), in scheduler_insert and in scheduler_next *)
Acquire(c) ==
    /\ ~undefined /\ cpc[c] \in {"insert", "next"}
    /\ scheduler_lock = NoCpu
    /\ scheduler_lock' = c
    /\ cpc' = [cpc EXCEPT ![c] = IF cpc[c] = "insert" THEN "append" ELSE "first"]
    /\ UNCHANGED <<ready_queue, th_state, proc_state, famVars, current_thread,
                   last_thread, current_process, arg, tpc, child, pidVars>>

(* Mutant: the thread goes to the head of the queue *)
scheduler_insert_AtHead(c) ==
    /\ cpc[c] = "append"
    /\ ready_queue' = <<arg[c]>> \o ready_queue
    /\ th_state' = [th_state EXCEPT ![arg[c]] = "READY"]
    /\ scheduler_lock' = NoCpu
    /\ cpc' = [cpc EXCEPT ![c] = IF current_thread[c] = NoProc THEN "next" ELSE "thread"]
    /\ arg' = [arg EXCEPT ![c] = NoProc]
    /\ UNCHANGED <<proc_state, famVars, current_thread, last_thread,
                   current_process, tpc, child, pidVars>>

(***************************************************************************)
(* scheduler_insert(arg) under the lock.  It returns to scheduler(), or to *)
(* fork on behalf of the current thread.                                   *)
(***************************************************************************)
scheduler_insert(c) ==
    /\ cpc[c] = "append"
    /\ ready_queue' = Append(ready_queue, arg[c])
    /\ th_state' = [th_state EXCEPT ![arg[c]] = "READY"]
    /\ scheduler_lock' = NoCpu
    /\ cpc' = [cpc EXCEPT ![c] = IF current_thread[c] = NoProc THEN "next" ELSE "thread"]
    /\ arg' = [arg EXCEPT ![c] = NoProc]
    /\ UNCHANGED <<proc_state, famVars, current_thread, last_thread,
                   current_process, tpc, child, pidVars>>

(***************************************************************************)
(* scheduler_next() under the lock, as far as LIST_FIRST.  A CPU that      *)
(* finds the queue empty releases the lock and asks again.                 *)
(***************************************************************************)
NextFirst(c) ==
    /\ cpc[c] = "first"
    /\ IF ready_queue = <<>>
       THEN /\ cpc' = [cpc EXCEPT ![c] = "next"]
            /\ scheduler_lock' = NoCpu
            /\ UNCHANGED arg
       ELSE /\ cpc' = [cpc EXCEPT ![c] = "remove"]
            /\ arg' = [arg EXCEPT ![c] = Head(ready_queue)]
            /\ UNCHANGED scheduler_lock
    /\ UNCHANGED <<ready_queue, th_state, proc_state, famVars, current_thread,
                   last_thread, current_process, tpc, child, pidVars>>

(* scheduler_next(): LIST_REMOVE of the thread found, and the unlock *)
NextRemove(c) ==
    /\ cpc[c] = "remove"
    /\ ready_queue' = LIST_REMOVE(ready_queue, arg[c])
    /\ scheduler_lock' = NoCpu
    /\ cpc' = [cpc EXCEPT ![c] = "dispatch"]
    /\ UNCHANGED <<th_state, proc_state, famVars, current_thread, last_thread,
                   current_process, arg, tpc, child, pidVars>>

(***************************************************************************)
(* scheduler(): run the thread that scheduler_next returned.  A thread     *)
(* whose process is dead is dropped and the loop starts over, with         *)
(* last_thread as it was.                                                  *)
(***************************************************************************)
Dispatch(c) ==
    LET new == arg[c] IN
    /\ cpc[c] = "dispatch"
    /\ arg' = [arg EXCEPT ![c] = NoProc]
    /\ IF process_alive(new)
       THEN /\ th_state' = [th_state EXCEPT ![new] = "RUNNING"]
            /\ last_thread' = [last_thread EXCEPT ![c] = new]
            /\ proc_state' = Switched(c, new)
            /\ current_process' = [current_process EXCEPT ![c] = new]
            /\ current_thread' = [current_thread EXCEPT ![c] = new]
            /\ cpc' = [cpc EXCEPT ![c] = "thread"]
       ELSE /\ th_state' = [th_state EXCEPT ![new] = "FINISHED"]
            /\ cpc' = [cpc EXCEPT ![c] = "top"]
            /\ UNCHANGED <<last_thread, proc_state, current_process, current_thread>>
    /\ UNCHANGED <<ready_queue, scheduler_lock, famVars, tpc, child, pidVars>>

-----------------------------------------------------------------------------
(* The thread that a CPU is running *)

Running(c, t) == cpc[c] = "thread" /\ current_thread[c] = t

(* The APIC timer interrupts user mode *)
Timer(c, t) ==
    /\ ~undefined /\ Running(c, t) /\ tpc[t] = "user"
    /\ schedule(c, t, "user")
    /\ UNCHANGED child

(***************************************************************************)
(* fork: pid++ in process_spawn is a load and a store, under no lock.      *)
(* ForkSpawn is the store and process_spawn as far as LIST_APPEND, which   *)
(* the lock of the parent covers and nobody else takes; ForkAppend is the  *)
(* rest of process_spawn and fork, down to the call of scheduler_insert.   *)
(***************************************************************************)
ForkLoad(c, t) ==
    /\ Running(c, t) /\ tpc[t] = "user"
    /\ new_pid' = [new_pid EXCEPT ![c] = pid]
    /\ tpc' = [tpc EXCEPT ![t] = "spawn"]
    /\ UNCHANGED <<runVars, proc_state, famVars, cpuVars, child, pid, pidOf>>

ForkSpawn(c, t, new) ==
    /\ Running(c, t) /\ tpc[t] = "spawn"
    /\ proc_state[new] = "UNUSED"
    /\ pid' = new_pid[c] + 1
    /\ pidOf' = [pidOf EXCEPT ![new] = new_pid[c]]
    /\ new_pid' = [new_pid EXCEPT ![c] = 0]
    /\ parent' = [parent EXCEPT ![new] = t]
    /\ proc_state' = [proc_state EXCEPT ![new] = "READY"]
    /\ child' = [child EXCEPT ![t] = new]
    /\ tpc' = [tpc EXCEPT ![t] = "link"]
    /\ UNCHANGED <<runVars, children, undefined, cpuVars>>

ForkAppend(c, t) ==
    LET new == child[t] IN
    /\ Running(c, t) /\ tpc[t] = "link"
    /\ Edited(t, [children EXCEPT ![t] = Append(@, new)])
    /\ th_state' = [th_state EXCEPT ![new] = "READY"]
    /\ child' = [child EXCEPT ![t] = NoProc]
    /\ tpc' = [tpc EXCEPT ![t] = "user"]
    /\ cpc' = [cpc EXCEPT ![c] = "insert"]
    /\ arg' = [arg EXCEPT ![c] = new]
    /\ UNCHANGED <<ready_queue, scheduler_lock, proc_state, parent, current_thread,
                   last_thread, current_process, pidVars>>

(***************************************************************************)
(* exit, process_exit, the loop over the children: with none it does       *)
(* nothing, else it starts with LIST_REMOVE of the first.                  *)
(***************************************************************************)
ExitAdopt(c, t) ==
    /\ Running(c, t) /\ tpc[t] = "user"
    /\ IF children[t] = <<>>
       THEN tpc' = [tpc EXCEPT ![t] = "adopted"] /\ UNCHANGED child
       ELSE /\ tpc' = [tpc EXCEPT ![t] = "adopt"]
            /\ child' = [child EXCEPT ![t] = Head(children[t])]
    /\ UNCHANGED <<runVars, proc_state, famVars, cpuVars, pidVars>>

(* Mutant: the adopted child keeps its old parent *)
AdoptRemove_KeepParent(c, t) ==
    /\ Running(c, t) /\ tpc[t] = "adopt"
    /\ Edited(t, [children EXCEPT ![t] = LIST_REMOVE(@, child[t])])
    /\ tpc' = [tpc EXCEPT ![t] = "orphan"]
    /\ UNCHANGED <<runVars, proc_state, parent, cpuVars, child, pidVars>>

(* The child is off the list and gets its new parent; LIST_APPEND starts *)
AdoptRemove(c, t) ==
    /\ Running(c, t) /\ tpc[t] = "adopt"
    /\ Edited(t, [children EXCEPT ![t] = LIST_REMOVE(@, child[t])])
    /\ parent' = [parent EXCEPT ![child[t]] = InitProc]
    /\ tpc' = [tpc EXCEPT ![t] = "orphan"]
    /\ UNCHANGED <<runVars, proc_state, cpuVars, child, pidVars>>

(* The child is on init's list, which only the lock of t covers *)
AdoptAppend(c, t) ==
    /\ Running(c, t) /\ tpc[t] = "orphan"
    /\ Edited(t, [children EXCEPT ![InitProc] = Append(@, child[t])])
    /\ tpc' = [tpc EXCEPT ![t] = "linked"]
    /\ UNCHANGED <<runVars, proc_state, parent, cpuVars, child, pidVars>>

(***************************************************************************)
(* LIST_FOREACH follows the link that LIST_APPEND has just cleared: the    *)
(* loop ends after the first child.  If another CPU has gone on with the   *)
(* list in between, the link leads on to a child of init's, or is read     *)
(* from a process that is freed already.                                   *)
(***************************************************************************)
AdoptNext(c, t) ==
    /\ Running(c, t) /\ tpc[t] = "linked"
    /\ Edited(t, children)
    /\ tpc' = [tpc EXCEPT ![t] = "adopted"]
    /\ child' = [child EXCEPT ![t] = NoProc]
    /\ UNCHANGED <<runVars, proc_state, parent, cpuVars, pidVars>>

(* Mutant: process_exit leaves the state as it is *)
ExitZombie_NoState(c, t) ==
    /\ Running(c, t) /\ tpc[t] = "adopted"
    /\ tpc' = [tpc EXCEPT ![t] = "exit"]
    /\ UNCHANGED <<runVars, proc_state, famVars, cpuVars, child, pidVars>>

ExitZombie(c, t) ==
    /\ Running(c, t) /\ tpc[t] = "adopted"
    /\ proc_state' = [proc_state EXCEPT ![t] = "ZOMBIE"]
    /\ tpc' = [tpc EXCEPT ![t] = "exit"]
    /\ UNCHANGED <<runVars, famVars, cpuVars, child, pidVars>>

(* exit calls schedule(); the statement after it is the kernel's panic *)
ExitYield(c, t) ==
    /\ Running(c, t) /\ tpc[t] = "exit"
    /\ schedule(c, t, "panic")
    /\ UNCHANGED child

WaitCall(c, t) ==
    /\ Running(c, t) /\ tpc[t] = "user"
    /\ tpc' = [tpc EXCEPT ![t] = "scan"]
    /\ UNCHANGED <<runVars, proc_state, famVars, cpuVars, child, pidVars>>

IsZombieAt(t, i) ==
    /\ i \in 1..Len(children[t])
    /\ proc_state[children[t][i]] = "ZOMBIE"

(* wait has found its first ZOMBIE child and calls process_free on it *)
WaitFound(c, t) ==
    /\ Running(c, t) /\ tpc[t] = "scan"
    /\ \E i \in 1..Len(children[t]) :
        /\ IsZombieAt(t, i)
        /\ \A j \in 1..(i - 1) : ~IsZombieAt(t, j)
        /\ child' = [child EXCEPT ![t] = children[t][i]]
    /\ tpc' = [tpc EXCEPT ![t] = "free"]
    /\ UNCHANGED <<runVars, proc_state, famVars, cpuVars, pidVars>>

(* wait has found none: it yields and looks again *)
WaitYield(c, t) ==
    /\ Running(c, t) /\ tpc[t] = "scan"
    /\ \A i \in 1..Len(children[t]) : ~IsZombieAt(t, i)
    /\ schedule(c, t, "scan")
    /\ UNCHANGED child

(* process_free yields while the child's thread is still on its way out *)
FreeYield(c, t) ==
    /\ Running(c, t) /\ tpc[t] = "free"
    /\ th_state[child[t]] \in {"RUNNING", "READY"}
    /\ schedule(c, t, "free")
    /\ UNCHANGED child

(* Mutant: process_free does not wait for the thread to be off its CPU *)
free_thread_NoWait(c, t) ==
    /\ Running(c, t) /\ tpc[t] = "free"
    /\ th_state' = [th_state EXCEPT ![child[t]] = "FREED"]
    /\ tpc' = [tpc EXCEPT ![t] = "next"]
    /\ UNCHANGED <<ready_queue, scheduler_lock, proc_state, famVars, cpuVars, child, pidVars>>

(* free_thread(th): the only thread is on no list of its own, and is freed *)
free_thread(c, t) ==
    /\ Running(c, t) /\ tpc[t] = "free"
    /\ th_state[child[t]] \notin {"RUNNING", "READY"}
    /\ th_state' = [th_state EXCEPT ![child[t]] = "FREED"]
    /\ tpc' = [tpc EXCEPT ![t] = "next"]
    /\ UNCHANGED <<ready_queue, scheduler_lock, proc_state, famVars, cpuVars, child, pidVars>>

(***************************************************************************)
(* LIST_FOREACH reads the next link from the thread that is freed.  It is  *)
(* still null, unless a thread on another CPU, in any system call that     *)
(* allocates, has been given that memory since: then th may be anything.   *)
(***************************************************************************)
FreeNext(c, t) ==
    /\ Running(c, t) /\ tpc[t] = "next"
    /\ undefined' \in {FALSE, \E d \in Cpu \ {c} : current_thread[d] # NoProc}
    /\ tpc' = [tpc EXCEPT ![t] = "unlink"]
    /\ UNCHANGED <<runVars, proc_state, parent, children, cpuVars, child, pidVars>>

(* The rest of process_free: LIST_REMOVE, under no lock at all, and kfree *)
process_free(c, t) ==
    LET p == child[t] IN
    /\ Running(c, t) /\ tpc[t] = "unlink"
    /\ Edited(t, [children EXCEPT ![parent[p]] = LIST_REMOVE(@, p)])
    /\ proc_state' = [proc_state EXCEPT ![p] = "FREED"]
    /\ tpc' = [tpc EXCEPT ![t] = "waited"]
    /\ child' = [child EXCEPT ![t] = NoProc]
    /\ UNCHANGED <<runVars, parent, cpuVars, pidVars>>

(* wait yields once more before it returns the pid *)
WaitReturn(c, t) ==
    /\ Running(c, t) /\ tpc[t] = "waited"
    /\ schedule(c, t, "user")
    /\ UNCHANGED child

-----------------------------------------------------------------------------
SchedulerStep(c) ==
    /\ ~undefined
    /\ Requeue(c) \/ scheduler_insert(c) \/ NextFirst(c) \/ NextRemove(c) \/ Dispatch(c)

(* What the kernel does by itself for the thread it runs *)
KernelStep(c, t) ==
    /\ ~undefined
    /\ \/ \E new \in Proc : ForkSpawn(c, t, new)
       \/ ForkAppend(c, t)
       \/ AdoptRemove(c, t) \/ AdoptAppend(c, t) \/ AdoptNext(c, t)
       \/ ExitZombie(c, t) \/ ExitYield(c, t)
       \/ WaitFound(c, t) \/ WaitYield(c, t) \/ WaitReturn(c, t)
       \/ FreeYield(c, t) \/ free_thread(c, t) \/ FreeNext(c, t) \/ process_free(c, t)

(***************************************************************************)
(* The system calls a thread may make.  fork is offered while there are    *)
(* unused slots for it and for every fork under way: a bound of the model, *)
(* the kernel has no limit on processes.                                   *)
(***************************************************************************)
SlotFree ==
    Cardinality({new \in Proc : proc_state[new] = "UNUSED"})
        > Cardinality({t \in Proc : tpc[t] = "spawn"})

UserStep(c, t) ==
    /\ ~undefined
    /\ \/ SlotFree /\ ForkLoad(c, t)
       \/ ExitAdopt(c, t)
       \/ WaitCall(c, t)

Next ==
    \/ \E c \in Cpu : SchedulerStep(c) \/ Acquire(c)
    \/ \E c \in Cpu, t \in Proc :
            Timer(c, t) \/ KernelStep(c, t) \/ UserStep(c, t)
    \/ undefined /\ UNCHANGED vars

Spec == Init /\ [][Next]_vars

(***************************************************************************)
(* Fairness: a CPU keeps executing, the timer that Dispatch arms fires,    *)
(* and a CPU that spins on scheduler_lock gets it if it is released again  *)
(* and again (cmpxchg gives no such promise; the hardware's arbitration    *)
(* does).  No system call is ever forced.                                  *)
(***************************************************************************)
Fairness ==
    \A c \in Cpu :
        /\ WF_vars(SchedulerStep(c))
        /\ SF_vars(Acquire(c))
        /\ WF_vars(\E t \in Proc : Timer(c, t))
        /\ WF_vars(\E t \in Proc : KernelStep(c, t))

FairSpec == Spec /\ Fairness

-----------------------------------------------------------------------------
(* Type invariant: every field holds a value its C type and code allow. *)
TypeOK ==
    /\ ready_queue \in Seq(Proc)
    /\ scheduler_lock \in Cpu \cup {NoCpu}
    /\ th_state \in [Proc -> ThreadState]
    /\ proc_state \in [Proc -> ProcState]
    /\ parent \in [Proc -> Proc \cup {NoProc}]
    /\ children \in [Proc -> Seq(Proc)]
    /\ current_thread \in [Cpu -> Proc \cup {NoProc}]
    /\ last_thread \in [Cpu -> Proc \cup {NoProc}]
    /\ current_process \in [Cpu -> Proc \cup {NoProc}]
    /\ cpc \in [Cpu -> CpuPc]
    /\ arg \in [Cpu -> Proc \cup {NoProc}]
    /\ tpc \in [Proc -> ThreadPc]
    /\ child \in [Proc -> Proc \cup {NoProc}]
    /\ undefined \in BOOLEAN
    /\ pid \in Nat
    /\ pidOf \in [Proc -> Nat]
    /\ new_pid \in [Cpu -> Nat]

(***************************************************************************)
(* The threads that CPU c has in hand: the one it runs, the one that its   *)
(* scheduler is about to look at as the last one, and the one it is        *)
(* inserting or dispatching.                                               *)
(***************************************************************************)
Holds(c) ==
    {t \in Proc :
        \/ t = current_thread[c]
        \/ t = last_thread[c] /\ cpc[c] = "top"
        \/ t = arg[c] /\ cpc[c] \in {"insert", "append", "dispatch"}}

InQueue(t) == Contains(ready_queue, t)

(* A sequence with no element twice *)
Distinct(s) == \A i, j \in 1..Len(s) : s[i] = s[j] => i = j

(***************************************************************************)
(* A thread is on at most one CPU, or in the ready queue once, never both: *)
(* no two CPUs run on one kernel stack, and no thread that is still        *)
(* running can be picked from the queue (scheduler.c:50-82).               *)
(***************************************************************************)
SingleOwner ==
    /\ Distinct(ready_queue)
    /\ \A c \in Cpu : \A t \in Holds(c) :
        /\ ~InQueue(t)
        /\ \A d \in Cpu \ {c} : t \notin Holds(d)

ProcAllocated(p) == proc_state[p] \notin {"UNUSED", "FREED"}
Allocated(p) == ProcAllocated(p) /\ th_state[p] \notin {"UNUSED", "FREED"}

(***************************************************************************)
(* No queue and no CPU's current, last or next thread or process, and as   *)
(* long as nothing is undefined no list of children either, refers to what *)
(* process_free has given back to the heap, although wait on one CPU frees *)
(* what another CPU was running, and although a process is on one list     *)
(* after another (process.c:85-87, 101-118).  A child is freed only once,  *)
(* first its thread and then the process.  Not claimed: the loop of        *)
(* process_free reads the thread that it has freed (process.c:108-112).    *)
(***************************************************************************)
NoUseAfterFree ==
    /\ \A t \in Proc : InQueue(t) => Allocated(t)
    /\ \A c \in Cpu, t \in Proc : t \in Holds(c) \/ t = current_process[c] => Allocated(t)
    /\ ~undefined =>
        /\ \A p, q \in Proc : Contains(children[q], p) => ProcAllocated(p)
        /\ \A t \in Proc : tpc[t] = "free" => proc_state[child[t]] = "ZOMBIE" /\ Allocated(child[t])
        /\ \A t \in Proc : tpc[t] \in {"next", "unlink"} => proc_state[child[t]] = "ZOMBIE"

(***************************************************************************)
(* A thread that has called exit is never run again: the panic after the   *)
(* schedule() in exit is unreachable (sys_proc.c:40-42).                   *)
(***************************************************************************)
ExitNeverReturns ==
    \A c \in Cpu, t \in Proc : Running(c, t) => tpc[t] # "panic"

(* p is on its way to a list: the LIST_APPEND of it has begun *)
Linking(p) == \E t \in Proc : tpc[t] \in {"link", "orphan"} /\ child[t] = p

(***************************************************************************)
(* As long as no two edits of one list have overlapped, every process but  *)
(* init is listed once, by its parent, until wait frees it: whatever other *)
(* CPUs do between the steps of fork, of the adoption in process_exit and  *)
(* of process_free, parent and children stay in agreement and LIST_REMOVE  *)
(* is given a member of the list (process.c:24, 82-88, 113).               *)
(***************************************************************************)
FamilyTree ==
    ~undefined =>
        /\ \A q \in Proc : Distinct(children[q])
        /\ \A p, q \in Proc :
            Contains(children[q], p) <=> (parent[p] = q /\ ProcAllocated(p) /\ ~Linking(p))

StaysDead(p) ==
    /\ proc_state[p] = "ZOMBIE" => proc_state'[p] \in {"ZOMBIE", "FREED"}
    /\ th_state[p] = "FINISHED" => th_state'[p] \in {"FINISHED", "FREED"}
    /\ proc_state[p] = "FREED" => proc_state'[p] = "FREED" /\ th_state'[p] = "FREED"

(***************************************************************************)
(* Death is final: a ZOMBIE process never becomes READY or RUNNING again   *)
(* although switch_process writes both states without looking (process.c:  *)
(* 55-76), a FINISHED thread is never READY or RUNNING again, and what is  *)
(* freed stays freed.                                                      *)
(***************************************************************************)
DeathIsFinal == [][\A p \in Proc : StaysDead(p)]_vars

(***************************************************************************)
(* A thread in the ready queue eventually runs, whatever the other threads *)
(* do short of undefined memory (scheduler.c:67-80).                       *)
(***************************************************************************)
ReadyRuns ==
    \A t \in Proc : InQueue(t) ~> (undefined \/ \E c \in Cpu : current_thread[c] = t)

(***************************************************************************)
(* A thread in wait with a ZOMBIE child eventually returns from wait,      *)
(* although process_free waits for the CPU that ran the child to let go of *)
(* its thread (process.c:110, sys_proc.c:51-65); unless memory becomes     *)
(* undefined, and with it the list of children.                            *)
(***************************************************************************)
WaitReturns ==
    \A t \in Proc :
        (tpc[t] = "scan" /\ \E i \in 1..Len(children[t]) : IsZombieAt(t, i))
            ~> (undefined \/ tpc[t] = "user")

(***************************************************************************)
(* What process.c:84 says: "Make init process adopt orphaned children".    *)
(* A process that has exited has no children left of its own.              *)
(***************************************************************************)
OrphansAdopted ==
    \A p \in Proc \ {InitProc} : ~undefined /\ proc_state[p] = "ZOMBIE" => children[p] = <<>>
=============================================================================

--------------------------- MODULE SchedulerProof ---------------------------
(***************************************************************************)
(* Theorems about Scheduler, for any number of CPUs and processes.  The    *)
(* inductive invariant says where every thread is: who holds it, and which *)
(* states its thread and its process can have there.                       *)
(***************************************************************************)
EXTENDS Scheduler, SequenceTheorems, TLAPS

-----------------------------------------------------------------------------
(* Lists without repetitions *)

(* What LIST_APPEND of a new element does to a list. *)
LEMMA AppendLemma ==
    ASSUME NEW S, NEW s \in Seq(S), NEW e \in S, Distinct(s), ~Contains(s, e)
    PROVE  /\ Append(s, e) \in Seq(S)
           /\ Distinct(Append(s, e))
           /\ \A x : Contains(Append(s, e), x) <=> (Contains(s, x) \/ x = e)
  BY DEF Distinct, Contains

(* What taking the first element off a list does. *)
LEMMA TailLemma ==
    ASSUME NEW S, NEW s \in Seq(S), Distinct(s), s # <<>>
    PROVE  /\ Head(s) \in S
           /\ Tail(s) \in Seq(S)
           /\ Contains(s, Head(s))
           /\ Distinct(Tail(s))
           /\ \A x : Contains(Tail(s), x) <=> (Contains(s, x) /\ x # Head(s))
  BY DEF Distinct, Contains

(* What LIST_REMOVE does: the element is gone, the others stay. *)
LEMMA RemoveLemma ==
    ASSUME NEW S, NEW s \in Seq(S), Distinct(s), NEW e \in S
    PROVE  /\ LIST_REMOVE(s, e) \in Seq(S)
           /\ Distinct(LIST_REMOVE(s, e))
           /\ \A x : Contains(LIST_REMOVE(s, e), x) <=> (Contains(s, x) /\ x # e)
  <1>1. CASE ~Contains(s, e)
    BY <1>1 DEF LIST_REMOVE
  <1>2. CASE Contains(s, e)
    <2> DEFINE k == CHOOSE i \in 1..Len(s) : s[i] = e
               r == RemoveAt(s, k)
    <2>1. k \in 1..Len(s) /\ s[k] = e
      BY <1>2 DEF Contains
    <2>2. LIST_REMOVE(s, e) = r
      BY <1>2 DEF LIST_REMOVE
    <2> HIDE DEF k
    <2>3. /\ r \in Seq(S)
          /\ Len(r) = Len(s) - 1
          /\ \A i \in 1..Len(r) : r[i] = IF i < k THEN s[i] ELSE s[i + 1]
      <3> DEFINE a == SubSeq(s, 1, k - 1)
                 b == SubSeq(s, k + 1, Len(s))
      <3>1. /\ a \in Seq(S) /\ Len(a) = k - 1
            /\ \A i \in 1..(k - 1) : a[i] = s[i]
        BY <2>1
      <3>2. /\ b \in Seq(S) /\ Len(b) = Len(s) - k
            /\ \A i \in 1..(Len(s) - k) : b[i] = s[k + i]
        BY <2>1
      <3>3. r = a \o b
        BY DEF RemoveAt
      <3> HIDE DEF a, b, r
      <3>4. /\ r \in Seq(S) /\ Len(r) = Len(a) + Len(b)
            /\ \A i \in 1..Len(r) : r[i] = IF i <= Len(a) THEN a[i] ELSE b[i - Len(a)]
        <4>1. /\ a \o b \in Seq(S)
              /\ Len(a \o b) = Len(a) + Len(b)
              /\ \A i \in 1..(Len(a) + Len(b)) :
                    (a \o b)[i] = IF i <= Len(a) THEN a[i] ELSE b[i - Len(a)]
          BY <3>1, <3>2, ConcatProperties, Zenon
        <4> QED BY <3>3, <4>1, Zenon
      <3>5. ASSUME NEW i \in 1..Len(r), ~(i < k) PROVE r[i] = s[i + 1]
        <4>1. i - (k - 1) \in 1..(Len(s) - k) /\ r[i] = b[i - (k - 1)]
          BY <2>1, <3>1, <3>2, <3>4, <3>5
        <4>2. k + (i - (k - 1)) = i + 1
          BY <2>1
        <4> QED BY <3>2, <4>1, <4>2
      <3> QED BY <2>1, <3>1, <3>2, <3>4, <3>5
    <2> HIDE DEF r
    <2>4. Distinct(r)
      <3>1. SUFFICES ASSUME NEW i \in 1..Len(r), NEW j \in 1..Len(r), r[i] = r[j]
                     PROVE  i = j
        BY DEF Distinct
      <3> DEFINE at(m) == IF m < k THEN m ELSE m + 1
      <3>2. Len(s) \in Nat
        OBVIOUS
      <3>3. at(i) \in 1..Len(s) /\ at(j) \in 1..Len(s)
        BY <2>1, <2>3, <3>2
      <3>4. r[i] = s[at(i)] /\ r[j] = s[at(j)]
        BY <2>3
      <3>5. at(i) = at(j)
        <4> HIDE DEF at
        <4> QED BY <3>1, <3>3, <3>4 DEF Distinct
      <3> QED BY <2>1, <2>3, <3>2, <3>5
    <2>5. ASSUME NEW x PROVE Contains(r, x) <=> (Contains(s, x) /\ x # e)
      <3>1. ASSUME Contains(r, x) PROVE Contains(s, x) /\ x # e
        BY <2>1, <2>3, <3>1 DEF Contains, Distinct
      <3>2. ASSUME Contains(s, x), x # e PROVE Contains(r, x)
        <4>1. PICK i \in 1..Len(s) : s[i] = x
          BY <3>2 DEF Contains
        <4>2. i # k
          BY <2>1, <3>2, <4>1
        <4>3. CASE i < k
          BY <2>1, <2>3, <4>1, <4>3 DEF Contains
        <4>4. CASE i > k
          <5>1. i - 1 \in 1..Len(r) /\ r[i - 1] = x
            BY <2>1, <2>3, <4>1, <4>4
          <5> QED BY <5>1 DEF Contains
        <4> QED BY <2>1, <4>1, <4>2, <4>3, <4>4
      <3> QED BY <3>1, <3>2
    <2> QED BY <2>2, <2>3, <2>4, <2>5
  <1> QED BY <1>1, <1>2

-----------------------------------------------------------------------------
(* The inductive invariant *)

(* scheduler_lock names the CPU that is between spin_lock and spin_unlock. *)
LockHeld ==
    \A c \in Cpu : cpc[c] \in {"append", "first", "remove"} <=> scheduler_lock = c

(* The fields of a CPU agree with the place in the kernel where it is. *)
CpuConsistent ==
    \A c \in Cpu :
        /\ current_process[c] = current_thread[c]
        /\ cpc[c] = "thread" => current_thread[c] \in Proc
        /\ cpc[c] \in {"top", "next", "first", "remove", "dispatch"} => current_thread[c] = NoProc
        /\ current_thread[c] \in Proc => last_thread[c] = current_thread[c]
        /\ cpc[c] \in {"insert", "append", "remove", "dispatch"} => arg[c] \in Proc
        /\ cpc[c] \in {"insert", "append"} => arg[c] # current_thread[c]
        /\ cpc[c] = "remove" => InQueue(arg[c])

(* The states of a thread and its process, by where the thread is. *)
StatesByPlace ==
    /\ \A t \in Proc : InQueue(t) => th_state[t] = "READY" /\ process_alive(t)
    /\ \A c \in Cpu :
        /\ cpc[c] \in {"insert", "append", "dispatch"} =>
                th_state[arg[c]] = "READY" /\ process_alive(arg[c])
        /\ current_thread[c] \in Proc =>
                /\ th_state[current_thread[c]] = "RUNNING"
                /\ proc_state[current_thread[c]] \in {"RUNNING", "ZOMBIE"}
                /\ tpc[current_thread[c]] # "panic"
        /\ cpc[c] = "top" /\ last_thread[c] \in Proc =>
                /\ th_state[last_thread[c]] = "RUNNING"
                /\ proc_state[last_thread[c]] \in {"READY", "ZOMBIE"}

(* The thread exists within the life of its process, and is FINISHED only *)
(* when the process has exited.                                           *)
StatesAgree ==
    \A p \in Proc :
        /\ proc_state[p] = "UNUSED" => th_state[p] = "UNUSED"
        /\ proc_state[p] = "FREED" => th_state[p] = "FREED"
        /\ th_state[p] = "UNUSED" => proc_state[p] \in {"UNUSED", "READY"} /\ tpc[p] = "user"
        /\ th_state[p] = "FREED" => proc_state[p] \in {"ZOMBIE", "FREED"}
        /\ th_state[p] = "FINISHED" => proc_state[p] = "ZOMBIE"
        /\ tpc[p] \in {"exit", "panic"} <=> proc_state[p] \in {"ZOMBIE", "FREED"}

(***************************************************************************)
(* The process that a thread is linking has no thread yet or belongs to    *)
(* init, and nobody else links it; the one it hands over or frees is a     *)
(* child of its own.  A ZOMBIE whose thread is gone is being freed by its  *)
(* parent.                                                                 *)
(***************************************************************************)
ChildOf(t) ==
    /\ tpc[t] \in {"link", "orphan", "adopt", "free", "next", "unlink"} =>
            child[t] \in Proc /\ ProcAllocated(child[t])
    /\ tpc[t] = "link" =>
            parent[child[t]] = t /\ proc_state[child[t]] = "READY" /\ th_state[child[t]] = "UNUSED"
    /\ tpc[t] = "orphan" => parent[child[t]] = InitProc
    /\ tpc[t] \in {"adopt", "free", "next", "unlink"} =>
            parent[child[t]] = t /\ ~Linking(child[t])
    /\ tpc[t] \in {"free", "next", "unlink"} => proc_state[child[t]] = "ZOMBIE"
    /\ tpc[t] = "free" => th_state[child[t]] # "FREED"
    /\ tpc[t] \in {"next", "unlink"} => th_state[child[t]] = "FREED"

OneLinker ==
    \A t, u \in Proc :
        /\ tpc[t] \in {"link", "orphan"} /\ tpc[u] \in {"link", "orphan"}
        /\ child[t] = child[u]
        => t = u

BeingFreed(p) ==
    th_state[p] = "FREED" /\ proc_state[p] = "ZOMBIE" =>
        /\ parent[p] \in Proc
        /\ tpc[parent[p]] \in {"next", "unlink"}
        /\ child[parent[p]] = p

ChildKnown ==
    ~undefined =>
        /\ \A t \in Proc : ChildOf(t)
        /\ OneLinker
        /\ \A p \in Proc : BeingFreed(p)

IInv ==
    /\ TypeOK
    /\ LockHeld
    /\ CpuConsistent
    /\ SingleOwner
    /\ StatesByPlace
    /\ StatesAgree
    /\ FamilyTree
    /\ ChildKnown

-----------------------------------------------------------------------------
(* Every action keeps the invariant *)

(* A step that leaves the threads where they are links nothing. *)
LEMMA LinkingSame == ASSUME UNCHANGED <<tpc, child>> PROVE \A p : Linking(p)' <=> Linking(p)
  BY DEF Linking

(* Nor does a thread that goes from one place without a LIST_APPEND to another. *)
LEMMA LinkingKept ==
    ASSUME TypeOK, NEW t \in Proc, NEW l \in ThreadPc \ {"link", "orphan"},
           tpc[t] \notin {"link", "orphan"}, tpc' = [tpc EXCEPT ![t] = l],
           \A u \in Proc : u # t => child'[u] = child[u]
    PROVE  \A p : Linking(p)' <=> Linking(p)
  BY DEF Linking, TypeOK

(* The scheduler puts the last thread back, or finishes it. *)
LEMMA RequeueStep ==
    ASSUME IInv, NEW c \in Cpu, Requeue(c)
    PROVE  IInv'
  <1>1. TypeOK'
    BY ConstantsAssumption DEF Requeue, famVars, pidVars, IInv, TypeOK, ThreadState,
       ProcState, CpuPc, ThreadPc
  <1>2. LockHeld'
    BY ConstantsAssumption DEF Requeue, famVars, pidVars, IInv, LockHeld, TypeOK
  <1>3. CpuConsistent'
    BY ConstantsAssumption DEF Requeue, famVars, pidVars, IInv, CpuConsistent, TypeOK,
       CpuPc, InQueue, LockHeld
  <1>4. SingleOwner'
    BY ConstantsAssumption DEF Requeue, famVars, pidVars, IInv, SingleOwner, TypeOK,
       InQueue, Holds, CpuConsistent
  <1>5. StatesByPlace'
    BY ConstantsAssumption DEF Requeue, famVars, pidVars, IInv, StatesByPlace, TypeOK,
       InQueue, CpuConsistent, SingleOwner, Holds, process_alive
  <1>6. StatesAgree'
    BY ConstantsAssumption DEF Requeue, famVars, pidVars, IInv, StatesAgree, TypeOK,
       CpuConsistent, StatesByPlace, process_alive
  <1>l. \A p : Linking(p)' <=> Linking(p)
    BY LinkingSame DEF Requeue
  <1>7. FamilyTree'
    BY <1>l, ConstantsAssumption DEF Requeue, famVars, pidVars, IInv, FamilyTree, TypeOK,
       ProcAllocated, CpuConsistent, StatesByPlace
  <1>8. ChildKnown'
    BY <1>l, ConstantsAssumption DEF Requeue, famVars, pidVars, IInv, ChildKnown, ChildOf,
       OneLinker, BeingFreed, ProcAllocated, TypeOK, CpuConsistent, StatesByPlace,
       StatesAgree, FamilyTree, process_alive
  <1> QED BY <1>1, <1>2, <1>3, <1>4, <1>5, <1>6, <1>7, <1>8 DEF IInv

(* Taking scheduler_lock. *)
LEMMA AcquireStep ==
    ASSUME IInv, NEW c \in Cpu, Acquire(c)
    PROVE  IInv'
  <1>1. TypeOK'
    BY ConstantsAssumption DEF Acquire, famVars, pidVars, IInv, TypeOK, ThreadState,
       ProcState, CpuPc, ThreadPc
  <1>2. LockHeld'
    BY ConstantsAssumption DEF Acquire, famVars, pidVars, IInv, LockHeld, TypeOK
  <1>3. CpuConsistent'
    BY ConstantsAssumption DEF Acquire, famVars, pidVars, IInv, CpuConsistent, TypeOK,
       CpuPc, InQueue, LockHeld
  <1>4. SingleOwner'
    BY ConstantsAssumption DEF Acquire, famVars, pidVars, IInv, SingleOwner, TypeOK,
       InQueue, Holds, CpuConsistent
  <1>5. StatesByPlace'
    BY ConstantsAssumption DEF Acquire, famVars, pidVars, IInv, StatesByPlace, TypeOK,
       InQueue, CpuConsistent, SingleOwner, Holds, process_alive
  <1>6. StatesAgree'
    BY ConstantsAssumption DEF Acquire, famVars, pidVars, IInv, StatesAgree, TypeOK,
       CpuConsistent, StatesByPlace, process_alive
  <1>l. \A p : Linking(p)' <=> Linking(p)
    BY LinkingSame DEF Acquire
  <1>7. FamilyTree'
    BY <1>l, ConstantsAssumption DEF Acquire, famVars, pidVars, IInv, FamilyTree, TypeOK,
       ProcAllocated, CpuConsistent, StatesByPlace
  <1>8. ChildKnown'
    BY <1>l, ConstantsAssumption DEF Acquire, famVars, pidVars, IInv, ChildKnown, ChildOf,
       OneLinker, BeingFreed, ProcAllocated, TypeOK, CpuConsistent, StatesByPlace,
       StatesAgree, FamilyTree, process_alive
  <1> QED BY <1>1, <1>2, <1>3, <1>4, <1>5, <1>6, <1>7, <1>8 DEF IInv

(* The thread in hand goes to the end of the queue. *)
LEMMA InsertStep ==
    ASSUME IInv, NEW c \in Cpu, scheduler_insert(c)
    PROVE  IInv'
  <1>f. /\ ready_queue' \in Seq(Proc)
        /\ Distinct(ready_queue')
        /\ \A x : Contains(ready_queue', x) <=> (Contains(ready_queue, x) \/ x = arg[c])
    <2>1. /\ ready_queue \in Seq(Proc) /\ arg[c] \in Proc
          /\ Distinct(ready_queue) /\ ~Contains(ready_queue, arg[c])
      BY DEF scheduler_insert, IInv, TypeOK, SingleOwner, CpuConsistent, Holds, InQueue
    <2> QED BY <2>1, AppendLemma DEF scheduler_insert
  <1>1. TypeOK'
    BY <1>f, ConstantsAssumption DEF scheduler_insert, famVars, pidVars, IInv, TypeOK,
       ThreadState, ProcState, CpuPc, ThreadPc
  <1>2. LockHeld'
    BY <1>f, ConstantsAssumption DEF scheduler_insert, famVars, pidVars, IInv,
       LockHeld, TypeOK
  <1>3. CpuConsistent'
    BY <1>f, ConstantsAssumption DEF scheduler_insert, famVars, pidVars, IInv,
       CpuConsistent, TypeOK, CpuPc, InQueue, LockHeld
  <1>4. SingleOwner'
    BY <1>f, ConstantsAssumption DEF scheduler_insert, famVars, pidVars, IInv,
       SingleOwner, TypeOK, InQueue, Holds, CpuConsistent
  <1>5. StatesByPlace'
    BY <1>f, ConstantsAssumption DEF scheduler_insert, famVars, pidVars, IInv,
       StatesByPlace, TypeOK, InQueue, CpuConsistent, SingleOwner, Holds, process_alive
  <1>6. StatesAgree'
    BY <1>f, ConstantsAssumption DEF scheduler_insert, famVars, pidVars, IInv,
       StatesAgree, TypeOK, CpuConsistent, StatesByPlace, process_alive
  <1>l. \A p : Linking(p)' <=> Linking(p)
    BY LinkingSame DEF scheduler_insert
  <1>7. FamilyTree'
    BY <1>l, <1>f, ConstantsAssumption DEF scheduler_insert, famVars, pidVars, IInv,
       FamilyTree, TypeOK, ProcAllocated, CpuConsistent, StatesByPlace
  <1>8. ChildKnown'
    BY <1>l, <1>f, ConstantsAssumption DEF scheduler_insert, famVars, pidVars, IInv,
       ChildKnown, ChildOf, OneLinker, BeingFreed, ProcAllocated, TypeOK, CpuConsistent,
       StatesByPlace, StatesAgree, FamilyTree, process_alive
  <1> QED BY <1>1, <1>2, <1>3, <1>4, <1>5, <1>6, <1>7, <1>8 DEF IInv

(* Looking at the head of the queue. *)
LEMMA FirstStep ==
    ASSUME IInv, NEW c \in Cpu, NextFirst(c)
    PROVE  IInv'
  <1>f. CASE ready_queue = <<>>
    <2>f. /\ cpc[c] = "first"
          /\ cpc' = [cpc EXCEPT ![c] = "next"]
          /\ scheduler_lock' = NoCpu
          /\ UNCHANGED <<ready_queue, th_state, proc_state, famVars, current_thread,
                         last_thread, current_process, arg, tpc, child, pidVars>>
      BY <1>f DEF NextFirst
    <2>1. TypeOK'
      BY <2>f, ConstantsAssumption DEF famVars, pidVars, IInv, TypeOK, ThreadState,
         ProcState, CpuPc, ThreadPc
    <2>2. LockHeld'
      BY <2>f, ConstantsAssumption DEF famVars, pidVars, IInv, LockHeld, TypeOK
    <2>3. CpuConsistent'
      BY <2>f, ConstantsAssumption DEF famVars, pidVars, IInv, CpuConsistent, TypeOK,
         CpuPc, InQueue, LockHeld
    <2>4. SingleOwner'
      BY <2>f, ConstantsAssumption DEF famVars, pidVars, IInv, SingleOwner, TypeOK,
         InQueue, Holds, CpuConsistent
    <2>5. StatesByPlace'
      BY <2>f, ConstantsAssumption DEF famVars, pidVars, IInv, StatesByPlace, TypeOK,
         InQueue, CpuConsistent, SingleOwner, Holds, process_alive
    <2>6. StatesAgree'
      BY <2>f, ConstantsAssumption DEF famVars, pidVars, IInv, StatesAgree, TypeOK,
         CpuConsistent, StatesByPlace, process_alive
    <2>l. \A p : Linking(p)' <=> Linking(p)
      BY <2>f, LinkingSame
    <2>7. FamilyTree'
      BY <2>l, <2>f, ConstantsAssumption DEF famVars, pidVars, IInv, FamilyTree, TypeOK,
         ProcAllocated, CpuConsistent, StatesByPlace
    <2>8. ChildKnown'
      BY <2>l, <2>f, ConstantsAssumption DEF famVars, pidVars, IInv, ChildKnown, ChildOf,
         OneLinker, BeingFreed, ProcAllocated, TypeOK, CpuConsistent, StatesByPlace,
         StatesAgree, FamilyTree, process_alive
    <2> QED BY <2>1, <2>2, <2>3, <2>4, <2>5, <2>6, <2>7, <2>8 DEF IInv
  <1>g. CASE ready_queue # <<>>
    <2>f. /\ cpc[c] = "first"
          /\ cpc' = [cpc EXCEPT ![c] = "remove"]
          /\ arg' = [arg EXCEPT ![c] = Head(ready_queue)]
          /\ UNCHANGED <<scheduler_lock, ready_queue, th_state, proc_state, famVars,
                         current_thread, last_thread, current_process, tpc, child, pidVars>>
      BY <1>g DEF NextFirst
    <2>g. Head(ready_queue) \in Proc /\ Contains(ready_queue, Head(ready_queue))
      BY <1>g, TailLemma DEF IInv, TypeOK, SingleOwner
    <2>1. TypeOK'
      BY <2>f, <2>g, ConstantsAssumption DEF famVars, pidVars, IInv, TypeOK,
         ThreadState, ProcState, CpuPc, ThreadPc
    <2>2. LockHeld'
      BY <2>f, <2>g, ConstantsAssumption DEF famVars, pidVars, IInv, LockHeld, TypeOK
    <2>3. CpuConsistent'
      BY <2>f, <2>g, ConstantsAssumption DEF famVars, pidVars, IInv, CpuConsistent,
         TypeOK, CpuPc, InQueue, LockHeld
    <2>4. SingleOwner'
      BY <2>f, <2>g, ConstantsAssumption DEF famVars, pidVars, IInv, SingleOwner,
         TypeOK, InQueue, Holds, CpuConsistent
    <2>5. StatesByPlace'
      BY <2>f, <2>g, ConstantsAssumption DEF famVars, pidVars, IInv, StatesByPlace,
         TypeOK, InQueue, CpuConsistent, SingleOwner, Holds, process_alive
    <2>6. StatesAgree'
      BY <2>f, <2>g, ConstantsAssumption DEF famVars, pidVars, IInv, StatesAgree,
         TypeOK, CpuConsistent, StatesByPlace, process_alive
    <2>l. \A p : Linking(p)' <=> Linking(p)
      BY <2>f, LinkingSame
    <2>7. FamilyTree'
      BY <2>l, <2>f, <2>g, ConstantsAssumption DEF famVars, pidVars, IInv, FamilyTree,
         TypeOK, ProcAllocated, CpuConsistent, StatesByPlace
    <2>8. ChildKnown'
      BY <2>l, <2>f, <2>g, ConstantsAssumption DEF famVars, pidVars, IInv, ChildKnown,
         ChildOf, OneLinker, BeingFreed, ProcAllocated, TypeOK, CpuConsistent,
         StatesByPlace, StatesAgree, FamilyTree, process_alive
    <2> QED BY <2>1, <2>2, <2>3, <2>4, <2>5, <2>6, <2>7, <2>8 DEF IInv
  <1> QED BY <1>f, <1>g

(* Taking the head off the queue. *)
LEMMA RemoveStep ==
    ASSUME IInv, NEW c \in Cpu, NextRemove(c)
    PROVE  IInv'
  <1>f. /\ ready_queue' \in Seq(Proc)
        /\ Distinct(ready_queue')
        /\ \A x : Contains(ready_queue', x) <=> (Contains(ready_queue, x) /\ x # arg[c])
    <2>1. ready_queue \in Seq(Proc) /\ arg[c] \in Proc /\ Distinct(ready_queue)
      BY DEF NextRemove, IInv, TypeOK, SingleOwner, CpuConsistent
    <2> QED BY <2>1, RemoveLemma DEF NextRemove
  <1>1. TypeOK'
    BY <1>f, ConstantsAssumption DEF NextRemove, famVars, pidVars, IInv, TypeOK,
       ThreadState, ProcState, CpuPc, ThreadPc
  <1>2. LockHeld'
    BY <1>f, ConstantsAssumption DEF NextRemove, famVars, pidVars, IInv, LockHeld,
       TypeOK
  <1>3. CpuConsistent'
    BY <1>f, ConstantsAssumption DEF NextRemove, famVars, pidVars, IInv, CpuConsistent,
       TypeOK, CpuPc, InQueue, LockHeld
  <1>4. SingleOwner'
    BY <1>f, ConstantsAssumption DEF NextRemove, famVars, pidVars, IInv, SingleOwner,
       TypeOK, InQueue, Holds, CpuConsistent
  <1>5. StatesByPlace'
    BY <1>f, ConstantsAssumption DEF NextRemove, famVars, pidVars, IInv, StatesByPlace,
       TypeOK, InQueue, CpuConsistent, SingleOwner, Holds, process_alive
  <1>6. StatesAgree'
    BY <1>f, ConstantsAssumption DEF NextRemove, famVars, pidVars, IInv, StatesAgree,
       TypeOK, CpuConsistent, StatesByPlace, process_alive
  <1>l. \A p : Linking(p)' <=> Linking(p)
    BY LinkingSame DEF NextRemove
  <1>7. FamilyTree'
    BY <1>l, <1>f, ConstantsAssumption DEF NextRemove, famVars, pidVars, IInv, FamilyTree,
       TypeOK, ProcAllocated, CpuConsistent, StatesByPlace
  <1>8. ChildKnown'
    BY <1>l, <1>f, ConstantsAssumption DEF NextRemove, famVars, pidVars, IInv, ChildKnown,
       ChildOf, OneLinker, BeingFreed, ProcAllocated, TypeOK, CpuConsistent, StatesByPlace,
       StatesAgree, FamilyTree, process_alive
  <1> QED BY <1>1, <1>2, <1>3, <1>4, <1>5, <1>6, <1>7, <1>8 DEF IInv

(* The thread in hand starts to run: its process is alive. *)
LEMMA DispatchStep ==
    ASSUME IInv, NEW c \in Cpu, Dispatch(c)
    PROVE  IInv'
  <1>a. /\ cpc[c] = "dispatch"
        /\ arg[c] \in Proc
        /\ process_alive(arg[c])
        /\ th_state[arg[c]] = "READY"
        /\ current_process[c] = NoProc
        /\ current_thread[c] = NoProc
    BY DEF Dispatch, IInv, StatesByPlace, CpuConsistent
  <1>b. proc_state' = [proc_state EXCEPT ![arg[c]] = "RUNNING"]
    <2>1. proc_state' = Switched(c, arg[c]) /\ proc_state \in [Proc -> ProcState]
      BY <1>a DEF Dispatch, IInv, TypeOK
    <2>2. Switched(c, arg[c]) = [p \in Proc |-> IF p = arg[c] THEN "RUNNING" ELSE proc_state[p]]
      BY <1>a, ConstantsAssumption DEF Switched
    <2> QED BY <2>1, <2>2
  <1>f. /\ arg' = [arg EXCEPT ![c] = NoProc]
        /\ th_state' = [th_state EXCEPT ![arg[c]] = "RUNNING"]
        /\ last_thread' = [last_thread EXCEPT ![c] = arg[c]]
        /\ current_process' = [current_process EXCEPT ![c] = arg[c]]
        /\ current_thread' = [current_thread EXCEPT ![c] = arg[c]]
        /\ cpc' = [cpc EXCEPT ![c] = "thread"]
        /\ UNCHANGED <<ready_queue, scheduler_lock, famVars, tpc, child, pidVars>>
    BY <1>a DEF Dispatch
  <1>c. /\ tpc[arg[c]] # "panic"
        /\ ~InQueue(arg[c])
        /\ \A d \in Cpu \ {c} : arg[c] \notin Holds(d)
    BY <1>a DEF IInv, StatesAgree, SingleOwner, Holds, process_alive
  <1>1. TypeOK'
    BY <1>a, <1>b, <1>f, ConstantsAssumption DEF famVars, pidVars, IInv, TypeOK,
       ThreadState, ProcState, CpuPc, ThreadPc
  <1>2. LockHeld'
    BY <1>a, <1>b, <1>f, ConstantsAssumption DEF famVars, pidVars, IInv, LockHeld,
       TypeOK
  <1>3. CpuConsistent'
    BY <1>a, <1>b, <1>f, ConstantsAssumption DEF famVars, pidVars, IInv, CpuConsistent,
       TypeOK, CpuPc, InQueue, LockHeld
  <1>4. SingleOwner'
    BY <1>a, <1>b, <1>f, ConstantsAssumption DEF famVars, pidVars, IInv, SingleOwner,
       TypeOK, InQueue, Holds, CpuConsistent
  <1>5. StatesByPlace'
    <2>1. ASSUME NEW u \in Proc, InQueue(u)'
          PROVE  th_state'[u] = "READY" /\ proc_state'[u] \in {"READY", "RUNNING"}
      BY <1>b, <1>c, <1>f, <2>1 DEF IInv, TypeOK, StatesByPlace, InQueue, process_alive
    <2>2. ASSUME NEW d \in Cpu, d # c
          PROVE  /\ arg'[d] = arg[d] /\ cpc'[d] = cpc[d]
                 /\ last_thread'[d] = last_thread[d]
                 /\ current_thread'[d] = current_thread[d]
                 /\ \A u \in Holds(d) : th_state'[u] = th_state[u] /\ proc_state'[u] = proc_state[u]
      BY <1>b, <1>c, <1>f, <2>2 DEF IInv, TypeOK, Holds
    <2>3. ASSUME NEW d \in Cpu, d # c
          PROVE  /\ cpc'[d] \in {"insert", "append", "dispatch"} =>
                        th_state'[arg'[d]] = "READY" /\ proc_state'[arg'[d]] \in {"READY", "RUNNING"}
                 /\ current_thread'[d] \in Proc =>
                        /\ th_state'[current_thread'[d]] = "RUNNING"
                        /\ proc_state'[current_thread'[d]] \in {"RUNNING", "ZOMBIE"}
                        /\ tpc'[current_thread'[d]] # "panic"
                 /\ cpc'[d] = "top" /\ last_thread'[d] \in Proc =>
                        /\ th_state'[last_thread'[d]] = "RUNNING"
                        /\ proc_state'[last_thread'[d]] \in {"READY", "ZOMBIE"}
      BY <1>f, <2>2, <2>3 DEF IInv, StatesByPlace, CpuConsistent, Holds, process_alive
    <2>4. /\ cpc'[c] = "thread" /\ current_thread'[c] = arg[c]
          /\ th_state'[arg[c]] = "RUNNING" /\ proc_state'[arg[c]] = "RUNNING"
          /\ tpc'[arg[c]] # "panic"
      BY <1>a, <1>b, <1>c, <1>f DEF IInv, TypeOK
    <2> QED BY <2>1, <2>3, <2>4 DEF StatesByPlace, process_alive
  <1>6. StatesAgree'
    BY <1>a, <1>b, <1>f, ConstantsAssumption DEF famVars, pidVars, IInv, StatesAgree,
       TypeOK, CpuConsistent, StatesByPlace, process_alive
  <1>l. \A p : Linking(p)' <=> Linking(p)
    BY <1>f, LinkingSame
  <1>7. FamilyTree'
    <2>1. \A p \in Proc : ProcAllocated(p)' <=> ProcAllocated(p)
      BY <1>a, <1>b, <1>f DEF IInv, TypeOK, ProcAllocated, process_alive
    <2> QED BY <1>f, <1>l, <2>1 DEF IInv, FamilyTree, famVars
  <1>8. ChildKnown'
    BY <1>l, <1>a, <1>b, <1>f, ConstantsAssumption DEF famVars, pidVars, IInv, ChildKnown,
       ChildOf, OneLinker, BeingFreed, ProcAllocated, TypeOK, CpuConsistent, StatesByPlace,
       StatesAgree, FamilyTree, process_alive
  <1> QED BY <1>1, <1>2, <1>3, <1>4, <1>5, <1>6, <1>7, <1>8 DEF IInv

(* A thread gives up its CPU in schedule(), and goes on later at pc. *)
LEMMA ScheduleStep ==
    ASSUME IInv, NEW c \in Cpu, NEW t \in Proc, NEW l \in ThreadPc,
           Running(c, t), schedule(c, t, l), UNCHANGED child,
           l \in {"user", "panic", "scan", "free"},
           tpc[t] \in {"user", "exit", "scan", "free", "waited"},
           l = "panic" <=> tpc[t] = "exit",
           l = "free" <=> tpc[t] = "free"
    PROVE  IInv'
  <1>a. /\ cpc[c] = "thread"
        /\ current_thread[c] = t
        /\ current_process[c] = t
        /\ last_thread[c] = t
        /\ th_state[t] = "RUNNING"
        /\ proc_state[t] \in {"RUNNING", "ZOMBIE"}
    BY DEF Running, IInv, CpuConsistent, StatesByPlace
  <1>b. proc_state' = [proc_state EXCEPT ![t] = IF @ = "RUNNING" THEN "READY" ELSE @]
    <2>1. proc_state' = Switched(c, NoProc) /\ proc_state \in [Proc -> ProcState]
      BY DEF schedule, IInv, TypeOK
    <2>2. Switched(c, NoProc) = [p \in Proc |->
                IF p = t /\ proc_state[p] = "RUNNING" THEN "READY" ELSE proc_state[p]]
      BY <1>a, ConstantsAssumption DEF Switched
    <2> QED BY <2>1, <2>2
  <1>f. /\ current_process' = [current_process EXCEPT ![c] = NoProc]
        /\ current_thread' = [current_thread EXCEPT ![c] = NoProc]
        /\ cpc' = [cpc EXCEPT ![c] = "top"]
        /\ tpc' = [tpc EXCEPT ![t] = l]
        /\ UNCHANGED <<runVars, famVars, last_thread, arg, child, pidVars>>
    BY DEF schedule
  <1>1. TypeOK'
    BY <1>a, <1>b, <1>f, ConstantsAssumption DEF runVars, famVars, pidVars, IInv,
       TypeOK, ThreadState, ProcState, CpuPc, ThreadPc
  <1>2. LockHeld'
    BY <1>a, <1>b, <1>f, ConstantsAssumption DEF runVars, famVars, pidVars, IInv,
       LockHeld, TypeOK
  <1>3. CpuConsistent'
    BY <1>a, <1>b, <1>f, ConstantsAssumption DEF runVars, famVars, pidVars, IInv,
       CpuConsistent, TypeOK, CpuPc, InQueue, LockHeld
  <1>4. SingleOwner'
    BY <1>a, <1>b, <1>f, ConstantsAssumption DEF runVars, famVars, pidVars, IInv,
       SingleOwner, TypeOK, InQueue, Holds, CpuConsistent
  <1>5. StatesByPlace'
    BY <1>a, <1>b, <1>f, ConstantsAssumption DEF runVars, famVars, pidVars, IInv,
       StatesByPlace, TypeOK, InQueue, CpuConsistent, SingleOwner, Holds, process_alive
  <1>6. StatesAgree'
    BY <1>a, <1>b, <1>f, ConstantsAssumption DEF runVars, famVars, pidVars, IInv,
       StatesAgree, TypeOK, CpuConsistent, StatesByPlace, process_alive
  <1>l. \A p : Linking(p)' <=> Linking(p)
    BY <1>f, LinkingKept DEF IInv, ThreadPc
  <1>7. FamilyTree'
    BY <1>l, <1>a, <1>b, <1>f, ConstantsAssumption DEF runVars, famVars, pidVars, IInv,
       FamilyTree, TypeOK, ProcAllocated, CpuConsistent, StatesByPlace
  <1>8. ChildKnown'
    BY <1>l, <1>a, <1>b, <1>f, ConstantsAssumption DEF runVars, famVars, pidVars, IInv,
       ChildKnown, ChildOf, OneLinker, BeingFreed, ProcAllocated, TypeOK, CpuConsistent,
       StatesByPlace, StatesAgree, FamilyTree, process_alive
  <1> QED BY <1>1, <1>2, <1>3, <1>4, <1>5, <1>6, <1>7, <1>8 DEF IInv

(***************************************************************************)
(* A step inside a system call that touches no scheduler and no state of a *)
(* thread or process: what is left to show is about the lists.             *)
(***************************************************************************)
LEMMA CallStep ==
    ASSUME IInv, NEW c \in Cpu, NEW t \in Proc, NEW l \in ThreadPc \ {"exit", "panic"},
           Running(c, t), tpc[t] \notin {"exit", "panic"}, tpc' = [tpc EXCEPT ![t] = l],
           UNCHANGED <<runVars, proc_state, cpuVars>>
    PROVE  LockHeld' /\ CpuConsistent' /\ SingleOwner' /\ StatesByPlace' /\ StatesAgree'
  <1>1. LockHeld'
    BY DEF runVars, cpuVars, IInv, LockHeld
  <1>2. CpuConsistent'
    BY DEF runVars, cpuVars, IInv, CpuConsistent, InQueue
  <1>3. SingleOwner'
    BY DEF runVars, cpuVars, IInv, SingleOwner, InQueue, Holds
  <1>4. StatesByPlace'
    BY DEF runVars, cpuVars, IInv, TypeOK, StatesByPlace, InQueue, process_alive
  <1>5. StatesAgree'
    <2>1. th_state[t] = "RUNNING"
      BY DEF Running, IInv, CpuConsistent, StatesByPlace
    <2> QED BY <2>1 DEF runVars, IInv, TypeOK, StatesAgree
  <1> QED BY <1>1, <1>2, <1>3, <1>4, <1>5

(* The invariant from its parts. *)
LEMMA IInvParts ==
    ASSUME TypeOK', LockHeld' /\ CpuConsistent' /\ SingleOwner' /\ StatesByPlace' /\ StatesAgree',
           FamilyTree', ChildKnown'
    PROVE  IInv'
  BY DEF IInv

(***************************************************************************)
(* The lists and the children stay as they are when a thread moves from    *)
(* one place where it works on no child to another.                        *)
(***************************************************************************)
Idle == {"user", "spawn", "linked", "adopted", "exit", "panic", "scan", "waited"}

LEMMA IdleStep ==
    ASSUME IInv, NEW t \in Proc, NEW l \in Idle, tpc[t] \in Idle, tpc' = [tpc EXCEPT ![t] = l],
           UNCHANGED <<runVars, proc_state, parent, children>>, undefined' = undefined,
           \A u \in Proc : u # t => child'[u] = child[u]
    PROVE  FamilyTree' /\ ChildKnown'
  <1>l. \A p : Linking(p)' <=> Linking(p)
    BY LinkingKept DEF IInv, Idle, ThreadPc
  <1>1. FamilyTree'
    BY <1>l DEF IInv, FamilyTree, ProcAllocated
  <1>2. ASSUME ChildKnown, NEW u \in Proc, ChildOf(u) PROVE ChildOf(u)'
    <2>1. CASE u = t
      BY <2>1 DEF IInv, TypeOK, ChildOf, Idle
    <2>2. CASE u # t
      BY <1>2, <2>2, <1>l DEF IInv, TypeOK, ChildOf, ProcAllocated, runVars
    <2> QED BY <2>1, <2>2
  <1>3. OneLinker => OneLinker'
    BY DEF IInv, TypeOK, OneLinker, Idle
  <1>4. ASSUME NEW p \in Proc, BeingFreed(p) PROVE BeingFreed(p)'
    BY <1>4 DEF IInv, TypeOK, BeingFreed, Idle, runVars
  <1> QED BY <1>1, <1>2, <1>3, <1>4 DEF IInv, ChildKnown

(* fork loads pid. *)
LEMMA ForkLoadStep ==
    ASSUME IInv, NEW c \in Cpu, NEW t \in Proc, ForkLoad(c, t)
    PROVE  IInv'
  <1>1. TypeOK'
    BY DEF ForkLoad, Running, runVars, famVars, cpuVars, pidVars, IInv, TypeOK, ThreadPc
  <1>2. LockHeld' /\ CpuConsistent' /\ SingleOwner' /\ StatesByPlace' /\ StatesAgree'
    BY CallStep DEF ForkLoad, ThreadPc
  <1>3. FamilyTree' /\ ChildKnown'
    BY IdleStep DEF ForkLoad, famVars, Idle
  <1> QED BY <1>1, <1>2, <1>3, IInvParts

(* wait is called. *)
LEMMA WaitCallStep ==
    ASSUME IInv, NEW c \in Cpu, NEW t \in Proc, WaitCall(c, t)
    PROVE  IInv'
  <1>1. TypeOK'
    BY DEF WaitCall, Running, runVars, famVars, cpuVars, pidVars, IInv, TypeOK, ThreadPc
  <1>2. LockHeld' /\ CpuConsistent' /\ SingleOwner' /\ StatesByPlace' /\ StatesAgree'
    BY CallStep DEF WaitCall, ThreadPc
  <1>3. FamilyTree' /\ ChildKnown'
    BY IdleStep DEF WaitCall, famVars, Idle
  <1> QED BY <1>1, <1>2, <1>3, IInvParts

(* What the end of an edit does to the lists. *)
LEMMA EditedLemma ==
    ASSUME NEW t \in Proc, NEW lists \in [Proc -> Seq(Proc)], Edited(t, lists), TypeOK
    PROVE  /\ children' \in [Proc -> Seq(Proc)] /\ undefined' \in BOOLEAN
           /\ ~undefined' => ~undefined /\ children' = lists
  BY DEF Edited, TypeOK

(* With memory undefined nothing is claimed of the lists. *)
LEMMA UndefinedStep == ASSUME undefined' PROVE FamilyTree' /\ ChildKnown'
  BY DEF FamilyTree, ChildKnown

(* fork creates a process. *)
LEMMA ForkSpawnStep ==
    ASSUME IInv, ~undefined, NEW c \in Cpu, NEW t \in Proc, NEW new \in Proc,
           ForkSpawn(c, t, new)
    PROVE  IInv'
  <1>n. /\ cpc[c] = "thread" /\ current_thread[c] = t
        /\ proc_state[new] = "UNUSED" /\ th_state[new] = "UNUSED" /\ tpc[new] = "user"
        /\ new # t /\ ~Contains(ready_queue, new)
        /\ \A d \in Cpu : new \notin Holds(d) /\ new # current_thread[d]
    <2>1. /\ cpc[c] = "thread" /\ current_thread[c] = t
          /\ proc_state[new] = "UNUSED" /\ th_state[new] = "UNUSED" /\ tpc[new] = "user"
      BY DEF ForkSpawn, Running, IInv, StatesAgree
    <2>2. new # t /\ ~Contains(ready_queue, new)
      BY <2>1 DEF IInv, StatesByPlace, InQueue
    <2>3. ASSUME NEW d \in Cpu PROVE new \notin Holds(d) /\ new # current_thread[d]
      BY <2>1 DEF IInv, StatesByPlace, Holds
    <2> QED BY <2>1, <2>2, <2>3
  <1>f. /\ parent' = [parent EXCEPT ![new] = t]
        /\ proc_state' = [proc_state EXCEPT ![new] = "READY"]
        /\ child' = [child EXCEPT ![t] = new]
        /\ tpc[t] = "spawn" /\ tpc' = [tpc EXCEPT ![t] = "link"]
        /\ children' = children /\ undefined' = undefined
        /\ UNCHANGED <<ready_queue, scheduler_lock, th_state>>
        /\ UNCHANGED <<current_thread, last_thread, current_process, cpc, arg>>
    BY DEF ForkSpawn, runVars, cpuVars
  <1>1. TypeOK'
    BY <1>f DEF ForkSpawn, IInv, TypeOK, ProcState, ThreadPc
  <1>2. LockHeld' /\ CpuConsistent' /\ SingleOwner'
    BY <1>f DEF IInv, LockHeld, CpuConsistent, SingleOwner, InQueue, Holds
  <1>3. StatesByPlace'
    BY <1>n, <1>f DEF IInv, TypeOK, StatesByPlace, InQueue, CpuConsistent, Holds, process_alive
  <1>4. StatesAgree'
    <2>1. th_state[t] = "RUNNING" /\ proc_state[t] \in {"RUNNING", "ZOMBIE"}
      BY <1>n DEF IInv, StatesByPlace
    <2> QED BY <1>n, <1>f, <2>1 DEF IInv, TypeOK, StatesAgree
  <1>u. ~ProcAllocated(new) /\ ~Linking(new) /\ \A q \in Proc : ~Contains(children[q], new)
    BY <1>n DEF IInv, FamilyTree, ProcAllocated, Linking, ChildKnown, ChildOf
  <1>l. \A p \in Proc : Linking(p)' <=> (Linking(p) \/ p = new)
    BY <1>f DEF Linking, IInv, TypeOK
  <1>5. FamilyTree'
    BY <1>f, <1>u, <1>l DEF IInv, TypeOK, FamilyTree, ProcAllocated
  <1>6. ASSUME NEW u \in Proc PROVE ChildOf(u)'
    <2>1. CASE u = t
      BY <1>n, <1>f, <2>1 DEF IInv, TypeOK, ChildOf, ProcAllocated
    <2>2. CASE u # t
      <3>1. ChildOf(u) /\ tpc'[u] = tpc[u] /\ child'[u] = child[u]
        BY <1>f, <2>2 DEF IInv, TypeOK, ChildKnown
      <3>2. child[u] \in Proc /\ ProcAllocated(child[u]) =>
                /\ child[u] # new
                /\ proc_state'[child[u]] = proc_state[child[u]]
                /\ parent'[child[u]] = parent[child[u]]
                /\ (Linking(child[u])' <=> Linking(child[u]))
        BY <1>f, <1>u, <1>l, <3>1 DEF IInv, TypeOK
      <3> QED BY <1>f, <3>1, <3>2 DEF ChildOf, ProcAllocated
    <2> QED BY <2>1, <2>2
  <1>7. OneLinker'
    BY <1>f, <1>u DEF IInv, TypeOK, ChildKnown, OneLinker, Linking
  <1>8. ASSUME NEW p \in Proc PROVE BeingFreed(p)'
    BY <1>n, <1>f DEF IInv, TypeOK, ChildKnown, BeingFreed
  <1>9. ChildKnown'
    BY <1>6, <1>7, <1>8 DEF ChildKnown
  <1> QED BY <1>1, <1>2, <1>3, <1>4, <1>5, <1>9, IInvParts

(* fork links the process and makes its thread. *)
LEMMA ForkAppendStep ==
    ASSUME IInv, ~undefined, NEW c \in Cpu, NEW t \in Proc, ForkAppend(c, t)
    PROVE  IInv'
  <1> DEFINE new == child[t]
             lists == [children EXCEPT ![t] = Append(children[t], new)]
  <1>n. /\ cpc[c] = "thread" /\ current_thread[c] = t
        /\ tpc[t] = "link" /\ new \in Proc /\ parent[new] = t
        /\ proc_state[new] = "READY" /\ th_state[new] = "UNUSED" /\ tpc[new] = "user"
        /\ new # t /\ ~Contains(ready_queue, new)
        /\ \A d \in Cpu : new \notin Holds(d) /\ new # current_thread[d]
    <2>1. /\ cpc[c] = "thread" /\ current_thread[c] = t /\ tpc[t] = "link"
          /\ new \in Proc /\ parent[new] = t
          /\ proc_state[new] = "READY" /\ th_state[new] = "UNUSED" /\ tpc[new] = "user"
      BY DEF ForkAppend, Running, IInv, StatesAgree, ChildKnown, ChildOf
    <2>2. new # t /\ ~Contains(ready_queue, new)
      BY <2>1 DEF IInv, StatesByPlace, InQueue
    <2>3. ASSUME NEW d \in Cpu PROVE new \notin Holds(d) /\ new # current_thread[d]
      BY <2>1 DEF IInv, StatesByPlace, Holds
    <2> QED BY <2>1, <2>2, <2>3
  <1>u. Linking(new) /\ ProcAllocated(new) /\ \A q \in Proc : ~Contains(children[q], new)
    BY <1>n DEF IInv, FamilyTree, ProcAllocated, Linking
  <1>a. /\ lists \in [Proc -> Seq(Proc)]
        /\ \A q \in Proc : Distinct(lists[q])
        /\ \A q, p \in Proc :
                Contains(lists[q], p) <=> (Contains(children[q], p) \/ (q = t /\ p = new))
    <2>1. children \in [Proc -> Seq(Proc)] /\ Distinct(children[t]) /\ ~Contains(children[t], new)
      BY <1>u DEF IInv, TypeOK, FamilyTree
    <2> QED BY <1>n, <2>1, AppendLemma DEF IInv, FamilyTree
  <1>e. Edited(t, lists)
    BY DEF ForkAppend
  <1>f. /\ th_state' = [th_state EXCEPT ![new] = "READY"]
        /\ child' = [child EXCEPT ![t] = NoProc]
        /\ tpc' = [tpc EXCEPT ![t] = "user"]
        /\ cpc' = [cpc EXCEPT ![c] = "insert"]
        /\ arg' = [arg EXCEPT ![c] = new]
        /\ UNCHANGED <<ready_queue, scheduler_lock, proc_state, parent, current_thread,
                       last_thread, current_process, pid, pidOf, new_pid>>
    BY DEF ForkAppend, pidVars
  <1> HIDE DEF lists, new
  <1>g. /\ children' \in [Proc -> Seq(Proc)] /\ undefined' \in BOOLEAN
        /\ ~undefined' => children' = lists
    BY <1>a, <1>e, EditedLemma DEF IInv
  <1>1. TypeOK'
    BY <1>n, <1>f, <1>g, ConstantsAssumption DEF IInv, TypeOK, ThreadState, CpuPc, ThreadPc
  <1>2. LockHeld'
    BY <1>n, <1>f DEF IInv, TypeOK, LockHeld
  <1>3. CpuConsistent'
    BY <1>n, <1>f DEF IInv, TypeOK, CpuConsistent, InQueue
  <1>4. SingleOwner'
    <2>1. \A d \in Cpu : Holds(d)' = IF d = c THEN Holds(d) \cup {new} ELSE Holds(d)
      BY <1>n, <1>f, ConstantsAssumption DEF IInv, TypeOK, Holds
    <2> QED BY <1>n, <1>f, <2>1 DEF IInv, SingleOwner, InQueue
  <1>5. StatesByPlace'
    BY <1>n, <1>f DEF IInv, TypeOK, StatesByPlace, InQueue, CpuConsistent, Holds, process_alive
  <1>6. StatesAgree'
    <2>1. th_state[t] = "RUNNING"
      BY <1>n DEF IInv, StatesByPlace
    <2> QED BY <1>n, <1>f, <2>1 DEF IInv, TypeOK, StatesAgree
  <1>l. \A p \in Proc : Linking(p)' <=> (Linking(p) /\ p # new)
    BY <1>n, <1>f DEF Linking, IInv, TypeOK, ChildKnown, OneLinker, new
  <1>7. ASSUME ~undefined' PROVE FamilyTree'
    BY <1>7, <1>f, <1>u, <1>l, <1>a, <1>g, <1>n DEF IInv, TypeOK, FamilyTree, ProcAllocated
  <1>8. ASSUME NEW u \in Proc PROVE ChildOf(u)'
    <2>1. CASE u = t
      BY <1>n, <1>f, <2>1 DEF IInv, TypeOK, ChildOf
    <2>2. CASE u # t
      <3>1. ChildOf(u) /\ tpc'[u] = tpc[u] /\ child'[u] = child[u]
        BY <1>f, <2>2 DEF IInv, TypeOK, ChildKnown
      <3>2. tpc[u] = "link" => child[u] # new
        BY <1>n, <2>2, <3>1 DEF ChildOf
      <3>3. /\ child[u] \in Proc => (Linking(child[u])' => Linking(child[u]))
            /\ child[u] \in Proc /\ child[u] # new => th_state'[child[u]] = th_state[child[u]]
            /\ child[u] \in Proc => th_state'[child[u]] # "FREED" \/ th_state[child[u]] = "FREED"
            /\ tpc[u] \in {"next", "unlink"} => child[u] # new
        BY <1>n, <1>f, <1>l, <3>1 DEF IInv, TypeOK, ChildOf
      <3> QED BY <1>f, <3>1, <3>2, <3>3 DEF ChildOf, ProcAllocated
    <2> QED BY <2>1, <2>2
  <1>9. OneLinker'
    BY <1>n, <1>f DEF IInv, TypeOK, ChildKnown, OneLinker
  <1>10. ASSUME NEW p \in Proc PROVE BeingFreed(p)'
    BY <1>n, <1>f DEF IInv, TypeOK, ChildKnown, BeingFreed
  <1>11. FamilyTree' /\ ChildKnown'
    BY <1>7, <1>8, <1>9, <1>10, UndefinedStep DEF ChildKnown
  <1> QED BY <1>1, <1>2, <1>3, <1>4, <1>5, <1>6, <1>11, IInvParts

(* exit finds no child, or begins to hand over the first. *)
LEMMA ExitAdoptStep ==
    ASSUME IInv, ~undefined, NEW c \in Cpu, NEW t \in Proc, ExitAdopt(c, t)
    PROVE  IInv'
  <1>a. /\ tpc[t] = "user" /\ Running(c, t)
        /\ UNCHANGED <<runVars, proc_state, parent, children, undefined, cpuVars, pidVars>>
    BY DEF ExitAdopt, famVars
  <1>1. CASE children[t] = <<>>
    <2>f. tpc' = [tpc EXCEPT ![t] = "adopted"] /\ child' = child
      BY <1>1 DEF ExitAdopt
    <2>1. TypeOK'
      BY <1>a, <2>f DEF runVars, cpuVars, pidVars, IInv, TypeOK, ThreadPc
    <2>2. LockHeld' /\ CpuConsistent' /\ SingleOwner' /\ StatesByPlace' /\ StatesAgree'
      BY <1>a, <2>f, CallStep DEF ThreadPc
    <2>3. FamilyTree' /\ ChildKnown'
      BY <1>a, <2>f, IdleStep DEF Idle
    <2> QED BY <2>1, <2>2, <2>3, IInvParts
  <1>2. CASE children[t] # <<>>
    <2> DEFINE p == Head(children[t])
    <2>f. tpc' = [tpc EXCEPT ![t] = "adopt"] /\ child' = [child EXCEPT ![t] = p]
      BY <1>2 DEF ExitAdopt
    <2>p. p \in Proc /\ parent[p] = t /\ ProcAllocated(p) /\ ~Linking(p)
      <3>1. p \in Proc /\ Contains(children[t], p)
        BY <1>2, TailLemma DEF IInv, TypeOK, FamilyTree
      <3> QED BY <3>1 DEF IInv, FamilyTree
    <2> HIDE DEF p
    <2>1. TypeOK'
      BY <1>a, <2>f, <2>p DEF runVars, cpuVars, pidVars, IInv, TypeOK, ThreadPc
    <2>2. LockHeld' /\ CpuConsistent' /\ SingleOwner' /\ StatesByPlace' /\ StatesAgree'
      BY <1>a, <2>f, CallStep DEF ThreadPc
    <2>l. \A x : Linking(x)' <=> Linking(x)
      BY <1>a, <2>f, LinkingKept DEF IInv, TypeOK, ThreadPc
    <2>3. FamilyTree'
      BY <1>a, <2>l DEF IInv, FamilyTree, ProcAllocated
    <2>4. ASSUME NEW u \in Proc PROVE ChildOf(u)'
      <3>1. CASE u = t
        BY <1>a, <2>f, <2>p, <2>l, <3>1 DEF IInv, TypeOK, ChildOf, ProcAllocated
      <3>2. CASE u # t
        BY <1>a, <2>f, <2>l, <3>2 DEF IInv, TypeOK, ChildKnown, ChildOf, ProcAllocated, runVars
      <3> QED BY <3>1, <3>2
    <2>5. OneLinker'
      BY <1>a, <2>f DEF IInv, TypeOK, ChildKnown, OneLinker
    <2>6. ASSUME NEW x \in Proc PROVE BeingFreed(x)'
      BY <1>a, <2>f DEF IInv, TypeOK, ChildKnown, BeingFreed, runVars
    <2>7. ChildKnown'
      BY <2>4, <2>5, <2>6 DEF ChildKnown
    <2> QED BY <2>1, <2>2, <2>3, <2>7, IInvParts
  <1> QED BY <1>1, <1>2

(* The child is off the list of the process that exits. *)
LEMMA AdoptRemoveStep ==
    ASSUME IInv, ~undefined, NEW c \in Cpu, NEW t \in Proc, AdoptRemove(c, t)
    PROVE  IInv'
  <1> DEFINE p == child[t]
             lists == [children EXCEPT ![t] = LIST_REMOVE(children[t], p)]
  <1>p. /\ tpc[t] = "adopt" /\ Running(c, t)
        /\ p \in Proc /\ parent[p] = t /\ ProcAllocated(p) /\ ~Linking(p)
    BY DEF AdoptRemove, IInv, ChildKnown, ChildOf
  <1>a. /\ lists \in [Proc -> Seq(Proc)]
        /\ \A q \in Proc : Distinct(lists[q])
        /\ \A q, x \in Proc :
                Contains(lists[q], x) <=> (Contains(children[q], x) /\ ~(q = t /\ x = p))
    <2>1. children \in [Proc -> Seq(Proc)] /\ Distinct(children[t])
      BY DEF IInv, TypeOK, FamilyTree
    <2>2. /\ LIST_REMOVE(children[t], p) \in Seq(Proc)
          /\ Distinct(LIST_REMOVE(children[t], p))
          /\ \A x : Contains(LIST_REMOVE(children[t], p), x) <=> (Contains(children[t], x) /\ x # p)
      BY <1>p, <2>1, RemoveLemma
    <2> QED BY <2>1, <2>2 DEF IInv, FamilyTree
  <1>e. Edited(t, lists)
    BY DEF AdoptRemove
  <1>f. /\ parent' = [parent EXCEPT ![p] = InitProc]
        /\ tpc' = [tpc EXCEPT ![t] = "orphan"]
        /\ UNCHANGED <<runVars, proc_state, cpuVars, child, pidVars>>
    BY DEF AdoptRemove
  <1> HIDE DEF lists, p
  <1>g. /\ children' \in [Proc -> Seq(Proc)] /\ undefined' \in BOOLEAN
        /\ ~undefined' => children' = lists
    BY <1>a, <1>e, EditedLemma DEF IInv
  <1>1. TypeOK'
    BY <1>p, <1>f, <1>g, ConstantsAssumption DEF runVars, cpuVars, pidVars, IInv, TypeOK,
       ThreadPc
  <1>2. LockHeld' /\ CpuConsistent' /\ SingleOwner' /\ StatesByPlace' /\ StatesAgree'
    BY <1>p, <1>f, CallStep DEF ThreadPc
  <1>l. \A x \in Proc : Linking(x)' <=> (Linking(x) \/ x = p)
    BY <1>p, <1>f DEF Linking, IInv, TypeOK, p
  <1>3. ASSUME ~undefined' PROVE FamilyTree'
    BY <1>3, <1>p, <1>f, <1>l, <1>a, <1>g DEF IInv, TypeOK, FamilyTree, ProcAllocated
  <1>4. ASSUME NEW u \in Proc PROVE ChildOf(u)'
    <2>1. CASE u = t
      BY <1>p, <1>f, <2>1 DEF IInv, TypeOK, ChildOf, ProcAllocated, p
    <2>2. CASE u # t
      <3>1. ChildOf(u) /\ tpc'[u] = tpc[u] /\ child'[u] = child[u]
        BY <1>f, <2>2 DEF IInv, TypeOK, ChildKnown
      <3>2. tpc[u] \in {"link", "adopt", "free", "next", "unlink"} => child[u] # p
        BY <1>p, <2>2, <3>1 DEF ChildOf
      <3>3. child[u] \in Proc =>
                /\ parent'[child[u]] = IF child[u] = p THEN InitProc ELSE parent[child[u]]
                /\ child[u] # p => (Linking(child[u])' <=> Linking(child[u]))
        BY <1>f, <1>l, <3>1 DEF IInv, TypeOK
      <3> QED BY <1>f, <3>1, <3>2, <3>3 DEF ChildOf, ProcAllocated, runVars
    <2> QED BY <2>1, <2>2
  <1>5. OneLinker'
    BY <1>p, <1>f DEF IInv, TypeOK, ChildKnown, OneLinker, Linking, p
  <1>6. ASSUME NEW x \in Proc PROVE BeingFreed(x)'
    BY <1>p, <1>f DEF IInv, TypeOK, ChildKnown, BeingFreed, runVars
  <1>7. FamilyTree' /\ ChildKnown'
    BY <1>3, <1>4, <1>5, <1>6, UndefinedStep DEF ChildKnown
  <1> QED BY <1>1, <1>2, <1>7, IInvParts

(* The child is on init's list. *)
LEMMA AdoptAppendStep ==
    ASSUME IInv, ~undefined, NEW c \in Cpu, NEW t \in Proc, AdoptAppend(c, t)
    PROVE  IInv'
  <1> DEFINE p == child[t]
             lists == [children EXCEPT ![InitProc] = Append(children[InitProc], p)]
  <1>p. /\ tpc[t] = "orphan" /\ Running(c, t)
        /\ p \in Proc /\ parent[p] = InitProc /\ ProcAllocated(p) /\ Linking(p)
    BY DEF AdoptAppend, IInv, ChildKnown, ChildOf, Linking
  <1>a. /\ lists \in [Proc -> Seq(Proc)]
        /\ \A q \in Proc : Distinct(lists[q])
        /\ \A q, x \in Proc :
                Contains(lists[q], x) <=> (Contains(children[q], x) \/ (q = InitProc /\ x = p))
    <2>1. /\ children \in [Proc -> Seq(Proc)] /\ Distinct(children[InitProc])
          /\ ~Contains(children[InitProc], p)
      BY <1>p, ConstantsAssumption DEF IInv, TypeOK, FamilyTree
    <2> QED BY <1>p, <2>1, AppendLemma, ConstantsAssumption DEF IInv, FamilyTree
  <1>e. Edited(t, lists)
    BY DEF AdoptAppend
  <1>f. /\ tpc' = [tpc EXCEPT ![t] = "linked"]
        /\ UNCHANGED <<runVars, proc_state, parent, cpuVars, child, pidVars>>
    BY DEF AdoptAppend
  <1> HIDE DEF lists, p
  <1>g. /\ children' \in [Proc -> Seq(Proc)] /\ undefined' \in BOOLEAN
        /\ ~undefined' => children' = lists
    BY <1>a, <1>e, EditedLemma DEF IInv
  <1>1. TypeOK'
    BY <1>p, <1>f, <1>g DEF runVars, cpuVars, pidVars, IInv, TypeOK, ThreadPc
  <1>2. LockHeld' /\ CpuConsistent' /\ SingleOwner' /\ StatesByPlace' /\ StatesAgree'
    BY <1>p, <1>f, CallStep DEF ThreadPc
  <1>l. \A x \in Proc : Linking(x)' <=> (Linking(x) /\ x # p)
    BY <1>p, <1>f DEF Linking, IInv, TypeOK, ChildKnown, OneLinker, p
  <1>3. ASSUME ~undefined' PROVE FamilyTree'
    BY <1>3, <1>p, <1>f, <1>l, <1>a, <1>g DEF IInv, TypeOK, FamilyTree, ProcAllocated
  <1>4. ASSUME NEW u \in Proc PROVE ChildOf(u)'
    <2>1. CASE u = t
      BY <1>p, <1>f, <2>1 DEF IInv, TypeOK, ChildOf
    <2>2. CASE u # t
      BY <1>f, <1>l, <2>2 DEF IInv, TypeOK, ChildKnown, ChildOf, ProcAllocated, runVars
    <2> QED BY <2>1, <2>2
  <1>5. OneLinker'
    BY <1>p, <1>f DEF IInv, TypeOK, ChildKnown, OneLinker
  <1>6. ASSUME NEW x \in Proc PROVE BeingFreed(x)'
    BY <1>p, <1>f DEF IInv, TypeOK, ChildKnown, BeingFreed, runVars
  <1>7. FamilyTree' /\ ChildKnown'
    BY <1>3, <1>4, <1>5, <1>6, UndefinedStep DEF ChildKnown
  <1> QED BY <1>1, <1>2, <1>7, IInvParts

(* The loop over the children ends. *)
LEMMA AdoptNextStep ==
    ASSUME IInv, ~undefined, NEW c \in Cpu, NEW t \in Proc, AdoptNext(c, t)
    PROVE  IInv'
  <1>f. /\ tpc[t] = "linked" /\ Running(c, t) /\ Edited(t, children)
        /\ tpc' = [tpc EXCEPT ![t] = "adopted"]
        /\ child' = [child EXCEPT ![t] = NoProc]
        /\ UNCHANGED <<runVars, proc_state, parent, cpuVars, pidVars>>
    BY DEF AdoptNext
  <1>g. undefined' \in BOOLEAN /\ children' = children /\ (~undefined' => undefined' = undefined)
    BY <1>f DEF Edited, IInv, TypeOK
  <1>1. TypeOK'
    BY <1>f, <1>g DEF runVars, cpuVars, pidVars, IInv, TypeOK, ThreadPc
  <1>2. LockHeld' /\ CpuConsistent' /\ SingleOwner' /\ StatesByPlace' /\ StatesAgree'
    BY <1>f, CallStep DEF ThreadPc
  <1>3. CASE undefined'
    BY <1>1, <1>2, <1>3, UndefinedStep, IInvParts
  <1>4. CASE ~undefined'
    <2>1. FamilyTree' /\ ChildKnown'
      BY <1>4, <1>f, <1>g, IdleStep DEF Idle, IInv, TypeOK
    <2> QED BY <1>1, <1>2, <2>1, IInvParts
  <1> QED BY <1>3, <1>4

(* exit makes the process a ZOMBIE. *)
LEMMA ExitZombieStep ==
    ASSUME IInv, ~undefined, NEW c \in Cpu, NEW t \in Proc, ExitZombie(c, t)
    PROVE  IInv'
  <1>f. /\ cpc[c] = "thread" /\ current_thread[c] = t /\ tpc[t] = "adopted"
        /\ proc_state' = [proc_state EXCEPT ![t] = "ZOMBIE"]
        /\ tpc' = [tpc EXCEPT ![t] = "exit"]
        /\ child' = child /\ parent' = parent /\ children' = children /\ undefined' = undefined
        /\ UNCHANGED <<ready_queue, scheduler_lock, th_state>>
        /\ UNCHANGED <<current_thread, last_thread, current_process, cpc, arg>>
    BY DEF ExitZombie, Running, runVars, famVars, cpuVars
  <1>s. th_state[t] = "RUNNING" /\ proc_state[t] = "RUNNING" /\ ~Contains(ready_queue, t)
    <2>1. th_state[t] = "RUNNING" /\ proc_state[t] \in {"RUNNING", "ZOMBIE"}
      BY <1>f DEF IInv, StatesByPlace
    <2> QED BY <1>f, <2>1 DEF IInv, StatesAgree, StatesByPlace, InQueue
  <1>1. TypeOK'
    BY <1>f DEF ExitZombie, pidVars, IInv, TypeOK, ProcState, ThreadPc
  <1>2. LockHeld' /\ CpuConsistent' /\ SingleOwner'
    BY <1>f DEF IInv, LockHeld, CpuConsistent, SingleOwner, InQueue, Holds
  <1>3. StatesByPlace'
    BY <1>f, <1>s DEF IInv, TypeOK, StatesByPlace, InQueue, CpuConsistent, process_alive
  <1>4. StatesAgree'
    BY <1>f, <1>s DEF IInv, TypeOK, StatesAgree
  <1>l. \A p : Linking(p)' <=> Linking(p)
    BY <1>f, LinkingKept DEF IInv, ThreadPc
  <1>5. FamilyTree'
    BY <1>f, <1>s, <1>l DEF IInv, TypeOK, FamilyTree, ProcAllocated
  <1>6. ASSUME NEW u \in Proc PROVE ChildOf(u)'
    <2>1. CASE u = t
      BY <1>f, <2>1 DEF IInv, TypeOK, ChildOf
    <2>2. CASE u # t
      <3>1. ChildOf(u) /\ tpc'[u] = tpc[u]
        BY <1>f, <2>2 DEF IInv, TypeOK, ChildKnown
      <3>2. tpc[u] = "link" => child[u] # t
        BY <1>s, <3>1 DEF ChildOf
      <3> QED BY <1>f, <1>l, <3>1, <3>2 DEF IInv, TypeOK, ChildOf, ProcAllocated
    <2> QED BY <2>1, <2>2
  <1>7. OneLinker'
    BY <1>f DEF IInv, TypeOK, ChildKnown, OneLinker
  <1>8. ASSUME NEW x \in Proc PROVE BeingFreed(x)'
    BY <1>f, <1>s DEF IInv, TypeOK, ChildKnown, BeingFreed
  <1>9. ChildKnown'
    BY <1>6, <1>7, <1>8 DEF ChildKnown
  <1> QED BY <1>1, <1>2, <1>3, <1>4, <1>5, <1>9, IInvParts

(* wait has found a ZOMBIE child. *)
LEMMA WaitFoundStep ==
    ASSUME IInv, ~undefined, NEW c \in Cpu, NEW t \in Proc, WaitFound(c, t)
    PROVE  IInv'
  <1>1p. PICK i \in 1..Len(children[t]) :
            /\ proc_state[children[t][i]] = "ZOMBIE"
            /\ child' = [child EXCEPT ![t] = children[t][i]]
    BY DEF WaitFound, IsZombieAt
  <1> DEFINE p == children[t][i]
  <1>a. /\ Running(c, t) /\ tpc[t] = "scan"
        /\ tpc' = [tpc EXCEPT ![t] = "free"]
        /\ UNCHANGED <<runVars, proc_state, parent, children, undefined, cpuVars, pidVars>>
    BY DEF WaitFound, famVars
  <1>p. /\ p \in Proc /\ proc_state[p] = "ZOMBIE" /\ parent[p] = t
        /\ ProcAllocated(p) /\ ~Linking(p) /\ th_state[p] # "FREED"
    <2>1. p \in Proc /\ Contains(children[t], p)
      BY DEF Contains, IInv, TypeOK
    <2>2. proc_state[p] = "ZOMBIE" /\ parent[p] = t /\ ProcAllocated(p) /\ ~Linking(p)
      BY <1>1p, <2>1 DEF IInv, FamilyTree
    <2> QED BY <1>a, <2>1, <2>2 DEF IInv, ChildKnown, BeingFreed
  <1>f. child' = [child EXCEPT ![t] = p]
    BY <1>1p
  <1> HIDE DEF p
  <1>1. TypeOK'
    BY <1>p, <1>f, <1>a DEF runVars, cpuVars, pidVars, IInv, TypeOK, ThreadPc
  <1>2. LockHeld' /\ CpuConsistent' /\ SingleOwner' /\ StatesByPlace' /\ StatesAgree'
    BY <1>a, CallStep DEF ThreadPc
  <1>l. \A x : Linking(x)' <=> Linking(x)
    BY <1>a, <1>f, LinkingKept DEF IInv, TypeOK, ThreadPc
  <1>3. FamilyTree'
    BY <1>a, <1>l DEF IInv, FamilyTree, ProcAllocated
  <1>4. ASSUME NEW u \in Proc PROVE ChildOf(u)'
    <2>1. CASE u = t
      BY <1>a, <1>f, <1>p, <1>l, <2>1 DEF IInv, TypeOK, ChildOf, ProcAllocated, runVars
    <2>2. CASE u # t
      BY <1>a, <1>f, <1>l, <2>2 DEF IInv, TypeOK, ChildKnown, ChildOf, ProcAllocated, runVars
    <2> QED BY <2>1, <2>2
  <1>5. OneLinker'
    BY <1>a, <1>f DEF IInv, TypeOK, ChildKnown, OneLinker
  <1>6. ASSUME NEW x \in Proc PROVE BeingFreed(x)'
    BY <1>a, <1>f DEF IInv, TypeOK, ChildKnown, BeingFreed, runVars
  <1>7. ChildKnown'
    BY <1>4, <1>5, <1>6 DEF ChildKnown
  <1> QED BY <1>1, <1>2, <1>3, <1>7, IInvParts

(* The thread of the child is freed. *)
LEMMA FreeThreadStep ==
    ASSUME IInv, ~undefined, NEW c \in Cpu, NEW t \in Proc, free_thread(c, t)
    PROVE  IInv'
  <1> DEFINE p == child[t]
  <1>p. /\ p \in Proc /\ parent[p] = t /\ proc_state[p] = "ZOMBIE"
        /\ ProcAllocated(p) /\ ~Linking(p) /\ th_state[p] \notin {"RUNNING", "READY"}
        /\ th_state[p] # "UNUSED"
    BY DEF free_thread, IInv, ChildKnown, ChildOf, StatesAgree
  <1>f. /\ cpc[c] = "thread" /\ current_thread[c] = t /\ tpc[t] = "free"
        /\ th_state' = [th_state EXCEPT ![p] = "FREED"]
        /\ tpc' = [tpc EXCEPT ![t] = "next"]
        /\ child' = child /\ parent' = parent /\ children' = children /\ undefined' = undefined
        /\ UNCHANGED <<ready_queue, scheduler_lock, proc_state>>
        /\ UNCHANGED <<current_thread, last_thread, current_process, cpc, arg>>
    BY DEF free_thread, Running, famVars, cpuVars
  <1> HIDE DEF p
  <1>1. TypeOK'
    BY <1>f, <1>p DEF free_thread, pidVars, IInv, TypeOK, ThreadState, ThreadPc
  <1>2. LockHeld' /\ CpuConsistent' /\ SingleOwner'
    BY <1>f DEF IInv, LockHeld, CpuConsistent, SingleOwner, InQueue, Holds
  <1>3. StatesByPlace'
    BY <1>f, <1>p DEF IInv, TypeOK, StatesByPlace, InQueue, CpuConsistent, process_alive
  <1>4. StatesAgree'
    <2>1. th_state[t] = "RUNNING"
      BY <1>f DEF IInv, StatesByPlace
    <2> QED BY <1>f, <1>p, <2>1 DEF IInv, TypeOK, StatesAgree
  <1>l. \A x : Linking(x)' <=> Linking(x)
    BY <1>f, LinkingKept DEF IInv, ThreadPc
  <1>5. FamilyTree'
    BY <1>f, <1>l DEF IInv, FamilyTree, ProcAllocated
  <1>6. ASSUME NEW u \in Proc PROVE ChildOf(u)'
    <2>1. CASE u = t
      BY <1>f, <1>p, <1>l, <2>1 DEF IInv, TypeOK, ChildOf, ProcAllocated, p
    <2>2. CASE u # t
      <3>1. ChildOf(u) /\ tpc'[u] = tpc[u]
        BY <1>f, <2>2 DEF IInv, TypeOK, ChildKnown
      <3>2. tpc[u] \in {"link", "free"} => child[u] # p
        BY <1>p, <2>2, <3>1 DEF ChildOf
      <3> QED BY <1>f, <1>l, <3>1, <3>2 DEF IInv, TypeOK, ChildOf, ProcAllocated
    <2> QED BY <2>1, <2>2
  <1>7. OneLinker'
    BY <1>f DEF IInv, TypeOK, ChildKnown, OneLinker
  <1>8. ASSUME NEW x \in Proc PROVE BeingFreed(x)'
    BY <1>f, <1>p DEF IInv, TypeOK, ChildKnown, BeingFreed, p
  <1>9. ChildKnown'
    BY <1>6, <1>7, <1>8 DEF ChildKnown
  <1> QED BY <1>1, <1>2, <1>3, <1>4, <1>5, <1>9, IInvParts

(* The loop over the threads of the child ends. *)
LEMMA FreeNextStep ==
    ASSUME IInv, ~undefined, NEW c \in Cpu, NEW t \in Proc, FreeNext(c, t)
    PROVE  IInv'
  <1>f. /\ tpc[t] = "next" /\ Running(c, t) /\ undefined' \in BOOLEAN
        /\ tpc' = [tpc EXCEPT ![t] = "unlink"]
        /\ UNCHANGED <<runVars, proc_state, parent, children, cpuVars, child, pidVars>>
    BY DEF FreeNext
  <1>1. TypeOK'
    BY <1>f DEF runVars, cpuVars, pidVars, IInv, TypeOK, ThreadPc
  <1>2. LockHeld' /\ CpuConsistent' /\ SingleOwner' /\ StatesByPlace' /\ StatesAgree'
    BY <1>f, CallStep DEF ThreadPc
  <1>l. \A x : Linking(x)' <=> Linking(x)
    BY <1>f, LinkingKept DEF IInv, TypeOK, ThreadPc
  <1>3. FamilyTree'
    BY <1>f, <1>l DEF IInv, FamilyTree, ProcAllocated
  <1>4. ASSUME NEW u \in Proc PROVE ChildOf(u)'
    BY <1>f, <1>l DEF IInv, TypeOK, ChildKnown, ChildOf, ProcAllocated, runVars
  <1>5. OneLinker'
    BY <1>f DEF IInv, TypeOK, ChildKnown, OneLinker
  <1>6. ASSUME NEW x \in Proc PROVE BeingFreed(x)'
    BY <1>f DEF IInv, TypeOK, ChildKnown, BeingFreed, runVars
  <1>7. ChildKnown'
    BY <1>4, <1>5, <1>6 DEF ChildKnown
  <1> QED BY <1>1, <1>2, <1>3, <1>7, IInvParts

(* The child leaves the list of its parent and is freed. *)
LEMMA FreeStep ==
    ASSUME IInv, ~undefined, NEW c \in Cpu, NEW t \in Proc, process_free(c, t)
    PROVE  IInv'
  <1> DEFINE p == child[t]
             lists == [children EXCEPT ![t] = LIST_REMOVE(children[t], p)]
  <1>p. /\ p \in Proc /\ parent[p] = t /\ proc_state[p] = "ZOMBIE" /\ ~Linking(p)
    BY DEF process_free, IInv, ChildKnown, ChildOf
  <1>a. /\ lists \in [Proc -> Seq(Proc)]
        /\ \A q \in Proc : Distinct(lists[q])
        /\ \A q, x \in Proc :
                Contains(lists[q], x) <=> (Contains(children[q], x) /\ ~(q = t /\ x = p))
    <2>1. children \in [Proc -> Seq(Proc)] /\ Distinct(children[t])
      BY DEF IInv, TypeOK, FamilyTree
    <2>2. /\ LIST_REMOVE(children[t], p) \in Seq(Proc)
          /\ Distinct(LIST_REMOVE(children[t], p))
          /\ \A x : Contains(LIST_REMOVE(children[t], p), x) <=> (Contains(children[t], x) /\ x # p)
      BY <1>p, <2>1, RemoveLemma
    <2> QED BY <2>1, <2>2 DEF IInv, FamilyTree
  <1>e. Edited(t, lists)
    BY <1>p DEF process_free
  <1>f. /\ cpc[c] = "thread" /\ current_thread[c] = t /\ tpc[t] = "unlink"
        /\ proc_state' = [proc_state EXCEPT ![p] = "FREED"]
        /\ tpc' = [tpc EXCEPT ![t] = "waited"]
        /\ child' = [child EXCEPT ![t] = NoProc]
        /\ parent' = parent
        /\ UNCHANGED <<ready_queue, scheduler_lock, th_state>>
        /\ UNCHANGED <<current_thread, last_thread, current_process, cpc, arg>>
    BY DEF process_free, Running, runVars, cpuVars
  <1> HIDE DEF lists, p
  <1>g. /\ children' \in [Proc -> Seq(Proc)] /\ undefined' \in BOOLEAN
        /\ ~undefined' => children' = lists
    BY <1>a, <1>e, EditedLemma DEF IInv
  <1>t. th_state[p] = "FREED"
    BY <1>f, <1>p DEF IInv, ChildKnown, ChildOf, p
  <1>1. TypeOK'
    BY <1>f, <1>g, <1>p DEF process_free, pidVars, IInv, TypeOK, ProcState, ThreadPc
  <1>2. LockHeld' /\ CpuConsistent' /\ SingleOwner'
    BY <1>f DEF IInv, LockHeld, CpuConsistent, SingleOwner, InQueue, Holds
  <1>3. StatesByPlace'
    BY <1>f, <1>p, <1>t DEF IInv, TypeOK, StatesByPlace, InQueue, CpuConsistent, process_alive
  <1>4. StatesAgree'
    <2>1. th_state[t] = "RUNNING"
      BY <1>f DEF IInv, StatesByPlace
    <2> QED BY <1>f, <1>p, <1>t, <2>1 DEF IInv, TypeOK, StatesAgree
  <1>l. \A x : Linking(x)' <=> Linking(x)
    BY <1>f, LinkingKept DEF IInv, TypeOK, ThreadPc
  <1>5. ASSUME ~undefined' PROVE FamilyTree'
    BY <1>5, <1>p, <1>f, <1>l, <1>a, <1>g DEF IInv, TypeOK, FamilyTree, ProcAllocated
  <1>6. ASSUME NEW u \in Proc PROVE ChildOf(u)'
    <2>1. CASE u = t
      BY <1>f, <2>1 DEF IInv, TypeOK, ChildOf
    <2>2. CASE u # t
      <3>1. ChildOf(u) /\ tpc'[u] = tpc[u] /\ child'[u] = child[u]
        BY <1>f, <2>2 DEF IInv, TypeOK, ChildKnown
      <3>2. tpc[u] \in {"link", "adopt", "free", "next", "unlink"} => child[u] # p
        BY <1>p, <2>2, <3>1 DEF ChildOf
      <3>3. tpc[u] = "orphan" => child[u] # p
        BY <1>p DEF Linking
      <3> QED BY <1>f, <1>l, <3>1, <3>2, <3>3 DEF IInv, TypeOK, ChildOf, ProcAllocated
    <2> QED BY <2>1, <2>2
  <1>7. OneLinker'
    BY <1>f DEF IInv, TypeOK, ChildKnown, OneLinker
  <1>8. ASSUME NEW x \in Proc PROVE BeingFreed(x)'
    BY <1>f, <1>p DEF IInv, TypeOK, ChildKnown, BeingFreed, p
  <1>9. FamilyTree' /\ ChildKnown'
    BY <1>5, <1>6, <1>7, <1>8, UndefinedStep DEF ChildKnown
  <1> QED BY <1>1, <1>2, <1>3, <1>4, <1>9, IInvParts

(* The initial state satisfies the invariant. *)
LEMMA InitInv == Init => IInv
  <1> SUFFICES ASSUME Init PROVE IInv
    OBVIOUS
  <1> USE ConstantsAssumption
  <1>f. /\ Distinct(ready_queue)
        /\ \A x : Contains(ready_queue, x) <=> x = InitProc
        /\ \A q \in Proc : Distinct(children[q])
        /\ \A q \in Proc : \A x : ~Contains(children[q], x)
    BY DEF Init, Distinct, Contains
  <1>1. TypeOK
    <2>1. /\ ready_queue \in Seq(Proc) /\ scheduler_lock \in Cpu \cup {NoCpu}
          /\ th_state \in [Proc -> ThreadState] /\ proc_state \in [Proc -> ProcState]
      BY DEF Init, ThreadState, ProcState
    <2>2. /\ parent \in [Proc -> Proc \cup {NoProc}] /\ children \in [Proc -> Seq(Proc)]
          /\ child \in [Proc -> Proc \cup {NoProc}] /\ tpc \in [Proc -> ThreadPc]
      BY DEF Init, ThreadPc
    <2>4. undefined \in BOOLEAN
      BY DEF Init
    <2>3. /\ cpc \in [Cpu -> CpuPc] /\ current_thread \in [Cpu -> Proc \cup {NoProc}]
          /\ last_thread \in [Cpu -> Proc \cup {NoProc}] /\ arg \in [Cpu -> Proc \cup {NoProc}]
          /\ current_process \in [Cpu -> Proc \cup {NoProc}]
          /\ pid \in Nat /\ pidOf \in [Proc -> Nat] /\ new_pid \in [Cpu -> Nat]
      BY DEF Init, CpuPc
    <2> QED BY <2>1, <2>2, <2>3, <2>4 DEF TypeOK
  <1>2. LockHeld /\ CpuConsistent
    BY DEF Init, LockHeld, CpuConsistent
  <1>3. SingleOwner /\ StatesByPlace
    BY <1>f DEF Init, SingleOwner, StatesByPlace, InQueue, Holds, process_alive
  <1>4. StatesAgree /\ ChildKnown
    BY DEF Init, StatesAgree, ChildKnown, ChildOf, OneLinker, BeingFreed
  <1>5. FamilyTree
    BY <1>f DEF Init, FamilyTree, ProcAllocated
  <1> QED BY <1>1, <1>2, <1>3, <1>4, <1>5 DEF IInv

(* A step that changes nothing keeps the invariant. *)
LEMMA StutterInv == ASSUME IInv, UNCHANGED vars PROVE IInv'
  BY DEF vars, runVars, famVars, cpuVars, pidVars, IInv, TypeOK, LockHeld, CpuConsistent,
         SingleOwner, StatesByPlace, StatesAgree, FamilyTree, ChildKnown, ChildOf, OneLinker,
         BeingFreed, Linking, InQueue, Holds, ProcAllocated, process_alive

(* Every step keeps the invariant. *)
LEMMA NextInv == IInv /\ [Next]_vars => IInv'
  <1> SUFFICES ASSUME IInv, [Next]_vars PROVE IInv'
    OBVIOUS
  <1>1. ASSUME NEW c \in Cpu, SchedulerStep(c) \/ Acquire(c) PROVE IInv'
    BY <1>1, RequeueStep, AcquireStep, InsertStep, FirstStep, RemoveStep, DispatchStep
       DEF SchedulerStep
  <1>2. ASSUME NEW c \in Cpu, NEW t \in Proc, Timer(c, t) \/ KernelStep(c, t) \/ UserStep(c, t)
        PROVE  IInv'
    <2>u. ~undefined
      BY <1>2 DEF Timer, KernelStep, UserStep
    <2>1. CASE Timer(c, t)
      BY <2>1, ScheduleStep DEF Timer, ThreadPc
    <2>2. CASE ExitYield(c, t)
      BY <2>2, ScheduleStep DEF ExitYield, ThreadPc
    <2>3. CASE WaitYield(c, t)
      BY <2>3, ScheduleStep DEF WaitYield, ThreadPc
    <2>4. CASE FreeYield(c, t)
      BY <2>4, ScheduleStep DEF FreeYield, ThreadPc
    <2>5. CASE WaitReturn(c, t)
      BY <2>5, ScheduleStep DEF WaitReturn, ThreadPc
    <2>6. CASE ExitZombie(c, t) \/ WaitFound(c, t)
      BY <2>u, <2>6, ExitZombieStep, WaitFoundStep
    <2>7. CASE \E new \in Proc : ForkSpawn(c, t, new)
      BY <2>u, <2>7, ForkSpawnStep
    <2>8. CASE ForkAppend(c, t) \/ AdoptRemove(c, t) \/ AdoptAppend(c, t) \/ AdoptNext(c, t)
      BY <2>u, <2>8, ForkAppendStep, AdoptRemoveStep, AdoptAppendStep, AdoptNextStep
    <2>9. CASE free_thread(c, t) \/ FreeNext(c, t) \/ process_free(c, t)
      BY <2>u, <2>9, FreeThreadStep, FreeNextStep, FreeStep
    <2>10. CASE UserStep(c, t)
      BY <2>u, <2>10, ForkLoadStep, ExitAdoptStep, WaitCallStep DEF UserStep
    <2> QED BY <1>2, <2>1, <2>2, <2>3, <2>4, <2>5, <2>6, <2>7, <2>8, <2>9, <2>10 DEF KernelStep
  <1>3. CASE UNCHANGED vars
    BY <1>3, StutterInv
  <1> QED BY <1>1, <1>2, <1>3 DEF Next

-----------------------------------------------------------------------------
(* The theorems *)

(* The inductive invariant holds in every reachable state. *)
THEOREM Invariance == Spec => []IInv
  BY InitInv, NextInv, PTL DEF Spec

(* Type correctness of the scheduler and of the process table. *)
THEOREM TypeCorrect == Spec => []TypeOK
  <1>1. IInv => TypeOK
    BY DEF IInv
  <1> QED BY <1>1, Invariance, PTL

(***************************************************************************)
(* No thread is ever on two CPUs, or on a CPU and in the ready queue.      *)
(***************************************************************************)
THEOREM ThreadHasOneOwner == Spec => []SingleOwner
  <1>1. IInv => SingleOwner
    BY DEF IInv
  <1> QED BY <1>1, Invariance, PTL

(***************************************************************************)
(* No CPU and no queue ever holds what process_free has given back, and    *)
(* until memory is undefined no list of children leads to it.              *)
(***************************************************************************)
THEOREM MemorySafe == Spec => []NoUseAfterFree
  <1>1. IInv => NoUseAfterFree
    <2> SUFFICES ASSUME IInv PROVE NoUseAfterFree
      OBVIOUS
    <2>1. \A t \in Proc : InQueue(t) => Allocated(t)
      BY DEF IInv, StatesByPlace, Allocated, ProcAllocated, process_alive
    <2>2. ASSUME NEW c \in Cpu, NEW t \in Proc, t \in Holds(c) \/ t = current_process[c]
          PROVE  Allocated(t)
      BY <2>2 DEF IInv, StatesByPlace, CpuConsistent, Holds, Allocated, ProcAllocated,
         process_alive
    <2>3. ASSUME ~undefined
          PROVE  /\ \A p, q \in Proc : Contains(children[q], p) => ProcAllocated(p)
                 /\ \A t \in Proc : tpc[t] = "free" =>
                        proc_state[child[t]] = "ZOMBIE" /\ Allocated(child[t])
                 /\ \A t \in Proc : tpc[t] \in {"next", "unlink"} => proc_state[child[t]] = "ZOMBIE"
      BY <2>3 DEF IInv, FamilyTree, ChildKnown, ChildOf, StatesAgree, Allocated
    <2> QED BY <2>1, <2>2, <2>3 DEF NoUseAfterFree
  <1> QED BY <1>1, Invariance, PTL

(* The statement after the schedule() in exit is never reached. *)
THEOREM ExitIsFinal == Spec => []ExitNeverReturns
  <1>1. IInv => ExitNeverReturns
    BY DEF IInv, StatesByPlace, ExitNeverReturns, Running
  <1> QED BY <1>1, Invariance, PTL

(***************************************************************************)
(* The parent pointers and the lists of children agree as long as no two   *)
(* CPUs have edited one list at a time and process_free has found its      *)
(* freed thread as it left it.                                             *)
(***************************************************************************)
THEOREM FamilyConsistent == Spec => []FamilyTree
  <1>1. IInv => FamilyTree
    BY DEF IInv
  <1> QED BY <1>1, Invariance, PTL

(* schedule() makes a RUNNING process READY and leaves a ZOMBIE alone. *)
LEMMA ScheduleStaysDead ==
    ASSUME IInv, NEW c \in Cpu, NEW t \in Proc, NEW l, schedule(c, t, l), NEW p \in Proc
    PROVE  StaysDead(p)
  <1>1. th_state' = th_state /\ proc_state' = Switched(c, NoProc)
    BY DEF schedule, runVars
  <1>2. proc_state'[p] = IF p = current_process[c] /\ proc_state[p] = "RUNNING"
                         THEN "READY" ELSE proc_state[p]
    BY <1>1, ConstantsAssumption DEF Switched
  <1> QED BY <1>1, <1>2 DEF StaysDead, IInv, StatesAgree

(* ZOMBIE, FINISHED and FREED are left only towards FREED. *)
THEOREM DeathFinal == Spec => DeathIsFinal
  <1>1. ASSUME IInv, Next, NEW p \in Proc PROVE StaysDead(p)
    <2> USE <1>1
    <2>1. ASSUME NEW c \in Cpu, Requeue(c) PROVE StaysDead(p)
      BY <2>1, ConstantsAssumption
         DEF Requeue, IInv, TypeOK, StatesByPlace, StatesAgree, StaysDead
    <2>2. ASSUME NEW c \in Cpu, scheduler_insert(c) PROVE StaysDead(p)
      BY <2>2 DEF scheduler_insert, IInv, TypeOK, CpuConsistent, StatesByPlace,
                  StatesAgree, StaysDead, process_alive
    <2>3. ASSUME NEW c \in Cpu, Dispatch(c) PROVE StaysDead(p)
      <3>1. arg[c] \in Proc /\ process_alive(arg[c]) /\ th_state[arg[c]] = "READY"
            /\ current_process[c] = NoProc
        BY <2>3 DEF Dispatch, IInv, CpuConsistent, StatesByPlace
      <3>2. /\ th_state' = [th_state EXCEPT ![arg[c]] = "RUNNING"]
            /\ proc_state' = Switched(c, arg[c])
        BY <2>3, <3>1 DEF Dispatch
      <3>3. proc_state'[p] = IF p = arg[c] THEN "RUNNING" ELSE proc_state[p]
        BY <3>1, <3>2, ConstantsAssumption DEF Switched
      <3> QED BY <3>1, <3>2, <3>3 DEF StaysDead, IInv, TypeOK, StatesAgree, process_alive
    <2>4. ASSUME NEW c \in Cpu, Acquire(c) \/ NextFirst(c) \/ NextRemove(c) PROVE StaysDead(p)
      BY <2>4 DEF Acquire, NextFirst, NextRemove, StaysDead, IInv, StatesAgree
    <2>5. ASSUME NEW c \in Cpu, NEW t \in Proc,
                 Timer(c, t) \/ ExitYield(c, t) \/ WaitYield(c, t) \/ FreeYield(c, t) \/ WaitReturn(c, t)
          PROVE  StaysDead(p)
      BY <2>5, ScheduleStaysDead DEF Timer, ExitYield, WaitYield, FreeYield, WaitReturn
    <2>6. ASSUME NEW c \in Cpu, NEW t \in Proc,
                 ForkLoad(c, t) \/ ExitAdopt(c, t) \/ WaitCall(c, t) \/ WaitFound(c, t)
                 \/ AdoptRemove(c, t) \/ AdoptAppend(c, t) \/ AdoptNext(c, t) \/ FreeNext(c, t)
          PROVE  StaysDead(p)
      <3>1. th_state' = th_state /\ proc_state' = proc_state
        BY <2>6 DEF ForkLoad, ExitAdopt, WaitCall, WaitFound, AdoptRemove, AdoptAppend,
                    AdoptNext, FreeNext, runVars
      <3> QED BY <3>1 DEF StaysDead, IInv, StatesAgree
    <2>7. ASSUME NEW c \in Cpu, NEW t \in Proc, NEW new \in Proc, ForkSpawn(c, t, new)
          PROVE  StaysDead(p)
      BY <2>7 DEF ForkSpawn, runVars, StaysDead, IInv, TypeOK, StatesAgree
    <2>8. ASSUME NEW c \in Cpu, NEW t \in Proc, ForkAppend(c, t), ~undefined
          PROVE  StaysDead(p)
      BY <2>8 DEF ForkAppend, StaysDead, IInv, TypeOK, StatesAgree, ChildKnown, ChildOf
    <2>9. ASSUME NEW c \in Cpu, NEW t \in Proc, ExitZombie(c, t) PROVE StaysDead(p)
      BY <2>9 DEF ExitZombie, Running, runVars, StaysDead, IInv, TypeOK, StatesAgree,
         StatesByPlace
    <2>10. ASSUME NEW c \in Cpu, NEW t \in Proc, free_thread(c, t), ~undefined PROVE StaysDead(p)
      BY <2>10 DEF free_thread, StaysDead, IInv, TypeOK, StatesAgree, ChildKnown, ChildOf
    <2>11. ASSUME NEW c \in Cpu, NEW t \in Proc, process_free(c, t), ~undefined PROVE StaysDead(p)
      BY <2>11 DEF process_free, runVars, StaysDead, IInv, TypeOK, StatesAgree, ChildKnown,
         ChildOf
    <2>12. CASE UNCHANGED vars
      BY <2>12 DEF vars, runVars, StaysDead, IInv, StatesAgree
    <2> QED BY <2>1, <2>2, <2>3, <2>4, <2>5, <2>6, <2>7, <2>8, <2>9, <2>10, <2>11, <2>12
            DEF Next, SchedulerStep, KernelStep, UserStep
  <1>2. IInv /\ [Next]_vars => [\A p \in Proc : StaysDead(p)]_vars
    BY <1>1
  <1> QED BY <1>2, Invariance, PTL DEF Spec, DeathIsFinal
=============================================================================

--------------------------- MODULE SmpBootProof ---------------------------
(***************************************************************************)
(* Proofs about SmpBoot, for every number of processors, each as slow as   *)
(* it likes: each of them uses its own cpu_t, and the trampoline is not    *)
(* taken away under it, unless ap_init gave it or one before it up before  *)
(* it had reported.  Neither rests on time: the argument is that ap_init   *)
(* is done with a processor when it sees its report or gives it up, and    *)
(* that the report it sees is that of this very processor as long as every *)
(* one before has its own cpu_t.  What cpu_add has made of the MADT is     *)
(* taken from the assumption CpuTable.                                     *)
(***************************************************************************)
EXTENDS SmpBoot, TLAPS

-----------------------------------------------------------------------------
(* The inductive invariant *)

(* The first processor works on a cpu_t that is there and not its own, and tells *)
(* the processor that it starts of this one.                                     *)
BspOK ==
    /\ bsp \notin {"ap_init", "unmap", "kmain"} => i \in AP
    /\ bsp \in {"unmap", "kmain"} => i = N
    /\ bsp \in {"sipi", "resend", "check2", "fail", "started"} => ap_gs_base = i
    /\ ~mapped => bsp = "kmain"
    /\ current_state[0] = "STARTED"

(* A processor is touched only when its turn comes. *)
Turn(a) ==
    /\ a > i => ap[a] = "off"
    /\ a = i /\ bsp = "ap_init" => ap[a] = "off"
    /\ ap[a] = "sipi_wait" => a = i /\ bsp = "init"
    /\ a = i /\ bsp = "init" => ap[a] \in {"off", "sipi_wait"}

(* A processor whose turn is over, or about to be, has reported, or it or one *)
(* before it was given up.  ap_gs_base is never that of an earlier one.       *)
TrampolineOK(a) ==
    Starting(a) =>
        /\ a < i => ~KeptUpTo(a)
        /\ a = i /\ bsp = "started" => ~KeptUpTo(a)
        /\ ap_gs_base >= a

(* Processors that have reported. *)
Reported(b) == ap[b] \in {"sync", "calibrate", "wait_all", "scheduler"}

(* Who sees a report sees that of a processor which uses this cpu_t. *)
ReportOK ==
    \A c \in AP : current_state[c] = "SIPI_REC" => \E b \in AP : Reported(b) /\ gs[b] = c

Protocol ==
    /\ BspOK
    /\ \A a \in AP : Turn(a) /\ TrampolineOK(a)
    /\ ReportOK
    /\ OwnCpu
    /\ NoCrash

IInv == TypeOK /\ Protocol

-----------------------------------------------------------------------------
(* The processors *)

(* The numbers of the cpu_t. *)
LEMMA Numbers ==
    /\ N \in Nat /\ N > 0
    /\ 0 \in Cpus
    /\ \A c \in Cpus : c \in Nat
    /\ \A a \in AP : a \in Cpus /\ a \in Nat /\ a # 0 /\ a <= N - 1
    /\ \A c \in Cpus : c # 0 => c \in AP
  BY CpuTable DEF Cpus, AP

(* Whoever is kept with those up to it is kept with those up to an earlier one. *)
LEMMA KeptDown ==
    ASSUME missed \subseteq AP, NEW a \in AP, NEW b \in AP, b <= a, KeptUpTo(a)
    PROVE  KeptUpTo(b)
  BY Numbers DEF KeptUpTo

(* The report of a processor that has not made one was made by an impostor, and *)
(* so one before it was given up.                                               *)
LEMMA Impostor ==
    ASSUME TypeOK, ReportOK, OwnCpu, NEW a \in AP, current_state[a] = "SIPI_REC", ~Reported(a)
    PROVE  ~KeptUpTo(a)
  <1>1. PICK b \in AP : Reported(b) /\ gs[b] = a
    BY DEF ReportOK
  <1>2. HasCpu(b) /\ b # a
    BY <1>1 DEF Reported, HasCpu
  <1>3. a >= b /\ ~KeptUpTo(b)
    BY <1>1, <1>2 DEF OwnCpu
  <1> QED BY <1>3, KeptDown DEF TypeOK

(* The ports and the time change nothing of the protocol. *)
LEMMA ProtocolKept ==
    ASSUME Protocol, UNCHANGED <<shared, bsp, i, ap, gs>>
    PROVE  Protocol'
  <1>1. UNCHANGED <<current_state, ap_gs_base, all_ap_started, mapped, missed>>
    BY DEF shared
  <1>2. BspOK'
    BY <1>1 DEF Protocol, BspOK
  <1>3. ASSUME NEW a \in AP PROVE Turn(a)' /\ TrampolineOK(a)'
    BY <1>1 DEF Protocol, Turn, TrampolineOK, Starting, KeptUpTo
  <1>4. ReportOK'
    BY <1>1 DEF Protocol, ReportOK, Reported
  <1>5. OwnCpu' /\ NoCrash'
    BY <1>1 DEF Protocol, OwnCpu, NoCrash, HasCpu, KeptUpTo
  <1> QED BY <1>2, <1>3, <1>4, <1>5 DEF Protocol

(* What pit_delay leaves: a delay that has begun. *)
LEMMA DelayLemma ==
    ASSUME TypeOK, NEW c \in Cpus, NEW ms \in 1..Calibration, pit_delay(c, ms)
    PROVE  access' \in [Cpus -> Access] /\ left' \in [Cpus -> 0..Calibration]
  BY DEF pit_delay, TypeOK, Access, Calibration

(* The state before the first processor's loop. *)
LEMMA InitInv == Init => IInv
  <1> SUFFICES ASSUME Init PROVE IInv
    OBVIOUS
  <1>1. \A c \in Cpus : cpu(c).state \in State
    BY CpuTable DEF State
  <1>2. TypeOK
    <2>1. current_state \in [Cpus -> State]
      <3>1. current_state = [c \in Cpus |-> cpu(c).state]
        BY DEF Init
      <3> QED BY <1>1, <3>1, Zenon
    <2>2. ap_gs_base \in Cpus /\ bsp \in BspPc /\ i \in 0..N /\ missed \subseteq AP
      BY Numbers DEF Init, BspPc
    <2>3. all_ap_started \in BOOLEAN /\ mapped \in BOOLEAN /\ gate \in BOOLEAN /\ loaded \in BOOLEAN
      BY Zenon DEF Init
    <2>4. ap \in [AP -> ApPc] /\ gs \in [AP -> Cpus]
      BY Numbers DEF Init, ApPc
    <2>5. /\ pit \in 0..Longest /\ expects \in {"low", "high"}
          /\ access \in [Cpus -> Access] /\ left \in [Cpus -> 0..Calibration]
      BY DEF Init, Longest, Calibration, Access
    <2>6. elapsed \in [AP -> 0..MaxElapsed]
      BY SmpBootAssumption DEF Init
    <2> QED BY <2>1, <2>2, <2>3, <2>4, <2>5, <2>6 DEF TypeOK
  <1>3. BspOK
    <2>1. current_state[0] = "STARTED"
      BY Numbers, CpuTable DEF Init
    <2> QED BY <2>1 DEF BspOK, Init
  <1>4. \A a \in AP : ap[a] = "off"
    BY DEF Init
  <1>5. \A a \in AP : Turn(a) /\ TrampolineOK(a)
    BY <1>4, Numbers DEF Init, Turn, TrampolineOK, Starting
  <1>6. OwnCpu /\ NoCrash
    BY <1>4 DEF OwnCpu, NoCrash, HasCpu
  <1>7. ReportOK
    <2>1. \A c \in AP : current_state[c] = "STOPPED"
      BY Numbers, CpuTable DEF Init
    <2> QED BY <2>1 DEF ReportOK
  <1> QED BY <1>2, <1>3, <1>5, <1>6, <1>7 DEF IInv, Protocol

-----------------------------------------------------------------------------
(* The PIT *)

(* Time passes. *)
LEMMA TickStep ==
    ASSUME IInv, Tick
    PROVE  IInv'
  <1>1. UNCHANGED <<shared, bsp, i, ap, gs, gate, expects, loaded, delayVars>>
    BY DEF Tick
  <1>2. pit' \in 0..Longest
    BY DEF Tick, IInv, TypeOK, Longest
  <1>3. elapsed' \in [AP -> 0..MaxElapsed]
    BY SmpBootAssumption DEF Tick, IInv, TypeOK
  <1>4. TypeOK'
    BY <1>1, <1>2, <1>3 DEF IInv, TypeOK, shared, delayVars
  <1>5. Protocol'
    BY <1>1, ProtocolKept DEF IInv
  <1> QED BY <1>4, <1>5 DEF IInv

(* Whatever the order in which the bytes of two delays reach it, channel 2 keeps a *)
(* count that it can have.                                                         *)
LEMMA PortStep ==
    ASSUME IInv, NEW c \in Cpus, PortAccess(c)
    PROVE  IInv'
  <1> DEFINE same == UNCHANGED <<shared, bsp, i, ap, gs, elapsed>>
  <1> DEFINE typed == /\ gate' \in BOOLEAN /\ expects' \in {"low", "high"} /\ loaded' \in BOOLEAN
                      /\ pit' \in 0..Longest
                      /\ access' \in [Cpus -> Access] /\ left' \in [Cpus -> 0..Calibration]
  <1>1. /\ gate \in BOOLEAN /\ expects \in {"low", "high"} /\ loaded \in BOOLEAN
        /\ pit \in 0..Longest /\ 0 \in 0..Longest
        /\ access \in [Cpus -> Access] /\ left \in [Cpus -> 0..Calibration]
    BY DEF IInv, TypeOK, Longest
  <1>2. Slice(left[c]) \in 0..Longest /\ left[c] - Slice(left[c]) \in 0..Calibration
    <2>1. left[c] \in 0..10
      BY <1>1 DEF Calibration
    <2> QED BY <2>1 DEF Slice, Longest, Calibration
  <1>3. ASSUME NEW from \in Access, NEW to \in Access, Go(c, from, to)
        PROVE  same /\ access' \in [Cpus -> Access]
    BY <1>1, <1>3 DEF Go
  <1>4. ASSUME NEW worth \in 0..Longest, WriteByte(worth)
        PROVE  /\ gate' \in BOOLEAN /\ expects' \in {"low", "high"} /\ loaded' \in BOOLEAN
               /\ pit' \in 0..Longest /\ left' \in [Cpus -> 0..Calibration]
    <2>1. UNCHANGED <<gate, left>> /\ loaded' = (expects = "high")
      BY <1>4 DEF WriteByte
    <2>2. gate' \in BOOLEAN /\ loaded' \in BOOLEAN
      BY <1>1, <2>1, Zenon
    <2>3. left' \in [Cpus -> 0..Calibration]
      BY <1>1, <2>1
    <2>4. expects' \in {"low", "high"} /\ pit' \in 0..Longest
      BY <1>1, <1>4 DEF WriteByte
    <2> QED BY <2>2, <2>3, <2>4
  <1>5. ASSUME same, typed PROVE IInv'
    <2>1. TypeOK'
      BY <1>5 DEF IInv, TypeOK, shared
    <2>2. Protocol'
      BY <1>5, ProtocolKept DEF IInv
    <2> QED BY <2>1, <2>2 DEF IInv
  <1>6. CASE GateOff(c) \/ GateOn(c)
    <2>1. same /\ access' \in [Cpus -> Access]
      BY <1>3, <1>6 DEF GateOff, GateOn, Access
    <2>2. UNCHANGED <<expects, loaded, pit, left>> /\ gate' \in BOOLEAN
      BY <1>6 DEF GateOff, GateOn
    <2> QED BY <1>1, <1>5, <2>1, <2>2
  <1>7. CASE Command(c)
    <2>1. same /\ access' \in [Cpus -> Access]
      BY <1>3, <1>7 DEF Command, Access
    <2>2. UNCHANGED <<gate, left>> /\ expects' = "low" /\ loaded' = FALSE /\ pit' = 0
      BY <1>7 DEF Command
    <2> QED BY <1>1, <1>5, <2>1, <2>2
  <1>8. CASE LowByte(c)
    <2>1. same /\ access' \in [Cpus -> Access]
      BY <1>3, <1>8 DEF LowByte, Access
    <2>2. PICK worth \in 0..Longest : WriteByte(worth)
      BY <1>8 DEF LowByte, Longest
    <2> QED BY <1>4, <1>5, <2>1, <2>2
  <1>9. CASE HighByte(c)
    <2>1. same /\ access' \in [Cpus -> Access]
      BY <1>3, <1>9 DEF HighByte, Access
    <2>2. PICK worth \in 0..Longest : WriteByte(worth)
      BY <1>2, <1>9 DEF HighByte
    <2> QED BY <1>4, <1>5, <2>1, <2>2
  <1>10. CASE Poll(c)
    <2>1. PICK to \in Access : Go(c, "poll", to)
      BY <1>10 DEF Poll, Access
    <2>2. same /\ access' \in [Cpus -> Access]
      BY <1>3, <2>1 DEF Access
    <2>3. UNCHANGED pitVars /\ left' = [left EXCEPT ![c] = left[c] - Slice(left[c])]
      BY <1>10 DEF Poll
    <2>4. left' \in [Cpus -> 0..Calibration]
      BY <1>1, <1>2, <2>3
    <2> QED BY <1>1, <1>5, <2>2, <2>3, <2>4 DEF pitVars
  <1> QED BY <1>6, <1>7, <1>8, <1>9, <1>10 DEF PortAccess

-----------------------------------------------------------------------------
(* The first processor *)

(* It passes over itself. *)
LEMMA ApInitSkipStep ==
    ASSUME IInv, ApInitSkip
    PROVE  IInv'
  <1> USE DEF IInv, Protocol
  <1>1. /\ bsp = "ap_init" /\ i' = i + 1 /\ i \in Nat /\ i < N
        /\ UNCHANGED <<current_state, ap_gs_base, all_ap_started, mapped, missed, bsp, ap, gs,
                       gate, expects, loaded, pit, access, left, elapsed>>
    BY Numbers DEF ApInitSkip, TypeOK, shared, pitVars, delayVars
  <1>2. i' \in 0..N
    BY <1>1, Numbers
  <1>3. TypeOK'
    BY <1>1, <1>2 DEF TypeOK
  <1>4. BspOK'
    BY <1>1 DEF BspOK
  <1>5. ASSUME NEW a \in AP PROVE Turn(a)' /\ TrampolineOK(a)'
    BY <1>1, <1>5, Numbers DEF Turn, TrampolineOK, Starting, KeptUpTo
  <1>6. OwnCpu' /\ NoCrash' /\ ReportOK'
    BY <1>1 DEF OwnCpu, NoCrash, ReportOK, Reported, HasCpu, KeptUpTo
  <1> QED BY <1>3, <1>4, <1>5, <1>6

(* The INIT interrupt: the next processor waits for its startup interrupt. *)
LEMMA SendInitStep ==
    ASSUME IInv, SendInit
    PROVE  IInv'
  <1> USE DEF IInv, Protocol
  <1>1. /\ bsp = "ap_init" /\ bsp' = "init" /\ i \in Nat /\ i < N
        /\ UNCHANGED <<current_state, ap_gs_base, all_ap_started, mapped, missed, i, gs,
                       gate, expects, loaded, pit, elapsed>>
    BY Numbers DEF SendInit, TypeOK, shared, pitVars
  <1>2. i \in AP
    <2>1. i # 0
      BY DEF SendInit, BspOK
    <2> QED BY <1>1, <2>1, Numbers DEF AP
  <1>3. /\ ap \in [AP -> ApPc] /\ ap[i] = "off"
        /\ ap' = [ap EXCEPT ![i] = IF Present(i) THEN "sipi_wait" ELSE ap[i]]
    BY <1>1, <1>2 DEF SendInit, TypeOK, Turn
  <1>4. access' \in [Cpus -> Access] /\ left' \in [Cpus -> 0..Calibration]
    <2>1. InitDelay \in 1..Calibration /\ pit_delay(0, InitDelay)
      BY DEF SendInit, InitDelay, Calibration
    <2> QED BY <2>1, DelayLemma, Numbers
  <1>5. TypeOK'
    <2>1. ap' \in [AP -> ApPc] /\ bsp' \in BspPc
      BY <1>1, <1>3 DEF ApPc, BspPc
    <2> QED BY <1>1, <1>4, <2>1 DEF TypeOK
  <1>6. BspOK'
    BY <1>1, <1>2 DEF BspOK
  <1>7. \A a \in AP : ap'[a] = ap[a] \/ (a = i /\ ap[a] = "off" /\ ap'[a] = "sipi_wait")
    BY <1>3
  <1>8. ASSUME NEW a \in AP PROVE Turn(a)' /\ TrampolineOK(a)'
    BY <1>1, <1>3, <1>7, Numbers DEF Turn, TrampolineOK, Starting, KeptUpTo
  <1>9. OwnCpu' /\ NoCrash'
    BY <1>1, <1>7 DEF OwnCpu, NoCrash, HasCpu, KeptUpTo
  <1>10. ReportOK'
    BY <1>1, <1>7 DEF ReportOK, Reported
  <1> QED BY <1>5, <1>6, <1>8, <1>9, <1>10

(* The first startup interrupt: the only step that writes ap_gs_base.  Another *)
(* processor in the trampoline will find it, but one before was given up.      *)
LEMMA SendSipiStep ==
    ASSUME IInv, SendSipi
    PROVE  IInv'
  <1> USE DEF IInv, Protocol
  <1>1. /\ bsp = "init" /\ bsp' = "sipi" /\ i \in AP /\ i \in Nat /\ ap_gs_base' = i
        /\ UNCHANGED <<all_ap_started, mapped, missed, i, gs, gate, expects, loaded, pit, elapsed>>
    BY Numbers DEF SendSipi, TypeOK, BspOK, pitVars
  <1>2. /\ ap \in [AP -> ApPc] /\ ap[i] \in {"off", "sipi_wait"}
        /\ ap' = [ap EXCEPT ![i] = IF ap[i] = "sipi_wait" THEN "trampoline" ELSE ap[i]]
    BY <1>1 DEF SendSipi, TypeOK, Turn, Sipi
  <1>3. access' \in [Cpus -> Access] /\ left' \in [Cpus -> 0..Calibration]
    <2>1. SipiDelay \in 1..Calibration /\ pit_delay(0, SipiDelay)
      BY DEF SendSipi, SipiDelay, Calibration
    <2> QED BY <2>1, DelayLemma, Numbers
  <1>4. /\ current_state' \in [Cpus -> State]
        /\ current_state' = [current_state EXCEPT ![i] = "SIPI_SENT"]
        /\ current_state'[0] = current_state[0]
    BY <1>1, Numbers DEF SendSipi, TypeOK, State
  <1>5. TypeOK'
    <2>1. ap' \in [AP -> ApPc] /\ bsp' \in BspPc /\ ap_gs_base' \in Cpus
      BY <1>1, <1>2, Numbers DEF ApPc, BspPc
    <2> QED BY <1>1, <1>3, <1>4, <2>1 DEF TypeOK
  <1>6. BspOK'
    BY <1>1, <1>4 DEF BspOK
  <1>7. \A a \in AP : ap'[a] = ap[a] \/ (a = i /\ ap[a] = "sipi_wait" /\ ap'[a] = "trampoline")
    BY <1>2
  <1>8. ASSUME NEW a \in AP PROVE Turn(a)' /\ TrampolineOK(a)'
    <2>1. ap'[i] \in {"off", "trampoline"}
      BY <1>1, <1>2
    <2>2. Turn(a)'
      BY <1>1, <1>7, <2>1, Numbers DEF Turn
    <2>3. a > i => ap[a] = "off"
      BY DEF Turn
    <2> QED BY <1>1, <1>7, <2>2, <2>3, Numbers DEF TrampolineOK, Starting, KeptUpTo
  <1>9. OwnCpu' /\ NoCrash'
    BY <1>1, <1>7 DEF OwnCpu, NoCrash, HasCpu, KeptUpTo
  <1>10. ReportOK'
    <2>1. \A c \in AP : current_state'[c] = "SIPI_REC" => current_state[c] = "SIPI_REC"
      BY <1>1, <1>4, Numbers DEF TypeOK
    <2> QED BY <1>1, <1>7, <2>1 DEF ReportOK, Reported
  <1> QED BY <1>5, <1>6, <1>8, <1>9, <1>10

(* The delay is over: ap_init goes on with a report that it sees, its own or an *)
(* impostor's, or without one.                                                  *)
LEMMA CheckStep ==
    ASSUME IInv, Check \/ Check2
    PROVE  IInv'
  <1> USE DEF IInv, Protocol
  <1>1. /\ bsp \in {"sipi", "check2"} /\ bsp' \in {"started", "resend", "fail"} /\ i \in AP
        /\ bsp' = "started" => current_state[i] = "SIPI_REC"
        /\ UNCHANGED <<current_state, ap_gs_base, all_ap_started, mapped, missed, i, ap, gs,
                       gate, expects, loaded, pit, access, left, elapsed>>
    BY DEF Check, Check2, BspOK, shared, pitVars, delayVars
  <1>2. TypeOK'
    BY <1>1 DEF TypeOK, BspPc
  <1>3. BspOK'
    BY <1>1 DEF BspOK
  <1>4. ASSUME NEW a \in AP PROVE Turn(a)' /\ TrampolineOK(a)'
    <2>1. a = i /\ bsp' = "started" /\ Starting(a) => ~KeptUpTo(a)
      BY <1>1, Impostor DEF Starting, Reported
    <2> QED BY <1>1, <2>1 DEF Turn, TrampolineOK, Starting, KeptUpTo
  <1>5. OwnCpu' /\ NoCrash' /\ ReportOK'
    BY <1>1 DEF OwnCpu, NoCrash, ReportOK, Reported, HasCpu, KeptUpTo
  <1> QED BY <1>2, <1>3, <1>4, <1>5

(* The second startup interrupt finds no processor that waits for one. *)
LEMMA ResendStep ==
    ASSUME IInv, Resend
    PROVE  IInv'
  <1> USE DEF IInv, Protocol
  <1>1. /\ bsp = "resend" /\ bsp' = "check2" /\ i \in AP
        /\ UNCHANGED <<ap_gs_base, all_ap_started, mapped, missed, i, gs, gate, expects, loaded,
                       pit, elapsed>>
    BY DEF Resend, BspOK, pitVars
  <1>2. ap' = ap
    <2>1. ap[i] # "sipi_wait"
      BY <1>1 DEF Turn
    <2>2. ap' = [ap EXCEPT ![i] = ap[i]]
      BY <2>1 DEF Resend, Sipi
    <2> QED BY <1>1, <2>2 DEF TypeOK
  <1>3. access' \in [Cpus -> Access] /\ left' \in [Cpus -> 0..Calibration]
    <2>1. ResendDelay \in 1..Calibration /\ pit_delay(0, ResendDelay)
      BY DEF Resend, ResendDelay, Calibration
    <2> QED BY <2>1, DelayLemma, Numbers
  <1>4. /\ current_state' \in [Cpus -> State]
        /\ current_state' = [current_state EXCEPT ![i] = "SIPI_SENT"]
        /\ current_state'[0] = current_state[0]
    BY <1>1, Numbers DEF Resend, TypeOK, State
  <1>5. TypeOK'
    <2>1. bsp' \in BspPc
      BY <1>1 DEF BspPc
    <2> QED BY <1>1, <1>2, <1>3, <1>4, <2>1 DEF TypeOK
  <1>6. BspOK'
    BY <1>1, <1>4 DEF BspOK
  <1>7. ASSUME NEW a \in AP PROVE Turn(a)' /\ TrampolineOK(a)'
    BY <1>1, <1>2 DEF Turn, TrampolineOK, Starting, KeptUpTo
  <1>8. OwnCpu' /\ NoCrash'
    BY <1>1, <1>2 DEF OwnCpu, NoCrash, HasCpu, KeptUpTo
  <1>9. ReportOK'
    <2>1. \A c \in AP : current_state'[c] = "SIPI_REC" => current_state[c] = "SIPI_REC"
      BY <1>1, <1>4, Numbers DEF TypeOK
    <2> QED BY <1>1, <1>2, <2>1 DEF ReportOK, Reported
  <1> QED BY <1>5, <1>6, <1>7, <1>8, <1>9

(* ap_init is done with a processor: one that it gives up before its report is *)
(* remembered as missed.                                                       *)
LEMMA FinishStep ==
    ASSUME IInv, Finish
    PROVE  IInv'
  <1> USE DEF IInv, Protocol
  <1>1. /\ bsp \in {"fail", "started"} /\ bsp' = "ap_init" /\ i \in AP /\ i \in Nat /\ i' = i + 1
        /\ missed' = IF bsp = "fail" /\ Starting(i) THEN missed \cup {i} ELSE missed
        /\ UNCHANGED <<ap_gs_base, all_ap_started, mapped, ap, gs, gate, expects, loaded, pit,
                       access, left, elapsed>>
    BY Numbers DEF Finish, BspOK, pitVars, delayVars
  <1>2. /\ current_state' \in [Cpus -> State]
        /\ \A c \in AP : current_state'[c] = "SIPI_REC" => current_state[c] = "SIPI_REC"
        /\ current_state'[0] = current_state[0]
    BY <1>1, Numbers DEF Finish, TypeOK, State
  <1>3. i' \in 0..N
    BY <1>1, Numbers
  <1>4. missed \subseteq AP /\ missed' \subseteq AP /\ missed \subseteq missed'
    BY <1>1 DEF TypeOK
  <1>5. TypeOK'
    <2>1. bsp' \in BspPc
      BY <1>1 DEF BspPc
    <2> QED BY <1>1, <1>2, <1>3, <1>4, <2>1 DEF TypeOK
  <1>6. BspOK'
    BY <1>1, <1>2 DEF BspOK
  <1>7. ASSUME NEW a \in AP PROVE KeptUpTo(a)' => KeptUpTo(a)
    BY <1>4 DEF KeptUpTo
  <1>8. ASSUME NEW a \in AP PROVE Turn(a)' /\ TrampolineOK(a)'
    <2>1. a = i /\ Starting(a) => ~KeptUpTo(a)'
      <3>1. CASE bsp = "fail" /\ a = i /\ Starting(a)
        <4>1. a \in missed'
          BY <1>1, <3>1
        <4> QED BY <4>1, Numbers DEF KeptUpTo
      <3>2. CASE bsp = "started" /\ a = i /\ Starting(a)
        BY <1>7, <3>2 DEF TrampolineOK
      <3> QED BY <1>1, <3>1, <3>2
    <2>2. Starting(a) /\ a < i' => ~KeptUpTo(a)'
      <3>1. CASE a < i
        BY <1>7, <3>1 DEF TrampolineOK
      <3> QED BY <1>1, <2>1, <3>1, Numbers
    <2>3. Starting(a)' = Starting(a)
      BY <1>1 DEF Starting
    <2>4. Turn(a)'
      BY <1>1, Numbers DEF Turn
    <2> QED BY <1>1, <2>2, <2>3, <2>4 DEF TrampolineOK
  <1>9. OwnCpu' /\ NoCrash'
    BY <1>1, <1>7 DEF OwnCpu, NoCrash, HasCpu
  <1>10. ReportOK'
    BY <1>1, <1>2 DEF ReportOK, Reported
  <1> QED BY <1>5, <1>6, <1>8, <1>9, <1>10

(* The loop over the processors ends, and the trampoline is taken away. *)
LEMMA EndStep ==
    ASSUME IInv, AllStarted \/ Unmap
    PROVE  IInv'
  <1> USE DEF IInv, Protocol
  <1>1. /\ bsp' \in {"unmap", "kmain"} /\ bsp \in {"ap_init", "unmap"} /\ i = N
        /\ UNCHANGED <<current_state, ap_gs_base, missed, i, ap, gs, gate, expects, loaded, pit,
                       access, left, elapsed>>
    BY DEF AllStarted, Unmap, BspOK, pitVars, delayVars
  <1>6. /\ all_ap_started' \in BOOLEAN /\ mapped' \in BOOLEAN
        /\ ~mapped' => bsp' = "kmain"
    <2>1. CASE AllStarted
      <3>1. all_ap_started' = TRUE /\ mapped' = mapped /\ bsp = "ap_init"
        BY <2>1 DEF AllStarted
      <3>2. mapped /\ mapped \in BOOLEAN
        BY <3>1 DEF BspOK, TypeOK
      <3> QED BY <3>1, <3>2, Zenon
    <2>2. CASE Unmap
      <3>1. all_ap_started' = all_ap_started /\ mapped' = FALSE /\ bsp' = "kmain"
        BY <2>2 DEF Unmap
      <3>2. all_ap_started \in BOOLEAN
        BY DEF TypeOK
      <3> QED BY <3>1, <3>2, Zenon
    <2> QED BY <2>1, <2>2
  <1>2. TypeOK'
    BY <1>1, <1>6 DEF TypeOK, BspPc
  <1>3. BspOK'
    BY <1>1, <1>6 DEF BspOK
  <1>4. ASSUME NEW a \in AP PROVE Turn(a)' /\ TrampolineOK(a)'
    BY <1>1, Numbers DEF Turn, TrampolineOK, Starting, KeptUpTo
  <1>5. OwnCpu' /\ NoCrash' /\ ReportOK'
    BY <1>1 DEF OwnCpu, NoCrash, ReportOK, Reported, HasCpu, KeptUpTo
  <1> QED BY <1>2, <1>3, <1>4, <1>5

-----------------------------------------------------------------------------
(* The other processors *)

(* Paging is turned on in a page that is there, or one before was given up. *)
LEMMA TrampolineStep ==
    ASSUME IInv, NEW a \in AP, Trampoline(a)
    PROVE  IInv'
  <1> USE DEF IInv, Protocol
  <1>1. /\ ap[a] = "trampoline" /\ ap \in [AP -> ApPc]
        /\ ap' = [ap EXCEPT ![a] = IF mapped THEN "longmode" ELSE "crashed"]
        /\ UNCHANGED <<current_state, ap_gs_base, all_ap_started, mapped, missed, bsp, i, gs,
                       gate, expects, loaded, pit, access, left, elapsed>>
    BY DEF Trampoline, TypeOK, shared, pitVars, delayVars
  <1>2. ~mapped => ~KeptUpTo(a)
    BY <1>1, Numbers DEF TrampolineOK, Starting, BspOK
  <1>3. TypeOK'
    <2>1. ap' \in [AP -> ApPc]
      BY <1>1 DEF ApPc
    <2> QED BY <1>1, <2>1 DEF TypeOK
  <1>4. BspOK'
    BY <1>1 DEF BspOK
  <1>5. \A b \in AP : ap'[b] = IF a = b THEN (IF mapped THEN "longmode" ELSE "crashed") ELSE ap[b]
    BY <1>1
  <1>6. ASSUME NEW b \in AP PROVE Turn(b)' /\ TrampolineOK(b)'
    BY <1>1, <1>5 DEF Turn, TrampolineOK, Starting, KeptUpTo
  <1>7. OwnCpu'
    BY <1>1, <1>5 DEF OwnCpu, HasCpu, KeptUpTo
  <1>8. NoCrash'
    BY <1>1, <1>2, <1>5 DEF NoCrash, KeptUpTo
  <1>9. ReportOK'
    BY <1>1, <1>5 DEF ReportOK, Reported
  <1> QED BY <1>3, <1>4, <1>6, <1>7, <1>8, <1>9

(* The cpu_t that is loaded is the processor's own, or one before was given up. *)
LEMMA LoadGsStep ==
    ASSUME IInv, NEW a \in AP, LoadGs(a)
    PROVE  IInv'
  <1> USE DEF IInv, Protocol
  <1>1. /\ ap[a] = "longmode" /\ ap \in [AP -> ApPc] /\ gs \in [AP -> Cpus]
        /\ ap' = [ap EXCEPT ![a] = "report"] /\ gs' = [gs EXCEPT ![a] = ap_gs_base]
        /\ UNCHANGED <<current_state, ap_gs_base, all_ap_started, mapped, missed, bsp, i,
                       gate, expects, loaded, pit, access, left, elapsed>>
    BY DEF LoadGs, TypeOK, shared, pitVars, delayVars
  <1>2. ap_gs_base >= a /\ (KeptUpTo(a) => ap_gs_base = a)
    <2>1. ap_gs_base >= a /\ (a < i => ~KeptUpTo(a))
      BY <1>1 DEF TrampolineOK, Starting
    <2>2. a = i => bsp \notin {"ap_init", "init"}
      BY <1>1 DEF Turn
    <2>3. a = i => ap_gs_base = i
      BY <2>2, Numbers DEF BspOK, TypeOK, BspPc
    <2>4. ~(a > i) /\ i \in Nat
      BY <1>1, Numbers DEF Turn, TypeOK
    <2> QED BY <2>1, <2>3, <2>4, Numbers
  <1>3. TypeOK'
    <2>1. ap' \in [AP -> ApPc] /\ gs' \in [AP -> Cpus]
      BY <1>1 DEF ApPc, TypeOK
    <2> QED BY <1>1, <2>1 DEF TypeOK
  <1>4. BspOK'
    BY <1>1 DEF BspOK
  <1>5. \A b \in AP : /\ ap'[b] = IF a = b THEN "report" ELSE ap[b]
                      /\ gs'[b] = IF a = b THEN ap_gs_base ELSE gs[b]
    BY <1>1
  <1>6. ASSUME NEW b \in AP PROVE Turn(b)' /\ TrampolineOK(b)'
    BY <1>1, <1>5 DEF Turn, TrampolineOK, Starting, KeptUpTo
  <1>7. OwnCpu'
    BY <1>1, <1>2, <1>5 DEF OwnCpu, HasCpu, KeptUpTo
  <1>8. NoCrash'
    BY <1>1, <1>5 DEF NoCrash, KeptUpTo
  <1>9. ReportOK'
    <2>1. ~Reported(a)
      BY <1>1 DEF Reported
    <2> QED BY <1>1, <1>5, <2>1 DEF ReportOK, Reported
  <1> QED BY <1>3, <1>4, <1>6, <1>7, <1>8, <1>9

(* The report goes to the processor's own cpu_t or to a later one's, never to *)
(* the first one's.                                                           *)
LEMMA ReportStep ==
    ASSUME IInv, NEW a \in AP, Report(a)
    PROVE  IInv'
  <1> USE DEF IInv, Protocol
  <1>1. /\ ap[a] = "report" /\ ap \in [AP -> ApPc]
        /\ ap' = [ap EXCEPT ![a] = "sync"]
        /\ UNCHANGED <<ap_gs_base, all_ap_started, mapped, missed, bsp, i, gs,
                       gate, expects, loaded, pit, access, left, elapsed>>
    BY DEF Report, TypeOK, pitVars, delayVars
  <1>2. gs[a] \in Cpus /\ gs[a] # 0
    BY <1>1, Numbers DEF OwnCpu, HasCpu, TypeOK
  <1>3. /\ current_state' \in [Cpus -> State]
        /\ current_state' = [current_state EXCEPT ![gs[a]] = "SIPI_REC"]
        /\ current_state'[0] = current_state[0]
    BY <1>2, Numbers DEF Report, TypeOK, State
  <1>4. TypeOK'
    <2>1. ap' \in [AP -> ApPc]
      BY <1>1 DEF ApPc
    <2> QED BY <1>1, <1>3, <2>1 DEF TypeOK
  <1>5. BspOK'
    BY <1>1, <1>3 DEF BspOK
  <1>6. \A b \in AP : ap'[b] = IF a = b THEN "sync" ELSE ap[b]
    BY <1>1
  <1>7. ASSUME NEW b \in AP PROVE Turn(b)' /\ TrampolineOK(b)'
    BY <1>1, <1>6 DEF Turn, TrampolineOK, Starting, KeptUpTo
  <1>8. OwnCpu' /\ NoCrash'
    BY <1>1, <1>6 DEF OwnCpu, NoCrash, HasCpu, KeptUpTo
  <1>9. ReportOK'
    <2>1. ASSUME NEW c \in AP, current_state'[c] = "SIPI_REC"
          PROVE  \E b \in AP : Reported(b)' /\ gs'[b] = c
      <3>1. CASE c = gs[a]
        BY <1>1, <1>6, <3>1 DEF Reported
      <3>2. CASE c # gs[a]
        <4>1. current_state[c] = "SIPI_REC"
          BY <1>3, <2>1, <3>2, Numbers DEF TypeOK
        <4> QED BY <1>1, <1>6, <4>1 DEF ReportOK, Reported
      <3> QED BY <3>1, <3>2
    <2> QED BY <2>1 DEF ReportOK
  <1> QED BY <1>4, <1>5, <1>7, <1>8, <1>9

(* The way from the report to the scheduler, which changes nothing that the start *)
(* of the others rests on.                                                        *)
LEMMA RunStepInv ==
    ASSUME IInv, NEW a \in AP, Leave(a) \/ Calibrated(a) \/ Schedule(a)
    PROVE  IInv'
  <1> USE DEF IInv, Protocol
  <1>1. PICK l \in {"calibrate", "wait_all", "scheduler"} : ap' = [ap EXCEPT ![a] = l]
    BY DEF Leave, Calibrated, Schedule
  <1>2. /\ ap[a] \in {"sync", "calibrate", "wait_all"} /\ ap \in [AP -> ApPc]
        /\ UNCHANGED <<current_state, ap_gs_base, all_ap_started, mapped, missed, bsp, i, gs,
                       gate, expects, loaded, pit>>
    BY DEF Leave, Calibrated, Schedule, TypeOK, shared, pitVars
  <1>3. /\ access' \in [Cpus -> Access] /\ left' \in [Cpus -> 0..Calibration]
        /\ elapsed' \in [AP -> 0..MaxElapsed]
    <2>1. CASE Leave(a)
      <3>1. Calibration \in 1..Calibration /\ pit_delay(a, Calibration) /\ a \in Cpus
        BY <2>1, Numbers DEF Leave, Calibration
      <3>2. elapsed' \in [AP -> 0..MaxElapsed]
        BY <2>1, SmpBootAssumption DEF Leave, TypeOK
      <3> QED BY <3>1, <3>2, DelayLemma
    <2>2. CASE Calibrated(a) \/ Schedule(a)
      BY <2>2 DEF Calibrated, Schedule, TypeOK, delayVars
    <2> QED BY <2>1, <2>2
  <1>4. TypeOK'
    <2>1. ap' \in [AP -> ApPc]
      BY <1>1, <1>2 DEF ApPc
    <2> QED BY <1>2, <1>3, <2>1 DEF TypeOK
  <1>5. BspOK'
    BY <1>2 DEF BspOK
  <1>6. \A b \in AP : ap'[b] = IF a = b THEN l ELSE ap[b]
    BY <1>1, <1>2
  <1>7. ASSUME NEW b \in AP PROVE Turn(b)' /\ TrampolineOK(b)'
    BY <1>2, <1>6 DEF Turn, TrampolineOK, Starting, KeptUpTo
  <1>8. OwnCpu' /\ NoCrash'
    BY <1>2, <1>6 DEF OwnCpu, NoCrash, HasCpu, KeptUpTo
  <1>9. ReportOK'
    BY <1>2, <1>6 DEF ReportOK, Reported
  <1> QED BY <1>4, <1>5, <1>7, <1>8, <1>9

-----------------------------------------------------------------------------
(* The theorems *)

(* Every step keeps the invariant. *)
LEMMA NextInv == IInv /\ [Next]_vars => IInv'
  <1> SUFFICES ASSUME IInv, [Next]_vars PROVE IInv'
    OBVIOUS
  <1>1. CASE UNCHANGED vars
    <2>1. TypeOK'
      BY <1>1 DEF vars, shared, pitVars, delayVars, IInv, TypeOK
    <2>2. Protocol'
      BY <1>1, ProtocolKept DEF vars, IInv
    <2> QED BY <2>1, <2>2 DEF IInv
  <1>2. CASE Tick
    BY <1>2, TickStep
  <1>3. CASE BspStep
    BY <1>3, ApInitSkipStep, SendInitStep, SendSipiStep, CheckStep, ResendStep, FinishStep,
       EndStep DEF BspStep
  <1>4. ASSUME NEW a \in AP, StartStep(a) \/ RunStep(a) PROVE IInv'
    BY <1>4, TrampolineStep, LoadGsStep, ReportStep, RunStepInv DEF StartStep, RunStep
  <1>5. ASSUME NEW c \in Cpus, PortAccess(c) PROVE IInv'
    BY <1>5, PortStep
  <1> QED BY <1>1, <1>2, <1>3, <1>4, <1>5 DEF Next

(* The invariant of the processors' start (cpu.c, smp.c, trampoline.S). *)
THEOREM Invariant == Spec => []IInv
  BY InitInv, NextInv, PTL DEF Spec

(* The variables of the start keep their types, however the bytes of two delays *)
(* are mixed (pit.c:25-44).                                                     *)
THEOREM TypeCorrect == Spec => []TypeOK
  <1>1. IInv => TypeOK
    BY DEF IInv
  <1> QED BY <1>1, Invariant, PTL

(* Every processor uses the cpu_t that cpu_add made for it, unless ap_init gave *)
(* it or one before it up before it had reported, and never that of an earlier  *)
(* one, for every number of processors, each as slow as it likes (smp.c:24-41,  *)
(* trampoline.S:69-76).                                                         *)
THEOREM OwnCpuAlways == Spec => []OwnCpu
  <1>1. IInv => OwnCpu
    BY DEF IInv, Protocol
  <1> QED BY <1>1, Invariant, PTL

(* The trampoline is not unmapped under a processor, unless ap_init gave it or *)
(* one before it up before it had reported (smp.c:30-41, cpu.c:61-67).         *)
THEOREM NoCrashEver == Spec => []NoCrash
  <1>1. IInv => NoCrash
    BY DEF IInv, Protocol
  <1> QED BY <1>1, Invariant, PTL
=============================================================================

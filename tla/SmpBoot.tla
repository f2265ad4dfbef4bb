------------------------------ MODULE SmpBoot ------------------------------
(***************************************************************************)
(* How the processors are started: cpu_init and ap_init on the first       *)
(* processor (cpu/cpu.c, cpu/smp.c), the trampoline and ap_start on each   *)
(* of the others (cpu/trampoline.S), and the one PIT channel that all of   *)
(* them use for their delays (drivers/pit.c, interrupts/apic.c).           *)
(*                                                                         *)
(* The processors that Acpi has found are started one after the other.     *)
(* The first processor tells each where its cpu_t is through the one       *)
(* variable ap_gs_base, and the two agree by means of current_state alone. *)
(* Any of them may be as slow as it likes.  There may be a cpu_t without a *)
(* processor, which then answers no interrupt.  A delay is a sequence of   *)
(* port accesses under no lock, which two processors may mix; time is what *)
(* the PIT counts, and its unit is 10 ms.                                  *)
(***************************************************************************)
EXTENDS Acpi

CONSTANTS
    MaxElapsed  \* bound: where the stopwatch of a calibration stops

cpus == acpi_init(Firmware).cpus
N    == Len(cpus)     \* num_cpu

Cpus     == 0..(N - 1)
AP       == 1..(N - 1)
cpu(c)   == cpus[c + 1]

(* What cpu_add has made of the MADT: the first processor runs, the others are  *)
(* stopped, and the entry that an interrupt for a processor is sent from is its *)
(* own                                                                          *)
ASSUME CpuTable ==
    /\ N \in Nat \ {0}
    /\ \A c \in Cpus : cpu(c).state = IF c = 0 THEN "STARTED" ELSE "STOPPED"
    /\ \A c \in Cpus : cpu(c).id \in EnabledProcessors => cpu(c).apic_id = cpu(c).id

(* No two cpu_t are those of one processor *)
ASSUME SmpBootAssumption ==
    /\ \A c, d \in Cpus : cpu(c).id = cpu(d).apic_id => c = d
    /\ MaxElapsed \in Nat

InitDelay    == 1     \* pit_delay(10)
SipiDelay    == 1     \* pit_delay(10)
ResendDelay  == 10    \* pit_delay(100)
Calibration  == 10    \* calibrate_apic_timer(100)
Longest      == 5     \* what pit_delay counts at once

VARIABLES
    current_state,   \* cpu_t.current_state
    ap_gs_base,      \* the cpu_t for the processor that starts
    all_ap_started,
    mapped,          \* the trampoline's pages are mapped
    bsp,             \* where the first processor is
    i,               \* the loop variable of cpu_init
    ap,              \* where each other processor is
    gs,              \* the cpu_t that each other processor uses
    missed,          \* history: the processors that had not reported when ap_init gave them up
    gate,            \* CH2_ENABLE: PIT channel 2 may count
    expects,         \* the byte of the count that channel 2 takes next
    loaded,          \* it has a whole count
    pit,             \* what is left of it; 0 raises its output
    access,          \* the port access of delay() that a processor is at
    left,            \* what is left of a processor's pit_delay, with the present delay()
    elapsed          \* history: time since a processor's calibration began

shared == <<current_state, ap_gs_base, all_ap_started, mapped, missed>>
pitVars == <<gate, expects, loaded, pit>>
delayVars == <<access, left>>
vars == <<shared, bsp, i, ap, gs, pitVars, delayVars, elapsed>>

BspPc == {"ap_init", "init", "sipi", "resend", "check2", "fail", "started", "unmap", "kmain"}
ApPc  == {"off", "sipi_wait", "trampoline", "longmode", "report", "sync", "calibrate",
          "wait_all", "scheduler", "crashed"}
Access == {"none", "off", "command", "low", "high", "on", "poll"}

State == {"STOPPED", "SIPI_SENT", "SIPI_REC", "STARTED", "FAILED"}

(* cpu_init up to its loop *)
Init ==
    /\ current_state = [c \in Cpus |-> cpu(c).state]
    /\ ap_gs_base = 0
    /\ all_ap_started = FALSE
    /\ mapped = TRUE
    /\ bsp = "ap_init"
    /\ i = 0
    /\ ap = [a \in AP |-> "off"]
    /\ gs = [a \in AP |-> 0]
    /\ missed = {}
    /\ gate = TRUE /\ expects = "low" /\ loaded = TRUE /\ pit = 0
    /\ access = [c \in Cpus |-> "none"]
    /\ left = [c \in Cpus |-> 0]
    /\ elapsed = [a \in AP |-> 0]

-----------------------------------------------------------------------------
(* The PIT *)

(* Mutant: a long delay is counted at once *)
Slice_Whole(ms) == ms

Slice(ms) == IF ms > Longest THEN Longest ELSE ms

(* pit_delay begins with the first port access of the first delay() *)
pit_delay(c, ms) ==
    /\ access' = [access EXCEPT ![c] = "off"]
    /\ left' = [left EXCEPT ![c] = ms]

DelayOver(c) == access[c] = "none"

(* A processor is on its way from the startup interrupt to its report *)
Starting(a) == ap[a] \in {"trampoline", "longmode", "report"}

(* It runs C code, on the stack of its cpu_t *)
Running(a) == ap[a] \in {"calibrate", "wait_all", "scheduler"}

(***************************************************************************)
(* Two processors run on one stack, or one has faulted without an          *)
(* interrupt table, which resets the machine: what follows is not defined, *)
(* and nothing more is said of it.                                         *)
(***************************************************************************)
Undefined ==
    \/ \E a, b \in AP : a # b /\ Running(a) /\ Running(b) /\ gs[a] = gs[b]
    \/ \E a \in AP : ap[a] = "crashed"

(* Channel 2 counts only with its gate on and a whole count *)
Tick ==
    /\ ~Undefined
    /\ gate /\ loaded /\ pit > 0
    /\ pit' = pit - 1
    /\ elapsed' = [a \in AP |-> IF ap[a] = "calibrate" /\ elapsed[a] < MaxElapsed
                                THEN elapsed[a] + 1 ELSE elapsed[a]]
    /\ UNCHANGED <<shared, bsp, i, ap, gs, gate, expects, loaded, delayVars>>

(* CH2_OUT *)
Out == loaded /\ pit = 0

Go(c, from, to) ==
    /\ access[c] = from
    /\ access' = [access EXCEPT ![c] = to]
    /\ UNCHANGED <<shared, bsp, i, ap, gs, elapsed>>

GateOff(c) == Go(c, "off", "command") /\ gate' = FALSE /\ UNCHANGED <<expects, loaded, pit, left>>

(* Mode 0, low byte first: the output falls, and channel 2 waits for a count *)
Command(c) ==
    /\ Go(c, "command", "low")
    /\ expects' = "low" /\ loaded' = FALSE /\ pit' = 0
    /\ UNCHANGED <<gate, left>>

(* What a byte does depends on which one channel 2 expects.  The high one makes the *)
(* count, to this unit of time                                                       *)
WriteByte(worth) ==
    /\ expects' = IF expects = "low" THEN "high" ELSE "low"
    /\ loaded' = (expects = "high")
    /\ pit' = IF expects = "high" THEN worth ELSE 0
    /\ UNCHANGED <<gate, left>>

(* The low bytes are 0x9B of 10 ms and 0x0B of 50 ms; taken for a high byte, these *)
(* are 33 ms and 2.4 ms                                                            *)
LowByte(c)  == Go(c, "low", "high") /\ WriteByte(IF Slice(left[c]) = Longest THEN 1 ELSE 4)
HighByte(c) == Go(c, "high", "on") /\ WriteByte(Slice(left[c]))

GateOn(c) == Go(c, "on", "poll") /\ gate' = TRUE /\ UNCHANGED <<expects, loaded, pit, left>>

(* The output is up: the next 50 ms of a long delay, or the end *)
Poll(c) ==
    /\ Out
    /\ left' = [left EXCEPT ![c] = @ - Slice(@)]
    /\ Go(c, "poll", IF left[c] > Slice(left[c]) THEN "off" ELSE "none")
    /\ UNCHANGED pitVars

PortAccess(c) ==
    /\ ~Undefined
    /\ GateOff(c) \/ Command(c) \/ LowByte(c) \/ HighByte(c) \/ GateOn(c) \/ Poll(c)

-----------------------------------------------------------------------------
(* The first processor *)

(* ap_init returns at once for a processor that is not STOPPED: the first *)
ApInitSkip ==
    /\ bsp = "ap_init" /\ i < N
    /\ current_state[i] # "STOPPED"
    /\ i' = i + 1
    /\ UNCHANGED <<shared, bsp, ap, gs, pitVars, delayVars, elapsed>>

(* There is a processor at the id to which interrupts are sent *)
Present(a) == cpu(a).id \in EnabledProcessors

(* The INIT interrupt, and 10 ms *)
SendInit ==
    /\ bsp = "ap_init" /\ i < N
    /\ current_state[i] = "STOPPED"
    /\ ap' = [ap EXCEPT ![i] = IF Present(i) THEN "sipi_wait" ELSE @]
    /\ pit_delay(0, InitDelay)
    /\ bsp' = "init"
    /\ UNCHANGED <<shared, i, gs, pitVars, elapsed>>

(* A startup interrupt is taken by a processor that waits for one only *)
Sipi(a) == [ap EXCEPT ![a] = IF @ = "sipi_wait" THEN "trampoline" ELSE @]

(* Mutant: the cpu_t is not written for this processor *)
SendSipi_OldGs ==
    /\ bsp = "init" /\ DelayOver(0)
    /\ current_state' = [current_state EXCEPT ![i] = "SIPI_SENT"]
    /\ ap' = Sipi(i)
    /\ ap_gs_base' = IF ap_gs_base = 0 THEN i ELSE ap_gs_base
    /\ pit_delay(0, SipiDelay)
    /\ bsp' = "sipi"
    /\ UNCHANGED <<all_ap_started, mapped, missed, i, gs, pitVars, elapsed>>

SendSipi ==
    /\ bsp = "init" /\ DelayOver(0)
    /\ ap_gs_base' = i
    /\ current_state' = [current_state EXCEPT ![i] = "SIPI_SENT"]
    /\ ap' = Sipi(i)
    /\ pit_delay(0, SipiDelay)
    /\ bsp' = "sipi"
    /\ UNCHANGED <<all_ap_started, mapped, missed, i, gs, pitVars, elapsed>>

(* After the first delay: is a second startup interrupt needed? *)
Check ==
    /\ bsp = "sipi" /\ DelayOver(0)
    /\ bsp' = IF current_state[i] = "SIPI_REC" THEN "started" ELSE "resend"
    /\ UNCHANGED <<shared, i, ap, gs, pitVars, delayVars, elapsed>>

Resend ==
    /\ bsp = "resend"
    /\ current_state' = [current_state EXCEPT ![i] = "SIPI_SENT"]
    /\ ap' = Sipi(i)
    /\ pit_delay(0, ResendDelay)
    /\ bsp' = "check2"
    /\ UNCHANGED <<ap_gs_base, all_ap_started, mapped, missed, i, gs, pitVars, elapsed>>

(* After the second delay *)
Check2 ==
    /\ bsp = "check2" /\ DelayOver(0)
    /\ bsp' = IF current_state[i] = "SIPI_REC" THEN "started" ELSE "fail"
    /\ UNCHANGED <<shared, i, ap, gs, pitVars, delayVars, elapsed>>

(* The last assignment of ap_init, on either path *)
Finish ==
    /\ bsp \in {"fail", "started"}
    /\ current_state' = [current_state EXCEPT ![i] = IF bsp = "fail" THEN "FAILED" ELSE "STARTED"]
    /\ i' = i + 1
    /\ bsp' = "ap_init"
    /\ missed' = IF bsp = "fail" /\ Starting(i) THEN missed \cup {i} ELSE missed
    /\ UNCHANGED <<ap_gs_base, all_ap_started, mapped, ap, gs, pitVars, delayVars, elapsed>>

AllStarted ==
    /\ bsp = "ap_init" /\ i = N
    /\ all_ap_started' = TRUE
    /\ bsp' = "unmap"
    /\ UNCHANGED <<current_state, ap_gs_base, mapped, missed, i, ap, gs, pitVars, delayVars,
                   elapsed>>

(* Mutant: the trampoline is taken away before the processors are started *)
Unmap_Early ==
    /\ bsp \in {"init", "unmap"} /\ mapped
    /\ mapped' = FALSE
    /\ bsp' = IF bsp = "init" THEN "init" ELSE "kmain"
    /\ UNCHANGED <<current_state, ap_gs_base, all_ap_started, missed, i, ap, gs, pitVars, delayVars,
                   elapsed>>

(* cpu_init takes the trampoline's pages away and returns to kmain *)
Unmap ==
    /\ bsp = "unmap"
    /\ mapped' = FALSE
    /\ bsp' = "kmain"
    /\ UNCHANGED <<current_state, ap_gs_base, all_ap_started, missed, i, ap, gs, pitVars, delayVars,
                   elapsed>>

-----------------------------------------------------------------------------
(* The other processors *)

(* The trampoline turns paging on, which needs the page it runs in *)
Trampoline(a) ==
    /\ ap[a] = "trampoline"
    /\ ap' = [ap EXCEPT ![a] = IF mapped THEN "longmode" ELSE "crashed"]
    /\ UNCHANGED <<shared, bsp, i, gs, pitVars, delayVars, elapsed>>

LoadGs(a) ==
    /\ ap[a] = "longmode"
    /\ gs' = [gs EXCEPT ![a] = ap_gs_base]
    /\ ap' = [ap EXCEPT ![a] = "report"]
    /\ UNCHANGED <<shared, bsp, i, pitVars, delayVars, elapsed>>

Report(a) ==
    /\ ap[a] = "report"
    /\ current_state' = [current_state EXCEPT ![gs[a]] = "SIPI_REC"]
    /\ ap' = [ap EXCEPT ![a] = "sync"]
    /\ UNCHANGED <<ap_gs_base, all_ap_started, mapped, missed, bsp, i, gs, pitVars, delayVars,
                   elapsed>>

(* Mutant: the processor waits for the state of a successful start *)
Leave_UntilStarted(a) ==
    /\ ap[a] = "sync"
    /\ current_state[gs[a]] = "STARTED"
    /\ ap' = [ap EXCEPT ![a] = "calibrate"]
    /\ elapsed' = [elapsed EXCEPT ![a] = 0]
    /\ pit_delay(a, Calibration)
    /\ UNCHANGED <<shared, bsp, i, gs, pitVars>>

(* Out of the sync loop, into ap_start and init_cpu, up to the calibration *)
Leave(a) ==
    /\ ap[a] = "sync"
    /\ current_state[gs[a]] # "SIPI_REC"
    /\ ap' = [ap EXCEPT ![a] = "calibrate"]
    /\ elapsed' = [elapsed EXCEPT ![a] = 0]
    /\ pit_delay(a, Calibration)
    /\ UNCHANGED <<shared, bsp, i, gs, pitVars>>

(* The APIC timer is read, init_cpu goes on and returns to ap_start *)
Calibrated(a) ==
    /\ ap[a] = "calibrate" /\ DelayOver(a)
    /\ ap' = [ap EXCEPT ![a] = "wait_all"]
    /\ UNCHANGED <<shared, bsp, i, gs, pitVars, delayVars, elapsed>>

Schedule(a) ==
    /\ ap[a] = "wait_all"
    /\ all_ap_started
    /\ ap' = [ap EXCEPT ![a] = "scheduler"]
    /\ UNCHANGED <<shared, bsp, i, gs, pitVars, delayVars, elapsed>>

BspStep ==
    /\ ~Undefined
    /\ \/ ApInitSkip \/ SendInit \/ SendSipi \/ Check \/ Resend \/ Check2 \/ Finish
       \/ AllStarted \/ Unmap

StartStep(a) == ~Undefined /\ (Trampoline(a) \/ LoadGs(a) \/ Report(a))

RunStep(a) == ~Undefined /\ (Leave(a) \/ Calibrated(a) \/ Schedule(a))

Next ==
    \/ Tick
    \/ BspStep
    \/ \E a \in AP : StartStep(a) \/ RunStep(a)
    \/ \E c \in Cpus : PortAccess(c)

Spec == Init /\ [][Next]_vars

(***************************************************************************)
(* Fairness: the PIT counts, the first processor executes, and so does     *)
(* every other once it has reported.  Until then a processor may take any  *)
(* time, or never come.                                                    *)
(***************************************************************************)
Fairness ==
    /\ WF_vars(Tick)
    /\ WF_vars(BspStep \/ PortAccess(0))
    /\ \A a \in AP : WF_vars(RunStep(a) \/ PortAccess(a))

FairSpec == Spec /\ Fairness

-----------------------------------------------------------------------------
(* Type invariant of the processors' start. *)
TypeOK ==
    /\ current_state \in [Cpus -> State]
    /\ ap_gs_base \in Cpus
    /\ all_ap_started \in BOOLEAN
    /\ mapped \in BOOLEAN
    /\ bsp \in BspPc
    /\ i \in 0..N
    /\ ap \in [AP -> ApPc]
    /\ gs \in [AP -> Cpus]
    /\ missed \subseteq AP
    /\ gate \in BOOLEAN /\ expects \in {"low", "high"} /\ loaded \in BOOLEAN
    /\ pit \in 0..Longest
    /\ access \in [Cpus -> Access]
    /\ left \in [Cpus -> 0..Calibration]
    /\ elapsed \in [AP -> 0..MaxElapsed]

(* It has read ap_gs_base *)
HasCpu(a) == ap[a] \in {"report", "sync", "calibrate", "wait_all", "scheduler"}

(* Neither this processor nor one before it was given up before it had reported *)
KeptUpTo(a) == \A b \in missed : b > a

(***************************************************************************)
(* Every processor uses the cpu_t, and with it the stack, that cpu_add     *)
(* made for it, although all of them are told through the one variable     *)
(* ap_gs_base, unless ap_init gave it or one before it up before it had    *)
(* reported; and even then it never takes that of an earlier one, which    *)
(* may run already (smp.c:24-41, trampoline.S:69-76).                      *)
(***************************************************************************)
OwnCpu ==
    \A a \in AP : HasCpu(a) => gs[a] >= a /\ (KeptUpTo(a) => gs[a] = a)

(***************************************************************************)
(* The trampoline is there for as long as a processor needs it: cpu_init   *)
(* does not unmap it under one that is still starting, unless ap_init gave *)
(* it or one before it up before it had reported, after both time limits   *)
(* (smp.c:30-41, cpu.c:61-67).                                             *)
(***************************************************************************)
NoCrash == \A a \in AP : KeptUpTo(a) => ap[a] # "crashed"

(* Two processors are both between their command and their high byte *)
Mixed ==
    \E c, d \in Cpus : c # d /\ access[c] \in {"low", "high"} /\ access[d] \in {"low", "high"}

(***************************************************************************)
(* The first processor boots, and every processor that the MADT says is    *)
(* enabled and that there is room for ends up in the scheduler, unless it  *)
(* or one before it was given up before it had reported: however late it   *)
(* reports before that, the second startup interrupt and the states that   *)
(* ap_init writes meanwhile included, whatever the loop over the MADT      *)
(* finds after its end, and although each restarts the PIT that others     *)
(* wait for.  This needs two things that the code leaves to chance: no two *)
(* processors mix their command and the bytes of their count, which can    *)
(* stop channel 2 for good, and no two come to run on one stack            *)
(* (acpi.c:73-75, smp.c:28-44, pit.c:33-43, cpu.c:61-64).                  *)
(***************************************************************************)
AllRun ==
    LET runs(apic_id) ==
            \E c \in Cpus : /\ cpu(c).apic_id = apic_id
                            /\ c = 0 \/ ap[c] = "scheduler" \/ ~KeptUpTo(c)
    IN []~(Mixed \/ Undefined)
           => <>[](bsp = "kmain" /\ \A apic_id \in EnabledProcessors : runs(apic_id))

(***************************************************************************)
(* What apic.c:80 says: "Use the PIT to calibrate the APIC timer".  The    *)
(* time over which a processor has counted its timer's ticks is the time   *)
(* by which it divides them.                                               *)
(***************************************************************************)
CalibratedByPit ==
    \A a \in AP : ap[a] \in {"wait_all", "scheduler"} => elapsed[a] = Calibration
=============================================================================

------------------------------- MODULE Acpi --------------------------------
(***************************************************************************)
(* Which processors the kernel knows of: the search for the tables of ACPI *)
(* and the processors of the MADT (arch/acpi.c, cpu_add in cpu/cpu.c).     *)
(*                                                                         *)
(* The firmware is a record: whether the loader passed an RSDP on, what is *)
(* at each multiple of 16 bytes where find_rsdp looks (a signature and the *)
(* sum of 20 bytes), the RSDP's revision, the signatures of the tables in  *)
(* the RSDT and in the XSDT, and the MADT: its length in bytes, its fields *)
(* and what memory holds after it, read as fields.                         *)
(***************************************************************************)
EXTENDS Integers, FiniteSets, Sequences, SequencesExt

CONSTANTS
    MAX_NUMCPU,
    Firmware

SDT_header  == 36     \* sizeof(SDT_header)
MADT_header == 8      \* sizeof(MADT_header)

(* Where in memory field k begins, counted from the MADT's data *)
Offset(fields, k) ==
    FoldLeft(LAMBDA n, f : n + f.length, MADT_header, SubSeq(fields, 1, k - 1))

-----------------------------------------------------------------------------
find_rsdp(fw) == SelectInSeq(fw.scan, LAMBDA p : p.signature = "RSD PTR" /\ p.sum = 0)

find_SDT(fw, signature) ==
    SelectInSeq(IF fw.revision = 0 THEN fw.rsdt ELSE fw.xsdt, LAMBDA h : h = signature)

(* The processor of a field goes to the end of cpus, if there is room *)
cpu_add(cpus, f) ==
    IF Len(cpus) >= MAX_NUMCPU THEN cpus
    ELSE Append(cpus, [id |-> f.proc_ID, apic_id |-> f.APIC_ID, is_bsp |-> cpus = <<>>,
                       state |-> IF cpus = <<>> THEN "STARTED" ELSE "STOPPED"])

MADT_field(k, f) ==
    CASE f.type = 0 /\ f.enabled -> [k EXCEPT !.cpus = cpu_add(k.cpus, f)]
      [] f.type = 2              -> [k EXCEPT !.irq_map[f.irq] = f.interrupt]
      [] OTHER                   -> k

NoCpus == [cpus |-> <<>>, irq_map |-> [irq \in 0..23 |-> irq]]

(* Mutant: a field of another type ends the loop *)
parse_MADT_OneType(madt) ==
    LET end == SelectInSeq(madt.fields, LAMBDA f : f.type # 0)
    IN FoldLeft(MADT_field, NoCpus,
                IF end = 0 THEN madt.fields ELSE SubSeq(madt.fields, 1, end - 1))

(***************************************************************************)
(* The loop goes on until a field of length 0, or until it is the table's  *)
(* length past the MADT's data, which is a header past the table's end.    *)
(***************************************************************************)
parse_MADT(madt) ==
    LET memory == madt.fields \o madt.after
        over(k) == Offset(memory, k) >= madt.length \/ memory[k].length = 0
        end == CHOOSE k \in DOMAIN memory : over(k) /\ \A j \in 1..(k - 1) : ~over(j)
    IN FoldLeft(MADT_field, NoCpus, SubSeq(memory, 1, end - 1))

(* Without an RSDP the kernel stops, without a MADT it faults *)
AcpiFound(fw) == (fw.rsdp \/ find_rsdp(fw) # 0) /\ find_SDT(fw, "APIC") # 0

acpi_init(fw) == parse_MADT(fw.madt)

-----------------------------------------------------------------------------
(* The fields that describe enabled processors, inside the table *)
EnabledFields ==
    LET in(k) == Firmware.madt.fields[k] IN
    {k \in DOMAIN Firmware.madt.fields : in(k).type = 0 /\ in(k).enabled}

(* Those that there is room for, by local APIC id *)
EnabledProcessors ==
    {Firmware.madt.fields[k].APIC_ID :
        k \in {j \in EnabledFields : Cardinality({h \in EnabledFields : h < j}) < MAX_NUMCPU}}

(* The tables are there, the MADT's length is right, its first processor is  *)
(* the one that boots, and ids in ACPI are those of the local APICs          *)
ASSUME AcpiAssumption ==
    LET madt == Firmware.madt IN
    /\ MAX_NUMCPU \in Nat \ {0}
    /\ AcpiFound(Firmware)
    /\ madt.length = SDT_header + Offset(madt.fields, Len(madt.fields) + 1)
    /\ madt.after # <<>> /\ Last(madt.after).length = 0
    /\ EnabledFields # {}
    /\ \A k \in EnabledFields : madt.fields[k].proc_ID = madt.fields[k].APIC_ID
=============================================================================

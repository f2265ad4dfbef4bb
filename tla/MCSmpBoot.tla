----------------------------- MODULE MCSmpBoot -----------------------------
(* SmpBoot with a few processors, for TLC *)
EXTENDS SmpBoot

Proc(id, enabled) ==
    [type |-> 0, length |-> 8, proc_ID |-> id, APIC_ID |-> id, enabled |-> enabled]
IoApic   == [type |-> 1, length |-> 12]
Override == [type |-> 2, length |-> 10, irq |-> 0, interrupt |-> 2]
Nothing  == [type |-> 0, length |-> 0, enabled |-> FALSE]

(* One processor is not enabled.  Memory after the table looks like another, for *)
(* which there is no room                                                         *)
SmallFirmware ==
    [rsdp |-> FALSE, revision |-> 2, rsdt |-> <<"FACP">>, xsdt |-> <<"FACP", "APIC">>,
     scan |-> <<[signature |-> "none", sum |-> 0], [signature |-> "RSD PTR", sum |-> 1],
                [signature |-> "RSD PTR", sum |-> 0]>>,
     madt |-> [length |-> 106,
               fields |-> <<Proc(0, TRUE), Proc(1, FALSE), Proc(2, TRUE), IoApic, Override,
                            Proc(3, TRUE), Proc(4, TRUE)>>,
               after |-> <<Proc(7, TRUE), Nothing>>]]

(* Three processors, and nothing after the table *)
PlainFirmware ==
    [SmallFirmware EXCEPT !.rsdp = TRUE,
        !.madt = [length |-> 68, fields |-> <<Proc(0, TRUE), Proc(1, TRUE), Proc(2, TRUE)>>,
                  after |-> <<Nothing>>]]
=============================================================================

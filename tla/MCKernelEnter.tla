---------------------------- MODULE MCKernelEnter ---------------------------
(* Machines for TLC.                                                       *)
EXTENDS KernelEnter

Good == [sum |-> TRUE, rev |-> 0, sum2 |-> FALSE]
Good2 == [sum |-> TRUE, rev |-> 2, sum2 |-> TRUE]
Bad2 == [sum |-> TRUE, rev |-> 2, sum2 |-> FALSE]
Cpu(i, u) == [type |-> 0, id |-> i, usable |-> u]
IoApic == [type |-> 1, addr |-> "io"]
Override(i, g) == [type |-> 2, irq |-> i, gsi |-> g]
Other == [type |-> 4]
Lapic64 == [type |-> 5, addr |-> "lapic64"]
Table(s, v, recs) == [signature |-> s, valid |-> v, lapic |-> "lapic", records |-> recs]
Facp == Table("FACP", TRUE, <<>>)
Broken == Table("APIC", FALSE, <<Override(1, 0)>>)

(* A PC: the timer is wired to input 2, the others to their own.           *)
Pc == "pit" :> 0 @@ "kb" :> 1 @@ "mouse" :> 12 @@ "ata1" :> 14 @@ "ata2" :> 15 @@ "pci" :> 20
PcTimer == [Pc EXCEPT !["pit"] = 2]
PcMoved == [PcTimer EXCEPT !["ata1"] = 21, !["mouse"] = 14]

M(rsdps, ts, wired, msr, spur) ==
    [rsdps |-> rsdps, tables |-> ts, wired |-> wired, msr_apic |-> msr, spurious |-> spur]

MCMachines == {
    M("bios" :> Good, <<Facp, Broken, Table("APIC", TRUE,
        <<Cpu(0, TRUE), Cpu(2, TRUE), Cpu(4, FALSE), IoApic, Override(0, 2), Cpu(1, TRUE), Other>>)>>, PcTimer, TRUE, {}),
    M("ebda_word" :> Bad2 @@ "bios" :> Good2, <<Table("APIC", TRUE,
        <<Override(14, 21), Override(0, 2), IoApic, Lapic64, Override(12, 14)>>)>>, PcMoved, FALSE, {}),
    M("bios" :> Bad2, <<>>, Pc, TRUE, {}),
    M("bios" :> Good, <<Facp>>, PcTimer, FALSE, {"pic"}),
    M(<<>>, <<>>, PcTimer, FALSE, {}) }
=============================================================================

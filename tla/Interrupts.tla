----------------------------- MODULE Interrupts -----------------------------
(***************************************************************************)
(* How an interrupt finds its handler: the ACPI tables (drivers/acpi.c),   *)
(* the choice between the legacy PICs and the APICs (kernel.c), their set- *)
(* up and acknowledgement (drivers/pic.c, drivers/apic.c), the interrupt   *)
(* descriptor table (x86/idt.c) and interrupt_handler (x86/interrupts.c).  *)
(***************************************************************************)
EXTENDS Integers, Sequences, SequencesExt, TLC

CONSTANTS
    Machines,   \* firmware and wiring, see MachineAssumption
    Procs,      \* processes the timer interrupt switches between
    MaxRaise    \* bound: interrupts raised in all

Legacy == [pit |-> 0, kb |-> 1, mouse |-> 12, ata1 |-> 14, ata2 |-> 15]

(* Signature, checksum and revision; a revision-2 RSDP has a second part   *)
(* that the same sum must cover.                                           *)
RsdpValid(r) == r.sum /\ (r.rev = 0 \/ (r.rev = 2 /\ r.sum2))

(* The word at 0x040E, which is a segment, is used as an address.          *)
RsdpPlaces == <<"ebda_word", "bios">>

Rsdps(m) == SelectSeq(RsdpPlaces, LAMBDA a : a \in DOMAIN m.rsdps /\ RsdpValid(m.rsdps[a]))

(* acpi_validate_sdt, and the signature.                                   *)
IsMadt(t) == t.valid /\ t.signature = "APIC"

(* The MADTs the kernel can find, and whether it has an APIC to use.       *)
Madts(m) == IF Rsdps(m) = <<>> THEN {} ELSE {k \in DOMAIN m.tables : IsMadt(m.tables[k])}

HasApic(m) == m.msr_apic \/ Madts(m) # {}

(* The overrides for an input, and the interrupt that the firmware says it *)
(* carries: that of an override, or its own number.                        *)
Overrides(m, i) ==
    {r \in UNION {ToSet(m.tables[k].records) : k \in Madts(m)} : r.type = 2 /\ r.gsi = i}
Carries(m, i) == IF Overrides(m, i) = {} THEN {i} ELSE {r.irq : r \in Overrides(m, i)}

IsSeq(s) == Len(s) \in Nat /\ DOMAIN s = 1 .. Len(s)

(* rsdps: RSDPs by the place they are in; tables: the RSDT's tables; wired:*)
(* the input of the I/O APIC of each device; msr_apic: cpuid's msr and apic*)
(* flags; spurious: the controllers that raise spurious interrupts.  The   *)
(* tables that acpi_find_rsdp leads to describe the wiring of an APIC as it*)
(* is; without any it is the one of the PICs.                              *)
MachineAssumption ==
    \A m \in Machines :
      /\ DOMAIN m.rsdps \subseteq {"ebda", "ebda_word", "bios"}
      /\ IsSeq(m.tables) /\ \A k \in DOMAIN m.tables : IsSeq(m.tables[k].records)
      /\ DOMAIN Legacy \subseteq DOMAIN m.wired
      /\ m.wired \in [DOMAIN m.wired -> 0 .. 23]
      /\ HasApic(m) => \A d \in DOMAIN Legacy : Carries(m, m.wired[d]) = {Legacy[d]}
      /\ m.spurious \subseteq {"pic", "apic"}

BoundAssumption == Procs # {} /\ MaxRaise \in Nat

VARIABLES
    machine,
    acpi,       \* lapic, ioapic, cpus, mappings: what acpi.c leaves
    table, it,  \* the loop variables of acpi_initialize
    boot,       \* where kernel_enter is; "done" when interrupts are enabled
    mode,       \* interrupt_mode
    redir,      \* the I/O APIC's redirection table, 0 before it is written
    raised,     \* sources with an interrupt pending
    left,       \* interrupts that may still be raised
    in_service, \* PIC: inputs being served; APIC: vectors
    cpu,        \* what the boot core does: its place, the vector, who raised it
    current,    \* the process it runs
    where       \* of the others: "new", or inside proc_schedule of the handler

vars == <<machine, acpi, table, it, boot, mode, redir, raised, left, in_service,
          cpu, current, where>>
tables == <<machine, acpi, table, it, boot, mode, redir>>

later == <<machine, mode, redir, raised, left, in_service, cpu, current, where>>

Sources == DOMAIN Legacy \cup DOMAIN machine.wired
Running == [pc |-> "run", vec |-> 0, dev |-> "none"]

Init ==
    /\ machine \in Machines
    /\ acpi = [lapic |-> "null", ioapic |-> "null", cpus |-> <<>>,
               mappings |-> [i \in 0 .. 23 |-> i]]
    /\ table = 1
    /\ it = 1
    /\ boot = "rsdp"
    /\ mode = "pic"
    /\ redir = [i \in 0 .. 23 |-> 0]
    /\ raised = {}
    /\ left = MaxRaise
    /\ in_service = {}
    /\ cpu = [Running EXCEPT !.pc = "cli"]
    /\ current \in Procs
    /\ where = [p \in Procs |-> "new"]

-----------------------------------------------------------------------------
(* acpi_initialize.                                                        *)

(* acpi_find_rsdp; without an RSDP acpi_initialize returns.                *)
FindRsdp ==
    /\ boot = "rsdp"
    /\ boot' = IF Rsdps(machine) = <<>> THEN "pic" ELSE "tables"
    /\ UNCHANGED <<acpi, table, it, later>>

(* Mutant: the override maps the legacy interrupt to the input. *)
RecordReversed(a, r) ==
    CASE r.type = 0 -> IF r.usable THEN [a EXCEPT !.cpus = Append(@, r.id)] ELSE a
      [] r.type = 1 -> [a EXCEPT !.ioapic = r.addr]
      [] r.type = 2 -> [a EXCEPT !.mappings[r.irq] = r.gsi]
      [] r.type = 5 -> [a EXCEPT !.lapic = r.addr]
      [] OTHER -> a

(* One record of the MADT: a processor, an I/O APIC, an override (which    *)
(* says to which input a legacy interrupt is wired), the local APIC's      *)
(* 64-bit address.                                                         *)
Record(a, r) ==
    CASE r.type = 0 -> IF r.usable THEN [a EXCEPT !.cpus = Append(@, r.id)] ELSE a
      [] r.type = 1 -> [a EXCEPT !.ioapic = r.addr]
      [] r.type = 2 -> [a EXCEPT !.mappings[r.gsi] = r.irq]
      [] r.type = 5 -> [a EXCEPT !.lapic = r.addr]
      [] OTHER -> a

(* The loop over the RSDT's tables: one that is no MADT is left out.       *)
NextTable ==
    /\ boot = "tables"
    /\ table <= Len(machine.tables)
    /\ ~IsMadt(machine.tables[table])
    /\ table' = table + 1
    /\ UNCHANGED <<boot, acpi, it, later>>

(* A MADT: lapic and ioapic start from it.  The code keeps them in locals  *)
(* and stores them after the loop; nothing reads acpi_lapic before.        *)
EnterMadt ==
    /\ boot = "tables"
    /\ table <= Len(machine.tables)
    /\ IsMadt(machine.tables[table])
    /\ boot' = "madt"
    /\ it' = 1
    /\ acpi' = [acpi EXCEPT !.lapic = machine.tables[table].lapic, !.ioapic = "null"]
    /\ UNCHANGED <<table, later>>

(* The loop over its records.                                              *)
ReadRecord ==
    /\ boot = "madt"
    /\ it <= Len(machine.tables[table].records)
    /\ acpi' = Record(acpi, machine.tables[table].records[it])
    /\ it' = it + 1
    /\ UNCHANGED <<boot, table, later>>

LeaveMadt ==
    /\ boot = "madt"
    /\ it > Len(machine.tables[table].records)
    /\ boot' = "tables"
    /\ table' = table + 1
    /\ UNCHANGED <<acpi, it, later>>

TablesRead ==
    /\ boot = "tables"
    /\ table > Len(machine.tables)
    /\ boot' = "pic"
    /\ UNCHANGED <<acpi, table, it, later>>

-----------------------------------------------------------------------------
(* The choice of the controller and its set-up.                            *)

PIC_IRQ_OFFS == 32
APIC_IRQ_OFFS == 64

(* apic_initialize: every input to its vector, all unmasked.               *)
Redirection(mappings) == [i \in 0 .. 23 |-> APIC_IRQ_OFFS + mappings[i]]

(* pic_initialize, then the APIC if the tables or cpuid show one, with the *)
(* PICs masked, otherwise the PICs unmasked; sti.                          *)
SetUpControllers ==
    /\ boot = "pic"
    /\ boot' = "done"
    /\ IF acpi.lapic # "null" \/ machine.msr_apic
       THEN /\ mode' = "apic"
            /\ redir' = Redirection(acpi.mappings)
       ELSE UNCHANGED <<mode, redir>>
    /\ cpu' = Running
    /\ UNCHANGED <<machine, acpi, table, it, raised, left, in_service, current, where>>

-----------------------------------------------------------------------------
(* The devices and the interrupt controllers.                              *)

Raise(d) ==
    /\ boot = "done"
    /\ left > 0
    /\ d \notin raised
    /\ mode = "pic" => d \in DOMAIN Legacy
    /\ raised' = raised \cup {d}
    /\ left' = left - 1
    /\ UNCHANGED <<tables, in_service, cpu, current, where>>

(* Priority of an input of the two PICs: the second hangs on input 2.      *)
Rank(irq) == IF irq >= 8 THEN 20 + irq ELSE IF irq > 2 THEN 40 + irq ELSE irq

(* What an acknowledge cycle puts in service: on the PICs the input, and   *)
(* input 2 for the second PIC; nothing when the interrupt is spurious.     *)
PicServes(irq) == IF irq >= 8 THEN {irq, 2} ELSE {irq}

PicBlocked(irq) == \E s \in in_service : Rank(s) <= Rank(irq)

PicVector(d) ==
    /\ mode = "pic"
    /\ ~PicBlocked(Legacy[d])
    /\ \A e \in raised : Rank(Legacy[d]) <= Rank(Legacy[e])
    /\ in_service' = in_service \cup PicServes(Legacy[d])
    /\ cpu' = [pc |-> "gate", vec |-> PIC_IRQ_OFFS + Legacy[d], dev |-> d]

ApicVector(d) ==
    LET Vec(e) == redir[machine.wired[e]] IN
    /\ mode = "apic"
    /\ \A s \in in_service : s \div 16 < Vec(d) \div 16
    /\ \A e \in raised : Vec(d) >= Vec(e)
    /\ in_service' = in_service \cup {Vec(d)}
    /\ cpu' = [pc |-> "gate", vec |-> Vec(d), dev |-> d]

(* The core takes an interrupt; the gate disables further ones.            *)
Acknowledge(d) ==
    /\ cpu.pc = "run"
    /\ d \in raised
    /\ PicVector(d) \/ ApicVector(d)
    /\ raised' = raised \ {d}
    /\ UNCHANGED <<tables, left, current, where>>

(* A request that is gone when the core acknowledges it: input 7 of either *)
(* PIC, or the vector in the local APIC's SPUR register.                   *)
Spurious ==
    /\ cpu.pc = "run"
    /\ left > 0
    /\ left' = left - 1
    /\ \E v \in (IF mode = "pic" THEN {39, 47} ELSE {255}) :
         /\ mode \in machine.spurious
         /\ in_service' = IF v = 47 THEN in_service \cup {2} ELSE in_service
         /\ cpu' = [pc |-> "gate", vec |-> v, dev |-> "none"]
    /\ UNCHANGED <<tables, raised, current, where>>

-----------------------------------------------------------------------------
(* The descriptor table and interrupt_handler.                             *)

(* idt_make_default: exceptions, PIC, APIC, system call.                   *)
Gates == (0 .. 47) \cup (64 .. 86) \cup {174}

is_pic_irq(v)  == v \in PIC_IRQ_OFFS .. PIC_IRQ_OFFS + 15
is_apic_irq(v) == v \in APIC_IRQ_OFFS .. APIC_IRQ_OFFS + 23
Irq(v) == v - (IF is_apic_irq(v) THEN APIC_IRQ_OFFS ELSE PIC_IRQ_OFFS)

(* The processor's own response to a vector without a gate is an exception.*)
Gate ==
    /\ cpu.pc = "gate"
    /\ cpu' = IF cpu.vec \in Gates THEN [cpu EXCEPT !.pc = "handler"]
              ELSE [pc |-> "hang", vec |-> 13, dev |-> cpu.dev]
    /\ UNCHANGED <<tables, raised, left, in_service, current, where>>

(* The cases of interrupt_handler.                                         *)
Handler(irq) ==
    CASE irq = 0  -> "pit"
      [] irq = 1  -> "kb"
      [] irq = 2  -> "cascade"
      [] irq = 14 -> "ata1"
      [] irq = 15 -> "ata2"
      [] irq = 12 -> "mouse"
      [] irq = 7  -> "spurious"
      [] OTHER    -> "unknown"

(* The device's handler runs; exceptions end in hang().                    *)
Handle ==
    /\ cpu.pc = "handler"
    /\ cpu' = [cpu EXCEPT !.pc = IF is_pic_irq(cpu.vec) \/ is_apic_irq(cpu.vec)
                                 THEN "eoi" ELSE "hang"]
    /\ UNCHANGED <<tables, raised, left, in_service, current, where>>

(* The most urgent of the inputs that are in service.                      *)
Highest(S) == {s \in S : \A t \in S : Rank(s) <= Rank(t)}

(* pic_eoi: each PIC that is told leaves its most urgent input.            *)
AfterPicEoi(irq) ==
    LET second == IF irq >= 8 THEN Highest(in_service \cap 8 .. 15) ELSE {}
    IN  in_service \ (second \cup Highest(in_service \cap 0 .. 7))

(* The local APIC leaves its most urgent vector.                           *)
AfterApicEoi == in_service \ {s \in in_service : \A t \in in_service : s >= t}

(* Mutant: the timer interrupt is not acknowledged before proc_schedule. *)
EoiLate ==
    /\ cpu.pc = "eoi"
    /\ in_service' = IF Irq(cpu.vec) = 0 THEN in_service
                     ELSE IF is_pic_irq(cpu.vec) THEN AfterPicEoi(Irq(cpu.vec)) ELSE AfterApicEoi
    /\ cpu' = [cpu EXCEPT !.pc = IF Irq(cpu.vec) = 0 THEN "schedule" ELSE "iret"]
    /\ UNCHANGED <<tables, raised, left, current, where>>

(* The acknowledgement, which for the timer comes before proc_schedule.    *)
Eoi ==
    /\ cpu.pc = "eoi"
    /\ in_service' = IF is_pic_irq(cpu.vec) THEN AfterPicEoi(Irq(cpu.vec)) ELSE AfterApicEoi
    /\ cpu' = [cpu EXCEPT !.pc = IF Irq(cpu.vec) = 0 THEN "schedule" ELSE "iret"]
    /\ UNCHANGED <<tables, raised, left, current, where>>

(* proc_schedule goes on with this process or another; a new one starts    *)
(* with interrupts enabled and does not come back through this handler.    *)
Schedule ==
    /\ cpu.pc = "schedule"
    /\ \E p \in Procs :
         /\ current' = p
         /\ where' = [where EXCEPT ![current] = "scheduling"]
         /\ cpu' = IF where'[p] = "new" THEN Running ELSE [cpu EXCEPT !.pc = "iret"]
    /\ UNCHANGED <<tables, raised, left, in_service>>

Iret ==
    /\ cpu.pc = "iret"
    /\ cpu' = Running
    /\ UNCHANGED <<tables, raised, left, in_service, current, where>>

-----------------------------------------------------------------------------
CpuStep ==
    \/ FindRsdp \/ NextTable \/ EnterMadt \/ ReadRecord \/ LeaveMadt \/ TablesRead
    \/ SetUpControllers
    \/ (\E d \in Sources : Acknowledge(d))
    \/ Gate \/ Handle \/ Eoi \/ Schedule \/ Iret

Next == CpuStep \/ Spurious \/ (\E d \in Sources : Raise(d))

(* The core goes on executing, and takes an interrupt that is pending while*)
(* they are enabled.                                                       *)
Fairness == WF_vars(CpuStep)

Spec == Init /\ [][Next]_vars /\ Fairness

-----------------------------------------------------------------------------
(* Properties.                                                             *)

(* Whatever overrides the firmware lists and whichever controller is used, *)
(* the vector of an interrupt has a gate (idt_make_default), and the       *)
(* handler that interrupt_handler selects is the one of the device that    *)
(* raised it.                                                              *)
RoutedRight ==
    /\ cpu.pc = "gate" => cpu.vec \in Gates
    /\ (cpu.pc = "handler" /\ cpu.dev \in DOMAIN Legacy) => Handler(Irq(cpu.vec)) = cpu.dev

(* Every interrupt that is raised is taken in the end: no acknowledgement  *)
(* is missing, for either PIC, with spurious interrupts between, and when  *)
(* the timer's handler has switched to a process that has never run.       *)
Delivered == \A d \in DOMAIN Legacy : d \in raised ~> d \notin raised
=============================================================================

---------------------------- MODULE KernelEnter ----------------------------
(***************************************************************************)
(* kernel_enter from the ACPI tables to the processes (kernel.c): the      *)
(* tables choose the interrupt controller and list the processors (module  *)
(* Interrupts), those are started (module ApStart), and then the machine   *)
(* runs on interrupts.  While processors are started only the timer's      *)
(* ticks matter, which ApStart has itself; other devices come after it.    *)
(***************************************************************************)
EXTENDS ApStart, SequencesExt

CONSTANTS Machines, Procs, MaxRaise, BspId

VARIABLES machine, acpi, table, it, boot, mode, redir, raised, left, in_service, cpu,
          current, where

I == INSTANCE Interrupts

(* A table of processors that is valid lists the boot core and Aps, or     *)
(* none at all.                                                            *)
ASSUME ListAssumption ==
    /\ I!MachineAssumption /\ I!BoundAssumption
    /\ BspId \notin Aps
    /\ \A m \in Machines : \A k \in DOMAIN m.tables :
         m.tables[k].valid =>
           {r.id : r \in {x \in ToSet(m.tables[k].records) : x.type = 0 /\ x.usable}}
             \in {{}, Aps \cup {BspId}}

ivars == <<machine, acpi, table, it, boot, mode, redir, raised, left, in_service, cpu,
           current, where>>
allvars == <<vars, ivars>>

KernelInit ==
    /\ I!Init
    /\ bsp = "before"
    /\ todo = {}
    /\ core = Null
    /\ ap_init_lock = FALSE
    /\ msec = 0
    /\ elapsed = 0
    /\ ap = [a \in Aps |-> "off"]
    /\ stack = Null

(* lapic_base && acpi_cpu_count > 0; the loop leaves the boot core out.    *)
StartCores ==
    /\ boot = "done"
    /\ bsp = "before"
    /\ IF mode = "apic" /\ acpi.cpus # <<>>
       THEN bsp' = "loop" /\ todo' = ToSet(acpi.cpus) \ {BspId}
       ELSE bsp' = "skipped" /\ UNCHANGED todo
    /\ UNCHANGED <<core, ap_init_lock, msec, elapsed, apvars, ivars>>

(* The boot core sets up interrupts, or runs the processes.                *)
Main == boot # "done" \/ bsp \in {"done", "skipped"}

KernelNext ==
    \/ Main /\ I!Next /\ UNCHANGED vars
    \/ StartCores
    \/ Next /\ UNCHANGED ivars

(* Every core executes, an interrupt that is pending and enabled is taken, *)
(* and the PIT ticks.                                                      *)
KernelSpec ==
    /\ KernelInit
    /\ [][KernelNext]_allvars
    /\ WF_allvars(Main /\ I!CpuStep /\ UNCHANGED vars)
    /\ WF_allvars(StartCores \/ (Bsp /\ UNCHANGED ivars))
    /\ WF_allvars(Tick /\ UNCHANGED ivars)
    /\ \A a \in Aps : WF_allvars(Ap(a) /\ UNCHANGED ivars)

-----------------------------------------------------------------------------
(* Properties, beside those of ApStart.                                    *)

(* Each interrupt reaches the handler of its device (interrupt_handler).   *)
RoutedRight == I!RoutedRight

(* Each interrupt is taken in the end (pic_eoi, apic_eoi), which comes     *)
(* after all processors have been started.                                 *)
Delivered == I!Delivered
=============================================================================

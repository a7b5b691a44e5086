------------------------------ MODULE ApStart ------------------------------
(***************************************************************************)
(* How kernel_enter starts the application processors: one after the other,*)
(* handing each the lock ap_init_lock, which the started core releases in  *)
(* ap_enter (kernel.c, drivers/apic.c, drivers/pit.c, x86/trampoline.asm). *)
(* All cores use the stack below 0x8500, so the lock has to keep them      *)
(* apart.  The cores run concurrently; the boot core also takes the ticks  *)
(* of the PIT.                                                             *)
(***************************************************************************)
EXTENDS Integers

CONSTANTS
    Aps,          \* the cores of acpi_lapic_ids other than the boot core
    Absent,       \* those that never answer (listed by the MADT, but offline)
    Null,
    InitDelay,    \* ms between INIT and SIPI (10)
    SipiDelay     \* ms after SIPI (1)

ASSUME ApsAssumption == Absent \subseteq Aps /\ Null \notin Aps
ASSUME DelayAssumption == InitDelay \in Nat /\ SipiDelay \in Nat

VARIABLES
    bsp,            \* where the boot core is in kernel_enter
    todo,           \* cores the loop has not come to
    core,           \* the core that is being started
    ap_init_lock,
    msec,           \* the argument of pit_sleep_msec
    elapsed,        \* pit_systime_msec less its value when that was called
    ap,             \* where each core is
    stack           \* the core whose words are at the top of the shared stack

vars == <<bsp, todo, core, ap_init_lock, msec, elapsed, ap, stack>>

Init ==
    /\ bsp = "loop"
    /\ todo = Aps
    /\ core = Null
    /\ ap_init_lock = FALSE
    /\ msec = 0
    /\ elapsed = 0
    /\ ap = [a \in Aps |-> "off"]
    /\ stack = Null

apvars == <<ap, stack>>

-----------------------------------------------------------------------------
(* The boot core.                                                          *)

(* Mutant: the loop does not wait for the core started before. *)
LockForCoreAnyway ==
    /\ bsp = "loop"
    /\ \E a \in todo : core' = a /\ todo' = todo \ {a}
    /\ ap_init_lock' = TRUE
    /\ bsp' = "init"
    /\ UNCHANGED <<msec, elapsed, apvars>>

(* spinlock_lock, once the core started before has released the lock.  The *)
(* order of acpi_lapic_ids is the firmware's.                              *)
LockForCore ==
    /\ bsp = "loop"
    /\ ~ap_init_lock
    /\ \E a \in todo : core' = a /\ todo' = todo \ {a}
    /\ ap_init_lock' = TRUE
    /\ bsp' = "init"
    /\ UNCHANGED <<msec, elapsed, apvars>>

(* pit_sleep_msec(ms) is entered.                                          *)
SleepFor(ms) == msec' = ms /\ elapsed' = 0

(* apic_start_core: INIT is asserted and deasserted.                       *)
SendInit ==
    /\ bsp = "init"
    /\ ap' = [ap EXCEPT ![core] = IF core \in Absent THEN @ ELSE "wait_sipi"]
    /\ SleepFor(InitDelay)
    /\ bsp' = "sleep_init"
    /\ UNCHANGED <<todo, core, ap_init_lock, stack>>

(* Mutant: pit_sleep_msec counts the tick that begins the first ms. *)
SleptShort == elapsed >= msec

(* The loop of pit_sleep_msec ends.                                        *)
Slept == elapsed > msec

InitSlept ==
    /\ bsp = "sleep_init"
    /\ Slept
    /\ bsp' = "sipi"
    /\ UNCHANGED <<todo, core, ap_init_lock, msec, elapsed, apvars>>

(* A core that waits for it starts in the trampoline.                      *)
SendSipi ==
    /\ bsp = "sipi"
    /\ ap' = [ap EXCEPT ![core] = IF @ = "wait_sipi" THEN "trampoline" ELSE @]
    /\ SleepFor(SipiDelay)
    /\ bsp' = "sleep_sipi"
    /\ UNCHANGED <<todo, core, ap_init_lock, stack>>

SipiSlept ==
    /\ bsp = "sleep_sipi"
    /\ Slept
    /\ bsp' = "loop"
    /\ UNCHANGED <<todo, core, ap_init_lock, msec, elapsed, apvars>>

(* Mutant: kernel_enter goes on without the lock. *)
FinalLockForgotten ==
    /\ bsp = "loop"
    /\ todo = {}
    /\ bsp' = "done"
    /\ UNCHANGED <<todo, core, ap_init_lock, msec, elapsed, apvars>>

(* The lock after the loop waits for the last core.                        *)
FinalLock ==
    /\ bsp = "loop"
    /\ todo = {}
    /\ ~ap_init_lock
    /\ ap_init_lock' = TRUE
    /\ bsp' = "done"
    /\ UNCHANGED <<todo, core, msec, elapsed, apvars>>

(* pit_handle_interrupt on the boot core.  Ticks matter only while it      *)
(* sleeps, and only until it has slept enough.                             *)
Tick ==
    /\ bsp \in {"sleep_init", "sleep_sipi"}
    /\ elapsed <= msec
    /\ elapsed' = elapsed + 1
    /\ UNCHANGED <<bsp, todo, core, ap_init_lock, msec, apvars>>

-----------------------------------------------------------------------------
(* A started core.                                                         *)

(* The trampoline loads esp and jumps to ap_enter, which begins to use it. *)
Trampoline(a) ==
    /\ ap[a] = "trampoline"
    /\ stack' = a
    /\ ap' = [ap EXCEPT ![a] = "print"]
    /\ UNCHANGED <<bsp, todo, core, ap_init_lock, msec, elapsed>>

(* dbg_printf, which reads its arguments from the stack.                   *)
ApPrint(a) ==
    /\ ap[a] = "print"
    /\ ap' = [ap EXCEPT ![a] = "release"]
    /\ UNCHANGED <<bsp, todo, core, ap_init_lock, msec, elapsed, stack>>

(* Mutant: the core goes to sleep with the lock. *)
ApReleaseForgotten(a) ==
    /\ ap[a] = "release"
    /\ ap' = [ap EXCEPT ![a] = "return"]
    /\ UNCHANGED <<bsp, todo, core, ap_init_lock, msec, elapsed, stack>>

(* The store in spinlock_release; its return is yet to come.               *)
ApRelease(a) ==
    /\ ap[a] = "release"
    /\ ap_init_lock' = FALSE
    /\ ap' = [ap EXCEPT ![a] = "return"]
    /\ UNCHANGED <<bsp, todo, core, msec, elapsed, stack>>

(* The return from spinlock_release, and the hlt loop.                     *)
ApHalt(a) ==
    /\ ap[a] = "return"
    /\ ap' = [ap EXCEPT ![a] = "hlt"]
    /\ UNCHANGED <<bsp, todo, core, ap_init_lock, msec, elapsed, stack>>

-----------------------------------------------------------------------------
Bsp == LockForCore \/ SendInit \/ InitSlept \/ SendSipi \/ SipiSlept \/ FinalLock
Ap(a) == Trampoline(a) \/ ApPrint(a) \/ ApRelease(a) \/ ApHalt(a)

Next == Bsp \/ Tick \/ \E a \in Aps : Ap(a)

Spec == Init /\ [][Next]_vars

(* Every core executes and the PIT ticks.                                  *)
FairSpec == Spec /\ WF_vars(Bsp) /\ WF_vars(Tick) /\ \A a \in Aps : WF_vars(Ap(a))

-----------------------------------------------------------------------------
(* Properties.                                                             *)

(* From its first push until it has released ap_init_lock a core has the   *)
(* shared stack to itself.                                                 *)
StackOwned == \A a \in Aps : ap[a] \in {"print", "release"} => stack = a

(* kernel_enter does not go on before every core has reported in.          *)
AllStarted == bsp = "done" => \A a \in Aps : ap[a] \in {"return", "hlt"}

(* SIPI follows INIT by at least InitDelay whole milliseconds: the tick in *)
(* progress when pit_sleep_msec was called does not count.                 *)
SipiDelayed == bsp = "sipi" => elapsed >= InitDelay + 1

(* If every listed core answers, kernel_enter goes on.                     *)
BspProceeds == bsp = "loop" ~> bsp = "done"
=============================================================================

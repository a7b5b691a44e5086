-------------------------------- MODULE Proc --------------------------------
(***************************************************************************)
(* The preemptive scheduler of the kernel (kernel/proc.c, x86/proc.asm,    *)
(* libk/spinlock.c) together with what drives it: the PIT interrupt        *)
(* (x86/isr.asm, x86/interrupts.c, drivers/pit.c), the yield system call   *)
(* (x86/syscall.c) and the end of kernel_enter (kernel.c).                 *)
(*                                                                         *)
(* One CPU executes the code of one thread at a time.  A thread is a stack *)
(* of at most two frames: frame[t], the function it executes, and under[t],*)
(* the frame an interrupt or system call was taken on.  The application    *)
(* processors never run the scheduler (every I/O APIC entry is routed to   *)
(* one CPU and ap_enter ends in a hlt loop), so interrupts are the only    *)
(* concurrency.                                                            *)
(*                                                                         *)
(* Where the code walks an intrusive list through proc_t.next, the model   *)
(* has a sequence.  The two agree while no process is on two lists or on   *)
(* one list twice, which OnePlace and the inductive invariant establish.   *)
(***************************************************************************)
EXTENDS Integers, Sequences, FiniteSets, SequencesExt

CONSTANTS
    Procs,      \* the proc_t blocks processes live in
    BootProcs,  \* the ones kernel_enter creates (wserver, wclient)
    Idle,       \* the block of proc_idle
    Boot,       \* the boot stack, on which kernel_enter runs
    Null,       \* the null pointer
    SLICE,      \* time slice in ms (8 in proc_switch)
    SleepArgs,  \* arguments processes give proc_sleep_msec (16 in kernel.c)
    TimeMod,    \* the wrap of pit_systime_msec, a u32 (2^32)
    MaxTick     \* bound: no tick is delivered once the clock shows MaxTick

ASSUME ProcsAssumption ==
    /\ BootProcs \subseteq Procs
    /\ BootProcs # {}
    /\ Idle \notin Procs
    /\ Boot \notin Procs
    /\ Null \notin Procs
    /\ Idle # Boot
    /\ Idle # Null
    /\ Boot # Null

ASSUME TimeAssumption ==
    /\ TimeMod \in Nat
    /\ TimeMod > 1
    /\ MaxTick \in Nat
    /\ SLICE \in Nat
    /\ SLICE < TimeMod
    /\ SleepArgs \subseteq Nat
    /\ \A m \in SleepArgs : m < TimeMod

VARIABLES
    cpu,               \* the thread whose stack the CPU is on
    iflag,             \* the interrupt flag of eflags
    frame,             \* per thread: the function it executes
    under,             \* per thread: the interrupted frame below, if any
    it,                \* proc_schedule's position in waiting_q
    irq0,              \* the PIT has raised its line (one pending bit)
    in_service,        \* the PIC or LAPIC waits for the EOI of the PIT's IRQ
    pit_systime_msec,
    locked,            \* sched_lock
    proc_current, proc_idle,
    ready_q, waiting_q,
    state, time_end    \* the fields of proc_t

hwvars == <<irq0, in_service>>
qvars == <<ready_q, waiting_q>>
pvars == <<state, time_end>>
vars == <<cpu, iflag, frame, under, it, irq0, in_service, pit_systime_msec,
          locked, proc_current, proc_idle, ready_q, waiting_q, state, time_end>>

Threads == Procs \cup {Idle, Boot}

States == {"UNINIT", "ACTIVE", "READY", "SLEEP", "IDLE"}

(* Functions and the points in them where something may change.            *)
Fns == {"none", "entry", "kernel_enter", "startup", "irq", "sys_yield",
        "proc_register", "proc_sleep_msec", "proc_exit"}
Pcs == {"none", "run", "init", "reg", "end", "handle", "eoi", "getf", "cli",
        "spin", "body", "wake", "pick", "release", "setf", "iret"}

(* flags is the local of proc_lock's callers; eflags is the word pushed on *)
(* the stack when an interrupt or proc_switch leaves the frame.            *)
Frames == [fn : Fns, pc : Pcs, arg : Procs \cup {Null},
           flags : BOOLEAN, eflags : BOOLEAN]

MkFrame(f, l, a, fl) ==
    [fn |-> f, pc |-> l, arg |-> a, flags |-> fl, eflags |-> FALSE]

(* A frame as it is left on the stack, to go on at l.                      *)
Pushed(f, l) ==
    [fn |-> f.fn, pc |-> l, arg |-> f.arg, flags |-> f.flags, eflags |-> iflag]

NoFrame == MkFrame("none", "none", Null, FALSE)

Add32(a, b) == IF a + b < TimeMod THEN a + b ELSE a + b - TimeMod

Fn == frame[cpu].fn
At(l) == frame[cpu].pc = l
Goto(l) ==
    frame' = [frame EXCEPT
                ![cpu] = MkFrame(Fn, l, frame[cpu].arg, frame[cpu].flags)]

(* The boot stack at the point where interrupts have been enabled.         *)
Init ==
    /\ cpu = Boot
    /\ iflag = TRUE
    /\ frame = [t \in Threads |->
                  IF t = Boot
                  THEN MkFrame("kernel_enter", "run", Null, FALSE)
                  ELSE NoFrame]
    /\ under = [t \in Threads |-> NoFrame]
    /\ it = 1
    /\ irq0 = FALSE
    /\ in_service = FALSE
    /\ pit_systime_msec = 0
    /\ locked = FALSE
    /\ proc_current = Null
    /\ proc_idle = Null
    /\ ready_q = <<>>
    /\ waiting_q = <<>>
    /\ state = [t \in Procs \cup {Idle} |-> "UNINIT"]
    /\ time_end = [t \in Procs \cup {Idle} |-> 0]

-----------------------------------------------------------------------------
(* The timer and the interrupt path.                                       *)

(* The PIT raises its line.  Ticks that come while one is pending are lost.*)
PitFire ==
    /\ ~irq0
    /\ irq0' = TRUE
    /\ UNCHANGED <<cpu, iflag, frame, under, it, in_service, pit_systime_msec,
                   locked, proc_current, proc_idle, qvars, pvars>>

(* An interrupt gate: push eflags and the return address, clear IF.        *)
EnterGate(f, l) ==
    /\ under' = [under EXCEPT ![cpu] = Pushed(frame[cpu], frame[cpu].pc)]
    /\ frame' = [frame EXCEPT ![cpu] = MkFrame(f, l, Null, FALSE)]
    /\ iflag' = FALSE

(* Between two instructions with IF set the CPU takes a pending IRQ.       *)
Deliver ==
    /\ iflag
    /\ irq0
    /\ ~in_service
    /\ pit_systime_msec # MaxTick
    /\ irq0' = FALSE
    /\ in_service' = TRUE
    /\ EnterGate("irq", "handle")
    /\ UNCHANGED <<cpu, it, pit_systime_msec, locked, proc_current, proc_idle,
                   qvars, pvars>>

PitHandleInterrupt ==
    /\ At("handle")
    /\ pit_systime_msec' = Add32(pit_systime_msec, 1)
    /\ Goto("eoi")
    /\ UNCHANGED <<cpu, iflag, under, it, hwvars, locked, proc_current, proc_idle,
                   qvars, pvars>>

(* Mutant: the EOI is left to the code after the switch, which may be new. *)
EoiForgotten ==
    /\ At("eoi")
    /\ Goto("getf")
    /\ UNCHANGED <<cpu, iflag, under, it, hwvars, pit_systime_msec, locked,
                   proc_current, proc_idle, qvars, pvars>>

(* The EOI, sent before the scheduler may leave this stack.                *)
Eoi ==
    /\ At("eoi")
    /\ in_service' = FALSE
    /\ Goto("getf")
    /\ UNCHANGED <<cpu, iflag, under, it, irq0, pit_systime_msec, locked,
                   proc_current, proc_idle, qvars, pvars>>

(* iretd: back to the interrupted frame with the eflags it had.            *)
Iret ==
    /\ At("iret")
    /\ LET u == under[cpu] IN
         frame' = [frame EXCEPT ![cpu] = MkFrame(u.fn, u.pc, u.arg, u.flags)]
    /\ under' = [under EXCEPT ![cpu] = NoFrame]
    /\ iflag' = under[cpu].eflags
    /\ UNCHANGED <<cpu, it, hwvars, pit_systime_msec, locked, proc_current,
                   proc_idle, qvars, pvars>>

-----------------------------------------------------------------------------
(* proc_lock and proc_release, instruction by instruction.                 *)

GetF ==
    /\ At("getf")
    /\ frame' = [frame EXCEPT ![cpu] = MkFrame(Fn, "cli", frame[cpu].arg, iflag)]
    /\ UNCHANGED <<cpu, iflag, under, it, hwvars, pit_systime_msec, locked,
                   proc_current, proc_idle, qvars, pvars>>

Cli ==
    /\ At("cli")
    /\ iflag' = FALSE
    /\ Goto("spin")
    /\ UNCHANGED <<cpu, under, it, hwvars, pit_systime_msec, locked,
                   proc_current, proc_idle, qvars, pvars>>

(* The test-and-set that succeeds; while the lock is taken the CPU spins.  *)
SpinlockLock ==
    /\ At("spin")
    /\ ~locked
    /\ locked' = TRUE
    /\ Goto("body")
    /\ UNCHANGED <<cpu, iflag, under, it, hwvars, pit_systime_msec,
                   proc_current, proc_idle, qvars, pvars>>

SpinlockRelease ==
    /\ At("release")
    /\ locked' = FALSE
    /\ Goto("setf")
    /\ UNCHANGED <<cpu, iflag, under, it, hwvars, pit_systime_msec,
                   proc_current, proc_idle, qvars, pvars>>

(* The code a function of this module returns to.                          *)
CodeFrame(t) ==
    IF t = Boot THEN MkFrame("kernel_enter", "reg", Null, FALSE)
                ELSE MkFrame("entry", "run", Null, FALSE)

SetF ==
    /\ At("setf")
    /\ iflag' = frame[cpu].flags
    /\ frame' = [frame EXCEPT ![cpu] =
                   IF Fn \in {"irq", "sys_yield"}
                   THEN MkFrame(Fn, "iret", Null, FALSE)
                   ELSE CodeFrame(cpu)]
    /\ UNCHANGED <<cpu, under, it, hwvars, pit_systime_msec, locked,
                   proc_current, proc_idle, qvars, pvars>>

-----------------------------------------------------------------------------
(* The operations of proc.c, under sched_lock.                             *)

(* Mutants: proc_startup restores flags without releasing the lock; it     *)
(* releases the lock but restores flags with IF clear.                     *)
NewFrameKeepsLock == MkFrame("startup", "setf", Null, TRUE)
NewFrameMasked == MkFrame("startup", "release", Null, FALSE)

(* The stack proc_init lays out: proc_startup releases the lock its creator*)
(* does not hold for it, with flags that have IF set.                      *)
NewFrame == MkFrame("startup", "release", Null, TRUE)

(* proc_create and the call of proc_register on what it returned.          *)
CreateAndRegister(p) ==
    /\ frame[p] = NoFrame
    /\ frame' = [frame EXCEPT
                   ![p] = NewFrame,
                   ![cpu] = MkFrame("proc_register", "getf", p, FALSE)]
    /\ UNCHANGED <<cpu, iflag, under, it, hwvars, pit_systime_msec, locked,
                   proc_current, proc_idle, qvars, pvars>>

RegisterBody ==
    /\ At("body")
    /\ Fn = "proc_register"
    /\ state' = [state EXCEPT ![frame[cpu].arg] = "READY"]
    /\ ready_q' = Cons(frame[cpu].arg, ready_q)
    /\ Goto("release")
    /\ UNCHANGED <<cpu, iflag, under, it, hwvars, pit_systime_msec, locked,
                   proc_current, proc_idle, waiting_q, time_end>>

(* The argument is the caller's own, so it is chosen where it is read.     *)
SleepBody ==
    /\ At("body")
    /\ Fn = "proc_sleep_msec"
    /\ \E msec \in SleepArgs :
         time_end' = [time_end EXCEPT
                        ![proc_current] = Add32(pit_systime_msec, msec)]
    /\ waiting_q' = Cons(proc_current, waiting_q)
    /\ state' = [state EXCEPT ![proc_current] = "SLEEP"]
    /\ it' = 1
    /\ Goto("wake")
    /\ UNCHANGED <<cpu, iflag, under, hwvars, pit_systime_msec, locked,
                   proc_current, proc_idle, ready_q>>

YieldBody ==
    /\ At("body")
    /\ Fn = "sys_yield"
    /\ time_end' = [time_end EXCEPT ![proc_current] = pit_systime_msec]
    /\ Goto("release")
    /\ UNCHANGED <<cpu, iflag, under, it, hwvars, pit_systime_msec, locked,
                   proc_current, proc_idle, qvars, state>>

(* The block is freed, so its contents are no longer the process's.        *)
ExitBody ==
    /\ At("body")
    /\ Fn = "proc_exit"
    /\ state' = [state EXCEPT ![proc_current] = "UNINIT"]
    /\ proc_current' = Null
    /\ it' = 1
    /\ Goto("wake")
    /\ UNCHANGED <<cpu, iflag, under, hwvars, pit_systime_msec, locked,
                   proc_idle, qvars, time_end>>

IrqBody ==
    /\ At("body")
    /\ Fn = "irq"
    /\ it' = 1
    /\ Goto("wake")
    /\ UNCHANGED <<cpu, iflag, under, hwvars, pit_systime_msec, locked,
                   proc_current, proc_idle, qvars, pvars>>

-----------------------------------------------------------------------------
(* proc_schedule.  Its callers go on at "release", kernel_enter at its end.*)

SchedReturn == IF Fn = "kernel_enter" THEN "end" ELSE "release"

(* One iteration of the loop over waiting_q.                               *)
WakeStep ==
    /\ At("wake")
    /\ it <= Len(waiting_q)
    /\ LET proc == waiting_q[it] IN
         IF pit_systime_msec >= time_end[proc]
         THEN /\ waiting_q' = RemoveAt(waiting_q, it)
              /\ state' = [state EXCEPT ![proc] = "READY"]
              /\ ready_q' = Cons(proc, ready_q)
              /\ UNCHANGED it
         ELSE /\ it' = it + 1
              /\ UNCHANGED <<qvars, state>>
    /\ UNCHANGED <<cpu, iflag, frame, under, hwvars, pit_systime_msec, locked,
                   proc_current, proc_idle, time_end>>

WakeDone ==
    /\ At("wake")
    /\ it > Len(waiting_q)
    /\ Goto("pick")
    /\ UNCHANGED <<cpu, iflag, under, it, hwvars, pit_systime_msec, locked,
                   proc_current, proc_idle, qvars, pvars>>

(* proc_switch.  With no current process the old stack pointer is not      *)
(* saved and the old stack is gone.                                        *)
ProcSwitch(next) ==
    /\ frame' = [frame EXCEPT ![cpu] =
                   IF proc_current = Null
                   THEN NoFrame
                   ELSE Pushed(frame[cpu], SchedReturn)]
    /\ time_end' = [time_end EXCEPT ![next] = Add32(pit_systime_msec, SLICE)]
    /\ cpu' = next
    /\ proc_current' = next
    /\ iflag' = frame[next].eflags

PickReturn ==
    /\ Goto(SchedReturn)
    /\ UNCHANGED <<cpu, iflag, proc_current, time_end>>

(* Nothing is ready: stay, or switch to the idle process.                  *)
PickEmpty ==
    /\ At("pick")
    /\ ready_q = <<>>
    /\ IF /\ \/ proc_current = Null
             \/ state[proc_current] \notin {"ACTIVE", "IDLE"}
          /\ proc_idle # Null
       THEN ProcSwitch(proc_idle)
       ELSE PickReturn
    /\ UNCHANGED <<under, it, hwvars, pit_systime_msec, locked, proc_idle,
                   qvars, state>>

CurrentActive == proc_current # Null /\ state[proc_current] = "ACTIVE"

(* Mutant: the slice lasts one tick too long. *)
SliceLeftOrEqual == pit_systime_msec <= time_end[proc_current]

SliceLeft == pit_systime_msec < time_end[proc_current]

(* The current process still has time left in its slice.                   *)
PickKeep ==
    /\ At("pick")
    /\ ready_q # <<>>
    /\ CurrentActive
    /\ SliceLeft
    /\ PickReturn
    /\ UNCHANGED <<under, it, hwvars, pit_systime_msec, locked, proc_idle,
                   qvars, state>>

(* Mutants: the current process is not put back; it is put back at the     *)
(* wrong end.                                                              *)
RequeuedNever == ready_q
RequeuedFront == IF CurrentActive THEN Cons(proc_current, ready_q) ELSE ready_q

(* What ready_q is once the current process has been added to its end.     *)
Requeued == IF CurrentActive THEN Append(ready_q, proc_current) ELSE ready_q

(* Mutant: the next process is switched to without being marked active. *)
PickNextUnmarked ==
    /\ At("pick")
    /\ ready_q # <<>>
    /\ ~(CurrentActive /\ SliceLeft)
    /\ LET next_proc == Head(Requeued) IN
         /\ ready_q' = Tail(Requeued)
         /\ IF proc_current = next_proc
            THEN PickReturn
            ELSE ProcSwitch(next_proc)
    /\ UNCHANGED <<under, it, hwvars, pit_systime_msec, locked, proc_idle,
                   waiting_q, state>>

PickNext ==
    /\ At("pick")
    /\ ready_q # <<>>
    /\ ~(CurrentActive /\ SliceLeft)
    /\ LET next_proc == Head(Requeued) IN
         /\ ready_q' = Tail(Requeued)
         /\ IF proc_current = next_proc
            THEN PickReturn /\ UNCHANGED state
            ELSE /\ state' = [state EXCEPT ![next_proc] = "ACTIVE"]
                 /\ ProcSwitch(next_proc)
    /\ UNCHANGED <<under, it, hwvars, pit_systime_msec, locked, proc_idle,
                   waiting_q>>

-----------------------------------------------------------------------------
(* The threads.                                                            *)

(* Mutant: kernel_enter creates the processes with interrupts on. *)
BootCliForgotten ==
    /\ Fn = "kernel_enter"
    /\ At("run")
    /\ Goto("init")
    /\ UNCHANGED <<cpu, iflag, under, it, hwvars, pit_systime_msec, locked,
                   proc_current, proc_idle, qvars, pvars>>

(* kernel_enter: cli, proc_init_scheduler, two processes, proc_schedule.   *)
BootCli ==
    /\ Fn = "kernel_enter"
    /\ At("run")
    /\ iflag' = FALSE
    /\ Goto("init")
    /\ UNCHANGED <<cpu, under, it, hwvars, pit_systime_msec, locked,
                   proc_current, proc_idle, qvars, pvars>>

BootInitScheduler ==
    /\ At("init")
    /\ proc_idle' = Idle
    /\ state' = [state EXCEPT ![Idle] = "IDLE"]
    /\ frame' = [frame EXCEPT
                   ![Idle] = NewFrame,
                   ![cpu] = MkFrame("kernel_enter", "reg", Null, FALSE)]
    /\ UNCHANGED <<cpu, iflag, under, it, hwvars, pit_systime_msec, locked,
                   proc_current, qvars, time_end>>

BootRegister ==
    /\ At("reg")
    /\ \E p \in BootProcs : CreateAndRegister(p)

BootSchedule ==
    /\ At("reg")
    /\ \A p \in BootProcs : frame[p] # NoFrame
    /\ it' = 1
    /\ Goto("wake")
    /\ UNCHANGED <<cpu, iflag, under, hwvars, pit_systime_msec, locked,
                   proc_current, proc_idle, qvars, pvars>>

(* A process calls into the kernel whenever it likes.                      *)
InProcessCode == cpu \in Procs /\ At("run")

ProcCall ==
    /\ InProcessCode
    /\ \E f \in {"proc_sleep_msec", "proc_exit"} :
         frame' = [frame EXCEPT ![cpu] = MkFrame(f, "getf", Null, FALSE)]
    /\ UNCHANGED <<cpu, iflag, under, it, hwvars, pit_systime_msec, locked,
                   proc_current, proc_idle, qvars, pvars>>

ProcRegisterCall ==
    /\ InProcessCode
    /\ \E p \in Procs : CreateAndRegister(p)

(* int 0xAE with SYS_YIELD, through an interrupt gate.                     *)
SysYield ==
    /\ InProcessCode
    /\ EnterGate("sys_yield", "getf")
    /\ UNCHANGED <<cpu, it, hwvars, pit_systime_msec, locked, proc_current,
                   proc_idle, qvars, pvars>>

-----------------------------------------------------------------------------
Lock == GetF \/ Cli \/ SpinlockLock
Release == SpinlockRelease \/ SetF
Body == RegisterBody \/ SleepBody \/ YieldBody \/ ExitBody \/ IrqBody
ProcSchedule == WakeStep \/ WakeDone \/ PickEmpty \/ PickKeep \/ PickNext
KernelEnter == BootCli \/ BootInitScheduler \/ BootRegister \/ BootSchedule
Isr == PitHandleInterrupt \/ Eoi \/ Iret

(* The steps the CPU takes by itself, and those a process decides on.      *)
KernelStep == Lock \/ Release \/ Body \/ ProcSchedule \/ KernelEnter \/ Isr
ProcStep == ProcCall \/ ProcRegisterCall \/ SysYield

Next == PitFire \/ Deliver \/ KernelStep \/ ProcStep

Spec == Init /\ [][Next]_vars

(* The CPU goes on executing kernel code, the PIT goes on ticking, and a   *)
(* pending interrupt is taken when IF is set, however briefly: the CPU     *)
(* looks for one at every instruction boundary.                            *)
Fairness == WF_vars(KernelStep) /\ WF_vars(PitFire) /\ SF_vars(Deliver)

FairSpec == Spec /\ Fairness

-----------------------------------------------------------------------------
(* Properties.                                                             *)

(* The variables keep their types (kernel/proc.h's proc_t, the globals of  *)
(* proc.c).  In particular proc_idle is never put on a queue.              *)
TypeOK ==
    /\ cpu \in Threads
    /\ iflag \in BOOLEAN
    /\ frame \in [Threads -> Frames]
    /\ under \in [Threads -> Frames]
    /\ it \in Nat \ {0}
    /\ irq0 \in BOOLEAN
    /\ in_service \in BOOLEAN
    /\ pit_systime_msec \in 0 .. TimeMod - 1
    /\ locked \in BOOLEAN
    /\ proc_current \in Procs \cup {Idle, Null}
    /\ proc_idle \in {Idle, Null}
    /\ ready_q \in Seq(Procs)
    /\ waiting_q \in Seq(Procs)
    /\ state \in [Procs \cup {Idle} -> States]
    /\ time_end \in [Procs \cup {Idle} -> 0 .. TimeMod - 1]

(* spinlock_lock never spins: with one CPU in the scheduler the holder of  *)
(* sched_lock could not run to release it, and the CPU would hang with     *)
(* interrupts off.                                                         *)
NoSelfDeadlock == At("spin") => ~locked

(* sched_lock is only held with interrupts off (proc_lock's cli holds until*)
(* proc_release, across every proc_switch in between), so that the PIT     *)
(* handler never meets a list half way through an update.                  *)
MaskedWhileLocked == locked => ~iflag

(* A process or the idle loop executes its own code with interrupts on,    *)
(* whichever way it got there (proc_startup, proc_release, iretd): nothing *)
(* could take the CPU from it otherwise.                                   *)
ThreadsPreemptible == (cpu # Boot /\ At("run")) => iflag

(* No thread runs with interrupts on while the controller still waits for  *)
(* the EOI of the timer: the tick handler acknowledges before proc_schedule*)
(* may leave its stack for good.                                           *)
TimerAcknowledged == iflag => ~in_service

Registered == {p \in Procs : state[p] # "UNINIT"}

(* Outside the critical section every registered process is in exactly one *)
(* place: it is the current one, or on ready_q once, or on waiting_q once. *)
(* No process is lost and no list is corrupted by a second insertion.      *)
OnePlace ==
    ~locked =>
      /\ IsInjective(ready_q)
      /\ IsInjective(waiting_q)
      /\ ToSet(ready_q) \cap ToSet(waiting_q) = {}
      /\ proc_current \notin ToSet(ready_q) \cup ToSet(waiting_q)
      /\ Registered = (ToSet(ready_q) \cup ToSet(waiting_q)
                         \cup {proc_current}) \ {Idle, Null}

(* "Switch to idle process if all available processes are blocked"         *)
(* (proc.c): while the idle process is current every process sleeps.       *)
IdleOnlyWhenBlocked ==
    (~locked /\ proc_current = Idle) =>
      \A p \in Registered : state[p] = "SLEEP"

(* Whenever thread code runs with interrupts on, every sleeping process has*)
(* its deadline ahead of it: the tick that reaches the deadline also wakes.*)
NotLate ==
    (iflag /\ cpu # Boot) =>
      \A p \in ToSet(waiting_q) : pit_systime_msec < time_end[p]

(* When the tick handler returns to a process although another is ready,   *)
(* the process has time left in its slice.                                 *)
SliceRespected ==
    (At("iret") /\ Fn = "irq" /\ cpu \in Procs /\ ready_q # <<>>) =>
      pit_systime_msec < time_end[cpu]

(* proc_schedule keeps time: no sleeper is woken late and no process keeps *)
(* the CPU past its slice while another is ready.                          *)
Timely == NotLate /\ SliceRespected

(* The boot stack is left for good by the proc_schedule at the end of      *)
(* kernel_enter and by no earlier interrupt: when the CPU leaves it, every *)
(* process of kernel_enter has been registered.                            *)
BootCompletes ==
    [][cpu = Boot /\ cpu' # Boot => BootProcs \subseteq Registered]_vars

(* A process does not sleep for ever: once its deadline is within the      *)
(* modelled time it leaves waiting_q.                                      *)
SleepersWake ==
    \A p \in Procs :
      (p \in ToSet(waiting_q) /\ time_end[p] <= MaxTick)
        ~> p \notin ToSet(waiting_q)

(* With two processes, a ready one gets the CPU when the other's slice ends*)
(* at the latest.                                                          *)
ReadyRuns ==
    \A p \in Procs :
      (p \in ToSet(ready_q) /\ pit_systime_msec + SLICE + 1 <= MaxTick)
        ~> proc_current = p

(* The clock and every deadline stay below the wrap of the u32.            *)
NoWrap ==
    /\ MaxTick + SLICE < TimeMod
    /\ \A m \in SleepArgs : m > 0 /\ MaxTick + m < TimeMod
=============================================================================

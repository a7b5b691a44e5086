----------------------------- MODULE ProcProofs -----------------------------
(***************************************************************************)
(* Proofs about Proc, for every set of processes and every choice of the   *)
(* time constants.                                                         *)
(*                                                                         *)
(* The first part is about control: which function a thread can be in,     *)
(* what the interrupt flag and sched_lock are there, and what a suspended  *)
(* thread looks like.  It holds across the wrap of the clock.              *)
(***************************************************************************)
EXTENDS Proc, TLAPS

Gates == {"irq", "sys_yield"}
LockPcs == {"getf", "cli", "spin", "body", "release", "setf"}
SchedPcs == {"wake", "pick"}
FlagPcs == {"cli", "spin", "body", "wake", "pick", "release", "setf"}

(* The functions a thread can be in, and where.                            *)
LegalAt(t, f) ==
    \/ f.fn = "none" /\ f.pc = "none"
    \/ f.fn = "entry" /\ f.pc = "run" /\ t # Boot
    \/ f.fn = "kernel_enter" /\ f.pc \in {"run", "init", "reg", "end"} \cup SchedPcs
       /\ t = Boot
    \/ f.fn = "startup" /\ f.pc \in {"release", "setf"} /\ t # Boot
    \/ f.fn = "irq" /\ f.pc \in {"handle", "eoi", "iret"} \cup LockPcs \cup SchedPcs
    \/ f.fn = "sys_yield" /\ f.pc \in {"iret"} \cup LockPcs /\ t \in Procs
    \/ f.fn = "proc_register" /\ f.pc \in LockPcs /\ f.arg \in Procs
    \/ f.fn \in {"proc_sleep_msec", "proc_exit"} /\ f.pc \in LockPcs \cup SchedPcs
       /\ t \in Procs

(* Where the interrupt flag is set: in the threads' own code, and in a     *)
(* function a process calls until its cli.                                 *)
WantIF(t, f) ==
    \/ f.pc = "run"
    \/ f.pc \in {"getf", "cli"} /\ f.fn \notin Gates /\ t # Boot

(* What proc_lock has returned.                                            *)
FlagsAt(t, f) ==
    (f.pc \in FlagPcs /\ f.fn # "kernel_enter") =>
       (f.flags <=> (f.fn \notin Gates /\ t # Boot))

(* The frame an interrupt or system call was taken on.                     *)
UnderAt(t, f, u) ==
    f.fn \in Gates => (LegalAt(t, u) /\ WantIF(t, u) /\ FlagsAt(t, u) /\ u.eflags)

FramesOK ==
    \A t \in Threads :
      /\ LegalAt(t, frame[t])
      /\ FlagsAt(t, frame[t])
      /\ UnderAt(t, frame[t], under[t])
      /\ ~frame[t].eflags

SuspendedOK ==
    \A t \in Threads \ {cpu} :
      /\ frame[t].pc \in {"none", "release"}
      /\ cpu = Boot => frame[t].fn \in {"none", "startup"}

FlagOK == iflag <=> WantIF(cpu, frame[cpu])

HeldPcs == {"body", "wake", "pick", "release"}

LockOK ==
    /\ At("body") => locked
    /\ (frame[cpu].pc \in HeldPcs /\ Fn \notin {"kernel_enter", "startup"}) => locked
    /\ locked => (frame[cpu].pc \in HeldPcs \cup {"none"} /\ Fn # "kernel_enter")

ServiceOK == in_service => frame[cpu].pc \in {"handle", "eoi"}

CurrentOK ==
    /\ proc_current \in {cpu, Null}
    /\ cpu = Boot => proc_current = Null
    /\ (proc_current = Null /\ cpu # Boot) =>
         (Fn = "proc_exit" /\ frame[cpu].pc \in SchedPcs)
    /\ state[Idle] \in {"UNINIT", "IDLE"}

Ctl == FramesOK /\ SuspendedOK /\ FlagOK /\ LockOK /\ ServiceOK /\ CurrentOK

CtlInv == TypeOK /\ Ctl

(* Until proc_init_scheduler has run there is only the boot stack, and it  *)
(* has not come to its calls of proc_register.                             *)
IdleOK ==
    proc_idle = Null =>
      /\ cpu = Boot
      /\ ready_q = <<>>
      /\ waiting_q = <<>>
      /\ Fn # "proc_register"
      /\ Fn = "kernel_enter" => frame[cpu].pc \in {"run", "init"}

-----------------------------------------------------------------------------

(* The frame of a stack nothing has run on is a frame.                     *)
LEMMA NoFrameType == NoFrame \in Frames
BY DEF NoFrame, MkFrame, Frames, Fns, Pcs

(* Sums of times wrap into the range of times.                             *)
LEMMA Add32Type ==
    ASSUME NEW a \in 0 .. TimeMod - 1, NEW b \in 0 .. TimeMod - 1
    PROVE  Add32(a, b) \in 0 .. TimeMod - 1
BY TimeAssumption DEF Add32


(* The machine starts with the control invariant.                          *)
LEMMA InitCtl == Init => CtlInv
<1> SUFFICES ASSUME Init PROVE CtlInv
  OBVIOUS
<1> USE ProcsAssumption, TimeAssumption, NoFrameType
<1>1. TypeOK
  <2>1. MkFrame("kernel_enter", "run", Null, FALSE) \in Frames
    BY DEF MkFrame, Frames, Fns, Pcs
  <2>2. frame \in [Threads -> Frames] /\ under \in [Threads -> Frames]
    BY <2>1 DEF Init
  <2>3. ready_q \in Seq(Procs) /\ waiting_q \in Seq(Procs)
    BY DEF Init
  <2>4. /\ state \in [Procs \cup {Idle} -> States]
        /\ time_end \in [Procs \cup {Idle} -> 0 .. TimeMod - 1]
    BY DEF Init, States
  <2>5. /\ cpu \in Threads
        /\ it \in Nat \ {0} /\ pit_systime_msec \in 0 .. TimeMod - 1
        /\ proc_current \in Procs \cup {Idle, Null} /\ proc_idle \in {Idle, Null}
    BY DEF Init, Threads
  <2>6. /\ iflag \in BOOLEAN /\ irq0 \in BOOLEAN
        /\ in_service \in BOOLEAN /\ locked \in BOOLEAN
    BY Zenon DEF Init
  <2> QED
    BY <2>2, <2>3, <2>4, <2>5, <2>6 DEF TypeOK
<1>2. FramesOK
  <2> SUFFICES ASSUME NEW t \in Threads
               PROVE  LegalAt(t, frame[t]) /\ FlagsAt(t, frame[t])
                      /\ UnderAt(t, frame[t], under[t]) /\ ~frame[t].eflags
    BY DEF FramesOK
  <2>1. CASE t = Boot
    <3>1. frame[t] = MkFrame("kernel_enter", "run", Null, FALSE)
      BY <2>1 DEF Init
    <3> QED
      BY <2>1, <3>1 DEF LegalAt, FlagsAt, UnderAt, Gates, FlagPcs, SchedPcs, MkFrame
  <2>2. CASE t # Boot
    <3>1. frame[t] = MkFrame("none", "none", Null, FALSE)
      BY <2>2 DEF Init, NoFrame
    <3> QED
      BY <2>2, <3>1 DEF LegalAt, FlagsAt, UnderAt, Gates, FlagPcs, MkFrame
  <2> QED
    BY <2>1, <2>2
<1>3. SuspendedOK
  BY DEF Init, SuspendedOK, NoFrame, MkFrame
<1>4. FlagOK /\ LockOK /\ ServiceOK /\ CurrentOK
  BY DEF Init, FlagOK, LockOK, ServiceOK, CurrentOK, WantIF, HeldPcs,
         MkFrame, Threads, At, Fn
<1> QED
  BY <1>1, <1>2, <1>3, <1>4 DEF CtlInv, Ctl

(* A step that only replaces the frame the CPU executes.                   *)
LEMMA LocalStep ==
    ASSUME CtlInv, NEW g \in Frames, LegalAt(cpu, g), FlagsAt(cpu, g), ~g.eflags,
           g.fn \in Gates => Fn \in Gates,
           frame' = [frame EXCEPT ![cpu] = g], under' = under, cpu' = cpu
    PROVE  /\ FramesOK'
           /\ SuspendedOK'
           /\ frame'[cpu] = g
           /\ frame' \in [Threads -> Frames]
<1>1. cpu \in Threads /\ frame \in [Threads -> Frames]
  BY DEF CtlInv, TypeOK
<1>2. frame'[cpu] = g /\ frame' \in [Threads -> Frames]
  BY <1>1
<1>3. ASSUME NEW t \in Threads \ {cpu} PROVE frame'[t] = frame[t]
  BY <1>1
<1>4. FramesOK'
  <2> SUFFICES ASSUME NEW t \in Threads
               PROVE  /\ LegalAt(t, frame'[t])
                      /\ FlagsAt(t, frame'[t])
                      /\ UnderAt(t, frame'[t], under[t])
                      /\ ~frame'[t].eflags
    BY DEF FramesOK, LegalAt, FlagsAt, UnderAt, WantIF
  <2>0. /\ LegalAt(t, frame[t])
        /\ FlagsAt(t, frame[t])
        /\ UnderAt(t, frame[t], under[t])
        /\ ~frame[t].eflags
    BY DEF CtlInv, Ctl, FramesOK
  <2>1. CASE t = cpu
    BY <1>2, <2>0, <2>1 DEF UnderAt, Fn
  <2>2. CASE t # cpu
    BY <1>3, <2>0, <2>2
  <2> QED
    BY <2>1, <2>2
<1>5. SuspendedOK'
  BY <1>3 DEF CtlInv, Ctl, SuspendedOK
<1> QED
  BY <1>2, <1>4, <1>5

(* Goto is such a step.                                                    *)
LEMMA GotoStep ==
    ASSUME CtlInv, NEW l \in Pcs, Goto(l), under' = under, cpu' = cpu,
           LegalAt(cpu, MkFrame(Fn, l, frame[cpu].arg, frame[cpu].flags)),
           FlagsAt(cpu, MkFrame(Fn, l, frame[cpu].arg, frame[cpu].flags))
    PROVE  /\ FramesOK'
           /\ SuspendedOK'
           /\ frame'[cpu] = MkFrame(Fn, l, frame[cpu].arg, frame[cpu].flags)
           /\ frame' \in [Threads -> Frames]
<1> DEFINE g == MkFrame(Fn, l, frame[cpu].arg, frame[cpu].flags)
<1>1. g \in Frames /\ ~g.eflags /\ g.fn = Fn
  BY DEF CtlInv, TypeOK, MkFrame, Frames, Fn
<1>2. frame' = [frame EXCEPT ![cpu] = g]
  BY DEF Goto
<1> HIDE DEF g
<1> QED
  BY <1>1, <1>2, LocalStep DEF g

(* Putting an element in front of a list of S.                             *)
LEMMA ConsType ==
    ASSUME NEW S, NEW e \in S, NEW s \in Seq(S)
    PROVE  Cons(e, s) \in Seq(S)
BY DEF Cons

(* Taking an element out of a list of S.                                   *)
LEMMA RemoveAtType ==
    ASSUME NEW S, NEW s \in Seq(S), NEW i \in 1 .. Len(s)
    PROVE  RemoveAt(s, i) \in Seq(S)
<1>1. SubSeq(s, 1, i - 1) \in Seq(S) /\ SubSeq(s, i + 1, Len(s)) \in Seq(S)
  OBVIOUS
<1> QED
  BY <1>1 DEF RemoveAt

(* What the current process is while a function of its own has the lock.   *)
LEMMA CurrentInBody ==
    ASSUME CtlInv, At("body"), Fn \in {"proc_sleep_msec", "proc_exit", "sys_yield"}
    PROVE  proc_current = cpu /\ cpu \in Procs
<1>1. cpu \in Threads /\ LegalAt(cpu, frame[cpu])
  BY DEF CtlInv, Ctl, TypeOK, FramesOK
<1>2. cpu \in Procs
  BY <1>1 DEF LegalAt, Fn, At
<1> QED
  BY <1>2, ProcsAssumption DEF CtlInv, Ctl, CurrentOK, At, SchedPcs

(* pit_handle_interrupt counts the tick under the IRQ's own frame.         *)
LEMMA PitHandleInterruptCtl == CtlInv /\ PitHandleInterrupt => CtlInv'
<1> SUFFICES ASSUME CtlInv, PitHandleInterrupt PROVE CtlInv'
  OBVIOUS
<1> USE ProcsAssumption DEF hwvars, qvars, pvars
<1>0. Add32(pit_systime_msec, 1) \in 0 .. TimeMod - 1
  <2>1. pit_systime_msec \in 0 .. TimeMod - 1 /\ 1 \in 0 .. TimeMod - 1
    BY TimeAssumption DEF CtlInv, TypeOK
  <2> QED
    BY <2>1, Add32Type
<1>1. /\ LegalAt(cpu, MkFrame(Fn, "eoi", frame[cpu].arg, frame[cpu].flags))
      /\ FlagsAt(cpu, MkFrame(Fn, "eoi", frame[cpu].arg, frame[cpu].flags))
  BY DEF CtlInv, Ctl, TypeOK, FramesOK, PitHandleInterrupt, At, Fn, MkFrame, LegalAt, FlagsAt,
         Gates, FlagPcs, LockPcs, SchedPcs
<1>2. /\ FramesOK'
      /\ SuspendedOK'
      /\ frame'[cpu] = MkFrame(Fn, "eoi", frame[cpu].arg, frame[cpu].flags)
      /\ frame' \in [Threads -> Frames]
  BY <1>1, GotoStep DEF PitHandleInterrupt, Pcs
<1>3. TypeOK'
  BY <1>2, <1>0 DEF CtlInv, TypeOK, PitHandleInterrupt
<1>4. LegalAt(cpu, frame[cpu]) /\ frame[cpu] \in Frames
  BY DEF CtlInv, Ctl, TypeOK, FramesOK
<1>5. FlagOK' /\ ServiceOK'
  BY <1>2, <1>4 DEF CtlInv, Ctl, FlagOK, ServiceOK, PitHandleInterrupt, At, Fn, MkFrame,
                    LegalAt, WantIF, Gates, LockPcs, SchedPcs
<1>6. LockOK'
  BY <1>2, <1>4 DEF CtlInv, Ctl, LockOK, PitHandleInterrupt, At, Fn, MkFrame,
                    LegalAt, HeldPcs, LockPcs, SchedPcs
<1>7. CurrentOK'
  BY <1>2, <1>4 DEF CtlInv, Ctl, TypeOK, CurrentOK, PitHandleInterrupt, At, Fn, MkFrame,
                    LegalAt, LockPcs, SchedPcs
<1> QED
  BY <1>2, <1>3, <1>5, <1>6, <1>7 DEF CtlInv, Ctl

(* The EOI ends the timer's service before proc_lock.                      *)
LEMMA EoiCtl == CtlInv /\ Eoi => CtlInv'
<1> SUFFICES ASSUME CtlInv, Eoi PROVE CtlInv'
  OBVIOUS
<1> USE ProcsAssumption DEF hwvars, qvars, pvars
<1>1. /\ LegalAt(cpu, MkFrame(Fn, "getf", frame[cpu].arg, frame[cpu].flags))
      /\ FlagsAt(cpu, MkFrame(Fn, "getf", frame[cpu].arg, frame[cpu].flags))
  BY DEF CtlInv, Ctl, TypeOK, FramesOK, Eoi, At, Fn, MkFrame, LegalAt, FlagsAt,
         Gates, FlagPcs, LockPcs, SchedPcs
<1>2. /\ FramesOK'
      /\ SuspendedOK'
      /\ frame'[cpu] = MkFrame(Fn, "getf", frame[cpu].arg, frame[cpu].flags)
      /\ frame' \in [Threads -> Frames]
  BY <1>1, GotoStep DEF Eoi, Pcs
<1>3. TypeOK'
  BY <1>2 DEF CtlInv, TypeOK, Eoi
<1>4. LegalAt(cpu, frame[cpu]) /\ frame[cpu] \in Frames
  BY DEF CtlInv, Ctl, TypeOK, FramesOK
<1>5. FlagOK' /\ ServiceOK'
  BY <1>2, <1>4 DEF CtlInv, Ctl, FlagOK, ServiceOK, Eoi, At, Fn, MkFrame,
                    LegalAt, WantIF, Gates, LockPcs, SchedPcs
<1>6. LockOK'
  BY <1>2, <1>4 DEF CtlInv, Ctl, LockOK, Eoi, At, Fn, MkFrame,
                    LegalAt, HeldPcs, LockPcs, SchedPcs
<1>7. CurrentOK'
  BY <1>2, <1>4 DEF CtlInv, Ctl, TypeOK, CurrentOK, Eoi, At, Fn, MkFrame,
                    LegalAt, LockPcs, SchedPcs
<1> QED
  BY <1>2, <1>3, <1>5, <1>6, <1>7 DEF CtlInv, Ctl

(* proc_lock masks interrupts after it has read the flags.                 *)
LEMMA CliCtl == CtlInv /\ Cli => CtlInv'
<1> SUFFICES ASSUME CtlInv, Cli PROVE CtlInv'
  OBVIOUS
<1> USE ProcsAssumption DEF hwvars, qvars, pvars
<1>1. /\ LegalAt(cpu, MkFrame(Fn, "spin", frame[cpu].arg, frame[cpu].flags))
      /\ FlagsAt(cpu, MkFrame(Fn, "spin", frame[cpu].arg, frame[cpu].flags))
  BY DEF CtlInv, Ctl, TypeOK, FramesOK, Cli, At, Fn, MkFrame, LegalAt, FlagsAt,
         Gates, FlagPcs, LockPcs, SchedPcs
<1>2. /\ FramesOK'
      /\ SuspendedOK'
      /\ frame'[cpu] = MkFrame(Fn, "spin", frame[cpu].arg, frame[cpu].flags)
      /\ frame' \in [Threads -> Frames]
  BY <1>1, GotoStep DEF Cli, Pcs
<1>3. TypeOK'
  BY <1>2 DEF CtlInv, TypeOK, Cli
<1>4. LegalAt(cpu, frame[cpu]) /\ frame[cpu] \in Frames
  BY DEF CtlInv, Ctl, TypeOK, FramesOK
<1>5. FlagOK' /\ ServiceOK'
  BY <1>2, <1>4 DEF CtlInv, Ctl, FlagOK, ServiceOK, Cli, At, Fn, MkFrame,
                    LegalAt, WantIF, Gates, LockPcs, SchedPcs
<1>6. LockOK'
  BY <1>2, <1>4 DEF CtlInv, Ctl, LockOK, Cli, At, Fn, MkFrame,
                    LegalAt, HeldPcs, LockPcs, SchedPcs
<1>7. CurrentOK'
  BY <1>2, <1>4 DEF CtlInv, Ctl, TypeOK, CurrentOK, Cli, At, Fn, MkFrame,
                    LegalAt, LockPcs, SchedPcs
<1> QED
  BY <1>2, <1>3, <1>5, <1>6, <1>7 DEF CtlInv, Ctl

(* The lock is taken with interrupts off.                                  *)
LEMMA SpinlockLockCtl == CtlInv /\ SpinlockLock => CtlInv'
<1> SUFFICES ASSUME CtlInv, SpinlockLock PROVE CtlInv'
  OBVIOUS
<1> USE ProcsAssumption DEF hwvars, qvars, pvars
<1>1. /\ LegalAt(cpu, MkFrame(Fn, "body", frame[cpu].arg, frame[cpu].flags))
      /\ FlagsAt(cpu, MkFrame(Fn, "body", frame[cpu].arg, frame[cpu].flags))
  BY DEF CtlInv, Ctl, TypeOK, FramesOK, SpinlockLock, At, Fn, MkFrame, LegalAt, FlagsAt,
         Gates, FlagPcs, LockPcs, SchedPcs
<1>2. /\ FramesOK'
      /\ SuspendedOK'
      /\ frame'[cpu] = MkFrame(Fn, "body", frame[cpu].arg, frame[cpu].flags)
      /\ frame' \in [Threads -> Frames]
  BY <1>1, GotoStep DEF SpinlockLock, Pcs
<1>3. TypeOK'
  BY <1>2 DEF CtlInv, TypeOK, SpinlockLock
<1>4. LegalAt(cpu, frame[cpu]) /\ frame[cpu] \in Frames
  BY DEF CtlInv, Ctl, TypeOK, FramesOK
<1>5. FlagOK' /\ ServiceOK'
  BY <1>2, <1>4 DEF CtlInv, Ctl, FlagOK, ServiceOK, SpinlockLock, At, Fn, MkFrame,
                    LegalAt, WantIF, Gates, LockPcs, SchedPcs
<1>6. LockOK'
  BY <1>2, <1>4 DEF CtlInv, Ctl, LockOK, SpinlockLock, At, Fn, MkFrame,
                    LegalAt, HeldPcs, LockPcs, SchedPcs
<1>7. CurrentOK'
  BY <1>2, <1>4 DEF CtlInv, Ctl, TypeOK, CurrentOK, SpinlockLock, At, Fn, MkFrame,
                    LegalAt, LockPcs, SchedPcs
<1> QED
  BY <1>2, <1>3, <1>5, <1>6, <1>7 DEF CtlInv, Ctl

(* The lock is given up with interrupts still off.                         *)
LEMMA SpinlockReleaseCtl == CtlInv /\ SpinlockRelease => CtlInv'
<1> SUFFICES ASSUME CtlInv, SpinlockRelease PROVE CtlInv'
  OBVIOUS
<1> USE ProcsAssumption DEF hwvars, qvars, pvars
<1>1. /\ LegalAt(cpu, MkFrame(Fn, "setf", frame[cpu].arg, frame[cpu].flags))
      /\ FlagsAt(cpu, MkFrame(Fn, "setf", frame[cpu].arg, frame[cpu].flags))
  BY DEF CtlInv, Ctl, TypeOK, FramesOK, SpinlockRelease, At, Fn, MkFrame, LegalAt, FlagsAt,
         Gates, FlagPcs, LockPcs, SchedPcs
<1>2. /\ FramesOK'
      /\ SuspendedOK'
      /\ frame'[cpu] = MkFrame(Fn, "setf", frame[cpu].arg, frame[cpu].flags)
      /\ frame' \in [Threads -> Frames]
  BY <1>1, GotoStep DEF SpinlockRelease, Pcs
<1>3. TypeOK'
  BY <1>2 DEF CtlInv, TypeOK, SpinlockRelease
<1>4. LegalAt(cpu, frame[cpu]) /\ frame[cpu] \in Frames
  BY DEF CtlInv, Ctl, TypeOK, FramesOK
<1>5. FlagOK' /\ ServiceOK'
  BY <1>2, <1>4 DEF CtlInv, Ctl, FlagOK, ServiceOK, SpinlockRelease, At, Fn, MkFrame,
                    LegalAt, WantIF, Gates, LockPcs, SchedPcs
<1>6. LockOK'
  BY <1>2, <1>4 DEF CtlInv, Ctl, LockOK, SpinlockRelease, At, Fn, MkFrame,
                    LegalAt, HeldPcs, LockPcs, SchedPcs
<1>7. CurrentOK'
  BY <1>2, <1>4 DEF CtlInv, Ctl, TypeOK, CurrentOK, SpinlockRelease, At, Fn, MkFrame,
                    LegalAt, LockPcs, SchedPcs
<1> QED
  BY <1>2, <1>3, <1>5, <1>6, <1>7 DEF CtlInv, Ctl

(* proc_register queues a process and keeps the lock to its end.           *)
LEMMA RegisterBodyCtl == CtlInv /\ RegisterBody => CtlInv'
<1> SUFFICES ASSUME CtlInv, RegisterBody PROVE CtlInv'
  OBVIOUS
<1> USE ProcsAssumption DEF hwvars, qvars, pvars
<1>0. frame[cpu].arg \in Procs
  BY DEF CtlInv, Ctl, TypeOK, FramesOK, RegisterBody, At, Fn, LegalAt
<1>1. /\ LegalAt(cpu, MkFrame(Fn, "release", frame[cpu].arg, frame[cpu].flags))
      /\ FlagsAt(cpu, MkFrame(Fn, "release", frame[cpu].arg, frame[cpu].flags))
  BY DEF CtlInv, Ctl, TypeOK, FramesOK, RegisterBody, At, Fn, MkFrame, LegalAt, FlagsAt,
         Gates, FlagPcs, LockPcs, SchedPcs
<1>2. /\ FramesOK'
      /\ SuspendedOK'
      /\ frame'[cpu] = MkFrame(Fn, "release", frame[cpu].arg, frame[cpu].flags)
      /\ frame' \in [Threads -> Frames]
  BY <1>1, GotoStep DEF RegisterBody, Pcs
<1>3. TypeOK'
  BY <1>2, <1>0, ConsType DEF CtlInv, TypeOK, RegisterBody, States
<1>4. LegalAt(cpu, frame[cpu]) /\ frame[cpu] \in Frames
  BY DEF CtlInv, Ctl, TypeOK, FramesOK
<1>5. FlagOK' /\ ServiceOK'
  BY <1>2, <1>4 DEF CtlInv, Ctl, FlagOK, ServiceOK, RegisterBody, At, Fn, MkFrame,
                    LegalAt, WantIF, Gates, LockPcs, SchedPcs
<1>6. LockOK'
  BY <1>2, <1>4 DEF CtlInv, Ctl, LockOK, RegisterBody, At, Fn, MkFrame,
                    LegalAt, HeldPcs, LockPcs, SchedPcs
<1>7. CurrentOK'
  BY <1>2, <1>4, <1>0 DEF CtlInv, Ctl, TypeOK, CurrentOK, RegisterBody, At, Fn, MkFrame,
                    LegalAt, LockPcs, SchedPcs
<1> QED
  BY <1>2, <1>3, <1>5, <1>6, <1>7 DEF CtlInv, Ctl

(* proc_sleep_msec queues the current process and schedules.               *)
LEMMA SleepBodyCtl == CtlInv /\ SleepBody => CtlInv'
<1> SUFFICES ASSUME CtlInv, SleepBody PROVE CtlInv'
  OBVIOUS
<1> USE ProcsAssumption DEF hwvars, qvars, pvars
<1>0. proc_current = cpu /\ cpu \in Procs
  BY CurrentInBody DEF SleepBody
<1>a. \A msec \in SleepArgs : Add32(pit_systime_msec, msec) \in 0 .. TimeMod - 1
  <2>1. pit_systime_msec \in 0 .. TimeMod - 1
    BY DEF CtlInv, TypeOK
  <2>2. \A msec \in SleepArgs : msec \in 0 .. TimeMod - 1
    BY TimeAssumption
  <2> QED
    BY <2>1, <2>2, Add32Type
<1>b. Cons(proc_current, waiting_q) \in Seq(Procs)
  BY <1>0, ConsType DEF CtlInv, TypeOK
<1>1. /\ LegalAt(cpu, MkFrame(Fn, "wake", frame[cpu].arg, frame[cpu].flags))
      /\ FlagsAt(cpu, MkFrame(Fn, "wake", frame[cpu].arg, frame[cpu].flags))
  BY DEF CtlInv, Ctl, TypeOK, FramesOK, SleepBody, At, Fn, MkFrame, LegalAt, FlagsAt,
         Gates, FlagPcs, LockPcs, SchedPcs
<1>2. /\ FramesOK'
      /\ SuspendedOK'
      /\ frame'[cpu] = MkFrame(Fn, "wake", frame[cpu].arg, frame[cpu].flags)
      /\ frame' \in [Threads -> Frames]
  BY <1>1, GotoStep DEF SleepBody, Pcs
<1>3. TypeOK'
  BY <1>2, <1>0, <1>a, <1>b DEF CtlInv, TypeOK, SleepBody, States
<1>4. LegalAt(cpu, frame[cpu]) /\ frame[cpu] \in Frames
  BY DEF CtlInv, Ctl, TypeOK, FramesOK
<1>5. FlagOK' /\ ServiceOK'
  BY <1>2, <1>4 DEF CtlInv, Ctl, FlagOK, ServiceOK, SleepBody, At, Fn, MkFrame,
                    LegalAt, WantIF, Gates, LockPcs, SchedPcs
<1>6. LockOK'
  BY <1>2, <1>4 DEF CtlInv, Ctl, LockOK, SleepBody, At, Fn, MkFrame,
                    LegalAt, HeldPcs, LockPcs, SchedPcs
<1>7. CurrentOK'
  BY <1>2, <1>4, <1>0 DEF CtlInv, Ctl, TypeOK, CurrentOK, SleepBody, At, Fn, MkFrame,
                    LegalAt, LockPcs, SchedPcs
<1> QED
  BY <1>2, <1>3, <1>5, <1>6, <1>7 DEF CtlInv, Ctl

(* proc_yield schedules with the lock.                                     *)
LEMMA YieldBodyCtl == CtlInv /\ YieldBody => CtlInv'
<1> SUFFICES ASSUME CtlInv, YieldBody PROVE CtlInv'
  OBVIOUS
<1> USE ProcsAssumption DEF hwvars, qvars, pvars
<1>0. proc_current = cpu /\ cpu \in Procs
  BY CurrentInBody DEF YieldBody
<1>1. /\ LegalAt(cpu, MkFrame(Fn, "release", frame[cpu].arg, frame[cpu].flags))
      /\ FlagsAt(cpu, MkFrame(Fn, "release", frame[cpu].arg, frame[cpu].flags))
  BY DEF CtlInv, Ctl, TypeOK, FramesOK, YieldBody, At, Fn, MkFrame, LegalAt, FlagsAt,
         Gates, FlagPcs, LockPcs, SchedPcs
<1>2. /\ FramesOK'
      /\ SuspendedOK'
      /\ frame'[cpu] = MkFrame(Fn, "release", frame[cpu].arg, frame[cpu].flags)
      /\ frame' \in [Threads -> Frames]
  BY <1>1, GotoStep DEF YieldBody, Pcs
<1>3. TypeOK'
  BY <1>2, <1>0 DEF CtlInv, TypeOK, YieldBody
<1>4. LegalAt(cpu, frame[cpu]) /\ frame[cpu] \in Frames
  BY DEF CtlInv, Ctl, TypeOK, FramesOK
<1>5. FlagOK' /\ ServiceOK'
  BY <1>2, <1>4 DEF CtlInv, Ctl, FlagOK, ServiceOK, YieldBody, At, Fn, MkFrame,
                    LegalAt, WantIF, Gates, LockPcs, SchedPcs
<1>6. LockOK'
  BY <1>2, <1>4 DEF CtlInv, Ctl, LockOK, YieldBody, At, Fn, MkFrame,
                    LegalAt, HeldPcs, LockPcs, SchedPcs
<1>7. CurrentOK'
  BY <1>2, <1>4, <1>0 DEF CtlInv, Ctl, TypeOK, CurrentOK, YieldBody, At, Fn, MkFrame,
                    LegalAt, LockPcs, SchedPcs
<1> QED
  BY <1>2, <1>3, <1>5, <1>6, <1>7 DEF CtlInv, Ctl

(* proc_exit schedules with the lock.                                      *)
LEMMA ExitBodyCtl == CtlInv /\ ExitBody => CtlInv'
<1> SUFFICES ASSUME CtlInv, ExitBody PROVE CtlInv'
  OBVIOUS
<1> USE ProcsAssumption DEF hwvars, qvars, pvars
<1>0. proc_current = cpu /\ cpu \in Procs
  BY CurrentInBody DEF ExitBody
<1>1. /\ LegalAt(cpu, MkFrame(Fn, "wake", frame[cpu].arg, frame[cpu].flags))
      /\ FlagsAt(cpu, MkFrame(Fn, "wake", frame[cpu].arg, frame[cpu].flags))
  BY DEF CtlInv, Ctl, TypeOK, FramesOK, ExitBody, At, Fn, MkFrame, LegalAt, FlagsAt,
         Gates, FlagPcs, LockPcs, SchedPcs
<1>2. /\ FramesOK'
      /\ SuspendedOK'
      /\ frame'[cpu] = MkFrame(Fn, "wake", frame[cpu].arg, frame[cpu].flags)
      /\ frame' \in [Threads -> Frames]
  BY <1>1, GotoStep DEF ExitBody, Pcs
<1>3. TypeOK'
  BY <1>2, <1>0 DEF CtlInv, TypeOK, ExitBody, States
<1>4. LegalAt(cpu, frame[cpu]) /\ frame[cpu] \in Frames
  BY DEF CtlInv, Ctl, TypeOK, FramesOK
<1>5. FlagOK' /\ ServiceOK'
  BY <1>2, <1>4 DEF CtlInv, Ctl, FlagOK, ServiceOK, ExitBody, At, Fn, MkFrame,
                    LegalAt, WantIF, Gates, LockPcs, SchedPcs
<1>6. LockOK'
  BY <1>2, <1>4 DEF CtlInv, Ctl, LockOK, ExitBody, At, Fn, MkFrame,
                    LegalAt, HeldPcs, LockPcs, SchedPcs
<1>7. CurrentOK'
  BY <1>2, <1>4, <1>0 DEF CtlInv, Ctl, TypeOK, CurrentOK, ExitBody, At, Fn, MkFrame,
                    LegalAt, LockPcs, SchedPcs
<1> QED
  BY <1>2, <1>3, <1>5, <1>6, <1>7 DEF CtlInv, Ctl

(* The timer's handler schedules with the lock.                            *)
LEMMA IrqBodyCtl == CtlInv /\ IrqBody => CtlInv'
<1> SUFFICES ASSUME CtlInv, IrqBody PROVE CtlInv'
  OBVIOUS
<1> USE ProcsAssumption DEF hwvars, qvars, pvars
<1>1. /\ LegalAt(cpu, MkFrame(Fn, "wake", frame[cpu].arg, frame[cpu].flags))
      /\ FlagsAt(cpu, MkFrame(Fn, "wake", frame[cpu].arg, frame[cpu].flags))
  BY DEF CtlInv, Ctl, TypeOK, FramesOK, IrqBody, At, Fn, MkFrame, LegalAt, FlagsAt,
         Gates, FlagPcs, LockPcs, SchedPcs
<1>2. /\ FramesOK'
      /\ SuspendedOK'
      /\ frame'[cpu] = MkFrame(Fn, "wake", frame[cpu].arg, frame[cpu].flags)
      /\ frame' \in [Threads -> Frames]
  BY <1>1, GotoStep DEF IrqBody, Pcs
<1>3. TypeOK'
  BY <1>2 DEF CtlInv, TypeOK, IrqBody
<1>4. LegalAt(cpu, frame[cpu]) /\ frame[cpu] \in Frames
  BY DEF CtlInv, Ctl, TypeOK, FramesOK
<1>5. FlagOK' /\ ServiceOK'
  BY <1>2, <1>4 DEF CtlInv, Ctl, FlagOK, ServiceOK, IrqBody, At, Fn, MkFrame,
                    LegalAt, WantIF, Gates, LockPcs, SchedPcs
<1>6. LockOK'
  BY <1>2, <1>4 DEF CtlInv, Ctl, LockOK, IrqBody, At, Fn, MkFrame,
                    LegalAt, HeldPcs, LockPcs, SchedPcs
<1>7. CurrentOK'
  BY <1>2, <1>4 DEF CtlInv, Ctl, TypeOK, CurrentOK, IrqBody, At, Fn, MkFrame,
                    LegalAt, LockPcs, SchedPcs
<1> QED
  BY <1>2, <1>3, <1>5, <1>6, <1>7 DEF CtlInv, Ctl

(* proc_schedule goes on from waking to picking.                           *)
LEMMA WakeDoneCtl == CtlInv /\ WakeDone => CtlInv'
<1> SUFFICES ASSUME CtlInv, WakeDone PROVE CtlInv'
  OBVIOUS
<1> USE ProcsAssumption DEF hwvars, qvars, pvars
<1>1. /\ LegalAt(cpu, MkFrame(Fn, "pick", frame[cpu].arg, frame[cpu].flags))
      /\ FlagsAt(cpu, MkFrame(Fn, "pick", frame[cpu].arg, frame[cpu].flags))
  BY DEF CtlInv, Ctl, TypeOK, FramesOK, WakeDone, At, Fn, MkFrame, LegalAt, FlagsAt,
         Gates, FlagPcs, LockPcs, SchedPcs
<1>2. /\ FramesOK'
      /\ SuspendedOK'
      /\ frame'[cpu] = MkFrame(Fn, "pick", frame[cpu].arg, frame[cpu].flags)
      /\ frame' \in [Threads -> Frames]
  BY <1>1, GotoStep DEF WakeDone, Pcs
<1>3. TypeOK'
  BY <1>2 DEF CtlInv, TypeOK, WakeDone
<1>4. LegalAt(cpu, frame[cpu]) /\ frame[cpu] \in Frames
  BY DEF CtlInv, Ctl, TypeOK, FramesOK
<1>5. FlagOK' /\ ServiceOK'
  BY <1>2, <1>4 DEF CtlInv, Ctl, FlagOK, ServiceOK, WakeDone, At, Fn, MkFrame,
                    LegalAt, WantIF, Gates, LockPcs, SchedPcs
<1>6. LockOK'
  BY <1>2, <1>4 DEF CtlInv, Ctl, LockOK, WakeDone, At, Fn, MkFrame,
                    LegalAt, HeldPcs, LockPcs, SchedPcs
<1>7. CurrentOK'
  BY <1>2, <1>4 DEF CtlInv, Ctl, TypeOK, CurrentOK, WakeDone, At, Fn, MkFrame,
                    LegalAt, LockPcs, SchedPcs
<1> QED
  BY <1>2, <1>3, <1>5, <1>6, <1>7 DEF CtlInv, Ctl

(* kernel_enter turns interrupts off before it makes processes.            *)
LEMMA BootCliCtl == CtlInv /\ BootCli => CtlInv'
<1> SUFFICES ASSUME CtlInv, BootCli PROVE CtlInv'
  OBVIOUS
<1> USE ProcsAssumption DEF hwvars, qvars, pvars
<1>1. /\ LegalAt(cpu, MkFrame(Fn, "init", frame[cpu].arg, frame[cpu].flags))
      /\ FlagsAt(cpu, MkFrame(Fn, "init", frame[cpu].arg, frame[cpu].flags))
  BY DEF CtlInv, Ctl, TypeOK, FramesOK, BootCli, At, Fn, MkFrame, LegalAt, FlagsAt,
         Gates, FlagPcs, LockPcs, SchedPcs
<1>2. /\ FramesOK'
      /\ SuspendedOK'
      /\ frame'[cpu] = MkFrame(Fn, "init", frame[cpu].arg, frame[cpu].flags)
      /\ frame' \in [Threads -> Frames]
  BY <1>1, GotoStep DEF BootCli, Pcs
<1>3. TypeOK'
  BY <1>2 DEF CtlInv, TypeOK, BootCli
<1>4. LegalAt(cpu, frame[cpu]) /\ frame[cpu] \in Frames
  BY DEF CtlInv, Ctl, TypeOK, FramesOK
<1>5. FlagOK' /\ ServiceOK'
  BY <1>2, <1>4 DEF CtlInv, Ctl, FlagOK, ServiceOK, BootCli, At, Fn, MkFrame,
                    LegalAt, WantIF, Gates, LockPcs, SchedPcs
<1>6. LockOK'
  BY <1>2, <1>4 DEF CtlInv, Ctl, LockOK, BootCli, At, Fn, MkFrame,
                    LegalAt, HeldPcs, LockPcs, SchedPcs
<1>7. CurrentOK'
  BY <1>2, <1>4 DEF CtlInv, Ctl, TypeOK, CurrentOK, BootCli, At, Fn, MkFrame,
                    LegalAt, LockPcs, SchedPcs
<1> QED
  BY <1>2, <1>3, <1>5, <1>6, <1>7 DEF CtlInv, Ctl

(* kernel_enter calls proc_schedule without the lock, interrupts off.      *)
LEMMA BootScheduleCtl == CtlInv /\ BootSchedule => CtlInv'
<1> SUFFICES ASSUME CtlInv, BootSchedule PROVE CtlInv'
  OBVIOUS
<1> USE ProcsAssumption DEF hwvars, qvars, pvars
<1>1. /\ LegalAt(cpu, MkFrame(Fn, "wake", frame[cpu].arg, frame[cpu].flags))
      /\ FlagsAt(cpu, MkFrame(Fn, "wake", frame[cpu].arg, frame[cpu].flags))
  BY DEF CtlInv, Ctl, TypeOK, FramesOK, BootSchedule, At, Fn, MkFrame, LegalAt, FlagsAt,
         Gates, FlagPcs, LockPcs, SchedPcs
<1>2. /\ FramesOK'
      /\ SuspendedOK'
      /\ frame'[cpu] = MkFrame(Fn, "wake", frame[cpu].arg, frame[cpu].flags)
      /\ frame' \in [Threads -> Frames]
  BY <1>1, GotoStep DEF BootSchedule, Pcs
<1>3. TypeOK'
  BY <1>2 DEF CtlInv, TypeOK, BootSchedule
<1>4. LegalAt(cpu, frame[cpu]) /\ frame[cpu] \in Frames
  BY DEF CtlInv, Ctl, TypeOK, FramesOK
<1>5. FlagOK' /\ ServiceOK'
  BY <1>2, <1>4 DEF CtlInv, Ctl, FlagOK, ServiceOK, BootSchedule, At, Fn, MkFrame,
                    LegalAt, WantIF, Gates, LockPcs, SchedPcs
<1>6. LockOK'
  BY <1>2, <1>4 DEF CtlInv, Ctl, LockOK, BootSchedule, At, Fn, MkFrame,
                    LegalAt, HeldPcs, LockPcs, SchedPcs
<1>7. CurrentOK'
  BY <1>2, <1>4 DEF CtlInv, Ctl, TypeOK, CurrentOK, BootSchedule, At, Fn, MkFrame,
                    LegalAt, LockPcs, SchedPcs
<1> QED
  BY <1>2, <1>3, <1>5, <1>6, <1>7 DEF CtlInv, Ctl

(* proc_lock saves the flags that proc_release will restore.               *)
LEMMA GetFCtl == CtlInv /\ GetF => CtlInv'
<1> SUFFICES ASSUME CtlInv, GetF PROVE CtlInv'
  OBVIOUS
<1> USE ProcsAssumption DEF hwvars, qvars, pvars
<1> DEFINE g == MkFrame(Fn, "cli", frame[cpu].arg, iflag)
<1>1. /\ g \in Frames /\ ~g.eflags /\ g.fn = Fn
      /\ LegalAt(cpu, g) /\ FlagsAt(cpu, g)
  BY DEF CtlInv, Ctl, TypeOK, FramesOK, FlagOK, GetF, At, Fn, Frames, Pcs, MkFrame,
         LegalAt, FlagsAt, WantIF, Gates, FlagPcs, LockPcs, SchedPcs
<1>2. frame' = [frame EXCEPT ![cpu] = g]
  BY DEF GetF
<1>3. /\ FramesOK' /\ SuspendedOK'
      /\ frame'[cpu] = g /\ frame' \in [Threads -> Frames]
  <2> HIDE DEF g
  <2> QED
    BY <1>1, <1>2, LocalStep DEF GetF
<1>4. TypeOK'
  BY <1>3 DEF CtlInv, TypeOK, GetF
<1>5. FlagOK' /\ LockOK' /\ ServiceOK' /\ CurrentOK'
  BY <1>3 DEF CtlInv, Ctl, TypeOK, FlagOK, LockOK, ServiceOK, CurrentOK, GetF,
              At, Fn, MkFrame, WantIF, Gates, SchedPcs, HeldPcs
<1> QED
  BY <1>3, <1>4, <1>5 DEF CtlInv, Ctl

(* proc_release restores the flags that proc_lock saved.                   *)
LEMMA SetFCtl == CtlInv /\ SetF => CtlInv'
<1> SUFFICES ASSUME CtlInv, SetF PROVE CtlInv'
  OBVIOUS
<1> USE ProcsAssumption DEF hwvars, qvars, pvars
<1>0. /\ LegalAt(cpu, frame[cpu]) /\ FlagsAt(cpu, frame[cpu])
      /\ frame[cpu] \in Frames /\ frame[cpu].pc = "setf" /\ cpu \in Threads
  BY DEF CtlInv, Ctl, TypeOK, FramesOK, SetF, At
<1>1. PICK g : g = IF Fn \in {"irq", "sys_yield"}
                   THEN MkFrame(Fn, "iret", Null, FALSE) ELSE CodeFrame(cpu)
  OBVIOUS
<1>2. /\ g \in Frames /\ ~g.eflags
      /\ g.fn \in Gates => Fn \in Gates
  BY <1>0, <1>1 DEF Fn, Frames, Fns, Pcs, MkFrame, CodeFrame, Gates
<1>3. LegalAt(cpu, g) /\ FlagsAt(cpu, g)
  BY <1>0, <1>1 DEF Fn, MkFrame, CodeFrame, LegalAt, FlagsAt, Gates, FlagPcs
<1>4. frame' = [frame EXCEPT ![cpu] = g] /\ under' = under /\ cpu' = cpu
  BY <1>1 DEF SetF
<1>5. /\ FramesOK' /\ SuspendedOK'
      /\ frame'[cpu] = g /\ frame' \in [Threads -> Frames]
  BY <1>2, <1>3, <1>4, LocalStep
<1>6. TypeOK'
  BY <1>0, <1>5 DEF CtlInv, TypeOK, SetF, Frames
<1>7. FlagOK'
  <2>1. frame[cpu].flags <=> (Fn \notin Gates /\ cpu # Boot)
    BY <1>0 DEF FlagsAt, LegalAt, Fn, FlagPcs, LockPcs, SchedPcs
  <2>2. WantIF(cpu, g) <=> (Fn \notin Gates /\ cpu # Boot)
    BY <1>1 DEF WantIF, Gates, MkFrame, CodeFrame
  <2> QED
    BY <2>1, <2>2, <1>4, <1>5, Zenon DEF FlagOK, SetF
<1>a. ~locked /\ ~in_service
  BY <1>0 DEF CtlInv, Ctl, LockOK, ServiceOK, HeldPcs
<1>b. g.pc \in {"iret", "reg", "run"}
  BY <1>1 DEF MkFrame, CodeFrame
<1>8. LockOK' /\ ServiceOK'
  BY <1>a, <1>b, <1>5 DEF LockOK, ServiceOK, SetF, At, HeldPcs
<1>9. CurrentOK'
  BY <1>0, <1>5 DEF CtlInv, Ctl, CurrentOK, SetF, Fn, SchedPcs
<1> QED
  BY <1>5, <1>6, <1>7, <1>8, <1>9 DEF CtlInv, Ctl

(* A process calls proc_sleep_msec or proc_exit.                           *)
LEMMA ProcCallCtl == CtlInv /\ ProcCall => CtlInv'
<1> SUFFICES ASSUME CtlInv, ProcCall PROVE CtlInv'
  OBVIOUS
<1> USE ProcsAssumption DEF hwvars, qvars, pvars
<1>1. PICK f \in {"proc_sleep_msec", "proc_exit"} :
         frame' = [frame EXCEPT ![cpu] = MkFrame(f, "getf", Null, FALSE)]
  BY DEF ProcCall
<1> DEFINE g == MkFrame(f, "getf", Null, FALSE)
<1>2. /\ g \in Frames /\ ~g.eflags /\ g.fn \notin Gates
      /\ LegalAt(cpu, g) /\ FlagsAt(cpu, g)
  BY DEF ProcCall, InProcessCode, Frames, Fns, Pcs, MkFrame, LegalAt, FlagsAt,
         Gates, FlagPcs, LockPcs, SchedPcs
<1>3. /\ FramesOK' /\ SuspendedOK'
      /\ frame'[cpu] = g /\ frame' \in [Threads -> Frames]
  <2>1. frame' = [frame EXCEPT ![cpu] = g]
    BY <1>1
  <2> HIDE DEF g
  <2> QED
    BY <2>1, <1>2, LocalStep DEF ProcCall
<1>4. TypeOK'
  BY <1>3 DEF CtlInv, TypeOK, ProcCall
<1>5. FlagOK' /\ LockOK' /\ ServiceOK' /\ CurrentOK'
  BY <1>3 DEF CtlInv, Ctl, TypeOK, FlagOK, LockOK, ServiceOK, CurrentOK, ProcCall,
              InProcessCode, At, Fn, MkFrame, WantIF, Gates, SchedPcs, HeldPcs
<1> QED
  BY <1>3, <1>4, <1>5 DEF CtlInv, Ctl

(* An interrupt gate, entered where interrupts are on.                     *)
LEMMA EnterGateCtl ==
    ASSUME CtlInv, NEW f \in Gates, NEW l \in {"handle", "getf"}, EnterGate(f, l),
           iflag, cpu' = cpu, LegalAt(cpu, MkFrame(f, l, Null, FALSE))
    PROVE  /\ FramesOK' /\ SuspendedOK' /\ FlagOK'
           /\ frame'[cpu] = MkFrame(f, l, Null, FALSE)
           /\ frame' \in [Threads -> Frames]
           /\ under' \in [Threads -> Frames]
<1> USE ProcsAssumption
<1> DEFINE g == MkFrame(f, l, Null, FALSE)
           u == Pushed(frame[cpu], frame[cpu].pc)
<1>0. /\ cpu \in Threads /\ iflag \in BOOLEAN /\ frame[cpu] \in Frames
      /\ frame \in [Threads -> Frames] /\ under \in [Threads -> Frames]
  BY DEF CtlInv, TypeOK
<1>1. g \in Frames /\ u \in Frames
  BY <1>0 DEF Frames, Fns, Pcs, MkFrame, Pushed, Gates
<1>2. g.fn = f /\ g.pc = l /\ g.eflags = FALSE
  BY DEF MkFrame
<1>3. LegalAt(cpu, u) /\ WantIF(cpu, u) /\ FlagsAt(cpu, u) /\ u.eflags
  BY <1>0 DEF CtlInv, Ctl, FramesOK, FlagOK, LegalAt, WantIF, FlagsAt, Pushed
<1>4. LegalAt(cpu, g) /\ FlagsAt(cpu, g)
  BY <1>2 DEF FlagsAt, FlagPcs
<1>5. frame' = [frame EXCEPT ![cpu] = g] /\ under' = [under EXCEPT ![cpu] = u]
  BY DEF EnterGate
<1> HIDE DEF g, u
<1>6. /\ frame'[cpu] = g /\ under'[cpu] = u
      /\ frame' \in [Threads -> Frames] /\ under' \in [Threads -> Frames]
      /\ \A t \in Threads \ {cpu} : frame'[t] = frame[t] /\ under'[t] = under[t]
  BY <1>0, <1>1, <1>5
<1>7. FramesOK'
  <2> SUFFICES ASSUME NEW t \in Threads
               PROVE  /\ LegalAt(t, frame'[t])
                      /\ FlagsAt(t, frame'[t])
                      /\ UnderAt(t, frame'[t], under'[t])
                      /\ ~frame'[t].eflags
    BY DEF FramesOK, LegalAt, FlagsAt, UnderAt, WantIF
  <2>1. CASE t = cpu
    BY <2>1, <1>2, <1>3, <1>4, <1>6 DEF UnderAt
  <2>2. CASE t # cpu
    BY <2>2, <1>6 DEF CtlInv, Ctl, FramesOK
  <2> QED
    BY <2>1, <2>2
<1>8. SuspendedOK'
  BY <1>6 DEF CtlInv, Ctl, SuspendedOK
<1>9. FlagOK'
  BY <1>2, <1>6 DEF FlagOK, WantIF, Gates, EnterGate
<1> QED
  BY <1>6, <1>7, <1>8, <1>9 DEF g

(* The timer interrupts code that has interrupts on.                       *)
LEMMA DeliverCtl == CtlInv /\ Deliver => CtlInv'
<1> SUFFICES ASSUME CtlInv, Deliver PROVE CtlInv'
  OBVIOUS
<1> USE ProcsAssumption DEF hwvars, qvars, pvars
<1>1. LegalAt(cpu, MkFrame("irq", "handle", Null, FALSE))
  BY DEF LegalAt, MkFrame
<1>2. /\ FramesOK' /\ SuspendedOK' /\ FlagOK'
      /\ frame'[cpu] = MkFrame("irq", "handle", Null, FALSE)
      /\ frame' \in [Threads -> Frames] /\ under' \in [Threads -> Frames]
  BY <1>1, EnterGateCtl DEF Deliver, Gates
<1>3. TypeOK'
  BY <1>2 DEF CtlInv, TypeOK, Deliver, EnterGate
<1>4. frame[cpu].pc \in {"run", "getf", "cli"}
  BY DEF CtlInv, Ctl, FlagOK, WantIF, Deliver
<1>5. ~locked
  BY <1>4 DEF CtlInv, Ctl, LockOK, HeldPcs
<1>6. LockOK' /\ ServiceOK' /\ CurrentOK'
  BY <1>2, <1>4, <1>5 DEF CtlInv, Ctl, TypeOK, LockOK, ServiceOK, CurrentOK, Deliver,
              At, Fn, MkFrame, SchedPcs, HeldPcs
<1> QED
  BY <1>2, <1>3, <1>6 DEF CtlInv, Ctl

(* A process enters the kernel through the gate of SYS_YIELD.              *)
LEMMA SysYieldCtl == CtlInv /\ SysYield => CtlInv'
<1> SUFFICES ASSUME CtlInv, SysYield PROVE CtlInv'
  OBVIOUS
<1> USE ProcsAssumption DEF hwvars, qvars, pvars
<1>1. LegalAt(cpu, MkFrame("sys_yield", "getf", Null, FALSE))
  BY DEF LegalAt, MkFrame, LockPcs, SysYield, InProcessCode
<1>0. frame[cpu].pc = "run" /\ iflag /\ ~locked
  BY DEF CtlInv, Ctl, FlagOK, WantIF, LockOK, HeldPcs, SysYield, InProcessCode, At
<1>2. /\ FramesOK' /\ SuspendedOK' /\ FlagOK'
      /\ frame'[cpu] = MkFrame("sys_yield", "getf", Null, FALSE)
      /\ frame' \in [Threads -> Frames] /\ under' \in [Threads -> Frames]
  BY <1>0, <1>1, EnterGateCtl DEF SysYield, Gates
<1>3. TypeOK'
  BY <1>2 DEF CtlInv, TypeOK, SysYield, EnterGate
<1>6. LockOK' /\ ServiceOK' /\ CurrentOK'
  BY <1>2, <1>0 DEF CtlInv, Ctl, TypeOK, LockOK, ServiceOK, CurrentOK, SysYield,
              At, Fn, MkFrame, SchedPcs, HeldPcs
<1> QED
  BY <1>2, <1>3, <1>6 DEF CtlInv, Ctl

(* iretd returns to the interrupted code and turns interrupts on.          *)
LEMMA IretCtl == CtlInv /\ Iret => CtlInv'
<1> SUFFICES ASSUME CtlInv, Iret PROVE CtlInv'
  OBVIOUS
<1> USE ProcsAssumption DEF hwvars, qvars, pvars
<1> DEFINE u == under[cpu]
           g == MkFrame(u.fn, u.pc, u.arg, u.flags)
<1>0. /\ cpu \in Threads /\ frame[cpu] \in Frames /\ u \in Frames
      /\ frame \in [Threads -> Frames] /\ under \in [Threads -> Frames]
  BY DEF CtlInv, TypeOK
<1>1. /\ frame[cpu].pc = "iret" /\ LegalAt(cpu, frame[cpu])
      /\ UnderAt(cpu, frame[cpu], u)
  BY <1>0 DEF CtlInv, Ctl, FramesOK, Iret, At
<1>2. Fn \in Gates
  BY <1>1 DEF LegalAt, Gates, Fn, LockPcs, SchedPcs
<1>3. LegalAt(cpu, u) /\ WantIF(cpu, u) /\ FlagsAt(cpu, u) /\ u.eflags
  BY <1>1, <1>2 DEF UnderAt, Fn
<1>4. /\ g \in Frames /\ ~g.eflags /\ g.fn \notin Gates
      /\ LegalAt(cpu, g) /\ FlagsAt(cpu, g) /\ WantIF(cpu, g)
  <2>1. g \in Frames
    BY <1>0 DEF MkFrame, Frames
  <2>2. /\ g.fn = u.fn /\ g.pc = u.pc /\ g.arg = u.arg /\ g.flags = u.flags
        /\ g.eflags = FALSE
    BY DEF MkFrame
  <2>3. LegalAt(cpu, g)
    BY <1>3, <2>2 DEF LegalAt
  <2>4. FlagsAt(cpu, g) /\ WantIF(cpu, g)
    BY <1>3, <2>2 DEF FlagsAt, WantIF
  <2>5. g.fn \notin Gates
    BY <2>3, <2>4 DEF LegalAt, WantIF, Gates, LockPcs, SchedPcs
  <2> QED
    BY <2>1, <2>2, <2>3, <2>4, <2>5
<1>5. /\ frame' = [frame EXCEPT ![cpu] = g]
      /\ under' = [under EXCEPT ![cpu] = NoFrame]
  BY DEF Iret
<1>6. g.pc \in {"run", "getf", "cli"}
  BY <1>4 DEF WantIF
<1> HIDE DEF g
<1>7. /\ frame'[cpu] = g
      /\ frame' \in [Threads -> Frames] /\ under' \in [Threads -> Frames]
      /\ \A t \in Threads \ {cpu} : frame'[t] = frame[t] /\ under'[t] = under[t]
  BY <1>0, <1>4, <1>5, NoFrameType
<1>8. TypeOK'
  BY <1>0, <1>3, <1>7 DEF CtlInv, TypeOK, Iret, Frames
<1>9. FramesOK'
  <2> SUFFICES ASSUME NEW t \in Threads
               PROVE  /\ LegalAt(t, frame'[t])
                      /\ FlagsAt(t, frame'[t])
                      /\ UnderAt(t, frame'[t], under'[t])
                      /\ ~frame'[t].eflags
    BY DEF FramesOK, LegalAt, FlagsAt, UnderAt, WantIF
  <2>1. CASE t = cpu
    BY <2>1, <1>4, <1>7 DEF UnderAt
  <2>2. CASE t # cpu
    BY <2>2, <1>7 DEF CtlInv, Ctl, FramesOK
  <2> QED
    BY <2>1, <2>2
<1>10. SuspendedOK'
  BY <1>7 DEF CtlInv, Ctl, SuspendedOK, Iret
<1>11. FlagOK'
  BY <1>3, <1>4, <1>7, Zenon DEF FlagOK, Iret
<1>12. ~locked /\ ~in_service
  BY <1>1 DEF CtlInv, Ctl, LockOK, ServiceOK, HeldPcs
<1>13. LockOK' /\ ServiceOK'
  BY <1>6, <1>7, <1>12 DEF LockOK, ServiceOK, At, HeldPcs, Iret
<1>14. CurrentOK'
  BY <1>1 DEF CtlInv, Ctl, CurrentOK, Iret, SchedPcs
<1> QED
  BY <1>8, <1>9, <1>10, <1>11, <1>13, <1>14 DEF CtlInv, Ctl

(* Two stacks change when a process is created: the new one's and the      *)
(* creator's.                                                              *)
LEMMA TwoFrames ==
    ASSUME CtlInv, NEW p \in Threads \ {cpu}, p # Boot,
           NEW g \in Frames, LegalAt(cpu, g), FlagsAt(cpu, g), ~g.eflags, g.fn \notin Gates,
           frame' = [frame EXCEPT ![p] = NewFrame, ![cpu] = g],
           under' = under, cpu' = cpu
    PROVE  /\ FramesOK' /\ SuspendedOK'
           /\ frame'[cpu] = g /\ frame' \in [Threads -> Frames]
<1>0. cpu \in Threads /\ frame \in [Threads -> Frames]
  BY DEF CtlInv, TypeOK
<1>1. /\ NewFrame \in Frames
      /\ LegalAt(p, NewFrame) /\ FlagsAt(p, NewFrame)
      /\ NewFrame.fn = "startup" /\ NewFrame.pc = "release" /\ ~NewFrame.eflags
  BY DEF NewFrame, MkFrame, Frames, Fns, Pcs, LegalAt, FlagsAt, Gates, FlagPcs
<1>2. /\ frame'[cpu] = g /\ frame'[p] = NewFrame
      /\ frame' \in [Threads -> Frames]
      /\ \A t \in Threads \ {cpu, p} : frame'[t] = frame[t]
  BY <1>0, <1>1
<1>3. FramesOK'
  <2> SUFFICES ASSUME NEW t \in Threads
               PROVE  /\ LegalAt(t, frame'[t])
                      /\ FlagsAt(t, frame'[t])
                      /\ UnderAt(t, frame'[t], under[t])
                      /\ ~frame'[t].eflags
    BY <1>2 DEF FramesOK, LegalAt, FlagsAt, UnderAt, WantIF
  <2>1. CASE t = cpu
    BY <2>1, <1>2 DEF UnderAt
  <2>2. CASE t = p
    BY <2>2, <1>1, <1>2 DEF UnderAt, Gates
  <2>3. CASE t \notin {cpu, p}
    BY <2>3, <1>2 DEF CtlInv, Ctl, FramesOK
  <2> QED
    BY <2>1, <2>2, <2>3
<1>4. SuspendedOK'
  BY <1>1, <1>2 DEF CtlInv, Ctl, SuspendedOK
<1> QED
  BY <1>2, <1>3, <1>4

(* A new process gets the startup frame; its creator enters proc_register. *)
LEMMA CreateCtl ==
    ASSUME CtlInv, NEW p \in Procs, CreateAndRegister(p),
           frame[cpu].pc \in {"run", "reg"},
           frame[cpu].pc = "run" => cpu # Boot
    PROVE  CtlInv'
<1> USE ProcsAssumption DEF hwvars, qvars, pvars
<1> DEFINE g == MkFrame("proc_register", "getf", p, FALSE)
<1>1. /\ g \in Frames /\ ~g.eflags /\ g.fn \notin Gates
      /\ LegalAt(cpu, g) /\ FlagsAt(cpu, g)
  BY DEF MkFrame, Frames, Fns, Pcs, LegalAt, FlagsAt, Gates, FlagPcs, LockPcs
<1>2. p \in Threads \ {cpu} /\ p # Boot
  BY DEF CreateAndRegister, NoFrame, MkFrame, Threads
<1>3. /\ FramesOK' /\ SuspendedOK'
      /\ frame'[cpu] = g /\ frame' \in [Threads -> Frames]
  <2>1. frame' = [frame EXCEPT ![p] = NewFrame, ![cpu] = g]
    BY DEF CreateAndRegister
  <2> HIDE DEF g
  <2> QED
    BY <1>1, <1>2, <2>1, TwoFrames DEF CreateAndRegister
<1>4. TypeOK'
  BY <1>3 DEF CtlInv, TypeOK, CreateAndRegister
<1>5. LegalAt(cpu, frame[cpu])
  BY DEF CtlInv, Ctl, TypeOK, FramesOK
<1>6. frame[cpu].pc = "run" <=> cpu # Boot
  BY <1>5 DEF LegalAt, LockPcs, SchedPcs
<1>7. FlagOK'
  BY <1>3, <1>6 DEF CtlInv, Ctl, FlagOK, CreateAndRegister, WantIF, MkFrame, Gates
<1>8. LockOK' /\ ServiceOK' /\ CurrentOK'
  BY <1>3 DEF CtlInv, Ctl, TypeOK, LockOK, ServiceOK, CurrentOK, CreateAndRegister,
              At, Fn, MkFrame, SchedPcs, HeldPcs
<1> QED
  BY <1>3, <1>4, <1>7, <1>8 DEF CtlInv, Ctl

(* proc_init_scheduler makes the idle process.                             *)
LEMMA BootInitSchedulerCtl == CtlInv /\ BootInitScheduler => CtlInv'
<1> SUFFICES ASSUME CtlInv, BootInitScheduler PROVE CtlInv'
  OBVIOUS
<1> USE ProcsAssumption DEF hwvars, qvars, pvars
<1> DEFINE g == MkFrame("kernel_enter", "reg", Null, FALSE)
<1>0. frame[cpu].pc = "init" /\ LegalAt(cpu, frame[cpu])
  BY DEF CtlInv, Ctl, TypeOK, FramesOK, BootInitScheduler, At
<1>1. cpu = Boot
  BY <1>0 DEF LegalAt, LockPcs, SchedPcs
<1>2. /\ g \in Frames /\ ~g.eflags /\ g.fn \notin Gates
      /\ LegalAt(cpu, g) /\ FlagsAt(cpu, g)
  BY <1>1 DEF MkFrame, Frames, Fns, Pcs, LegalAt, FlagsAt, Gates, FlagPcs
<1>3. /\ FramesOK' /\ SuspendedOK'
      /\ frame'[cpu] = g /\ frame' \in [Threads -> Frames]
  <2>1. frame' = [frame EXCEPT ![Idle] = NewFrame, ![cpu] = g]
    BY DEF BootInitScheduler
  <2>2. Idle \in Threads \ {cpu} /\ Idle # Boot
    BY <1>1 DEF Threads
  <2> HIDE DEF g
  <2> QED
    BY <1>2, <2>1, <2>2, TwoFrames DEF BootInitScheduler
<1>4. TypeOK'
  BY <1>3 DEF CtlInv, TypeOK, BootInitScheduler, States
<1>5. FlagOK' /\ LockOK' /\ ServiceOK' /\ CurrentOK'
  BY <1>0, <1>1, <1>3 DEF CtlInv, Ctl, TypeOK, FlagOK, LockOK, ServiceOK, CurrentOK,
      BootInitScheduler, At, Fn, MkFrame, WantIF, Gates, SchedPcs, HeldPcs
<1> QED
  BY <1>3, <1>4, <1>5 DEF CtlInv, Ctl

(* A due sleeper moves from waiting_q to ready_q.                          *)
LEMMA WakeStepCtl == CtlInv /\ WakeStep => CtlInv'
<1> SUFFICES ASSUME CtlInv, WakeStep PROVE CtlInv'
  OBVIOUS
<1> USE ProcsAssumption DEF hwvars, qvars, pvars
<1>1. it \in 1 .. Len(waiting_q) /\ waiting_q \in Seq(Procs) /\ ready_q \in Seq(Procs)
  BY DEF CtlInv, TypeOK, WakeStep
<1>2. /\ waiting_q[it] \in Procs
      /\ RemoveAt(waiting_q, it) \in Seq(Procs)
      /\ Cons(waiting_q[it], ready_q) \in Seq(Procs)
  BY <1>1, ConsType, RemoveAtType
<1>3. TypeOK'
  BY <1>1, <1>2, SMTT(20) DEF CtlInv, TypeOK, WakeStep, States
<1>4. FramesOK' /\ SuspendedOK' /\ FlagOK' /\ LockOK' /\ ServiceOK'
  BY DEF CtlInv, Ctl, FramesOK, SuspendedOK, FlagOK, LockOK, ServiceOK, WakeStep,
         LegalAt, FlagsAt, UnderAt, WantIF, At, Fn
<1>5. CurrentOK'
  BY <1>2 DEF CtlInv, Ctl, TypeOK, CurrentOK, WakeStep, Fn
<1> QED
  BY <1>3, <1>4, <1>5 DEF CtlInv, Ctl

(* proc_switch: the old stack is left at the release or gone, the new one  *)
(* is one that was left there.                                             *)
LEMMA SwitchCtl ==
    ASSUME CtlInv, At("pick"), NEW next \in Procs \cup {Idle}, ProcSwitch(next),
           under' = under, locked' = locked, in_service' = in_service,
           state'[Idle] \in {"UNINIT", "IDLE"}
    PROVE  /\ Ctl'
           /\ cpu' \in Threads /\ iflag' \in BOOLEAN
           /\ frame' \in [Threads -> Frames]
           /\ proc_current' \in Procs \cup {Idle, Null}
           /\ time_end' \in [Procs \cup {Idle} -> 0 .. TimeMod - 1]
<1> USE ProcsAssumption
<1>0. /\ cpu \in Threads /\ next \in Threads /\ next # Boot /\ next # Null
      /\ frame \in [Threads -> Frames] /\ frame[cpu] \in Frames /\ frame[next] \in Frames
      /\ LegalAt(cpu, frame[cpu]) /\ FlagsAt(cpu, frame[cpu])
      /\ UnderAt(cpu, frame[cpu], under[cpu])
      /\ frame[cpu].pc = "pick" /\ ~frame[next].eflags
  BY DEF CtlInv, Ctl, TypeOK, FramesOK, Threads, At
<1>1. PICK g : g = IF proc_current = Null THEN NoFrame ELSE Pushed(frame[cpu], SchedReturn)
  OBVIOUS
<1>2. iflag = FALSE
  BY <1>0 DEF CtlInv, Ctl, TypeOK, FlagOK, WantIF
<1>3. proc_current # Null => Fn # "kernel_enter" /\ SchedReturn = "release"
  BY <1>0 DEF CtlInv, Ctl, CurrentOK, LegalAt, Fn, SchedReturn
<1>4. /\ g \in Frames /\ ~g.eflags /\ g.pc \in {"none", "release"}
      /\ g.fn \in Gates => Fn \in Gates
  <2>1. CASE proc_current = Null
    BY <1>1, <2>1, NoFrameType DEF NoFrame, MkFrame, Gates
  <2>2. CASE proc_current # Null
    BY <1>0, <1>1, <1>2, <1>3, <2>2 DEF Pushed, Frames, Pcs, Fn
  <2> QED
    BY <2>1, <2>2
<1>5. LegalAt(cpu, g) /\ FlagsAt(cpu, g)
  <2>1. CASE proc_current = Null
    BY <1>1, <2>1 DEF NoFrame, MkFrame, LegalAt, FlagsAt, FlagPcs
  <2>2. CASE proc_current # Null
    <3>1. /\ g.fn = Fn /\ g.pc = "release"
          /\ g.arg = frame[cpu].arg /\ g.flags = frame[cpu].flags
      BY <1>1, <1>3, <2>2 DEF Pushed, Fn
    <3> QED
      BY <1>0, <1>3, <2>2, <3>1 DEF LegalAt, FlagsAt, FlagPcs, LockPcs, SchedPcs, Fn
  <2> QED
    BY <2>1, <2>2
<1>6. /\ frame' = [frame EXCEPT ![cpu] = g]
      /\ cpu' = next /\ proc_current' = next /\ iflag' = frame[next].eflags
  BY <1>1 DEF ProcSwitch
<1>7. /\ frame'[cpu] = g /\ frame' \in [Threads -> Frames]
      /\ \A t \in Threads \ {cpu} : frame'[t] = frame[t]
  BY <1>0, <1>4, <1>6
<1>8. FramesOK'
  <2> SUFFICES ASSUME NEW t \in Threads
               PROVE  /\ LegalAt(t, frame'[t])
                      /\ FlagsAt(t, frame'[t])
                      /\ UnderAt(t, frame'[t], under[t])
                      /\ ~frame'[t].eflags
    BY DEF FramesOK, LegalAt, FlagsAt, UnderAt, WantIF
  <2>1. CASE t = cpu
    BY <2>1, <1>0, <1>4, <1>5, <1>7 DEF UnderAt, Fn
  <2>2. CASE t # cpu
    BY <2>2, <1>7 DEF CtlInv, Ctl, FramesOK
  <2> QED
    BY <2>1, <2>2
<1>9. \A t \in Threads : frame'[t].pc \in {"none", "release"}
  BY <1>4, <1>7 DEF CtlInv, Ctl, SuspendedOK
<1>10. SuspendedOK'
  BY <1>0, <1>6, <1>9 DEF SuspendedOK
<1>11. FlagOK'
  <2>1. ~WantIF(next, frame'[next])
    BY <1>0, <1>9 DEF WantIF
  <2> QED
    BY <1>0, <1>6, <2>1, Zenon DEF FlagOK
<1>12. LegalAt(next, frame'[next])
  BY <1>0, <1>8 DEF FramesOK, LegalAt
<1>13. locked \/ Fn = "kernel_enter"
  BY <1>0 DEF CtlInv, Ctl, LockOK, LegalAt, HeldPcs, Fn
<1>15. /\ frame'[next].fn # "kernel_enter"
       /\ frame'[next].pc \in {"none", "release"}
  BY <1>0, <1>9, <1>12 DEF LegalAt
<1>16. LockOK'
  <2>1. CASE locked
    BY <2>1, <1>6, <1>15 DEF LockOK, HeldPcs, At, Fn
  <2>2. CASE ~locked
    <3>1. cpu = Boot /\ next # cpu
      BY <2>2, <1>0, <1>13 DEF LegalAt, Fn
    <3>2. frame'[next].fn \in {"none", "startup"}
      BY <1>0, <1>7, <3>1 DEF CtlInv, Ctl, SuspendedOK
    <3> QED
      BY <2>2, <1>6, <1>12, <1>15, <3>2 DEF LockOK, LegalAt, HeldPcs, At, Fn
  <2> QED
    BY <2>1, <2>2
<1>17. ServiceOK'
  BY <1>0 DEF CtlInv, Ctl, ServiceOK
<1>18. CurrentOK'
  BY <1>0, <1>6 DEF CtlInv, Ctl, CurrentOK
<1>19. time_end' \in [Procs \cup {Idle} -> 0 .. TimeMod - 1]
  <2>1. pit_systime_msec \in 0 .. TimeMod - 1 /\ SLICE \in 0 .. TimeMod - 1
    BY TimeAssumption DEF CtlInv, TypeOK
  <2>2. Add32(pit_systime_msec, SLICE) \in 0 .. TimeMod - 1
    BY <2>1, Add32Type
  <2> QED
    BY <2>2 DEF ProcSwitch, CtlInv, TypeOK
<1>20. cpu' \in Threads /\ iflag' \in BOOLEAN /\ proc_current' \in Procs \cup {Idle, Null}
  BY <1>0, <1>6 DEF Frames
<1> QED
  BY <1>7, <1>8, <1>10, <1>11, <1>16, <1>17, <1>18, <1>19, <1>20 DEF Ctl

(* proc_schedule returning without a switch.                               *)
LEMMA PickReturnCtl ==
    ASSUME CtlInv, At("pick"), PickReturn,
           under' = under, locked' = locked, in_service' = in_service,
           state'[Idle] \in {"UNINIT", "IDLE"},
           proc_current # Null \/ cpu = Boot
    PROVE  /\ Ctl'
           /\ cpu' = cpu /\ iflag' = iflag /\ proc_current' = proc_current
           /\ frame' \in [Threads -> Frames]
           /\ time_end' = time_end
<1> USE ProcsAssumption
<1> DEFINE g == MkFrame(Fn, SchedReturn, frame[cpu].arg, frame[cpu].flags)
<1>0. LegalAt(cpu, frame[cpu]) /\ frame[cpu] \in Frames /\ frame[cpu].pc = "pick"
  BY DEF CtlInv, Ctl, TypeOK, FramesOK, At
<1>1. LegalAt(cpu, g) /\ FlagsAt(cpu, g)
  BY <1>0 DEF CtlInv, Ctl, TypeOK, FramesOK, Fn, MkFrame, SchedReturn, LegalAt, FlagsAt,
         Gates, FlagPcs, LockPcs, SchedPcs
<1>2. /\ FramesOK'
      /\ SuspendedOK'
      /\ frame'[cpu] = g
      /\ frame' \in [Threads -> Frames]
  BY <1>1, GotoStep DEF PickReturn, SchedReturn, Pcs
<1>3. g.fn = Fn /\ g.pc = SchedReturn
  BY DEF MkFrame
<1>4. FlagOK' /\ ServiceOK'
  BY <1>0, <1>2, <1>3 DEF CtlInv, Ctl, FlagOK, ServiceOK, PickReturn, SchedReturn, WantIF
<1>5. LockOK'
  BY <1>0, <1>2, <1>3 DEF CtlInv, Ctl, LockOK, PickReturn, SchedReturn, At, Fn, HeldPcs, LegalAt
<1>6. CurrentOK'
  BY <1>0, <1>2, <1>3 DEF CtlInv, Ctl, CurrentOK, PickReturn, SchedReturn, Fn, LegalAt, SchedPcs
<1> QED
  BY <1>2, <1>4, <1>5, <1>6 DEF Ctl, PickReturn

(* With nothing ready proc_schedule returns or switches to idle.           *)
LEMMA PickEmptyCtl == CtlInv /\ IdleOK /\ PickEmpty => CtlInv'
<1> SUFFICES ASSUME CtlInv, IdleOK, PickEmpty PROVE CtlInv'
  OBVIOUS
<1> USE ProcsAssumption DEF hwvars, qvars, pvars
<1>0. /\ At("pick") /\ under' = under /\ locked' = locked /\ in_service' = in_service
      /\ state'[Idle] \in {"UNINIT", "IDLE"}
  BY DEF CtlInv, Ctl, CurrentOK, PickEmpty
<1>1. CASE ProcSwitch(proc_idle) /\ proc_idle # Null
  <2>1. proc_idle \in Procs \cup {Idle}
    BY <1>1 DEF CtlInv, TypeOK
  <2> QED
    BY <1>0, <1>1, <2>1, SwitchCtl DEF CtlInv, TypeOK, PickEmpty
<1>2. CASE PickReturn /\ (proc_current # Null \/ proc_idle = Null)
  <2>1. proc_current # Null \/ cpu = Boot
    BY <1>2 DEF IdleOK
  <2> QED
    BY <1>0, <1>2, <2>1, PickReturnCtl DEF CtlInv, TypeOK, PickEmpty
<1> QED
  BY <1>1, <1>2 DEF PickEmpty

(* The current process keeps the CPU until its slice is over.              *)
LEMMA PickKeepCtl == CtlInv /\ PickKeep => CtlInv'
<1> SUFFICES ASSUME CtlInv, PickKeep PROVE CtlInv'
  OBVIOUS
<1> USE ProcsAssumption DEF hwvars, qvars, pvars
<1>0. /\ At("pick") /\ under' = under /\ locked' = locked /\ in_service' = in_service
      /\ state'[Idle] \in {"UNINIT", "IDLE"}
  BY DEF CtlInv, Ctl, CurrentOK, PickKeep
<1> QED
  BY <1>0, PickReturnCtl DEF CtlInv, TypeOK, PickKeep, CurrentActive

(* Requeueing the current process leaves a list of processes to pick from. *)
LEMMA RequeuedType ==
    ASSUME CtlInv, ready_q # <<>>
    PROVE  /\ Requeued \in Seq(Procs) /\ Requeued # <<>>
           /\ Head(Requeued) \in Procs /\ Tail(Requeued) \in Seq(Procs)
<1>1. ready_q \in Seq(Procs) /\ (CurrentActive => proc_current \in Procs)
  BY ProcsAssumption DEF CtlInv, Ctl, TypeOK, CurrentOK, CurrentActive
<1>2. Requeued \in Seq(Procs) /\ Requeued # <<>>
  BY <1>1 DEF Requeued
<1> QED
  BY <1>2

(* The next process gets the CPU, or the current one goes on.              *)
LEMMA PickNextCtl == CtlInv /\ PickNext => CtlInv'
<1> SUFFICES ASSUME CtlInv, PickNext PROVE CtlInv'
  OBVIOUS
<1> USE ProcsAssumption DEF hwvars, qvars, pvars
<1>0. /\ At("pick") /\ under' = under /\ locked' = locked /\ in_service' = in_service
      /\ ready_q' = Tail(Requeued) /\ UNCHANGED <<it, hwvars, pit_systime_msec, proc_idle, waiting_q>>
  BY DEF PickNext
<1>1. PICK next_proc : next_proc = Head(Requeued)
  OBVIOUS
<1>2. next_proc \in Procs /\ ready_q' \in Seq(Procs)
  BY <1>0, <1>1, RequeuedType DEF PickNext
<1>3. CASE proc_current = next_proc
  <2>1. PickReturn /\ state' = state
    BY <1>1, <1>3 DEF PickNext
  <2>2. state'[Idle] \in {"UNINIT", "IDLE"}
    BY <2>1 DEF CtlInv, Ctl, CurrentOK
  <2> QED
    BY <1>0, <1>2, <1>3, <2>1, <2>2, PickReturnCtl DEF CtlInv, TypeOK
<1>4. CASE proc_current # next_proc
  <2>1. ProcSwitch(next_proc) /\ state' = [state EXCEPT ![next_proc] = "ACTIVE"]
    BY <1>1, <1>4 DEF PickNext
  <2>2. /\ state'[Idle] \in {"UNINIT", "IDLE"}
        /\ state' \in [Procs \cup {Idle} -> States]
    BY <1>2, <2>1 DEF CtlInv, Ctl, CurrentOK, TypeOK, States
  <2> QED
    BY <1>0, <1>2, <2>1, <2>2, SwitchCtl DEF CtlInv, TypeOK
<1> QED
  BY <1>3, <1>4

(* The timer's request only becomes pending.                               *)
LEMMA PitFireCtl == CtlInv /\ PitFire => CtlInv'
<1> SUFFICES ASSUME CtlInv, PitFire PROVE CtlInv'
  OBVIOUS
<1> USE DEF qvars, pvars
<1>1. TypeOK'
  BY DEF CtlInv, TypeOK, PitFire
<1>2. Ctl'
  BY DEF CtlInv, Ctl, FramesOK, SuspendedOK, FlagOK, LockOK, ServiceOK, CurrentOK,
         PitFire, LegalAt, FlagsAt, UnderAt, WantIF, At, Fn
<1> QED
  BY <1>1, <1>2 DEF CtlInv

(* Nothing changes when no variable does.                                  *)
LEMMA StutterCtl == CtlInv /\ UNCHANGED vars => CtlInv'
<1> SUFFICES ASSUME CtlInv, UNCHANGED vars PROVE CtlInv'
  OBVIOUS
<1>1. TypeOK'
  BY DEF CtlInv, TypeOK, vars
<1>2. Ctl'
  BY DEF CtlInv, Ctl, FramesOK, SuspendedOK, FlagOK, LockOK, ServiceOK, CurrentOK,
         vars, LegalAt, FlagsAt, UnderAt, WantIF, At, Fn
<1> QED
  BY <1>1, <1>2 DEF CtlInv

(* Until the idle process exists, only kernel_enter runs.                  *)
LEMMA NextIdle == CtlInv /\ IdleOK /\ [Next]_vars => IdleOK'
<1> SUFFICES ASSUME CtlInv, IdleOK, [Next]_vars, proc_idle' = Null
             PROVE  IdleOK'
  BY DEF IdleOK
<1> USE ProcsAssumption DEF hwvars, qvars, pvars, At, Fn
<1>0. /\ cpu \in Threads /\ frame \in [Threads -> Frames]
      /\ LegalAt(cpu, frame[cpu]) /\ FramesOK /\ CurrentOK
  BY DEF CtlInv, Ctl, TypeOK, FramesOK
<1>1. CASE UNCHANGED <<frame, cpu, qvars, proc_idle>>
  BY <1>1 DEF IdleOK
<1>2. CASE Deliver \/ SysYield
  BY <1>0, <1>2 DEF IdleOK, Deliver, SysYield, EnterGate, MkFrame
<1>3. CASE PitHandleInterrupt \/ Eoi \/ Cli \/ SpinlockLock \/ SpinlockRelease \/ GetF
  BY <1>0, <1>3 DEF IdleOK, PitHandleInterrupt, Eoi, Cli, SpinlockLock, SpinlockRelease,
                    GetF, Goto, MkFrame, LegalAt, LockPcs
<1>4. CASE Iret
  <2>1. Fn = "irq" \/ Fn = "sys_yield"
    BY <1>0, <1>4 DEF Iret, LegalAt, LockPcs, SchedPcs
  <2>2. LegalAt(cpu, under[cpu]) /\ WantIF(cpu, under[cpu])
    BY <1>0, <2>1 DEF FramesOK, UnderAt, Gates
  <2>3. cpu = Boot => under[cpu].pc = "run" /\ under[cpu].fn = "kernel_enter"
    BY <2>2 DEF WantIF, LegalAt, LockPcs, SchedPcs
  <2> QED
    BY <1>0, <1>4, <2>3 DEF IdleOK, Iret, MkFrame
<1>5. CASE SetF
  <2>0. proc_idle = Null /\ cpu' = cpu /\ ready_q' = ready_q /\ waiting_q' = waiting_q
    BY <1>5 DEF SetF
  <2>1. cpu = Boot /\ Fn = "irq"
    BY <1>0, <1>5, <2>0 DEF IdleOK, SetF, LegalAt, LockPcs, SchedPcs
  <2>2. frame'[cpu] = MkFrame(Fn, "iret", Null, FALSE)
    BY <1>0, <1>5, <2>1 DEF SetF
  <2> QED
    BY <2>0, <2>1, <2>2 DEF IdleOK, MkFrame
<1>6. CASE Body
  <2>1. proc_idle = Null => Fn = "irq"
    <3>1. frame[cpu].pc = "body"
      BY <1>6 DEF Body, RegisterBody, SleepBody, YieldBody, ExitBody, IrqBody
    <3> QED
      BY <1>0, <3>1 DEF IdleOK, LegalAt, LockPcs, SchedPcs
  <2> QED
    BY <1>0, <1>6, <2>1 DEF IdleOK, Body, RegisterBody, SleepBody, YieldBody, ExitBody,
                      IrqBody, Goto, MkFrame
<1>7. CASE ProcSchedule
  <2>0. proc_idle = Null
    BY <1>7 DEF ProcSchedule, WakeStep, WakeDone, PickEmpty, PickKeep, PickNext
  <2>1. ready_q = <<>> /\ waiting_q = <<>> /\ cpu = Boot /\ Fn \notin {"kernel_enter", "proc_register"}
    BY <1>7, <2>0 DEF IdleOK, ProcSchedule, WakeStep, WakeDone, PickEmpty, PickKeep, PickNext
  <2>2. ~WakeStep /\ ~PickKeep /\ ~PickNext
    BY <2>1 DEF WakeStep, PickKeep, PickNext, CtlInv, TypeOK
  <2>3. CASE WakeDone
    BY <2>1, <2>3, <1>0 DEF IdleOK, WakeDone, Goto, MkFrame
  <2>4. CASE PickEmpty
    BY <2>0, <2>1, <2>4, <1>0 DEF IdleOK, PickEmpty, PickReturn, Goto, MkFrame
  <2> QED
    BY <1>7, <2>2, <2>3, <2>4 DEF ProcSchedule
<1>8. CASE KernelEnter
  <2>1. CASE BootCli
    BY <1>0, <2>1 DEF IdleOK, BootCli, Goto, MkFrame
  <2>2. CASE BootInitScheduler
    BY <2>2 DEF BootInitScheduler
  <2>3. CASE BootRegister \/ BootSchedule
    <3>1. proc_idle = Null /\ frame[cpu].pc = "reg"
      BY <2>3 DEF BootRegister, BootSchedule, CreateAndRegister
    <3> QED
      BY <3>1, <1>0 DEF IdleOK, LegalAt, LockPcs, SchedPcs
  <2> QED
    BY <1>8, <2>1, <2>2, <2>3 DEF KernelEnter
<1>9. CASE ProcCall \/ ProcRegisterCall
  <2>1. cpu \in Procs /\ proc_idle = Null
    BY <1>9 DEF ProcCall, ProcRegisterCall, InProcessCode, CreateAndRegister
  <2> QED
    BY <2>1 DEF IdleOK
<1>10. PitFire \/ UNCHANGED vars => UNCHANGED <<frame, cpu, qvars, proc_idle>>
  BY DEF PitFire, vars
<1> QED
  BY <1>1, <1>2, <1>3, <1>4, <1>5, <1>6, <1>7, <1>8, <1>9, <1>10
     DEF Next, KernelStep, ProcStep, Isr, Lock, Release

(* The control invariant is inductive: one case per action.                *)
LEMMA NextCtl == CtlInv /\ IdleOK /\ [Next]_vars => CtlInv'
<1> SUFFICES ASSUME CtlInv, IdleOK, [Next]_vars PROVE CtlInv'
  OBVIOUS
<1>1. CASE PitFire \/ Deliver \/ Isr
  BY <1>1, PitFireCtl, DeliverCtl, PitHandleInterruptCtl, EoiCtl, IretCtl DEF Isr
<1>2. CASE Lock \/ Release
  BY <1>2, GetFCtl, CliCtl, SpinlockLockCtl, SpinlockReleaseCtl, SetFCtl DEF Lock, Release
<1>3. CASE Body
  BY <1>3, RegisterBodyCtl, SleepBodyCtl, YieldBodyCtl, ExitBodyCtl, IrqBodyCtl DEF Body
<1>4. CASE ProcSchedule
  BY <1>4, WakeStepCtl, WakeDoneCtl, PickEmptyCtl, PickKeepCtl, PickNextCtl DEF ProcSchedule
<1>5. CASE KernelEnter
  <2>1. CASE BootRegister
    <3>1. PICK p \in BootProcs : CreateAndRegister(p)
      BY <2>1 DEF BootRegister
    <3> QED
      BY <2>1, <3>1, CreateCtl, ProcsAssumption DEF BootRegister, At
  <2> QED
    BY <1>5, <2>1, BootCliCtl, BootInitSchedulerCtl, BootScheduleCtl DEF KernelEnter
<1>6. CASE ProcStep
  <2>1. CASE ProcRegisterCall
    <3>1. PICK p \in Procs : CreateAndRegister(p)
      BY <2>1 DEF ProcRegisterCall
    <3> QED
      BY <2>1, <3>1, CreateCtl, ProcsAssumption DEF ProcRegisterCall, InProcessCode, At
  <2> QED
    BY <1>6, <2>1, ProcCallCtl, SysYieldCtl DEF ProcStep
<1>7. CASE UNCHANGED vars
  BY <1>7, StutterCtl
<1> QED
  BY <1>1, <1>2, <1>3, <1>4, <1>5, <1>6, <1>7 DEF Next, KernelStep

(* The control invariant holds in every reachable state of the scheduler.  *)
THEOREM CtlInvariant == Spec => [](CtlInv /\ IdleOK)
<1>1. Init => CtlInv /\ IdleOK
  BY InitCtl, ProcsAssumption DEF Init, IdleOK, MkFrame, Threads, Fn
<1>2. CtlInv /\ IdleOK /\ [Next]_vars => CtlInv' /\ IdleOK'
  BY NextCtl, NextIdle
<1> QED
  BY <1>1, <1>2, PTL DEF Spec

(* The types of proc.c's globals and proc_t's fields hold for ever.        *)
THEOREM TypeCorrect == Spec => []TypeOK
<1>1. CtlInv => TypeOK
  BY DEF CtlInv
<1> QED
  BY <1>1, CtlInvariant, PTL

(* proc_lock never spins on a lock its own CPU holds.                      *)
THEOREM NeverSelfDeadlocks == Spec => []NoSelfDeadlock
<1>1. CtlInv => NoSelfDeadlock
  BY DEF CtlInv, Ctl, LockOK, HeldPcs, NoSelfDeadlock, At
<1> QED
  BY <1>1, CtlInvariant, PTL

(* sched_lock is held with interrupts off only.                            *)
THEOREM AlwaysMaskedWhileLocked == Spec => []MaskedWhileLocked
<1>1. CtlInv => MaskedWhileLocked
  BY DEF CtlInv, Ctl, LockOK, FlagOK, WantIF, HeldPcs, MaskedWhileLocked
<1> QED
  BY <1>1, CtlInvariant, PTL

(* Thread code runs with interrupts on.                                    *)
THEOREM AlwaysPreemptible == Spec => []ThreadsPreemptible
<1>1. CtlInv => ThreadsPreemptible
  BY DEF CtlInv, Ctl, FlagOK, WantIF, ThreadsPreemptible, At
<1> QED
  BY <1>1, CtlInvariant, PTL

(* No thread runs with interrupts on before the timer's EOI.               *)
THEOREM AlwaysAcknowledged == Spec => []TimerAcknowledged
<1>1. CtlInv => TimerAcknowledged
  BY DEF CtlInv, Ctl, FlagOK, ServiceOK, WantIF, TimerAcknowledged
<1> QED
  BY <1>1, CtlInvariant, PTL

-----------------------------------------------------------------------------
(* The lists: where a process is, what the states of processes say about   *)
(* it, and when it is woken or loses the CPU.  What follows rests on the   *)
(* control invariant and, unlike it, needs the clock to stay below its wrap*)
(* (NoWrap): past it a process may be woken inside its own                 *)
(* proc_sleep_msec.                                                        *)

(* Each list holds a process once, the state of a process says which list  *)
(* it may be on, and no registered process is anywhere else.               *)
QueuesOK ==
    /\ IsInjective(ready_q)
    /\ IsInjective(waiting_q)
    /\ \A p \in ToSet(ready_q) : state[p] \in {"READY", "ACTIVE"}
    /\ \A p \in ToSet(waiting_q) : state[p] = "SLEEP"
    /\ Registered = (ToSet(ready_q) \cup ToSet(waiting_q)
                       \cup {proc_current}) \ {Idle, Null}

(* The current process has put itself on waiting_q and not yet left the    *)
(* CPU.                                                                    *)
GoingToSleep == Fn = "proc_sleep_msec" /\ frame[cpu].pc \in SchedPcs

RunningOK ==
    /\ proc_current \in Procs =>
         /\ proc_current \notin ToSet(ready_q)
         /\ IF GoingToSleep
            THEN /\ proc_current \in ToSet(waiting_q)
                 /\ pit_systime_msec < time_end[proc_current]
            ELSE state[proc_current] = "ACTIVE"
    /\ (proc_current = Null /\ cpu \in Procs) => state[cpu] = "UNINIT"
    /\ (proc_current = Idle /\ frame[cpu].pc \notin SchedPcs) => ready_q = <<>>
    /\ cpu = Boot => waiting_q = <<>>

(* Thread t has created p and proc_register has not yet put it on ready_q: *)
(* t executes proc_register, or was interrupted in it.                     *)
Registers(f, p) ==
    /\ f.fn = "proc_register"
    /\ f.pc \in {"getf", "cli", "spin", "body"}
    /\ f.arg = p

RegisteringIn(f, u, p) == Registers(f, p) \/ (f.fn \in Gates /\ Registers(u, p))

Registering(t, p) == RegisteringIn(frame[t], under[t], p)

(* A process that is being registered is nobody else's, and a stack without*)
(* a frame is free to be one's.                                            *)
RegisterOK ==
    /\ \A t \in Threads, p \in Procs :
         Registering(t, p) =>
           /\ t # Idle
           /\ state[p] = "UNINIT"
           /\ frame[p] # NoFrame
           /\ p # cpu
    /\ \A t, r \in Threads, p \in Procs :
         (Registering(t, p) /\ Registering(r, p)) => t = r
    /\ \A p \in Procs : frame[p] = NoFrame => state[p] = "UNINIT"
    /\ \A p \in Procs :
         (frame[p] # NoFrame /\ state[p] = "UNINIT") =>
           \/ p = cpu
           \/ \E t \in Threads : Registering(t, p)

(* Until proc_init_scheduler the boot stack can be interrupted, but there  *)
(* is nothing to switch to; after it, it calls proc_schedule once.         *)
BootOK ==
    /\ (cpu = Boot /\ (Fn = "irq" \/ frame[cpu].pc \in {"run", "init"})) =>
         proc_idle = Null
    /\ (Fn = "kernel_enter" /\ frame[cpu].pc \in SchedPcs) =>
         \A p \in BootProcs : frame[p] # NoFrame
    /\ proc_idle # Null => state[Idle] = "IDLE"

(* The tick handler between its increment of the clock and the loop over   *)
(* waiting_q.                                                              *)
TickSeen == Fn = "irq" /\ frame[cpu].pc \in {"eoi", "getf", "cli", "spin", "body"}

TimeOK ==
    /\ pit_systime_msec <= MaxTick
    /\ At("handle") => pit_systime_msec < MaxTick
    /\ \A i \in DOMAIN waiting_q :
         (~TickSeen /\ (At("wake") => i < it)) =>
           pit_systime_msec < time_end[waiting_q[i]]

SliceOK ==
    (Fn = "irq" /\ frame[cpu].pc \in {"release", "setf", "iret"} /\ cpu \in Procs
       /\ ready_q # <<>>) => pit_systime_msec < time_end[cpu]

ListInv == QueuesOK /\ RunningOK /\ RegisterOK /\ BootOK /\ TimeOK

-----------------------------------------------------------------------------
(* The lists.                                                              *)

(* Membership in a list, by position.                                      *)
LEMMA InList ==
    ASSUME NEW S, NEW s \in Seq(S)
    PROVE  /\ ToSet(s) \subseteq S
           /\ \A e : e \in ToSet(s) <=> \E i \in 1 .. Len(s) : s[i] = e
BY DEF ToSet

(* A list that holds everything once, by position.                         *)
LEMMA InjectiveList ==
    ASSUME NEW S, NEW s \in Seq(S)
    PROVE  IsInjective(s) <=>
             \A i, j \in 1 .. Len(s) : s[i] = s[j] => i = j
BY DEF IsInjective

(* proc_register and the wake-up of a sleeper insert at the head.          *)
LEMMA ConsList ==
    ASSUME NEW S, NEW s \in Seq(S), NEW e \in S
    PROVE  /\ Cons(e, s) \in Seq(S)
           /\ ToSet(Cons(e, s)) = ToSet(s) \cup {e}
           /\ (IsInjective(s) /\ e \notin ToSet(s)) => IsInjective(Cons(e, s))
           /\ Cons(e, s) # <<>>
           /\ Len(Cons(e, s)) = Len(s) + 1
           /\ \A i \in 1 .. Len(s) + 1 :
                Cons(e, s)[i] = IF i = 1 THEN e ELSE s[i - 1]
<1> DEFINE c == Cons(e, s)
<1>1. /\ c \in Seq(S) /\ Len(c) = Len(s) + 1
      /\ \A i \in 1 .. Len(s) + 1 : c[i] = IF i = 1 THEN e ELSE s[i - 1]
  BY DEF Cons
<1> HIDE DEF c
<1>2. ToSet(c) = ToSet(s) \cup {e}
  <2>1. \A x : x \in ToSet(c) <=> \E i \in 1 .. Len(s) + 1 : c[i] = x
    BY <1>1, InList
  <2>2. \A x : x \in ToSet(s) <=> \E i \in 1 .. Len(s) : s[i] = x
    BY InList
  <2>3. ASSUME NEW x \in ToSet(c) PROVE x \in ToSet(s) \cup {e}
    BY <1>1, <2>1, <2>2, <2>3
  <2>4. ASSUME NEW x \in ToSet(s) PROVE x \in ToSet(c)
    <3>1. PICK i \in 1 .. Len(s) : s[i] = x
      BY <2>2
    <3>2. i + 1 \in 1 .. Len(s) + 1 /\ c[i + 1] = x
      BY <1>1, <3>1
    <3> QED
      BY <2>1, <3>2
  <2>5. e \in ToSet(c)
    <3>1. 1 \in 1 .. Len(s) + 1 /\ c[1] = e
      BY <1>1
    <3> QED
      BY <2>1, <3>1
  <2> QED
    BY <2>3, <2>4, <2>5
<1>3. ASSUME IsInjective(s), e \notin ToSet(s) PROVE IsInjective(c)
  <2>1. \A i, j \in 1 .. Len(s) : s[i] = s[j] => i = j
    BY <1>3, InjectiveList
  <2>2. \A i \in 1 .. Len(s) : s[i] # e
    BY <1>3, InList
  <2>3. \A i, j \in 1 .. Len(c) : c[i] = c[j] => i = j
    <3> SUFFICES ASSUME NEW i \in 1 .. Len(c), NEW j \in 1 .. Len(c), c[i] = c[j]
                 PROVE  i = j
      OBVIOUS
    <3>1. /\ i # 1 => (i - 1 \in 1 .. Len(s) /\ c[i] = s[i - 1])
          /\ i = 1 => c[i] = e
          /\ j # 1 => (j - 1 \in 1 .. Len(s) /\ c[j] = s[j - 1])
          /\ j = 1 => c[j] = e
      BY <1>1
    <3>2. (i # 1 /\ j # 1) => i - 1 = j - 1
      BY <2>1, <3>1
    <3> QED
      BY <2>2, <3>1, <3>2
  <2> QED
    BY <1>1, <2>3, InjectiveList
<1> QED
  BY <1>1, <1>2, <1>3 DEF c

(* The current process goes to the end of ready_q.                         *)
LEMMA AppendList ==
    ASSUME NEW S, NEW s \in Seq(S), NEW e \in S
    PROVE  /\ Append(s, e) \in Seq(S)
           /\ ToSet(Append(s, e)) = ToSet(s) \cup {e}
           /\ (IsInjective(s) /\ e \notin ToSet(s)) => IsInjective(Append(s, e))
           /\ Append(s, e) # <<>>
<1> DEFINE c == Append(s, e)
<1>1. /\ c \in Seq(S) /\ Len(c) = Len(s) + 1
      /\ \A i \in 1 .. Len(s) : c[i] = s[i]
      /\ c[Len(s) + 1] = e
  OBVIOUS
<1> HIDE DEF c
<1>2. ToSet(c) = ToSet(s) \cup {e}
  <2>1. \A x : x \in ToSet(c) <=> \E i \in 1 .. Len(s) + 1 : c[i] = x
    BY <1>1, InList
  <2>2. \A x : x \in ToSet(s) <=> \E i \in 1 .. Len(s) : s[i] = x
    BY InList
  <2> QED
    BY <1>1, <2>1, <2>2
<1>3. ASSUME IsInjective(s), e \notin ToSet(s) PROVE IsInjective(c)
  <2>1. \A i, j \in 1 .. Len(s) : s[i] = s[j] => i = j
    BY <1>3, InjectiveList
  <2>2. \A i \in 1 .. Len(s) : s[i] # e
    BY <1>3, InList
  <2>3. \A i, j \in 1 .. Len(c) : c[i] = c[j] => i = j
    BY <1>1, <2>1, <2>2
  <2> QED
    BY <1>1, <2>3, InjectiveList
<1> QED
  BY <1>1, <1>2, <1>3 DEF c

(* The next process is taken from the head of ready_q.                     *)
LEMMA TailList ==
    ASSUME NEW S, NEW s \in Seq(S), s # <<>>, IsInjective(s)
    PROVE  /\ Tail(s) \in Seq(S)
           /\ Head(s) \in ToSet(s)
           /\ ToSet(Tail(s)) = ToSet(s) \ {Head(s)}
           /\ IsInjective(Tail(s))
<1> DEFINE c == Tail(s)
<1>1. /\ c \in Seq(S) /\ Len(c) = Len(s) - 1 /\ Len(s) \in Nat \ {0}
      /\ \A i \in 1 .. Len(s) - 1 : c[i] = s[i + 1]
      /\ Head(s) = s[1]
  OBVIOUS
<1> HIDE DEF c
<1>2. \A i, j \in 1 .. Len(s) : s[i] = s[j] => i = j
  BY InjectiveList
<1>3. \A x : x \in ToSet(s) <=> \E i \in 1 .. Len(s) : s[i] = x
  BY InList
<1>4. ToSet(c) = ToSet(s) \ {Head(s)}
  <2>1. \A x : x \in ToSet(c) <=> \E i \in 1 .. Len(s) - 1 : c[i] = x
    BY <1>1, InList
  <2>2. ASSUME NEW x \in ToSet(c) PROVE x \in ToSet(s) \ {Head(s)}
    BY <1>1, <1>2, <1>3, <2>1
  <2>3. ASSUME NEW x \in ToSet(s), x # Head(s) PROVE x \in ToSet(c)
    <3>1. PICK i \in 1 .. Len(s) : s[i] = x
      BY <1>3
    <3>2. i - 1 \in 1 .. Len(s) - 1 /\ c[i - 1] = x
      BY <1>1, <2>3, <3>1
    <3> QED
      BY <2>1, <3>2
  <2> QED
    BY <2>2, <2>3
<1>5. IsInjective(c)
  <2>1. \A i, j \in 1 .. Len(c) : c[i] = c[j] => i = j
    BY <1>1, <1>2
  <2> QED
    BY <1>1, <2>1, InjectiveList
<1>6. Head(s) \in ToSet(s)
  BY <1>1, <1>3
<1> QED
  BY <1>1, <1>4, <1>5, <1>6 DEF c

(* Two lists one after the other, by position.                             *)
LEMMA ConcatList ==
    ASSUME NEW S, NEW a \in Seq(S), NEW b \in Seq(S)
    PROVE  /\ a \o b \in Seq(S) /\ Len(a \o b) = Len(a) + Len(b)
           /\ \A i \in 1 .. Len(a) : (a \o b)[i] = a[i]
           /\ \A i \in Len(a) + 1 .. Len(a) + Len(b) : (a \o b)[i] = b[i - Len(a)]
OBVIOUS

(* A sleeper that is woken leaves waiting_q wherever it is.                *)
LEMMA RemoveAtList ==
    ASSUME NEW S, NEW s \in Seq(S), NEW k \in 1 .. Len(s), IsInjective(s)
    PROVE  /\ RemoveAt(s, k) \in Seq(S)
           /\ ToSet(RemoveAt(s, k)) = ToSet(s) \ {s[k]}
           /\ IsInjective(RemoveAt(s, k))
           /\ Len(RemoveAt(s, k)) = Len(s) - 1
           /\ \A i \in 1 .. Len(s) - 1 :
                RemoveAt(s, k)[i] = IF i < k THEN s[i] ELSE s[i + 1]
<1> DEFINE c == RemoveAt(s, k)
<1>1. /\ c \in Seq(S) /\ Len(c) = Len(s) - 1
      /\ \A i \in 1 .. Len(s) - 1 : c[i] = IF i < k THEN s[i] ELSE s[i + 1]
  <2> DEFINE a == SubSeq(s, 1, k - 1)
             b == SubSeq(s, k + 1, Len(s))
  <2>1. /\ a \in Seq(S) /\ Len(a) = k - 1
        /\ \A i \in 1 .. k - 1 : a[i] = s[i]
    OBVIOUS
  <2>2. /\ b \in Seq(S) /\ Len(b) = Len(s) - k
        /\ \A i \in 1 .. Len(s) - k : b[i] = s[k + i]
    OBVIOUS
  <2>3. c = a \o b
    BY DEF RemoveAt
  <2> HIDE DEF a, b, c
  <2>4. /\ c \in Seq(S) /\ Len(c) = Len(a) + Len(b)
        /\ \A i \in 1 .. Len(a) : c[i] = a[i]
        /\ \A i \in Len(a) + 1 .. Len(a) + Len(b) : c[i] = b[i - Len(a)]
    <3>1. /\ a \o b \in Seq(S) /\ Len(a \o b) = Len(a) + Len(b)
          /\ \A i \in 1 .. Len(a) : (a \o b)[i] = a[i]
          /\ \A i \in Len(a) + 1 .. Len(a) + Len(b) : (a \o b)[i] = b[i - Len(a)]
      BY <2>1, <2>2, ConcatList, Zenon
    <3>. QED BY <2>3, <3>1, Zenon
  <2>5. ASSUME NEW i \in 1 .. Len(s) - 1
        PROVE  c[i] = IF i < k THEN s[i] ELSE s[i + 1]
    <3>1. CASE i < k
      BY <2>1, <2>4, <3>1
    <3>2. CASE i >= k
      <4>1. i \in Len(a) + 1 .. Len(a) + Len(b) /\ i - Len(a) \in 1 .. Len(s) - k
        BY <2>1, <2>2, <3>2
      <4>2. c[i] = b[i - Len(a)] /\ b[i - Len(a)] = s[k + (i - Len(a))]
        BY <2>2, <2>4, <4>1
      <4>3. k + (i - Len(a)) = i + 1
        BY <2>1
      <4> QED
        BY <3>2, <4>2, <4>3
    <3> QED
      BY <3>1, <3>2
  <2> QED
    BY <2>1, <2>2, <2>4, <2>5
<1> HIDE DEF c
<1>2. \A i, j \in 1 .. Len(s) : s[i] = s[j] => i = j
  BY InjectiveList
<1>3. \A x : x \in ToSet(s) <=> \E i \in 1 .. Len(s) : s[i] = x
  BY InList
<1>4. ToSet(c) = ToSet(s) \ {s[k]}
  <2>1. \A x : x \in ToSet(c) <=> \E i \in 1 .. Len(s) - 1 : c[i] = x
    BY <1>1, InList
  <2>2. ASSUME NEW x \in ToSet(c) PROVE x \in ToSet(s) \ {s[k]}
    BY <1>1, <1>2, <1>3, <2>1
  <2>3. ASSUME NEW x \in ToSet(s), x # s[k] PROVE x \in ToSet(c)
    <3>1. PICK i \in 1 .. Len(s) : s[i] = x
      BY <1>3
    <3>2. CASE i < k
      BY <1>1, <2>1, <3>1, <3>2
    <3>3. CASE i > k
      <4>1. i - 1 \in 1 .. Len(s) - 1 /\ c[i - 1] = x
        BY <1>1, <3>1, <3>3
      <4> QED
        BY <2>1, <4>1
    <3> QED
      BY <2>3, <3>1, <3>2, <3>3
  <2> QED
    BY <2>2, <2>3
<1>5. IsInjective(c)
  <2>1. \A i, j \in 1 .. Len(c) : c[i] = c[j] => i = j
    <3> SUFFICES ASSUME NEW i \in 1 .. Len(c), NEW j \in 1 .. Len(c), c[i] = c[j]
                 PROVE  i = j
      OBVIOUS
    <3>1. PICK m \in 1 .. Len(s) : m = IF i < k THEN i ELSE i + 1
      BY <1>1
    <3>2. PICK n \in 1 .. Len(s) : n = IF j < k THEN j ELSE j + 1
      BY <1>1
    <3>3. c[i] = s[m] /\ c[j] = s[n]
      BY <1>1, <3>1, <3>2
    <3>4. m = n
      BY <1>2, <3>3
    <3> QED
      BY <3>1, <3>2, <3>4
  <2> QED
    BY <1>1, <2>1, InjectiveList
<1> QED
  BY <1>1, <1>4, <1>5 DEF c

-----------------------------------------------------------------------------
(* Steps that leave the lists alone.                                       *)

(* What the control invariant says of the frame the CPU executes.          *)
LEMMA Here ==
    ASSUME CtlInv
    PROVE  /\ cpu \in Threads
           /\ frame \in [Threads -> Frames] /\ under \in [Threads -> Frames]
           /\ frame[cpu] \in Frames
           /\ LegalAt(cpu, frame[cpu]) /\ UnderAt(cpu, frame[cpu], under[cpu])
           /\ proc_current \in {cpu, Null}
           /\ pit_systime_msec \in Nat
BY TimeAssumption DEF CtlInv, Ctl, TypeOK, FramesOK, CurrentOK

(* Replacing the frame the CPU executes leaves the other stacks alone.     *)
LEMMA FrameAfter ==
    ASSUME CtlInv, NEW g, frame' = [frame EXCEPT ![cpu] = g]
    PROVE  /\ frame'[cpu] = g
           /\ \A t \in Threads : t # cpu => frame'[t] = frame[t]
BY DEF CtlInv, TypeOK

(* A step in which nobody begins or ends a registration.                   *)
LEMMA RegisterKept ==
    ASSUME CtlInv, RegisterOK, NEW g, g # NoFrame,
           frame' = [frame EXCEPT ![cpu] = g], cpu' = cpu,
           \A t \in Threads : t # cpu => under'[t] = under[t],
           \A p \in Procs : RegisteringIn(g, under'[cpu], p) <=> Registering(cpu, p),
           \A p \in Procs : p # cpu => (state'[p] = "UNINIT" <=> state[p] = "UNINIT")
    PROVE  RegisterOK'
<1>1. /\ frame'[cpu] = g
      /\ \A t \in Threads : t # cpu => frame'[t] = frame[t]
  BY FrameAfter
<1>2. \A t \in Threads, p \in Procs : Registering(t, p)' <=> Registering(t, p)
  BY <1>1 DEF Registering
<1>3. \A p \in Procs : p \in Threads
  BY DEF Threads
<1>4. \A p \in Procs : frame'[p] = NoFrame => frame[p] = NoFrame
  BY <1>1, <1>3
<1>5. \A p \in Procs : (frame[p] = NoFrame /\ p # cpu) => frame'[p] = NoFrame
  BY <1>1, <1>3
<1> HIDE DEF Registering
<1>6. ASSUME NEW t \in Threads, NEW p \in Procs, Registering(t, p)'
      PROVE  t # Idle /\ state'[p] = "UNINIT" /\ frame'[p] # NoFrame /\ p # cpu'
  BY <1>2, <1>4, <1>6 DEF RegisterOK
<1>7. ASSUME NEW t \in Threads, NEW r \in Threads, NEW p \in Procs,
             Registering(t, p)', Registering(r, p)'
      PROVE  t = r
  BY <1>2, <1>7 DEF RegisterOK
<1>8. ASSUME NEW p \in Procs, frame'[p] = NoFrame PROVE state'[p] = "UNINIT"
  BY <1>1, <1>4, <1>8 DEF RegisterOK
<1>9. ASSUME NEW p \in Procs, frame'[p] # NoFrame, state'[p] = "UNINIT"
      PROVE  p = cpu' \/ \E t \in Threads : Registering(t, p)'
  BY <1>2, <1>5, <1>9 DEF RegisterOK
<1> QED
  BY <1>6, <1>7, <1>8, <1>9 DEF RegisterOK

(* The lists, the states and the current process stay as they are.         *)
LEMMA QueuesKept ==
    ASSUME QueuesOK, UNCHANGED <<ready_q, waiting_q, state, proc_current>>
    PROVE  QueuesOK'
BY DEF QueuesOK, Registered

(* A step of the CPU on its own stack, up to the conjunct about time.      *)
LEMMA LocalList ==
    ASSUME CtlInv, ListInv, NEW g, g # NoFrame,
           frame' = [frame EXCEPT ![cpu] = g],
           UNCHANGED <<cpu, proc_current, proc_idle, ready_q, waiting_q, state>>,
           \A t \in Threads : t # cpu => under'[t] = under[t],
           \A p \in Procs : RegisteringIn(g, under'[cpu], p) <=> Registering(cpu, p),
           (g.fn = "proc_sleep_msec" /\ g.pc \in SchedPcs) <=> GoingToSleep,
           GoingToSleep => UNCHANGED <<pit_systime_msec, time_end>>,
           (proc_current = Idle /\ g.pc \notin SchedPcs) =>
              (frame[cpu].pc \notin SchedPcs \/ ready_q = <<>>),
           (cpu = Boot /\ (g.fn = "irq" \/ g.pc \in {"run", "init"})) =>
              proc_idle = Null,
           (g.fn = "kernel_enter" /\ g.pc \in SchedPcs) =>
              (cpu \notin BootProcs /\ \A p \in BootProcs : frame[p] # NoFrame)
    PROVE  QueuesOK' /\ RunningOK' /\ RegisterOK' /\ BootOK'
<1>1. /\ frame'[cpu] = g
      /\ \A t \in Threads : t # cpu => frame'[t] = frame[t]
  BY FrameAfter
<1>2. QueuesOK'
  BY QueuesKept DEF ListInv
<1>3. RunningOK'
  BY <1>1 DEF ListInv, RunningOK, GoingToSleep, Fn
<1>4. RegisterOK'
  BY RegisterKept DEF ListInv
<1>5. BootOK'
  <2>1. \A p \in BootProcs : p \in Threads
    BY ProcsAssumption DEF Threads
  <2> QED
    BY <1>1, <2>1 DEF ListInv, BootOK, Fn
<1> QED
  BY <1>2, <1>3, <1>4, <1>5

(* Inside proc_lock and proc_release and at the EOI, where only the flags, *)
(* the lock or the interrupt controller change.                            *)
LEMMA LockList ==
    ASSUME CtlInv, ListInv, Eoi \/ Lock \/ SpinlockRelease
    PROVE  ListInv'
<1> USE ProcsAssumption
<1>1. UNCHANGED <<cpu, under, it, pit_systime_msec, proc_current, proc_idle,
                  ready_q, waiting_q, state, time_end>>
  BY DEF Eoi, Lock, GetF, Cli, SpinlockLock, SpinlockRelease, qvars, pvars
<1>2. PICK l, fl :
         /\ frame' = [frame EXCEPT ![cpu] = MkFrame(Fn, l, frame[cpu].arg, fl)]
         /\ \/ frame[cpu].pc = "release" /\ l = "setf"
            \/ frame[cpu].pc \in {"eoi", "getf", "cli", "spin"}
               /\ l \in {"getf", "cli", "spin", "body"}
  BY DEF Eoi, Lock, GetF, Cli, SpinlockLock, SpinlockRelease, Goto, At
<1>3. PICK g : g = MkFrame(Fn, l, frame[cpu].arg, fl)
  OBVIOUS
<1>4. g.fn = Fn /\ g.pc = l /\ g.arg = frame[cpu].arg
  BY <1>3 DEF MkFrame
<1>5. frame' = [frame EXCEPT ![cpu] = g] /\ frame'[cpu] = g
  BY <1>2, <1>3, FrameAfter
<1>6. Fn # "kernel_enter" /\ (frame[cpu].pc = "eoi" => Fn = "irq")
  BY <1>2, Here DEF LegalAt, Fn, LockPcs, SchedPcs
<1>7. g # NoFrame
  BY <1>2, <1>4 DEF NoFrame, MkFrame
<1>8. \A p \in Procs : RegisteringIn(g, under'[cpu], p) <=> Registering(cpu, p)
  BY <1>1, <1>2, <1>4, <1>6 DEF Registering, RegisteringIn, Registers, Fn
<1>9. /\ (g.fn = "proc_sleep_msec" /\ g.pc \in SchedPcs) <=> GoingToSleep
      /\ frame[cpu].pc \notin SchedPcs
      /\ (cpu = Boot /\ (g.fn = "irq" \/ g.pc \in {"run", "init"})) => proc_idle = Null
  BY <1>2, <1>4 DEF ListInv, BootOK, GoingToSleep, SchedPcs, Fn
<1>10. QueuesOK' /\ RunningOK' /\ RegisterOK' /\ BootOK'
  BY <1>1, <1>4, <1>5, <1>6, <1>7, <1>8, <1>9, LocalList
<1>11. TimeOK'
  BY <1>1, <1>2, <1>4, <1>5, <1>6 DEF ListInv, TimeOK, TickSeen, Fn, At
<1> QED
  BY <1>10, <1>11 DEF ListInv

(* proc_release returns to the code that called the function.              *)
LEMMA SetFList == ASSUME CtlInv, ListInv, SetF PROVE ListInv'
<1> USE ProcsAssumption
<1>1. /\ frame[cpu].pc = "setf"
      /\ UNCHANGED <<cpu, under, it, pit_systime_msec, proc_current, proc_idle,
                     ready_q, waiting_q, state, time_end>>
  BY DEF SetF, qvars, pvars, At
<1>2. PICK g : g = IF Fn \in {"irq", "sys_yield"}
                   THEN MkFrame(Fn, "iret", Null, FALSE) ELSE CodeFrame(cpu)
  OBVIOUS
<1>3. /\ g.pc \in {"iret", "reg", "run"}
      /\ Fn \in Gates => (g.fn = Fn /\ g.pc = "iret")
      /\ Fn \notin Gates => g.fn \in {"entry", "kernel_enter"}
      /\ cpu = Boot => g.pc # "run"
  BY <1>2 DEF MkFrame, CodeFrame, Gates
<1>4. frame' = [frame EXCEPT ![cpu] = g] /\ frame'[cpu] = g
  BY <1>2, FrameAfter DEF SetF
<1>5. g # NoFrame
  BY <1>3 DEF NoFrame, MkFrame
<1>6. \A p \in Procs : RegisteringIn(g, under'[cpu], p) <=> Registering(cpu, p)
  BY <1>1, <1>3 DEF Registering, RegisteringIn, Registers, Fn, Gates
<1>7. /\ ~GoingToSleep /\ g.pc \notin SchedPcs /\ frame[cpu].pc \notin SchedPcs
      /\ (cpu = Boot /\ (g.fn = "irq" \/ g.pc \in {"run", "init"})) => proc_idle = Null
  BY <1>1, <1>3 DEF ListInv, BootOK, GoingToSleep, SchedPcs, Fn, Gates
<1>8. QueuesOK' /\ RunningOK' /\ RegisterOK' /\ BootOK'
  BY <1>1, <1>4, <1>5, <1>6, <1>7, LocalList
<1>9. TimeOK'
  BY <1>1, <1>3, <1>4 DEF ListInv, TimeOK, TickSeen, Fn, At
<1> QED
  BY <1>8, <1>9 DEF ListInv

(* A process calls proc_sleep_msec or proc_exit.                           *)
LEMMA ProcCallList == ASSUME CtlInv, ListInv, ProcCall PROVE ListInv'
<1> USE ProcsAssumption
<1>1. /\ frame[cpu].pc = "run" /\ cpu \in Procs
      /\ UNCHANGED <<cpu, under, it, pit_systime_msec, proc_current, proc_idle,
                     ready_q, waiting_q, state, time_end>>
  BY DEF ProcCall, InProcessCode, qvars, pvars, At
<1>a. PICK f \in {"proc_sleep_msec", "proc_exit"} :
         frame' = [frame EXCEPT ![cpu] = MkFrame(f, "getf", Null, FALSE)]
  BY DEF ProcCall
<1>b. PICK g : g = MkFrame(f, "getf", Null, FALSE)
  OBVIOUS
<1>2. /\ frame' = [frame EXCEPT ![cpu] = g]
      /\ g.fn \in {"proc_sleep_msec", "proc_exit"} /\ g.pc = "getf"
  BY <1>a, <1>b DEF MkFrame
<1>3. frame'[cpu] = g /\ g # NoFrame
  <2>1. NoFrame.pc = "none"
    BY DEF NoFrame, MkFrame
  <2> QED
    BY <1>2, <2>1, FrameAfter
<1>4. Fn \in {"entry", "kernel_enter"}
  BY <1>1, Here DEF LegalAt, Fn, LockPcs, SchedPcs
<1>5. \A p \in Procs : RegisteringIn(g, under'[cpu], p) <=> Registering(cpu, p)
  BY <1>2, <1>4 DEF Registering, RegisteringIn, Registers, Fn, Gates
<1>6. QueuesOK' /\ RunningOK' /\ RegisterOK' /\ BootOK'
  BY <1>1, <1>2, <1>3, <1>5, LocalList DEF GoingToSleep, SchedPcs
<1>7. TimeOK'
  BY <1>1, <1>2, <1>3, <1>4 DEF ListInv, TimeOK, TickSeen, Fn, At
<1> QED
  BY <1>6, <1>7 DEF ListInv

(* The frame Goto leaves.                                                  *)
LEMMA GotoFrame ==
    ASSUME CtlInv, NEW l, l # "none", Goto(l)
    PROVE  \E g : /\ frame' = [frame EXCEPT ![cpu] = g]
                  /\ frame'[cpu] = g
                  /\ g.fn = Fn /\ g.pc = l /\ g.arg = frame[cpu].arg
                  /\ g # NoFrame
<1>1. PICK g : g = MkFrame(Fn, l, frame[cpu].arg, frame[cpu].flags)
  OBVIOUS
<1>2. frame' = [frame EXCEPT ![cpu] = g] /\ frame'[cpu] = g
  BY <1>1, FrameAfter DEF Goto
<1>3. g.fn = Fn /\ g.pc = l /\ g.arg = frame[cpu].arg
  BY <1>1 DEF MkFrame
<1>4. NoFrame.pc = "none"
  BY DEF NoFrame, MkFrame
<1> QED
  BY <1>2, <1>3, <1>4

(* kernel_enter turns interrupts off.                                      *)
LEMMA BootCliList == ASSUME CtlInv, ListInv, BootCli PROVE ListInv'
<1> USE ProcsAssumption
<1>1. /\ Fn = "kernel_enter" /\ frame[cpu].pc = "run" /\ Goto("init")
      /\ UNCHANGED <<cpu, under, it, pit_systime_msec, proc_current, proc_idle,
                     ready_q, waiting_q, state, time_end>>
  BY DEF BootCli, qvars, pvars, At
<1>2. PICK g : /\ frame' = [frame EXCEPT ![cpu] = g]
               /\ frame'[cpu] = g
               /\ g.fn = Fn /\ g.pc = "init" /\ g # NoFrame
  BY <1>1, GotoFrame
<1>3. cpu = Boot
  BY <1>1, Here DEF LegalAt, Fn
<1>4. \A p \in Procs : RegisteringIn(g, under'[cpu], p) <=> Registering(cpu, p)
  BY <1>1, <1>2 DEF Registering, RegisteringIn, Registers, Fn, Gates
<1>5. proc_idle = Null
  BY <1>1, <1>3 DEF ListInv, BootOK
<1>6. QueuesOK' /\ RunningOK' /\ RegisterOK' /\ BootOK'
  BY <1>1, <1>2, <1>4, <1>5, LocalList DEF GoingToSleep, SchedPcs
<1>7. TimeOK'
  BY <1>1, <1>2 DEF ListInv, TimeOK, TickSeen, Fn, At
<1> QED
  BY <1>6, <1>7 DEF ListInv

(* kernel_enter calls proc_schedule.                                       *)
LEMMA BootScheduleList == ASSUME CtlInv, ListInv, BootSchedule PROVE ListInv'
<1> USE ProcsAssumption
<1>1. /\ frame[cpu].pc = "reg" /\ Goto("wake") /\ it' = 1
      /\ \A p \in BootProcs : frame[p] # NoFrame
      /\ UNCHANGED <<cpu, under, pit_systime_msec, proc_current, proc_idle,
                     ready_q, waiting_q, state, time_end>>
  BY DEF BootSchedule, qvars, pvars, At
<1>2. PICK g : /\ frame' = [frame EXCEPT ![cpu] = g]
               /\ frame'[cpu] = g
               /\ g.fn = Fn /\ g.pc = "wake" /\ g # NoFrame
  BY <1>1, GotoFrame
<1>3. cpu = Boot /\ Fn = "kernel_enter"
  BY <1>1, Here DEF LegalAt, Fn, LockPcs, SchedPcs
<1>4. \A p \in Procs : RegisteringIn(g, under'[cpu], p) <=> Registering(cpu, p)
  BY <1>1, <1>2, <1>3 DEF Registering, RegisteringIn, Registers, Fn, Gates
<1>5. QueuesOK' /\ RunningOK' /\ RegisterOK' /\ BootOK'
  BY <1>1, <1>2, <1>3, <1>4, LocalList DEF GoingToSleep, SchedPcs
<1>6. TimeOK'
  <2>1. waiting_q = <<>>
    BY <1>3 DEF ListInv, RunningOK
  <2> QED
    BY <1>1, <1>2, <2>1 DEF ListInv, TimeOK, At
<1> QED
  BY <1>5, <1>6 DEF ListInv

(* The tick handler calls proc_schedule.                                   *)
LEMMA IrqBodyList == ASSUME CtlInv, ListInv, IrqBody PROVE ListInv'
<1> USE ProcsAssumption
<1>1. /\ frame[cpu].pc = "body" /\ Fn = "irq" /\ Goto("wake") /\ it' = 1
      /\ UNCHANGED <<cpu, under, pit_systime_msec, proc_current, proc_idle,
                     ready_q, waiting_q, state, time_end>>
  BY DEF IrqBody, qvars, pvars, At
<1>2. PICK g : /\ frame' = [frame EXCEPT ![cpu] = g]
               /\ frame'[cpu] = g
               /\ g.fn = Fn /\ g.pc = "wake" /\ g # NoFrame
  BY <1>1, GotoFrame
<1>3. \A p \in Procs : RegisteringIn(g, under'[cpu], p) <=> Registering(cpu, p)
  BY <1>1, <1>2 DEF Registering, RegisteringIn, Registers, Fn, Gates
<1>4. cpu = Boot => proc_idle = Null
  BY <1>1 DEF ListInv, BootOK
<1>5. QueuesOK' /\ RunningOK' /\ RegisterOK' /\ BootOK'
  BY <1>1, <1>2, <1>3, <1>4, LocalList DEF GoingToSleep, SchedPcs
<1>6. TimeOK'
  <2>1. \A i \in DOMAIN waiting_q : ~(i < 1)
    BY DEF CtlInv, TypeOK
  <2> QED
    BY <1>1, <1>2, <2>1 DEF ListInv, TimeOK, TickSeen, Fn, At
<1> QED
  BY <1>5, <1>6 DEF ListInv

(* sys_yield ends the slice of the process, which is on no list.           *)
LEMMA YieldBodyList == ASSUME CtlInv, ListInv, YieldBody PROVE ListInv'
<1> USE ProcsAssumption
<1>1. /\ frame[cpu].pc = "body" /\ Fn = "sys_yield" /\ Goto("release")
      /\ time_end' = [time_end EXCEPT ![proc_current] = pit_systime_msec]
      /\ UNCHANGED <<cpu, under, it, pit_systime_msec, proc_current, proc_idle,
                     ready_q, waiting_q, state>>
  BY DEF YieldBody, qvars, At
<1>2. PICK g : /\ frame' = [frame EXCEPT ![cpu] = g]
               /\ frame'[cpu] = g
               /\ g.fn = Fn /\ g.pc = "release" /\ g # NoFrame
  BY <1>1, GotoFrame
<1>3. \A p \in Procs : RegisteringIn(g, under'[cpu], p) <=> Registering(cpu, p)
  BY <1>1, <1>2 DEF Registering, RegisteringIn, Registers, Fn, Gates
<1>4. QueuesOK' /\ RunningOK' /\ RegisterOK' /\ BootOK'
  BY <1>1, <1>2, <1>3, LocalList DEF GoingToSleep, SchedPcs
<1>5. TimeOK'
  <2>1. proc_current = cpu /\ cpu \in Procs
    BY <1>1, CurrentInBody DEF At
  <2>2. state[proc_current] = "ACTIVE"
    BY <1>1, <2>1 DEF ListInv, RunningOK, GoingToSleep
  <2>3. \A i \in DOMAIN waiting_q : waiting_q[i] \in Procs /\ waiting_q[i] # proc_current
    BY <2>2 DEF ListInv, QueuesOK, ToSet, CtlInv, TypeOK
  <2>4. \A i \in DOMAIN waiting_q : time_end'[waiting_q[i]] = time_end[waiting_q[i]]
    BY <1>1, <2>3 DEF CtlInv, TypeOK
  <2> QED
    BY <1>1, <1>2, <2>4 DEF ListInv, TimeOK, TickSeen, Fn, At
<1> QED
  BY <1>4, <1>5 DEF ListInv

(* The loop over waiting_q ends: nobody on it is due.                      *)
LEMMA WakeDoneList == ASSUME CtlInv, ListInv, WakeDone PROVE ListInv'
<1> USE ProcsAssumption
<1>1. /\ frame[cpu].pc = "wake" /\ Goto("pick") /\ it > Len(waiting_q)
      /\ UNCHANGED <<cpu, under, it, pit_systime_msec, proc_current, proc_idle,
                     ready_q, waiting_q, state, time_end>>
  BY DEF WakeDone, qvars, pvars, At
<1>2. PICK g : /\ frame' = [frame EXCEPT ![cpu] = g]
               /\ frame'[cpu] = g
               /\ g.fn = Fn /\ g.pc = "pick" /\ g # NoFrame
  BY <1>1, GotoFrame
<1>3. Fn # "proc_register"
  BY <1>1, Here DEF LegalAt, Fn, LockPcs, SchedPcs
<1>4. \A p \in Procs : RegisteringIn(g, under'[cpu], p) <=> Registering(cpu, p)
  BY <1>1, <1>2, <1>3 DEF Registering, RegisteringIn, Registers, Fn, Gates
<1>5. Fn = "kernel_enter" => cpu = Boot
  BY Here DEF LegalAt, Fn
<1>6. /\ (cpu = Boot /\ Fn = "irq") => proc_idle = Null
      /\ Fn = "kernel_enter" => \A p \in BootProcs : frame[p] # NoFrame
  BY <1>1 DEF ListInv, BootOK, SchedPcs
<1>7. QueuesOK' /\ RunningOK' /\ RegisterOK' /\ BootOK'
  BY <1>1, <1>2, <1>4, <1>5, <1>6, LocalList DEF GoingToSleep, SchedPcs, Fn
<1>8. TimeOK'
  <2>1. \A i \in DOMAIN waiting_q : i < it
    BY <1>1 DEF CtlInv, TypeOK
  <2> QED
    BY <1>1, <1>2, <2>1 DEF ListInv, TimeOK, TickSeen, Fn, At
<1> QED
  BY <1>7, <1>8 DEF ListInv

(* pit_handle_interrupt counts a tick.  From here until the loop over      *)
(* waiting_q a sleeper may be due.                                         *)
LEMMA PitHandleInterruptList ==
    ASSUME NoWrap, CtlInv, ListInv, PitHandleInterrupt
    PROVE  ListInv'
<1> USE ProcsAssumption
<1>1. /\ frame[cpu].pc = "handle" /\ Goto("eoi")
      /\ pit_systime_msec' = Add32(pit_systime_msec, 1)
      /\ UNCHANGED <<cpu, under, it, proc_current, proc_idle,
                     ready_q, waiting_q, state, time_end>>
  BY DEF PitHandleInterrupt, qvars, pvars, At
<1>2. PICK g : /\ frame' = [frame EXCEPT ![cpu] = g]
               /\ frame'[cpu] = g
               /\ g.fn = Fn /\ g.pc = "eoi" /\ g # NoFrame
  BY <1>1, GotoFrame
<1>3. Fn = "irq"
  BY <1>1, Here DEF LegalAt, Fn, LockPcs, SchedPcs
<1>4. \A p \in Procs : RegisteringIn(g, under'[cpu], p) <=> Registering(cpu, p)
  BY <1>1, <1>2, <1>3 DEF Registering, RegisteringIn, Registers, Fn, Gates
<1>5. cpu = Boot => proc_idle = Null
  BY <1>3 DEF ListInv, BootOK
<1>6. QueuesOK' /\ RunningOK' /\ RegisterOK' /\ BootOK'
  BY <1>1, <1>2, <1>3, <1>4, <1>5, LocalList DEF GoingToSleep, SchedPcs
<1>7. pit_systime_msec' <= MaxTick
  <2>1. pit_systime_msec < MaxTick /\ pit_systime_msec \in Nat
    BY <1>1, Here DEF ListInv, TimeOK, At
  <2> QED
    BY <1>1, <2>1, TimeAssumption DEF Add32, NoWrap
<1>8. TimeOK'
  BY <1>1, <1>2, <1>3, <1>7 DEF TimeOK, TickSeen, Fn, At
<1> QED
  BY <1>6, <1>8 DEF ListInv

(* An interrupt gate keeps the frame it is entered from below its own.     *)
LEMMA GateFrames ==
    ASSUME CtlInv, NEW f \in Gates, NEW l, l # "none", EnterGate(f, l),
           Fn \notin Gates
    PROVE  \E g : /\ frame' = [frame EXCEPT ![cpu] = g]
                  /\ frame'[cpu] = g
                  /\ g.fn = f /\ g.pc = l
                  /\ g # NoFrame
                  /\ \A t \in Threads : t # cpu => under'[t] = under[t]
                  /\ \A p \in Procs :
                       RegisteringIn(g, under'[cpu], p) <=> Registering(cpu, p)
<1>1. PICK g : g = MkFrame(f, l, Null, FALSE)
  OBVIOUS
<1>2. PICK u : u = Pushed(frame[cpu], frame[cpu].pc)
  OBVIOUS
<1>3. frame' = [frame EXCEPT ![cpu] = g] /\ frame'[cpu] = g
  BY <1>1, FrameAfter DEF EnterGate
<1>4. g.fn = f /\ g.pc = l
  BY <1>1 DEF MkFrame
<1>5. NoFrame.pc = "none"
  BY DEF NoFrame, MkFrame
<1>6. u.fn = frame[cpu].fn /\ u.pc = frame[cpu].pc /\ u.arg = frame[cpu].arg
  BY <1>2 DEF Pushed
<1>7. under'[cpu] = u /\ \A t \in Threads : t # cpu => under'[t] = under[t]
  BY <1>2, Here DEF EnterGate
<1>8. \A p \in Procs : RegisteringIn(g, under'[cpu], p) <=> Registering(cpu, p)
  BY <1>4, <1>6, <1>7 DEF Registering, RegisteringIn, Registers, Fn, Gates
<1> QED
  BY <1>3, <1>4, <1>5, <1>7, <1>8

(* A tick interrupts a thread, or kernel_enter before its cli.             *)
LEMMA DeliverList == ASSUME CtlInv, ListInv, Deliver PROVE ListInv'
<1> USE ProcsAssumption
<1>1. /\ iflag /\ EnterGate("irq", "handle") /\ pit_systime_msec # MaxTick
      /\ UNCHANGED <<cpu, it, pit_systime_msec, proc_current, proc_idle,
                     ready_q, waiting_q, state, time_end>>
  BY DEF Deliver, qvars, pvars
<1>2. WantIF(cpu, frame[cpu])
  BY <1>1 DEF CtlInv, Ctl, FlagOK
<1>3. Fn \notin Gates /\ frame[cpu].pc \notin SchedPcs
  BY <1>2, Here DEF WantIF, LegalAt, Fn, Gates, LockPcs, SchedPcs
<1>4. PICK g : /\ frame' = [frame EXCEPT ![cpu] = g]
               /\ frame'[cpu] = g
               /\ g.fn = "irq" /\ g.pc = "handle"
               /\ g # NoFrame
               /\ \A t \in Threads : t # cpu => under'[t] = under[t]
               /\ \A p \in Procs :
                    RegisteringIn(g, under'[cpu], p) <=> Registering(cpu, p)
  BY <1>1, <1>3, GateFrames DEF Gates
<1>5. cpu = Boot => proc_idle = Null
  BY <1>2 DEF WantIF, ListInv, BootOK
<1>6. QueuesOK' /\ RunningOK' /\ RegisterOK' /\ BootOK'
  BY <1>1, <1>3, <1>4, <1>5, LocalList DEF GoingToSleep, SchedPcs
<1>7. TimeOK'
  BY <1>1, <1>3, <1>4, Here, TimeAssumption
     DEF ListInv, TimeOK, TickSeen, Fn, At, Gates, SchedPcs
<1> QED
  BY <1>6, <1>7 DEF ListInv

(* A process makes the yield system call.                                  *)
LEMMA SysYieldList == ASSUME CtlInv, ListInv, SysYield PROVE ListInv'
<1> USE ProcsAssumption
<1>1. /\ cpu \in Procs /\ frame[cpu].pc = "run" /\ EnterGate("sys_yield", "getf")
      /\ UNCHANGED <<cpu, it, pit_systime_msec, proc_current, proc_idle,
                     ready_q, waiting_q, state, time_end>>
  BY DEF SysYield, InProcessCode, At, qvars, pvars
<1>2. Fn \notin Gates /\ frame[cpu].pc \notin SchedPcs
  BY <1>1, Here DEF LegalAt, Fn, Gates, LockPcs, SchedPcs
<1>3. PICK g : /\ frame' = [frame EXCEPT ![cpu] = g]
               /\ frame'[cpu] = g
               /\ g.fn = "sys_yield" /\ g.pc = "getf"
               /\ g # NoFrame
               /\ \A t \in Threads : t # cpu => under'[t] = under[t]
               /\ \A p \in Procs :
                    RegisteringIn(g, under'[cpu], p) <=> Registering(cpu, p)
  BY <1>1, <1>2, GateFrames DEF Gates
<1>4. QueuesOK' /\ RunningOK' /\ RegisterOK' /\ BootOK'
  BY <1>1, <1>2, <1>3, LocalList DEF GoingToSleep, SchedPcs
<1>5. TimeOK'
  BY <1>1, <1>2, <1>3 DEF ListInv, TimeOK, TickSeen, Fn, At, Gates, SchedPcs
<1> QED
  BY <1>4, <1>5 DEF ListInv

(* iretd goes back to the frame below.                                     *)
LEMMA IretList == ASSUME CtlInv, ListInv, Iret PROVE ListInv'
<1> USE ProcsAssumption
<1>1. /\ frame[cpu].pc = "iret"
      /\ UNCHANGED <<cpu, it, pit_systime_msec, proc_current, proc_idle,
                     ready_q, waiting_q, state, time_end>>
  BY DEF Iret, qvars, pvars, At
<1>2. PICK u : u = under[cpu]
  OBVIOUS
<1>3. PICK g : g = MkFrame(u.fn, u.pc, u.arg, u.flags)
  OBVIOUS
<1>4. /\ frame' = [frame EXCEPT ![cpu] = g] /\ frame'[cpu] = g
      /\ g.fn = u.fn /\ g.pc = u.pc /\ g.arg = u.arg
  BY <1>2, <1>3, FrameAfter DEF Iret, MkFrame
<1>5. Fn \in Gates
  BY <1>1, Here DEF LegalAt, Fn, Gates, LockPcs, SchedPcs
<1>6. LegalAt(cpu, u) /\ WantIF(cpu, u)
  BY <1>2, <1>5, Here DEF UnderAt, Fn
<1>7. g.fn \notin Gates /\ g.pc \in {"run", "getf", "cli"} /\ (cpu = Boot => g.pc = "run")
  BY <1>4, <1>6 DEF LegalAt, WantIF, Gates, LockPcs, SchedPcs
<1>8. g # NoFrame
  <2>1. NoFrame.pc = "none"
    BY DEF NoFrame, MkFrame
  <2> QED
    BY <1>7, <2>1
<1>9. \A t \in Threads : t # cpu => under'[t] = under[t]
  BY Here DEF Iret
<1>10. \A p \in Procs : RegisteringIn(g, under'[cpu], p) <=> Registering(cpu, p)
  BY <1>1, <1>2, <1>4, <1>5, <1>7 DEF Registering, RegisteringIn, Registers, Fn, Gates
<1>11. cpu = Boot => proc_idle = Null
  <2>1. cpu = Boot => Fn = "irq"
    BY <1>1, Here DEF LegalAt, Fn, LockPcs, SchedPcs
  <2> QED
    BY <2>1 DEF ListInv, BootOK
<1>12. QueuesOK' /\ RunningOK' /\ RegisterOK' /\ BootOK'
  BY <1>1, <1>4, <1>5, <1>7, <1>8, <1>9, <1>10, <1>11, LocalList
     DEF GoingToSleep, SchedPcs, Gates
<1>13. TimeOK'
  BY <1>1, <1>4, <1>7 DEF ListInv, TimeOK, TickSeen, Fn, At, Gates
<1> QED
  BY <1>12, <1>13 DEF ListInv

(* The PIT raises its line.                                                *)
LEMMA PitFireList == ASSUME CtlInv, ListInv, PitFire \/ UNCHANGED vars PROVE ListInv'
<1>1. UNCHANGED <<cpu, frame, under, it, pit_systime_msec, proc_current, proc_idle,
                  ready_q, waiting_q, state, time_end>>
  BY DEF PitFire, vars, qvars, pvars
<1> QED
  BY <1>1 DEF ListInv, QueuesOK, RunningOK, RegisterOK, BootOK, TimeOK, Registered,
              Registering, GoingToSleep, TickSeen, Fn, At

-----------------------------------------------------------------------------
(* Steps that change the lists.                                            *)

(* The types of what proc.c keeps, at the lists.                           *)
LEMMA ListTypes ==
    ASSUME CtlInv
    PROVE  /\ ready_q \in Seq(Procs) /\ waiting_q \in Seq(Procs)
           /\ state \in [Procs \cup {Idle} -> States]
           /\ time_end \in [Procs \cup {Idle} -> 0 .. TimeMod - 1]
           /\ ToSet(ready_q) \subseteq Procs /\ ToSet(waiting_q) \subseteq Procs
           /\ it \in Nat \ {0}
           /\ Null \notin Procs /\ Idle \notin Procs /\ Idle # Null
<1>1. ready_q \in Seq(Procs) /\ waiting_q \in Seq(Procs)
  BY DEF CtlInv, TypeOK
<1>2. ToSet(ready_q) \subseteq Procs /\ ToSet(waiting_q) \subseteq Procs
  BY <1>1, InList
<1> QED
  BY <1>1, <1>2, ProcsAssumption DEF CtlInv, TypeOK

(* proc_register puts a process on ready_q that was nowhere before.        *)
LEMMA RegisterBodyList == ASSUME CtlInv, ListInv, RegisterBody PROVE ListInv'
<1> USE ProcsAssumption
<1>1. PICK p : p = frame[cpu].arg
  OBVIOUS
<1>2. /\ frame[cpu].pc = "body" /\ Fn = "proc_register" /\ Goto("release")
      /\ state' = [state EXCEPT ![p] = "READY"]
      /\ ready_q' = Cons(p, ready_q)
      /\ UNCHANGED <<cpu, under, it, pit_systime_msec, proc_current, proc_idle,
                     waiting_q, time_end>>
  BY <1>1 DEF RegisterBody, At
<1>3. PICK g : /\ frame' = [frame EXCEPT ![cpu] = g]
               /\ frame'[cpu] = g
               /\ g.fn = Fn /\ g.pc = "release" /\ g # NoFrame
  BY <1>2, GotoFrame
<1>4. p \in Procs /\ cpu \in Threads
  BY <1>1, <1>2, Here DEF LegalAt, Fn
<1>5. Registering(cpu, p)
  BY <1>1, <1>2 DEF Registering, RegisteringIn, Registers, Fn
<1>6. cpu # Idle /\ state[p] = "UNINIT" /\ frame[p] # NoFrame /\ p # cpu
  BY <1>4, <1>5 DEF ListInv, RegisterOK
<1>7. /\ proc_current \in {cpu, Null}
      /\ p \notin ToSet(ready_q) \cup ToSet(waiting_q) \cup {proc_current}
  BY <1>4, <1>6, Here DEF ListInv, QueuesOK
<1>8. /\ \A r \in Procs \cup {Idle} : r # p => state'[r] = state[r]
      /\ state'[p] = "READY"
  BY <1>2, <1>4, ListTypes
<1>9. ToSet(ready_q') = ToSet(ready_q) \cup {p}
  <2>1. ready_q \in Seq(Procs)
    BY ListTypes
  <2>2. ToSet(Cons(p, ready_q)) = ToSet(ready_q) \cup {p}
    BY <1>4, <2>1, ConsList
  <2> QED
    BY <1>2, <2>2
<1>10. QueuesOK'
  <2>1. IsInjective(ready_q')
    BY <1>2, <1>4, <1>7, ListTypes, ConsList DEF ListInv, QueuesOK
  <2>2. Registered' = Registered \cup {p}
    BY <1>4, <1>8 DEF Registered
  <2> QED
    BY <1>2, <1>4, <1>7, <1>8, <1>9, <2>1, <2>2, ListTypes DEF ListInv, QueuesOK
<1>11. RunningOK'
  BY <1>2, <1>3, <1>6, <1>7, <1>8, <1>9, ListTypes
     DEF ListInv, RunningOK, GoingToSleep, Fn, SchedPcs
<1>12. RegisterOK'
  <2>0. /\ \A t \in Threads : t # cpu => frame'[t] = frame[t]
        /\ \A r \in Procs : r \in Threads
    BY <1>3, FrameAfter DEF Threads
  <2>1. \A t \in Threads, r \in Procs :
           Registering(t, r)' <=> (Registering(t, r) /\ r # p)
    <3>1. ASSUME NEW r \in Procs
          PROVE  /\ ~RegisteringIn(frame'[cpu], under'[cpu], r)
                 /\ Registering(cpu, r) => r = p
      BY <1>1, <1>2, <1>3 DEF Registering, RegisteringIn, Registers, Fn, Gates
    <3>2. ASSUME NEW t \in Threads, t # cpu, NEW r \in Procs
          PROVE  Registering(t, r)' <=> Registering(t, r)
      BY <1>2, <2>0, <3>2 DEF Registering
    <3>3. \A t \in Threads : t # cpu => ~Registering(t, p)
      BY <1>4, <1>5 DEF ListInv, RegisterOK
    <3> SUFFICES ASSUME NEW t \in Threads, NEW r \in Procs
                 PROVE  Registering(t, r)' <=> (Registering(t, r) /\ r # p)
      OBVIOUS
    <3>4. CASE t = cpu
      BY <1>2, <3>1, <3>4 DEF Registering
    <3>5. CASE t # cpu
      BY <3>2, <3>3, <3>5
    <3> QED
      BY <3>4, <3>5
  <2>2. \A r \in Procs : frame'[r] = NoFrame <=> (frame[r] = NoFrame /\ r # cpu)
    BY <1>3, <2>0
  <2> HIDE DEF Registering
  <2> QED
    BY <1>2, <1>4, <1>6, <1>8, <2>1, <2>2 DEF ListInv, RegisterOK
<1>13. BootOK'
  BY <1>2, <1>3, <1>4, <1>8 DEF ListInv, BootOK, Fn
<1>14. TimeOK'
  BY <1>2, <1>3 DEF ListInv, TimeOK, TickSeen, Fn, At
<1> QED
  BY <1>10, <1>11, <1>12, <1>13, <1>14 DEF ListInv

(* A process that calls into proc.c is on no list.                         *)
LEMMA CallerOffLists ==
    ASSUME CtlInv, ListInv, At("body"), Fn \in {"proc_sleep_msec", "proc_exit"}
    PROVE  /\ proc_current = cpu /\ cpu \in Procs
           /\ state[cpu] = "ACTIVE"
           /\ cpu \notin ToSet(ready_q) \cup ToSet(waiting_q)
<1>1. proc_current = cpu /\ cpu \in Procs
  BY CurrentInBody
<1>2. state[cpu] = "ACTIVE" /\ cpu \notin ToSet(ready_q)
  BY <1>1 DEF ListInv, RunningOK, GoingToSleep, At, SchedPcs
<1> QED
  BY <1>1, <1>2 DEF ListInv, QueuesOK

(* proc_sleep_msec puts its caller on waiting_q, with a deadline ahead.    *)
LEMMA SleepBodyList == ASSUME NoWrap, CtlInv, ListInv, SleepBody PROVE ListInv'
<1> USE ProcsAssumption
<1>1. /\ frame[cpu].pc = "body" /\ Fn = "proc_sleep_msec" /\ Goto("wake")
      /\ state' = [state EXCEPT ![proc_current] = "SLEEP"]
      /\ waiting_q' = Cons(proc_current, waiting_q)
      /\ it' = 1
      /\ UNCHANGED <<cpu, under, pit_systime_msec, proc_current, proc_idle, ready_q>>
  BY DEF SleepBody, At
<1>2. PICK msec \in SleepArgs :
         time_end' = [time_end EXCEPT ![proc_current] = Add32(pit_systime_msec, msec)]
  BY DEF SleepBody
<1>3. PICK g : /\ frame' = [frame EXCEPT ![cpu] = g]
               /\ frame'[cpu] = g
               /\ g.fn = Fn /\ g.pc = "wake" /\ g # NoFrame
  BY <1>1, GotoFrame
<1>4. /\ proc_current = cpu /\ cpu \in Procs
      /\ state[cpu] = "ACTIVE"
      /\ cpu \notin ToSet(ready_q) \cup ToSet(waiting_q)
  BY <1>1, CallerOffLists DEF At
<1>5. pit_systime_msec < Add32(pit_systime_msec, msec)
  <2>1. pit_systime_msec <= MaxTick /\ pit_systime_msec \in Nat
    BY Here DEF ListInv, TimeOK
  <2>2. msec \in Nat /\ msec > 0 /\ MaxTick + msec < TimeMod
    BY <1>2, TimeAssumption DEF NoWrap
  <2> QED
    BY <2>1, <2>2, TimeAssumption DEF Add32
<1>6. /\ \A r \in Procs : r # cpu => (state'[r] = state[r] /\ time_end'[r] = time_end[r])
      /\ state'[cpu] = "SLEEP" /\ pit_systime_msec < time_end'[cpu]
      /\ state'[Idle] = state[Idle]
  BY <1>1, <1>2, <1>4, <1>5, ListTypes
<1>7. ToSet(waiting_q') = ToSet(waiting_q) \cup {cpu}
  <2>1. waiting_q \in Seq(Procs) /\ cpu \in Procs
    BY <1>4, ListTypes
  <2>2. ToSet(Cons(cpu, waiting_q)) = ToSet(waiting_q) \cup {cpu}
    BY <2>1, ConsList
  <2>3. waiting_q' = Cons(cpu, waiting_q)
    BY <1>1, <1>4
  <2> QED
    BY <2>2, <2>3
<1>8. QueuesOK'
  <2>1. IsInjective(waiting_q')
    BY <1>1, <1>4, ListTypes, ConsList DEF ListInv, QueuesOK
  <2>2. Registered' = Registered
    BY <1>4, <1>6 DEF Registered
  <2> QED
    BY <1>1, <1>4, <1>6, <1>7, <2>1, <2>2, ListTypes DEF ListInv, QueuesOK
<1>9. RunningOK'
  BY <1>1, <1>3, <1>4, <1>6, <1>7 DEF RunningOK, GoingToSleep, Fn, SchedPcs
<1>10. RegisterOK'
  <2>1. \A p \in Procs : RegisteringIn(g, under'[cpu], p) <=> Registering(cpu, p)
    BY <1>1, <1>3 DEF Registering, RegisteringIn, Registers, Fn, Gates
  <2> QED
    BY <1>1, <1>3, <1>6, <2>1, RegisterKept DEF ListInv
<1>11. BootOK'
  BY <1>1, <1>3, <1>4, <1>6 DEF ListInv, BootOK, Fn
<1>12. TimeOK'
  <2>1. \A i \in DOMAIN waiting_q' : ~(i < 1)
    BY <1>1, <1>4, ListTypes, ConsList
  <2> QED
    BY <1>1, <1>3, <2>1 DEF ListInv, TimeOK, Fn, At
<1> QED
  BY <1>8, <1>9, <1>10, <1>11, <1>12 DEF ListInv

(* proc_exit: the process is gone, and on no list.                         *)
LEMMA ExitBodyList == ASSUME CtlInv, ListInv, ExitBody PROVE ListInv'
<1> USE ProcsAssumption
<1>1. /\ frame[cpu].pc = "body" /\ Fn = "proc_exit" /\ Goto("wake")
      /\ state' = [state EXCEPT ![proc_current] = "UNINIT"]
      /\ proc_current' = Null /\ it' = 1
      /\ UNCHANGED <<cpu, under, pit_systime_msec, proc_idle, ready_q, waiting_q,
                     time_end>>
  BY DEF ExitBody, At, qvars
<1>2. PICK g : /\ frame' = [frame EXCEPT ![cpu] = g]
               /\ frame'[cpu] = g
               /\ g.fn = Fn /\ g.pc = "wake" /\ g # NoFrame
  BY <1>1, GotoFrame
<1>3. /\ proc_current = cpu /\ cpu \in Procs
      /\ state[cpu] = "ACTIVE"
      /\ cpu \notin ToSet(ready_q) \cup ToSet(waiting_q)
  BY <1>1, CallerOffLists DEF At
<1>4. /\ \A r \in Procs \cup {Idle} : r # cpu => state'[r] = state[r]
      /\ state'[cpu] = "UNINIT"
  BY <1>1, <1>3, ListTypes
<1>5. QueuesOK'
  <2>1. Registered' = Registered \ {cpu}
    BY <1>3, <1>4 DEF Registered
  <2> QED
    BY <1>1, <1>3, <1>4, <2>1, ListTypes DEF ListInv, QueuesOK
<1>6. RunningOK'
  BY <1>1, <1>2, <1>3, <1>4, ListTypes DEF RunningOK
<1>7. RegisterOK'
  <2>1. \A p \in Procs : RegisteringIn(g, under'[cpu], p) <=> Registering(cpu, p)
    BY <1>1, <1>2 DEF Registering, RegisteringIn, Registers, Fn, Gates
  <2> QED
    BY <1>1, <1>2, <1>4, <2>1, RegisterKept DEF ListInv
<1>8. BootOK'
  BY <1>1, <1>2, <1>3, <1>4 DEF ListInv, BootOK, Fn
<1>9. TimeOK'
  <2>1. \A i \in DOMAIN waiting_q : ~(i < 1)
    BY ListTypes
  <2> QED
    BY <1>1, <1>2, <2>1 DEF ListInv, TimeOK, Fn, At
<1> QED
  BY <1>5, <1>6, <1>7, <1>8, <1>9 DEF ListInv

(* One iteration of the loop over waiting_q.  A process that is due goes   *)
(* to ready_q; the one inside proc_sleep_msec never is.                    *)
LEMMA WakeStepList == ASSUME CtlInv, ListInv, WakeStep PROVE ListInv'
<1> USE ProcsAssumption
<1>1. /\ frame[cpu].pc = "wake" /\ it <= Len(waiting_q)
      /\ UNCHANGED <<cpu, frame, under, pit_systime_msec, proc_current, proc_idle,
                     time_end>>
  BY DEF WakeStep, At
<1>2. it \in 1 .. Len(waiting_q)
  BY <1>1, ListTypes
<1>3. PICK p : p = waiting_q[it]
  OBVIOUS
<1>4. p \in Procs /\ p \in ToSet(waiting_q) /\ state[p] = "SLEEP" /\ p \notin ToSet(ready_q)
  <2>1. waiting_q \in Seq(Procs)
    BY ListTypes
  <2>2. p \in Procs /\ p \in ToSet(waiting_q)
    BY <1>2, <1>3, <2>1, InList
  <2> QED
    BY <2>2 DEF ListInv, QueuesOK
<1>5. cpu # Boot
  <2>1. waiting_q # <<>>
    BY <1>2
  <2> QED
    BY <2>1 DEF ListInv, RunningOK
<1>6. frame[cpu] # NoFrame
  BY <1>1 DEF NoFrame, MkFrame
<1>7. frame' = [frame EXCEPT ![cpu] = frame[cpu]]
  BY <1>1, Here
<1>8. CASE pit_systime_msec >= time_end[p]
  <2>1. /\ waiting_q' = RemoveAt(waiting_q, it)
        /\ state' = [state EXCEPT ![p] = "READY"]
        /\ ready_q' = Cons(p, ready_q)
        /\ it' = it
    BY <1>3, <1>8 DEF WakeStep
  <2>2. /\ \A r \in Procs \cup {Idle} : r # p => state'[r] = state[r]
        /\ state'[p] = "READY"
    BY <1>4, <2>1, ListTypes
  <2>3. ToSet(ready_q') = ToSet(ready_q) \cup {p} /\ IsInjective(ready_q')
    <3>1. ready_q \in Seq(Procs) /\ IsInjective(ready_q) /\ p \in Procs /\ p \notin ToSet(ready_q)
      BY <1>4, ListTypes DEF ListInv, QueuesOK
    <3>2. ToSet(Cons(p, ready_q)) = ToSet(ready_q) \cup {p} /\ IsInjective(Cons(p, ready_q))
      BY <3>1, ConsList
    <3> QED
      BY <2>1, <3>2
  <2>4. /\ ToSet(waiting_q') = ToSet(waiting_q) \ {p} /\ IsInjective(waiting_q')
        /\ Len(waiting_q') = Len(waiting_q) - 1 /\ waiting_q' \in Seq(Procs)
        /\ \A i \in 1 .. Len(waiting_q) - 1 : i < it => waiting_q'[i] = waiting_q[i]
    <3>1. waiting_q \in Seq(Procs) /\ IsInjective(waiting_q)
      BY ListTypes DEF ListInv, QueuesOK
    <3>2. PICK c : c = RemoveAt(waiting_q, it)
      OBVIOUS
    <3>3. /\ ToSet(c) = ToSet(waiting_q) \ {p} /\ IsInjective(c)
          /\ Len(c) = Len(waiting_q) - 1 /\ c \in Seq(Procs)
          /\ \A i \in 1 .. Len(waiting_q) - 1 : i < it => c[i] = waiting_q[i]
      BY <1>2, <1>3, <3>1, <3>2, RemoveAtList, SMTT(20)
    <3> QED
      BY <2>1, <3>2, <3>3
  <2>5. QueuesOK'
    <3>1. Registered' = Registered
      BY <1>4, <2>2 DEF Registered
    <3> QED
      BY <1>1, <1>4, <2>2, <2>3, <2>4, <3>1, ListTypes DEF ListInv, QueuesOK
  <2>6. proc_current \in Procs => p # proc_current
    BY <1>4, <1>8, Here, ListTypes, TimeAssumption DEF ListInv, RunningOK
  <2>7. RunningOK'
    BY <1>1, <1>4, <1>5, <2>2, <2>3, <2>4, <2>6
       DEF ListInv, RunningOK, GoingToSleep, Fn, SchedPcs
  <2>8. RegisterOK'
    <3>1. \A r \in Procs : RegisteringIn(frame[cpu], under'[cpu], r) <=> Registering(cpu, r)
      BY <1>1 DEF Registering
    <3>2. \A r \in Procs : r # cpu => (state'[r] = "UNINIT" <=> state[r] = "UNINIT")
      BY <1>4, <2>2
    <3> QED
      BY <1>1, <1>6, <1>7, <3>1, <3>2, RegisterKept DEF ListInv
  <2>9. BootOK'
    BY <1>1, <1>4, <2>2 DEF ListInv, BootOK, Fn
  <2>10. TimeOK'
    <3>1. \A i \in DOMAIN waiting_q' :
             i \in DOMAIN waiting_q /\ (i < it => waiting_q'[i] = waiting_q[i])
      <4>1. waiting_q \in Seq(Procs)
        BY ListTypes
      <4>2. DOMAIN waiting_q' = 1 .. Len(waiting_q) - 1
        BY <2>4, <4>1
      <4>3. \A i \in 1 .. Len(waiting_q) - 1 : i \in DOMAIN waiting_q
        BY <4>1
      <4> QED
        BY <2>4, <4>2, <4>3
    <3>2. \A i \in DOMAIN waiting_q : i < it => pit_systime_msec < time_end[waiting_q[i]]
      BY <1>1 DEF ListInv, TimeOK, TickSeen, Fn, At
    <3>3. \A i \in DOMAIN waiting_q' : i < it => pit_systime_msec < time_end[waiting_q'[i]]
      BY <3>1, <3>2
    <3>4. pit_systime_msec <= MaxTick /\ (At("handle") => pit_systime_msec < MaxTick)
      BY DEF ListInv, TimeOK
    <3> QED
      BY <1>1, <2>1, <3>3, <3>4 DEF TimeOK, At
  <2> QED
    BY <2>5, <2>7, <2>8, <2>9, <2>10 DEF ListInv
<1>9. CASE ~(pit_systime_msec >= time_end[p])
  <2>1. it' = it + 1 /\ UNCHANGED <<ready_q, waiting_q, state>>
    BY <1>3, <1>9 DEF WakeStep, qvars
  <2>2. pit_systime_msec < time_end[p]
    BY <1>4, <1>9, Here, ListTypes, TimeAssumption
  <2>3. QueuesOK' /\ RunningOK' /\ BootOK'
    BY <1>1, <2>1
       DEF ListInv, QueuesOK, Registered, RunningOK, BootOK, GoingToSleep, Fn, SchedPcs
  <2>4. RegisterOK'
    BY <1>1, <2>1 DEF ListInv, RegisterOK, Registering
  <2>5. TimeOK'
    <3>1. \A i \in DOMAIN waiting_q : i < it + 1 => (i < it \/ i = it)
      BY <1>2, ListTypes
    <3> QED
      BY <1>1, <1>3, <2>1, <2>2, <3>1 DEF ListInv, TimeOK, TickSeen, Fn, At
  <2> QED
    BY <2>3, <2>4, <2>5 DEF ListInv
<1> QED
  BY <1>8, <1>9

(* proc_create takes a free block and proc_register is called on it.       *)
LEMMA CreateList ==
    ASSUME CtlInv, ListInv, NEW p \in Procs, CreateAndRegister(p),
           frame[cpu].pc = "reg" \/ (frame[cpu].pc = "run" /\ cpu \in Procs)
    PROVE  ListInv'
<1> USE ProcsAssumption
<1>1. /\ frame[p] = NoFrame
      /\ UNCHANGED <<cpu, under, it, pit_systime_msec, proc_current, proc_idle,
                     ready_q, waiting_q, state, time_end>>
  BY DEF CreateAndRegister, qvars, pvars
<1>2. /\ Fn \in {"entry", "kernel_enter"} /\ cpu \in Threads /\ cpu # Idle
      /\ frame[cpu].pc = "reg" => cpu = Boot
  BY Here DEF LegalAt, Fn, LockPcs, SchedPcs
<1>3. p # cpu /\ p \in Threads
  <2>1. NoFrame.pc = "none"
    BY DEF NoFrame, MkFrame
  <2> QED
    BY <1>1, <2>1 DEF Threads
<1>4. PICK g : g = MkFrame("proc_register", "getf", p, FALSE)
  OBVIOUS
<1>5. g.fn = "proc_register" /\ g.pc = "getf" /\ g.arg = p
  BY <1>4 DEF MkFrame
<1>6. NewFrame.fn = "startup" /\ NewFrame # NoFrame /\ NoFrame.fn = "none"
  BY DEF NewFrame, NoFrame, MkFrame
<1>7. /\ frame'[cpu] = g /\ frame'[p] = NewFrame
      /\ \A t \in Threads : (t # cpu /\ t # p) => frame'[t] = frame[t]
  BY <1>3, <1>4, Here DEF CreateAndRegister
<1>8. QueuesOK'
  BY <1>1, QueuesKept DEF ListInv
<1>9. RunningOK'
  BY <1>1, <1>2, <1>5, <1>7 DEF ListInv, RunningOK, GoingToSleep, Fn, SchedPcs
<1>10. RegisterOK'
  <2>1. \A t \in Threads, r \in Procs :
          Registering(t, r)' <=> (Registering(t, r) \/ (t = cpu /\ r = p))
    <3> SUFFICES ASSUME NEW t \in Threads, NEW r \in Procs
                 PROVE  Registering(t, r)' <=> (Registering(t, r) \/ (t = cpu /\ r = p))
      OBVIOUS
    <3>1. CASE t = cpu
      BY <1>1, <1>2, <1>5, <1>7, <3>1
         DEF Registering, RegisteringIn, Registers, Fn, Gates
    <3>2. CASE t = p
      BY <1>1, <1>3, <1>6, <1>7, <3>2 DEF Registering, RegisteringIn, Registers, Gates
    <3>3. CASE t # cpu /\ t # p
      BY <1>1, <1>7, <3>3 DEF Registering
    <3> QED
      BY <3>1, <3>2, <3>3
  <2>2. state[p] = "UNINIT"
    BY <1>1 DEF ListInv, RegisterOK
  <2>3. \A t \in Threads : ~Registering(t, p)
    BY <1>1 DEF ListInv, RegisterOK
  <2>4. g # NoFrame
    BY <1>5, <1>6
  <2>5. \A r \in Procs : frame'[r] = NoFrame => (frame[r] = NoFrame /\ r # p /\ r # cpu)
    BY <1>6, <1>7, <2>4 DEF Threads
  <2>6. \A r \in Procs : (frame[r] = NoFrame /\ r # p /\ r # cpu) => frame'[r] = NoFrame
    BY <1>7 DEF Threads
  <2> HIDE DEF Registering
  <2> QED
    BY <1>1, <1>2, <1>3, <2>1, <2>2, <2>3, <2>5, <2>6 DEF ListInv, RegisterOK
<1>11. BootOK'
  BY <1>1, <1>5, <1>7 DEF ListInv, BootOK, Fn
<1>12. TimeOK'
  BY <1>1, <1>2, <1>5, <1>7 DEF ListInv, TimeOK, TickSeen, Fn, At
<1> QED
  BY <1>8, <1>9, <1>10, <1>11, <1>12 DEF ListInv

(* proc_init_scheduler makes the idle process, on no list.                 *)
LEMMA BootInitSchedulerList ==
    ASSUME CtlInv, ListInv, BootInitScheduler
    PROVE  ListInv'
<1> USE ProcsAssumption
<1>1. /\ frame[cpu].pc = "init"
      /\ proc_idle' = Idle
      /\ state' = [state EXCEPT ![Idle] = "IDLE"]
      /\ UNCHANGED <<cpu, under, it, pit_systime_msec, proc_current,
                     ready_q, waiting_q, time_end>>
  BY DEF BootInitScheduler, qvars, At
<1>2. cpu = Boot /\ Fn = "kernel_enter"
  BY <1>1, Here DEF LegalAt, Fn, LockPcs, SchedPcs
<1>3. PICK g : g = MkFrame("kernel_enter", "reg", Null, FALSE)
  OBVIOUS
<1>4. g.fn = "kernel_enter" /\ g.pc = "reg"
  BY <1>3 DEF MkFrame
<1>5. NewFrame.fn = "startup" /\ NewFrame.pc = "release"
  BY DEF NewFrame, MkFrame
<1>6. /\ frame'[cpu] = g /\ frame'[Idle] = NewFrame
      /\ \A t \in Threads : (t # cpu /\ t # Idle) => frame'[t] = frame[t]
  BY <1>2, <1>3, Here DEF BootInitScheduler, Threads
<1>7. /\ \A r \in Procs : state'[r] = state[r] /\ frame'[r] = frame[r]
      /\ state'[Idle] = "IDLE"
  BY <1>1, <1>2, <1>6, ListTypes DEF Threads
<1>8. QueuesOK'
  BY <1>1, <1>7, ListTypes DEF ListInv, QueuesOK, Registered
<1>9. RunningOK'
  BY <1>1, <1>2, <1>4, <1>6, <1>7, Here DEF ListInv, RunningOK, GoingToSleep, Fn, SchedPcs
<1>10. RegisterOK'
  <2>1. frame[Idle].fn \in {"none", "startup"}
    BY <1>2 DEF CtlInv, Ctl, SuspendedOK, Threads
  <2>2. \A t \in Threads, r \in Procs : Registering(t, r)' <=> Registering(t, r)
    <3> SUFFICES ASSUME NEW t \in Threads, NEW r \in Procs
                 PROVE  Registering(t, r)' <=> Registering(t, r)
      OBVIOUS
    <3>1. CASE t = cpu
      BY <1>1, <1>2, <1>4, <1>6, <3>1
         DEF Registering, RegisteringIn, Registers, Fn, Gates
    <3>2. CASE t = Idle
      BY <1>1, <1>5, <1>6, <2>1, <3>2 DEF Registering, RegisteringIn, Registers, Gates
    <3>3. CASE t # cpu /\ t # Idle
      BY <1>1, <1>6, <3>3 DEF Registering
    <3> QED
      BY <3>1, <3>2, <3>3
  <2> HIDE DEF Registering
  <2> QED
    BY <1>1, <1>7, <2>2 DEF ListInv, RegisterOK
<1>11. BootOK'
  BY <1>1, <1>4, <1>6, <1>7 DEF ListInv, BootOK, Fn, SchedPcs
<1>12. TimeOK'
  BY <1>1, <1>2, <1>4, <1>6 DEF ListInv, TimeOK, TickSeen, Fn, At
<1> QED
  BY <1>8, <1>9, <1>10, <1>11, <1>12 DEF ListInv

-----------------------------------------------------------------------------
(* The end of proc_schedule.                                               *)

(* The current process is on waiting_q only inside proc_sleep_msec.        *)
LEMMA CurrentState ==
    ASSUME CtlInv, ListInv, proc_current \in Procs
    PROVE  /\ GoingToSleep => (state[proc_current] = "SLEEP" /\ proc_current \in ToSet(waiting_q))
           /\ ~GoingToSleep => state[proc_current] = "ACTIVE"
BY DEF ListInv, RunningOK, QueuesOK

(* In proc_sleep_msec there is a current process and an idle one.          *)
LEMMA SleeperState ==
    ASSUME CtlInv, IdleOK, ListInv, GoingToSleep
    PROVE  /\ proc_current = cpu /\ cpu \in Procs
           /\ state[proc_current] = "SLEEP"
           /\ proc_idle # Null
<1>1. cpu \in Procs /\ proc_current = cpu
  BY Here, ProcsAssumption DEF LegalAt, GoingToSleep, Fn, SchedPcs, CtlInv, Ctl, CurrentOK
<1>2. state[proc_current] = "SLEEP"
  BY <1>1, CurrentState
<1> QED
  BY <1>1, <1>2, ProcsAssumption DEF IdleOK

(* proc_schedule returns to its caller, which was not about to sleep.      *)
LEMMA PickReturnList ==
    ASSUME CtlInv, ListInv, At("pick"), PickReturn, ~GoingToSleep,
           proc_current = Idle => ready_q = <<>>,
           UNCHANGED <<under, it, pit_systime_msec, proc_idle, ready_q, waiting_q, state>>
    PROVE  ListInv'
<1> USE ProcsAssumption
<1>1. /\ frame[cpu].pc = "pick" /\ Goto(SchedReturn)
      /\ SchedReturn \in {"end", "release"}
      /\ UNCHANGED <<cpu, proc_current, time_end>>
  BY DEF PickReturn, At, SchedReturn
<1>2. PICK g : /\ frame' = [frame EXCEPT ![cpu] = g]
               /\ frame'[cpu] = g
               /\ g.fn = Fn /\ g.pc \in {"end", "release"} /\ g # NoFrame
  BY <1>1, GotoFrame
<1>3. Fn # "proc_register"
  BY <1>1, Here DEF LegalAt, Fn, LockPcs, SchedPcs
<1>4. \A p \in Procs : RegisteringIn(g, under'[cpu], p) <=> Registering(cpu, p)
  BY <1>1, <1>2, <1>3 DEF Registering, RegisteringIn, Registers, Fn, Gates
<1>5. (cpu = Boot /\ Fn = "irq") => proc_idle = Null
  BY DEF ListInv, BootOK
<1>6. QueuesOK' /\ RunningOK' /\ RegisterOK' /\ BootOK'
  BY <1>1, <1>2, <1>4, <1>5, LocalList DEF SchedPcs
<1>7. TimeOK'
  BY <1>1, <1>2 DEF ListInv, TimeOK, TickSeen, Fn, At
<1> QED
  BY <1>6, <1>7 DEF ListInv

(* proc_switch, up to the lists: the stack that is left belongs to a       *)
(* process that goes on later or has exited, and the one that is switched  *)
(* to is at its proc_release.                                              *)
LEMMA SwitchList ==
    ASSUME CtlInv, IdleOK, ListInv, At("pick"), NEW next \in Procs \cup {Idle},
           ProcSwitch(next), proc_idle # Null, next # cpu,
           next \in Procs => (state[next] \in {"READY", "ACTIVE"} /\ state'[next] = "ACTIVE"
                                /\ next \notin ToSet(ready_q')),
           next = Idle => ready_q' = <<>>,
           \A r \in Procs \cup {Idle} : r # next => state'[r] = state[r],
           state'[Idle] = state[Idle],
           UNCHANGED <<under, it, pit_systime_msec, proc_idle, waiting_q>>
    PROVE  RunningOK' /\ RegisterOK' /\ BootOK' /\ TimeOK'
<1> USE ProcsAssumption
<1>1. /\ cpu' = next /\ proc_current' = next
      /\ time_end' = [time_end EXCEPT ![next] = Add32(pit_systime_msec, SLICE)]
  BY DEF ProcSwitch
<1>2. /\ frame[next].pc \in {"none", "release"} /\ LegalAt(next, frame[next])
      /\ next \in Threads /\ next # Boot /\ frame[cpu].pc = "pick"
      /\ frame[next].fn # "kernel_enter"
  BY DEF CtlInv, Ctl, SuspendedOK, FramesOK, LegalAt, Threads, At, LockPcs, SchedPcs
<1>3. PICK g : g = IF proc_current = Null THEN NoFrame
                   ELSE Pushed(frame[cpu], SchedReturn)
  OBVIOUS
<1>4. frame' = [frame EXCEPT ![cpu] = g]
  BY <1>3 DEF ProcSwitch
<1>5. /\ frame'[cpu] = g
      /\ \A t \in Threads : t # cpu => frame'[t] = frame[t]
  BY <1>4, FrameAfter
<1>6. /\ proc_current = Null => g = NoFrame
      /\ proc_current # Null => (g.fn = Fn /\ g.pc \in {"end", "release"})
      /\ NoFrame.fn = "none"
  BY <1>3 DEF Pushed, SchedReturn, NoFrame, MkFrame, Fn
<1>7. RunningOK'
  BY <1>1, <1>2, <1>5 DEF RunningOK, GoingToSleep, Fn, SchedPcs
<1>8. BootOK'
  BY <1>1, <1>2, <1>5 DEF ListInv, BootOK, Fn
<1>9. TimeOK'
  <2>1. \A i \in DOMAIN waiting_q : pit_systime_msec < time_end[waiting_q[i]]
    BY <1>2 DEF ListInv, TimeOK, TickSeen, Fn, At
  <2>2. \A i \in DOMAIN waiting_q : waiting_q[i] \in Procs /\ waiting_q[i] # next
    BY ListTypes DEF ListInv, QueuesOK, ToSet
  <2>3. \A i \in DOMAIN waiting_q : time_end'[waiting_q[i]] = time_end[waiting_q[i]]
    BY <1>1, <2>2, ListTypes
  <2>4. pit_systime_msec <= MaxTick
    BY DEF ListInv, TimeOK
  <2> QED
    BY <1>1, <1>2, <1>5, <2>1, <2>3, <2>4 DEF TimeOK, At
<1>10. RegisterOK'
  <2>1. Fn # "proc_register"
    BY <1>2, Here DEF LegalAt, Fn, LockPcs, SchedPcs
  <2>2. proc_current = Null => Fn \notin Gates
    <3>1. cpu = Boot => Fn # "irq"
      BY DEF ListInv, BootOK
    <3>2. (proc_current = Null /\ cpu # Boot) => Fn = "proc_exit"
      BY DEF CtlInv, Ctl, CurrentOK
    <3>3. cpu = Boot => Fn # "sys_yield"
      BY Here DEF LegalAt, Fn, LockPcs, SchedPcs
    <3> QED
      BY <3>1, <3>2, <3>3 DEF Gates
  <2>3. \A t \in Threads, r \in Procs : Registering(t, r)' <=> Registering(t, r)
    <3> SUFFICES ASSUME NEW t \in Threads, NEW r \in Procs
                 PROVE  Registering(t, r)' <=> Registering(t, r)
      OBVIOUS
    <3>1. CASE t = cpu
      BY <1>2, <1>5, <1>6, <2>1, <2>2, <3>1
         DEF Registering, RegisteringIn, Registers, Fn, Gates
    <3>2. CASE t # cpu
      BY <1>5, <3>2 DEF Registering
    <3> QED
      BY <3>1, <3>2
  <2>4. \A r \in Procs : state'[r] = "UNINIT" <=> state[r] = "UNINIT"
    OBVIOUS
  <2>5. \A r \in Procs : r # cpu => frame'[r] = frame[r]
    BY <1>5 DEF Threads
  <2>6. (proc_current = Null /\ cpu \in Procs) => state[cpu] = "UNINIT"
    BY DEF ListInv, RunningOK
  <2>7. (proc_current # Null /\ cpu \in Procs) => state[cpu] # "UNINIT"
    BY Here, CurrentState
  <2>8. (proc_current # Null) => g # NoFrame
    BY <1>6, <1>2, Here DEF LegalAt, Fn
  <2> HIDE DEF Registering
  <2>9. ASSUME NEW t \in Threads, NEW r \in Procs, Registering(t, r)'
        PROVE  t # Idle /\ state'[r] = "UNINIT" /\ frame'[r] # NoFrame /\ r # cpu'
    BY <1>1, <2>3, <2>4, <2>5, <2>9 DEF ListInv, RegisterOK
  <2>10. ASSUME NEW t \in Threads, NEW q \in Threads, NEW r \in Procs,
                Registering(t, r)', Registering(q, r)'
         PROVE  t = q
    BY <2>3, <2>10 DEF ListInv, RegisterOK
  <2>11. ASSUME NEW r \in Procs, frame'[r] = NoFrame PROVE state'[r] = "UNINIT"
    <3>1. CASE r = cpu
      BY <1>5, <2>4, <2>6, <2>8, <2>11, <3>1
    <3>2. CASE r # cpu
      BY <2>4, <2>5, <2>11, <3>2 DEF ListInv, RegisterOK
    <3> QED
      BY <3>1, <3>2
  <2>12. ASSUME NEW r \in Procs, frame'[r] # NoFrame, state'[r] = "UNINIT"
         PROVE  \E t \in Threads : Registering(t, r)'
    <3>1. r # cpu
      BY <1>5, <1>6, <2>4, <2>7, <2>12
    <3>2. \E t \in Threads : Registering(t, r)
      BY <2>4, <2>5, <2>12, <3>1 DEF ListInv, RegisterOK
    <3> QED
      BY <2>3, <3>2
  <2> QED
    BY <2>9, <2>10, <2>11, <2>12 DEF RegisterOK
<1> QED
  BY <1>7, <1>8, <1>9, <1>10

(* Nothing is ready: proc_schedule returns, or switches to the idle process*)
(* from one that sleeps or has exited.                                     *)
LEMMA PickEmptyList == ASSUME CtlInv, IdleOK, ListInv, PickEmpty PROVE ListInv'
<1> USE ProcsAssumption
<1>1. /\ At("pick") /\ ready_q = <<>>
      /\ UNCHANGED <<under, it, pit_systime_msec, proc_idle, ready_q, waiting_q, state>>
  BY DEF PickEmpty, qvars
<1>2. CASE /\ proc_current = Null \/ state[proc_current] \notin {"ACTIVE", "IDLE"}
           /\ proc_idle # Null
  <2>1. ProcSwitch(Idle) /\ proc_current' = Idle
    BY <1>2 DEF PickEmpty, ProcSwitch, CtlInv, TypeOK
  <2>2. state[Idle] = "IDLE"
    BY <1>2 DEF ListInv, BootOK
  <2>3. Idle # cpu
    <3>1. cpu = Idle => proc_current = Idle
      BY Here DEF CtlInv, Ctl, CurrentOK, LegalAt, Fn
    <3> QED
      BY <1>2, <2>2, <3>1
  <2>4. RunningOK' /\ RegisterOK' /\ BootOK' /\ TimeOK'
    BY <1>1, <1>2, <2>1, <2>3, SwitchList
  <2>5. proc_current \in Procs => proc_current \in ToSet(waiting_q)
    BY <1>2, CurrentState
  <2>6. proc_current \in Procs \cup {Idle, Null}
    BY DEF CtlInv, TypeOK
  <2>7. QueuesOK'
    BY <1>1, <2>1, <2>5, <2>6, ListTypes DEF ListInv, QueuesOK, Registered
  <2> QED
    BY <2>4, <2>7 DEF ListInv
<1>3. CASE ~(/\ proc_current = Null \/ state[proc_current] \notin {"ACTIVE", "IDLE"}
             /\ proc_idle # Null)
  <2>1. PickReturn
    BY <1>3 DEF PickEmpty
  <2>2. ~GoingToSleep
    BY <1>3, SleeperState
  <2> QED
    BY <1>1, <2>1, <2>2, PickReturnList
<1> QED
  BY <1>2, <1>3

(* A current process that is active is not on waiting_q.                   *)
LEMMA ActiveState ==
    ASSUME CtlInv, ListInv, CurrentActive
    PROVE  proc_current \in Procs /\ ~GoingToSleep /\ proc_current \notin ToSet(ready_q)
<1>1. proc_current \in Procs
  BY ProcsAssumption DEF CurrentActive, CtlInv, Ctl, TypeOK, CurrentOK
<1> QED
  BY <1>1, CurrentState DEF CurrentActive, ListInv, RunningOK

(* The current process keeps the CPU.                                      *)
LEMMA PickKeepList == ASSUME CtlInv, ListInv, PickKeep PROVE ListInv'
<1>1. /\ At("pick") /\ CurrentActive /\ PickReturn
      /\ UNCHANGED <<under, it, pit_systime_msec, proc_idle, ready_q, waiting_q, state>>
  BY DEF PickKeep, qvars
<1>2. ~GoingToSleep /\ proc_current # Idle
  BY <1>1, ActiveState, ProcsAssumption
<1> QED
  BY <1>1, <1>2, PickReturnList

(* What ready_q and the next process are when the current one gives way.   *)
LEMMA RequeuedList ==
    ASSUME CtlInv, ListInv, ready_q # <<>>
    PROVE  /\ Head(Requeued) \in ToSet(ready_q)
           /\ Tail(Requeued) \in Seq(Procs) /\ IsInjective(Tail(Requeued))
           /\ ToSet(Tail(Requeued)) =
                (ToSet(ready_q) \cup (IF CurrentActive THEN {proc_current} ELSE {}))
                  \ {Head(Requeued)}
<1>1. ready_q \in Seq(Procs) /\ IsInjective(ready_q)
  BY ListTypes DEF ListInv, QueuesOK
<1>2. CASE CurrentActive
  <2>1. proc_current \in Procs /\ proc_current \notin ToSet(ready_q)
    BY <1>2, ActiveState
  <2>2. PICK q : q = Append(ready_q, proc_current)
    OBVIOUS
  <2>3. q \in Seq(Procs) /\ IsInjective(q) /\ q # <<>> /\ ToSet(q) = ToSet(ready_q) \cup {proc_current}
    BY <1>1, <2>1, <2>2, AppendList
  <2>4. Head(q) = Head(ready_q)
    BY <1>1, <2>1, <2>2
  <2>5. Head(ready_q) \in ToSet(ready_q)
    BY <1>1, TailList
  <2>6. Tail(q) \in Seq(Procs) /\ IsInjective(Tail(q)) /\ ToSet(Tail(q)) = ToSet(q) \ {Head(q)}
    BY <2>3, TailList
  <2>7. Requeued = q
    BY <1>2, <2>2 DEF Requeued
  <2> QED
    BY <1>2, <2>3, <2>4, <2>5, <2>6, <2>7
<1>3. CASE ~CurrentActive
  <2>1. Requeued = ready_q
    BY <1>3 DEF Requeued
  <2> QED
    BY <1>1, <1>3, <2>1, TailList
<1> QED
  BY <1>2, <1>3

(* The head of ready_q is the next process, and never the current one.     *)
LEMMA PickNextSwitches ==
    ASSUME CtlInv, IdleOK, ListInv, PickNext
    PROVE  \E next \in Procs :
             /\ next = Head(Requeued)
             /\ next \in ToSet(ready_q) /\ next # cpu
             /\ state[next] \in {"READY", "ACTIVE"}
             /\ ready_q' = Tail(Requeued)
             /\ state' = [state EXCEPT ![next] = "ACTIVE"]
             /\ ProcSwitch(next)
<1> USE ProcsAssumption
<1>1. ready_q # <<>>
  BY DEF PickNext
<1>2. PICK next : next = Head(Requeued)
  OBVIOUS
<1>3. next \in ToSet(ready_q) /\ next \in Procs
  BY <1>1, <1>2, RequeuedList, ListTypes
<1>4. state[next] \in {"READY", "ACTIVE"}
  BY <1>3 DEF ListInv, QueuesOK
<1>5. next # proc_current
  BY <1>3 DEF ListInv, RunningOK
<1>6. next # cpu
  BY <1>3, <1>4, <1>5, Here DEF ListInv, RunningOK
<1> QED
  BY <1>2, <1>3, <1>4, <1>5, <1>6 DEF PickNext

(* The CPU goes to the head of ready_q.                                    *)
LEMMA PickNextList == ASSUME CtlInv, IdleOK, ListInv, PickNext PROVE ListInv'
<1> USE ProcsAssumption
<1>1. /\ At("pick") /\ ready_q # <<>>
      /\ UNCHANGED <<under, it, pit_systime_msec, proc_idle, waiting_q>>
  BY DEF PickNext
<1>2. PICK next \in Procs :
         /\ next = Head(Requeued)
         /\ next \in ToSet(ready_q) /\ next # cpu
         /\ state[next] \in {"READY", "ACTIVE"}
         /\ ready_q' = Tail(Requeued)
         /\ state' = [state EXCEPT ![next] = "ACTIVE"]
         /\ ProcSwitch(next)
  BY PickNextSwitches
<1>3. /\ \A r \in Procs \cup {Idle} : r # next => state'[r] = state[r]
      /\ state'[next] = "ACTIVE"
  BY <1>2, ListTypes
<1>4. /\ IsInjective(ready_q')
      /\ ToSet(ready_q') = (ToSet(ready_q) \cup (IF CurrentActive THEN {proc_current} ELSE {}))
                             \ {next}
  BY <1>1, <1>2, RequeuedList
<1>5. proc_idle # Null
  BY <1>1 DEF IdleOK
<1>6. RunningOK' /\ RegisterOK' /\ BootOK' /\ TimeOK'
  BY <1>1, <1>2, <1>3, <1>4, <1>5, SwitchList
<1>7. QueuesOK'
  <2>1. Registered' = Registered
    BY <1>2, <1>3 DEF Registered
  <2>2. proc_current' = next
    BY <1>2 DEF ProcSwitch
  <2>3. proc_current \in Procs \cup {Idle, Null}
    BY DEF CtlInv, TypeOK
  <2>4. (proc_current \in Procs /\ ~CurrentActive) => proc_current \in ToSet(waiting_q)
    BY CurrentState DEF CurrentActive
  <2>5. CurrentActive => (proc_current \in Procs /\ state[proc_current] = "ACTIVE")
    BY ActiveState DEF CurrentActive
  <2>6. next \notin ToSet(waiting_q)
    BY <1>2 DEF ListInv, QueuesOK
  <2>7. \A p \in ToSet(ready_q') : state'[p] \in {"READY", "ACTIVE"}
    BY <1>3, <1>4, <2>5, ListTypes DEF ListInv, QueuesOK
  <2>8. \A p \in ToSet(waiting_q') : state'[p] = "SLEEP"
    BY <1>1, <1>3, <2>6, ListTypes DEF ListInv, QueuesOK
  <2>9. Registered' = (ToSet(ready_q') \cup ToSet(waiting_q') \cup {next}) \ {Idle, Null}
    <3>1. CASE CurrentActive
      BY <1>1, <1>2, <1>4, <2>1, <2>5, <3>1, ListTypes DEF ListInv, QueuesOK
    <3>2. CASE ~CurrentActive
      BY <1>1, <1>2, <1>4, <2>1, <2>3, <2>4, <3>2, ListTypes DEF ListInv, QueuesOK
    <3> QED
      BY <3>1, <3>2
  <2>10. IsInjective(waiting_q')
    BY <1>1 DEF ListInv, QueuesOK
  <2> QED
    BY <1>4, <2>2, <2>7, <2>8, <2>9, <2>10 DEF QueuesOK
<1> QED
  BY <1>6, <1>7 DEF ListInv

-----------------------------------------------------------------------------
(* The invariant and what follows from it.                                 *)

(* Before the scheduler is initialised there is nothing on any list.       *)
LEMMA InitList == Init => ListInv
<1> SUFFICES ASSUME Init PROVE ListInv
  OBVIOUS
<1> USE ProcsAssumption
<1>1. /\ cpu = Boot /\ proc_current = Null /\ proc_idle = Null
      /\ ready_q = <<>> /\ waiting_q = <<>> /\ pit_systime_msec = 0
      /\ \A p \in Procs \cup {Idle} : state[p] = "UNINIT"
  BY DEF Init
<1>2. \A t \in Threads : t # Boot => frame[t] = NoFrame
  BY DEF Init
<1>3. frame[Boot] = MkFrame("kernel_enter", "run", Null, FALSE)
  BY DEF Init, Threads
<1>4. frame[Boot].fn = "kernel_enter" /\ frame[Boot].pc = "run" /\ NoFrame.fn = "none"
  BY <1>3 DEF MkFrame, NoFrame
<1>5. QueuesOK
  <2>1. IsInjective(ready_q) /\ IsInjective(waiting_q)
    BY <1>1 DEF IsInjective
  <2>2. ToSet(ready_q) = {} /\ ToSet(waiting_q) = {}
    BY <1>1 DEF ToSet
  <2>3. Registered = {}
    BY <1>1 DEF Registered
  <2> QED
    BY <1>1, <2>1, <2>2, <2>3 DEF QueuesOK
<1>6. RunningOK
  BY <1>1 DEF RunningOK
<1>7. RegisterOK
  <2>1. \A t \in Threads, p \in Procs : ~Registering(t, p)
    BY <1>2, <1>4 DEF Registering, RegisteringIn, Registers, Gates
  <2>2. \A p \in Procs : frame[p] = NoFrame
    BY <1>2 DEF Threads
  <2> QED
    BY <1>1, <2>1, <2>2 DEF RegisterOK
<1>8. BootOK
  BY <1>1, <1>4 DEF BootOK, SchedPcs
<1>9. TimeOK
  BY <1>1, <1>4, TimeAssumption DEF TimeOK, At
<1> QED
  BY <1>5, <1>6, <1>7, <1>8, <1>9 DEF ListInv

(* The invariant of the lists is inductive below the wrap of the clock.    *)
LEMMA NextList ==
    ASSUME NoWrap, CtlInv, IdleOK, ListInv, [Next]_vars
    PROVE  ListInv'
<1>1. CASE PitFire \/ Deliver \/ Isr \/ UNCHANGED vars
  BY <1>1, PitFireList, DeliverList, PitHandleInterruptList, LockList, IretList DEF Isr
<1>2. CASE Lock \/ Release
  BY <1>2, LockList, SetFList DEF Release
<1>3. CASE Body
  BY <1>3, RegisterBodyList, SleepBodyList, YieldBodyList, ExitBodyList, IrqBodyList DEF Body
<1>4. CASE ProcSchedule
  BY <1>4, WakeStepList, WakeDoneList, PickEmptyList, PickKeepList, PickNextList
     DEF ProcSchedule
<1>5. CASE KernelEnter
  <2>1. CASE BootRegister
    <3>1. PICK p \in BootProcs : CreateAndRegister(p)
      BY <2>1 DEF BootRegister
    <3> QED
      BY <2>1, <3>1, CreateList, ProcsAssumption DEF BootRegister, At
  <2> QED
    BY <1>5, <2>1, BootCliList, BootInitSchedulerList, BootScheduleList DEF KernelEnter
<1>6. CASE ProcStep
  <2>1. CASE ProcRegisterCall
    <3>1. PICK p \in Procs : CreateAndRegister(p)
      BY <2>1 DEF ProcRegisterCall
    <3> QED
      BY <2>1, <3>1, CreateList DEF ProcRegisterCall, InProcessCode, At
  <2> QED
    BY <1>6, <2>1, ProcCallList, SysYieldList DEF ProcStep
<1> QED
  BY <1>1, <1>2, <1>3, <1>4, <1>5, <1>6 DEF Next, KernelStep

(* The lists are what the states of the processes say, at every step of    *)
(* proc.c and not only outside its critical section.                       *)
THEOREM ListInvariant == NoWrap => (Spec => []ListInv)
<1> SUFFICES ASSUME NoWrap PROVE Spec => []ListInv
  OBVIOUS
<1>1. CtlInv /\ IdleOK /\ ListInv /\ [Next]_vars => ListInv'
  BY NextList
<1> QED
  BY <1>1, InitList, CtlInvariant, PTL DEF Spec

(* No process is lost and none is on two lists (kernel/proc.c).            *)
THEOREM ProcessesInOnePlace == NoWrap => (Spec => []OnePlace)
<1> SUFFICES ASSUME NoWrap PROVE Spec => []OnePlace
  OBVIOUS
<1>1. CtlInv /\ ListInv => OnePlace
  <2> SUFFICES ASSUME CtlInv, ListInv, ~locked PROVE OnePlace
    BY DEF OnePlace
  <2>1. ~GoingToSleep
    BY DEF CtlInv, Ctl, LockOK, GoingToSleep, HeldPcs, SchedPcs
  <2>2. ToSet(ready_q) \cap ToSet(waiting_q) = {}
    BY DEF ListInv, QueuesOK
  <2>3. proc_current \notin ToSet(ready_q) \cup ToSet(waiting_q)
    BY <2>1, ListTypes DEF ListInv, QueuesOK, RunningOK
  <2> QED
    BY <2>2, <2>3 DEF OnePlace, ListInv, QueuesOK
<1> QED
  BY <1>1, ListInvariant, CtlInvariant, PTL

(* proc.c switches to the idle process, and stays in it, only while every  *)
(* process sleeps.                                                         *)
THEOREM IdleWhenBlocked == NoWrap => (Spec => []IdleOnlyWhenBlocked)
<1> SUFFICES ASSUME NoWrap PROVE Spec => []IdleOnlyWhenBlocked
  OBVIOUS
<1>1. CtlInv /\ ListInv => IdleOnlyWhenBlocked
  <2> SUFFICES ASSUME CtlInv, ListInv, ~locked, proc_current = Idle,
                      NEW p \in Registered
               PROVE  state[p] = "SLEEP"
    BY DEF IdleOnlyWhenBlocked
  <2>1. cpu = Idle
    BY Here, ProcsAssumption
  <2>2. frame[cpu].pc \notin SchedPcs
    BY <2>1, Here, ProcsAssumption
       DEF CtlInv, Ctl, LockOK, HeldPcs, SchedPcs, LegalAt, Fn, LockPcs
  <2>3. ToSet(ready_q) = {}
    BY <2>2 DEF ListInv, RunningOK, ToSet
  <2>4. p \in ToSet(waiting_q)
    BY <2>3 DEF ListInv, QueuesOK
  <2> QED
    BY <2>4 DEF ListInv, QueuesOK
<1> QED
  BY <1>1, ListInvariant, CtlInvariant, PTL

(* The boot stack is left only by the proc_schedule that ends kernel_enter,*)
(* with every process it created registered (kernel.c).                    *)
THEOREM BootAlwaysCompletes == NoWrap => (Spec => BootCompletes)
<1> SUFFICES ASSUME NoWrap PROVE Spec => BootCompletes
  OBVIOUS
<1>1. ASSUME CtlInv, IdleOK, ListInv, [Next]_vars, cpu = Boot, cpu' # Boot
      PROVE  BootProcs \subseteq Registered
  <2>1. PickEmpty \/ PickNext
    BY <1>1 DEF Next, KernelStep, ProcStep, PitFire, Deliver, Isr, PitHandleInterrupt,
                Eoi, Iret, Lock, GetF, Cli, SpinlockLock, Release, SpinlockRelease,
                SetF, Body, RegisterBody, SleepBody, YieldBody, ExitBody, IrqBody,
                ProcSchedule, WakeStep, WakeDone, PickKeep, PickReturn, KernelEnter,
                BootCli, BootInitScheduler, BootRegister, BootSchedule,
                CreateAndRegister, ProcCall, ProcRegisterCall, SysYield, vars
  <2>2. frame[cpu].pc = "pick"
    BY <2>1 DEF PickEmpty, PickNext, At
  <2>3. Fn # "irq"
    <3> SUFFICES ASSUME Fn = "irq" PROVE FALSE
      OBVIOUS
    <3>1. proc_idle = Null /\ ready_q = <<>>
      BY <1>1 DEF ListInv, BootOK, IdleOK
    <3> QED
      BY <1>1, <2>1, <3>1 DEF PickEmpty, PickNext, PickReturn
  <2>4. Fn = "kernel_enter"
    BY <1>1, <2>2, <2>3, Here, ProcsAssumption DEF LegalAt, Fn, LockPcs, SchedPcs
  <2>5. \A t \in Threads, p \in Procs : ~Registering(t, p)
    <3> SUFFICES ASSUME NEW t \in Threads, NEW p \in Procs PROVE ~Registering(t, p)
      OBVIOUS
    <3>1. frame[t].fn \in {"none", "startup", "kernel_enter"}
      BY <1>1, <2>4 DEF CtlInv, Ctl, SuspendedOK, Fn
    <3> QED
      BY <3>1 DEF Registering, RegisteringIn, Registers, Gates
  <2>6. \A p \in BootProcs : frame[p] # NoFrame /\ p \in Procs /\ p # cpu
    BY <1>1, <2>2, <2>4, ProcsAssumption DEF ListInv, BootOK, SchedPcs
  <2> QED
    BY <1>1, <2>5, <2>6 DEF ListInv, RegisterOK, Registered
<1>2. CtlInv /\ IdleOK /\ ListInv /\ [Next]_vars =>
        [cpu = Boot /\ cpu' # Boot => BootProcs \subseteq Registered]_vars
  BY <1>1
<1> QED
  BY <1>2, ListInvariant, CtlInvariant, PTL DEF Spec, BootCompletes

(* The slice of the process the tick handler returns to.                   *)
LEMMA NextSlice ==
    ASSUME NoWrap, SLICE > 0, CtlInv, IdleOK, ListInv, SliceOK, [Next]_vars
    PROVE  SliceOK'
<1> USE ProcsAssumption
<1> DEFINE Tailing == {"release", "setf", "iret"}
<1>1. pit_systime_msec < Add32(pit_systime_msec, SLICE)
  <2>1. pit_systime_msec \in Nat /\ pit_systime_msec <= MaxTick
    BY Here DEF ListInv, TimeOK
  <2> QED
    BY <2>1, TimeAssumption DEF NoWrap, Add32
<1>2. ASSUME NEW next \in Procs \cup {Idle}, ProcSwitch(next), UNCHANGED pit_systime_msec
      PROVE  SliceOK'
  BY <1>1, <1>2, ListTypes DEF ProcSwitch, SliceOK
<1>3. CASE PickEmpty
  <2>1. ready_q' = <<>>
    BY <1>3 DEF PickEmpty, qvars
  <2> QED
    BY <2>1 DEF SliceOK
<1>4. CASE PickKeep
  <2>1. /\ SliceLeft /\ CurrentActive /\ Goto(SchedReturn)
        /\ UNCHANGED <<cpu, proc_current, time_end, pit_systime_msec, ready_q>>
    BY <1>4 DEF PickKeep, PickReturn, qvars
  <2>2. proc_current = cpu
    BY <2>1, Here DEF CurrentActive
  <2> QED
    BY <2>1, <2>2 DEF SliceLeft, SliceOK
<1>5. CASE PickNext
  BY <1>2, <1>5, PickNextSwitches DEF PickNext
<1>6. CASE SpinlockRelease \/ SetF
  <2>1. UNCHANGED <<cpu, ready_q, pit_systime_msec, time_end>>
    BY <1>6 DEF SpinlockRelease, SetF, qvars, pvars
  <2>2. frame[cpu].pc \in {"release", "setf"} /\ (frame'[cpu].fn = "irq" => Fn = "irq")
    <3>1. CASE SpinlockRelease
      BY <3>1, Here DEF SpinlockRelease, At, Goto, MkFrame, Fn
    <3>2. CASE SetF
      BY <3>2, Here DEF SetF, At, MkFrame, CodeFrame, Fn
    <3> QED
      BY <1>6, <3>1, <3>2
  <2> QED
    BY <2>1, <2>2 DEF SliceOK, Fn
<1>7. CASE PitFire \/ UNCHANGED vars
  BY <1>7 DEF PitFire, vars, qvars, pvars, SliceOK, Fn
<1>8. CASE WakeStep
  <2>1. frame[cpu].pc = "wake" /\ UNCHANGED <<cpu, frame>>
    BY <1>8 DEF WakeStep, At
  <2> QED
    BY <2>1 DEF SliceOK
<1>9. CASE Iret
  <2>1. cpu' = cpu /\ frame[cpu].pc = "iret"
    BY <1>9 DEF Iret, At
  <2>2. Fn \in Gates
    BY <2>1, Here DEF LegalAt, Fn, Gates, LockPcs, SchedPcs
  <2>3. WantIF(cpu, under[cpu])
    BY <2>2, Here DEF UnderAt, Fn
  <2>4. frame'[cpu] = MkFrame(under[cpu].fn, under[cpu].pc, under[cpu].arg, under[cpu].flags)
    BY <1>9, Here DEF Iret
  <2> QED
    BY <2>1, <2>3, <2>4 DEF WantIF, MkFrame, SliceOK
<1>10. CASE RegisterBody \/ YieldBody
  <2>1. cpu' = cpu /\ frame'[cpu].fn # "irq"
    BY <1>10, Here DEF RegisterBody, YieldBody, Goto, MkFrame
  <2> QED
    BY <2>1 DEF SliceOK, Fn
<1>11. CASE \/ Deliver \/ PitHandleInterrupt \/ Eoi \/ Lock \/ SleepBody \/ ExitBody
            \/ IrqBody \/ WakeDone \/ KernelEnter \/ ProcStep
  <2>1. cpu' = cpu /\ frame'[cpu].pc \notin Tailing
    <3>1. CASE Deliver \/ SysYield
      BY <3>1, Here DEF Deliver, SysYield, EnterGate, MkFrame
    <3>2. CASE PitHandleInterrupt \/ Eoi \/ Lock
      BY <3>2, Here
         DEF PitHandleInterrupt, Eoi, Lock, GetF, Cli, SpinlockLock, Goto, MkFrame
    <3>3. CASE SleepBody \/ ExitBody \/ IrqBody \/ WakeDone
      BY <3>3, Here DEF SleepBody, ExitBody, IrqBody, WakeDone, Goto, MkFrame
    <3>4. CASE BootCli \/ BootSchedule \/ BootInitScheduler
      BY <3>4, Here DEF BootCli, BootSchedule, BootInitScheduler, Goto, MkFrame
    <3>5. CASE BootRegister \/ ProcRegisterCall \/ ProcCall
      BY <3>5, Here
         DEF BootRegister, ProcRegisterCall, CreateAndRegister, ProcCall, MkFrame
    <3> QED
      BY <1>11, <3>1, <3>2, <3>3, <3>4, <3>5 DEF KernelEnter, ProcStep
  <2> QED
    BY <2>1 DEF SliceOK
<1> QED
  BY <1>3, <1>4, <1>5, <1>6, <1>7, <1>8, <1>9, <1>10, <1>11
     DEF Next, KernelStep, Isr, Release, Body, ProcSchedule

(* proc_schedule keeps time: a sleeper's deadline is ahead of it whenever  *)
(* thread code runs, and the tick handler returns to a process past its    *)
(* slice only when nothing else is ready (kernel/proc.c).                  *)
THEOREM AlwaysTimely == (NoWrap /\ SLICE > 0) => (Spec => []Timely)
<1> SUFFICES ASSUME NoWrap, SLICE > 0 PROVE Spec => []Timely
  OBVIOUS
<1>1. Init => SliceOK
  BY ProcsAssumption DEF Init, SliceOK
<1>2. CtlInv /\ IdleOK /\ ListInv /\ SliceOK /\ [Next]_vars => SliceOK'
  BY NextSlice
<1>3. CtlInv /\ ListInv /\ SliceOK => Timely
  <2> SUFFICES ASSUME CtlInv, ListInv, SliceOK PROVE Timely
    OBVIOUS
  <2>1. SliceRespected
    BY DEF SliceOK, SliceRespected, At
  <2>2. NotLate
    <3> SUFFICES ASSUME iflag, cpu # Boot, NEW p \in ToSet(waiting_q)
                 PROVE  pit_systime_msec < time_end[p]
      BY DEF NotLate
    <3>1. WantIF(cpu, frame[cpu])
      BY DEF CtlInv, Ctl, FlagOK
    <3>2. ~TickSeen /\ ~At("wake")
      BY <3>1, Here DEF WantIF, TickSeen, At, Fn, Gates, LegalAt
    <3>3. PICK i \in DOMAIN waiting_q : p = waiting_q[i]
      BY DEF ToSet
    <3> QED
      BY <3>2, <3>3 DEF ListInv, TimeOK
  <2> QED
    BY <2>1, <2>2 DEF Timely
<1> QED
  BY <1>1, <1>2, <1>3, ListInvariant, CtlInvariant, PTL DEF Spec
=============================================================================

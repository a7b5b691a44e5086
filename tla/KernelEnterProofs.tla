-------------------------- MODULE KernelEnterProofs --------------------------
(***************************************************************************)
(* Proofs about ApStart and KernelEnter.                                   *)
(*                                                                         *)
(* First ApStart on its own, for every set of cores, whichever of them     *)
(* answer, and every choice of the two delays: between LockForCore and the *)
(* release in ap_enter there is one core in flight, and it is `core`.      *)
(* Every core the loop has not come to is off, every other one has released*)
(* the lock, and the lock is free exactly when the core in flight has      *)
(* released it too.                                                        *)
(*                                                                         *)
(* Then the same in kernel_enter, for every machine: what has been read of *)
(* the ACPI tables is kept by the loops of acpi_initialize (TablesInv), so *)
(* that the list of processors is whole and the mappings are those that    *)
(* the firmware gives; from this and what the controllers do (RunInv) each *)
(* interrupt is led to the handler of its device.                          *)
(***************************************************************************)
EXTENDS KernelEnter, TLAPS

BspPcs == {"loop", "init", "sleep_init", "sipi", "sleep_sipi", "done"}
ApPcs == {"off", "wait_sipi", "trampoline", "print", "release", "return", "hlt"}

TypeOK ==
    /\ bsp \in BspPcs
    /\ todo \in SUBSET Aps
    /\ core \in Aps \cup {Null}
    /\ ap_init_lock \in BOOLEAN
    /\ msec \in Nat
    /\ elapsed \in Nat
    /\ ap \in [Aps -> ApPcs]
    /\ stack \in Aps \cup {Null}

(* Cores that have released ap_init_lock.                                  *)
Released == {"return", "hlt"}

(* The cores the loop has not come to, and those it is done with.          *)
OthersOK ==
    /\ \A a \in todo : ap[a] = "off"
    /\ \A a \in Aps \ todo : a # core => ap[a] \in Released
    /\ core \notin todo

(* The core in flight, as far as the boot core has come with it.           *)
CoreOK ==
    /\ bsp \in {"init", "sleep_init", "sipi"} =>
         /\ core \in Aps
         /\ ap[core] = IF bsp = "init" \/ core \in Absent THEN "off" ELSE "wait_sipi"
         /\ ap_init_lock
    /\ bsp = "sleep_sipi" => core \in Aps
    /\ (bsp \in {"loop", "sleep_sipi"} /\ core \in Aps) =>
         /\ ap[core] # "wait_sipi"
         /\ ~ap_init_lock => ap[core] \in Released
    /\ bsp = "done" => (todo = {} /\ (core \in Aps => ap[core] \in Released))

DelayOK ==
    /\ bsp = "sleep_init" => msec = InitDelay
    /\ bsp = "sipi" => (msec = InitDelay /\ elapsed > msec)

IInv == TypeOK /\ OthersOK /\ CoreOK /\ DelayOK /\ StackOwned

-----------------------------------------------------------------------------

(* Before the loop every core is off and the lock is free.                 *)
LEMMA InitIInv == Init => IInv
<1> SUFFICES ASSUME Init PROVE IInv
  OBVIOUS
<1>1. ap_init_lock \in BOOLEAN
  BY Zenon DEF Init
<1>2. \A a \in Aps : ap[a] = "off"
  BY DEF Init
<1>3. TypeOK
  BY <1>1 DEF Init, TypeOK, BspPcs, ApPcs
<1> QED
  BY <1>2, <1>3, ApsAssumption
     DEF Init, IInv, OthersOK, CoreOK, DelayOK, StackOwned, Released

(* The boot core's side.  It writes the place of a core only in SendInit   *)
(* and SendSipi, and then of the one in flight.                            *)
LEMMA LockForCoreIInv == IInv /\ LockForCore => IInv'
BY ApsAssumption
   DEF LockForCore, apvars, IInv, TypeOK, OthersOK, CoreOK, DelayOK, StackOwned,
       BspPcs, ApPcs, Released

(* INIT starts a delay that SendSipi will wait for.                        *)
LEMMA SendInitIInv == IInv /\ SendInit => IInv'
BY ApsAssumption, DelayAssumption
   DEF SendInit, SleepFor, IInv, TypeOK, OthersOK, CoreOK, DelayOK, StackOwned,
       BspPcs, ApPcs, Released

(* The delays and the passing of time.                                     *)
LEMMA SleptIInv == IInv /\ (InitSlept \/ SipiSlept \/ Tick) => IInv'
BY ApsAssumption
   DEF InitSlept, SipiSlept, Tick, Slept, apvars, IInv, TypeOK, OthersOK, CoreOK,
       DelayOK, StackOwned, BspPcs, ApPcs, Released

(* SIPI puts the core that the lock was taken for in flight.               *)
LEMMA SendSipiIInv == IInv /\ SendSipi => IInv'
BY ApsAssumption, DelayAssumption
   DEF SendSipi, SleepFor, IInv, TypeOK, OthersOK, CoreOK, DelayOK, StackOwned,
       BspPcs, ApPcs, Released

(* The lock is taken for the last time when no core is in flight.          *)
LEMMA FinalLockIInv == IInv /\ FinalLock => IInv'
BY ApsAssumption
   DEF FinalLock, apvars, IInv, TypeOK, OthersOK, CoreOK, DelayOK, StackOwned,
       BspPcs, ApPcs, Released

(* A core that executes before it has released the lock is the one in      *)
(* flight, and SIPI has been sent to it.                                   *)
LEMMA InFlight ==
    ASSUME IInv, NEW a \in Aps, ap[a] \in {"trampoline", "print", "release"}
    PROVE  a = core /\ ap_init_lock /\ bsp \in {"loop", "sleep_sipi"}
BY DEF IInv, TypeOK, OthersOK, CoreOK, BspPcs, ApPcs, Released

(* A step of an application processor; only the one in flight has the lock. *)
LEMMA ApIInv == ASSUME IInv, NEW a \in Aps, Ap(a) PROVE IInv'
<1>1. CASE Trampoline(a)
  BY <1>1, InFlight, ApsAssumption
     DEF Trampoline, IInv, TypeOK, OthersOK, CoreOK, DelayOK, StackOwned, BspPcs,
         ApPcs, Released
<1>2. CASE ApPrint(a)
  BY <1>2, InFlight, ApsAssumption
     DEF ApPrint, IInv, TypeOK, OthersOK, CoreOK, DelayOK, StackOwned, BspPcs,
         ApPcs, Released
<1>3. CASE ApRelease(a)
  BY <1>3, InFlight, ApsAssumption
     DEF ApRelease, IInv, TypeOK, OthersOK, CoreOK, DelayOK, StackOwned, BspPcs,
         ApPcs, Released
<1>4. CASE ApHalt(a)
  BY <1>4, ApsAssumption
     DEF ApHalt, IInv, TypeOK, OthersOK, CoreOK, DelayOK, StackOwned, BspPcs,
         ApPcs, Released
<1> QED
  BY <1>1, <1>2, <1>3, <1>4 DEF Ap

(* A step that changes nothing.                                            *)
LEMMA StutterIInv == IInv /\ UNCHANGED vars => IInv'
BY DEF vars, IInv, TypeOK, OthersOK, CoreOK, DelayOK, StackOwned

(* Every step keeps one core in flight.                                    *)
LEMMA StepIInv == IInv /\ [Next]_vars => IInv'
  BY LockForCoreIInv, SendInitIInv, SleptIInv, SendSipiIInv, FinalLockIInv,
     ApIInv, StutterIInv DEF Next, Bsp

(* The hand-over of ap_init_lock keeps one core in flight.                 *)
THEOREM HandOver == Spec => []IInv
  BY StepIInv, InitIInv, PTL DEF Spec

(* The cores never share the stack at 0x8500 (kernel.c's ap_init_lock and  *)
(* ap_enter), however many there are and however they are interleaved.     *)
THEOREM StackNeverShared == Spec => []StackOwned
<1>1. IInv => StackOwned
  BY DEF IInv
<1> QED
  BY <1>1, HandOver, PTL

(* kernel_enter passes its last spinlock_lock only after every core has    *)
(* reported in; in particular not at all if one does not answer.           *)
THEOREM ProceedsAfterAll == Spec => []AllStarted
<1>1. IInv => AllStarted
  BY DEF IInv, AllStarted, OthersOK, CoreOK, Released
<1> QED
  BY <1>1, HandOver, PTL

(* apic_start_core leaves at least InitDelay whole ticks between INIT and  *)
(* SIPI.                                                                   *)
THEOREM SipiNeverEarly == Spec => []SipiDelayed
<1>1. IInv => SipiDelayed
  BY DelayAssumption DEF IInv, TypeOK, SipiDelayed, DelayOK
<1> QED
  BY <1>1, HandOver, PTL
-----------------------------------------------------------------------------
(* In kernel_enter.  Whatever processors the tables list, a core that has  *)
(* been told to start is the one the lock is held for until it has         *)
(* released it.                                                            *)

AllPcs == BspPcs \cup {"before", "skipped"}

KernelTypeOK ==
    /\ bsp \in AllPcs
    /\ ap_init_lock \in BOOLEAN
    /\ msec \in Nat
    /\ elapsed \in Nat
    /\ ap \in [Aps -> ApPcs]

Sent == {"trampoline", "print", "release"}

OneInFlight ==
    /\ bsp \in {"init", "sleep_init", "sipi"} => ap_init_lock
    /\ \A a \in Aps :
         /\ ap[a] = "wait_sipi" => a = core /\ bsp \in {"sleep_init", "sipi"}
         /\ ap[a] \in Sent => a = core /\ ap_init_lock /\ bsp \in {"loop", "sleep_sipi"}

KInv == KernelTypeOK /\ OneInFlight /\ DelayOK /\ StackOwned

(* No core has been told to start when kernel_enter begins.                *)
LEMMA InitKInv == KernelInit => KInv
<1> SUFFICES ASSUME KernelInit PROVE KInv
  OBVIOUS
<1>1. ap_init_lock \in BOOLEAN
  BY Zenon DEF KernelInit
<1>2. \A a \in Aps : ap[a] = "off"
  BY DEF KernelInit
<1>3. KernelTypeOK
  BY <1>1 DEF KernelInit, KernelTypeOK, AllPcs, BspPcs, ApPcs
<1> QED
  BY <1>2, <1>3 DEF KernelInit, KInv, OneInFlight, DelayOK, StackOwned, Sent

(* The boot core; a processor that is not among Aps has no place to change.*)
LEMMA BspKInv == KInv /\ (Bsp \/ Tick \/ StartCores) => KInv'
<1> SUFFICES ASSUME KInv, Bsp \/ Tick \/ StartCores PROVE KInv'
  OBVIOUS
<1> USE DEF KInv, KernelTypeOK, OneInFlight, DelayOK, StackOwned, AllPcs, BspPcs, ApPcs, Sent
<1>1. CASE LockForCore
  BY <1>1 DEF LockForCore, apvars
<1>2. CASE SendInit
  BY <1>2, DelayAssumption DEF SendInit, SleepFor
<1>3. CASE InitSlept \/ SipiSlept \/ Tick
  BY <1>3 DEF InitSlept, SipiSlept, Tick, Slept, apvars
<1>4. CASE SendSipi
  BY <1>4, DelayAssumption DEF SendSipi, SleepFor
<1>5. CASE FinalLock
  BY <1>5 DEF FinalLock, apvars
<1>6. CASE StartCores
  BY <1>6 DEF StartCores, apvars
<1> QED
  BY <1>1, <1>2, <1>3, <1>4, <1>5, <1>6 DEF Bsp

(* A started core.                                                         *)
LEMMA ApKInv == ASSUME KInv, NEW a \in Aps, Ap(a) PROVE KInv'
<1> USE DEF KInv, KernelTypeOK, OneInFlight, DelayOK, StackOwned, AllPcs, BspPcs, ApPcs, Sent
<1>1. CASE Trampoline(a)
  BY <1>1 DEF Trampoline
<1>2. CASE ApPrint(a)
  BY <1>2 DEF ApPrint
<1>3. CASE ApRelease(a)
  BY <1>3 DEF ApRelease
<1>4. CASE ApHalt(a)
  BY <1>4 DEF ApHalt
<1> QED
  BY <1>1, <1>2, <1>3, <1>4 DEF Ap

(* A step of another part.                                                 *)
LEMMA StutterKInv == KInv /\ UNCHANGED vars => KInv'
  BY DEF vars, KInv, KernelTypeOK, OneInFlight, DelayOK, StackOwned

(* What a step of kernel_enter does to the processors.                     *)
LEMMA KernelSteps ==
    ASSUME [KernelNext]_allvars
    PROVE  Bsp \/ Tick \/ StartCores \/ (\E a \in Aps : Ap(a)) \/ UNCHANGED vars
  BY Zenon DEF KernelNext, Next, allvars

(* At most one core is in flight, whatever the tables list.                *)
LEMMA KernelHandOver == KernelSpec => []KInv
<1>1. KInv /\ [KernelNext]_allvars => KInv'
  BY KernelSteps, BspKInv, ApKInv, StutterKInv, Zenon
<1> QED
  BY <1>1, InitKInv, PTL DEF KernelSpec

(* The cores never share the stack at 0x8500 and INIT and SIPI are apart,  *)
(* whatever the MADT lists: kernel_enter starts the cores acpi.c has found *)
(* while devices interrupt it (ap_init_lock, apic_start_core).             *)
THEOREM ListedCoresStartApart == KernelSpec => [](StackOwned /\ SipiDelayed)
<1>1. KInv => StackOwned /\ SipiDelayed
  BY DelayAssumption DEF KInv, KernelTypeOK, SipiDelayed, DelayOK
<1> QED
  BY <1>1, KernelHandOver, PTL

-----------------------------------------------------------------------------
(* What acpi_initialize has read: the records of the MADTs it has passed,  *)
(* and of the one it is in those before `it`.                              *)

Table(k) == machine.tables[k]
Rec(k, n) == machine.tables[k].records[n]

ReadRec(k, n) ==
    /\ k \in DOMAIN machine.tables
    /\ I!IsMadt(Table(k))
    /\ n \in DOMAIN Table(k).records
    /\ k < table \/ (k = table /\ boot = "madt" /\ n < it)

(* acpi_intr_mappings: an input has its own number until an override for it*)
(* is read, and then that of an override for it.                           *)
Moved(i, k, n) == ReadRec(k, n) /\ Rec(k, n).type = 2 /\ Rec(k, n).gsi = i

MapOK(map) ==
    \A i \in 0 .. 23 :
      \/ map[i] = i /\ \A k, n : ~Moved(i, k, n)
      \/ \E k, n : Moved(i, k, n) /\ map[i] = Rec(k, n).irq

(* acpi_lapic_ids: nothing, or every processor once a MADT that lists them *)
(* has been passed; inside one, the usable processors before `it`.         *)
All == Aps \cup {BspId}
UsableRec(r) == r.type = 0 /\ r.usable
Usable(t) == {r.id : r \in {x \in ToSet(t.records) : x.type = 0 /\ x.usable}}

CpusOK(cpus) ==
    /\ cpus \in Seq(All)
    /\ boot # "madt" => (cpus = <<>> \/ All \subseteq ToSet(cpus))
    /\ boot = "madt" =>
         /\ \A n \in DOMAIN Table(table).records :
              (n < it /\ UsableRec(Rec(table, n))) => Rec(table, n).id \in ToSet(cpus)
         /\ cpus = <<>> \/ All \subseteq ToSet(cpus) \/ Usable(Table(table)) = All

Acpi(l, io, cpus, map) ==
    [lapic |-> l, ioapic |-> io, cpus |-> cpus, mappings |-> map]

AcpiOK ==
    \E l, io, cpus, map :
      /\ acpi = Acpi(l, io, cpus, map)
      /\ DOMAIN map = 0 .. 23
      /\ MapOK(map)
      /\ CpusOK(cpus)
      /\ l # "null" => I!HasApic(machine)

(* Where the loops are.                                                    *)
LoopOK ==
    /\ machine \in Machines
    /\ table \in Nat \ {0}
    /\ it \in Nat \ {0}
    /\ boot \in {"rsdp", "tables", "madt", "pic", "done"}
    /\ boot = "rsdp" => table = 1
    /\ boot \in {"tables", "madt"} => I!Rsdps(machine) # <<>>
    /\ boot = "madt" => (table <= Len(machine.tables) /\ I!IsMadt(Table(table)))
    /\ boot \in {"pic", "done"} =>
         IF I!Rsdps(machine) = <<>> THEN table = 1 ELSE table > Len(machine.tables)

TablesInv == LoopOK /\ AcpiOK

(* What the assumptions say of one machine.                                *)
LEMMA MachineFacts ==
    ASSUME NEW m \in Machines
    PROVE  /\ Len(m.tables) \in Nat
           /\ DOMAIN m.tables = 1 .. Len(m.tables)
           /\ \A k \in DOMAIN m.tables :
                /\ Len(m.tables[k].records) \in Nat
                /\ DOMAIN m.tables[k].records = 1 .. Len(m.tables[k].records)
                /\ I!IsMadt(m.tables[k]) => Usable(m.tables[k]) \in {{}, All}
  BY ListAssumption, Zenon DEF I!MachineAssumption, I!IsSeq, I!IsMadt, Usable, All

(* The loops start with nothing read.                                      *)
LEMMA InitTables == KernelInit => TablesInv
<1> SUFFICES ASSUME KernelInit PROVE TablesInv
  OBVIOUS
<1>1. machine \in Machines /\ table = 1 /\ it = 1 /\ boot = "rsdp"
  BY DEF KernelInit, I!Init
<1>2. LoopOK
  BY <1>1 DEF LoopOK
<1> DEFINE map == [i \in 0 .. 23 |-> i]
<1>3. acpi = Acpi("null", "null", <<>>, map)
  BY DEF KernelInit, I!Init, Acpi
<1>4. \A k, n : ~ReadRec(k, n)
  BY <1>1, MachineFacts DEF ReadRec
<1>5. MapOK(map)
  BY <1>4 DEF MapOK, Moved
<1>6. CpusOK(<<>>)
  BY <1>1 DEF CpusOK
<1>7. DOMAIN map = 0 .. 23
  OBVIOUS
<1> HIDE DEF map
<1> QED
  BY <1>2, <1>3, <1>5, <1>6, <1>7, Zenon DEF TablesInv, AcpiOK

(* A step that reads no record keeps what is known of the mappings.        *)
LEMMA MapKept ==
    ASSUME NEW CONSTANT map, MapOK(map), machine' = machine,
           \A k, n : ReadRec(k, n)' <=> ReadRec(k, n)
    PROVE  MapOK(map)'
<1>1. \A i, k, n : Moved(i, k, n)' <=> Moved(i, k, n)
  BY Zenon DEF Moved, Rec
<1>2. \A k, n : Rec(k, n)' = Rec(k, n)
  BY Zenon DEF Rec
<1> QED
  BY <1>1, <1>2, Zenon DEF MapOK

(* The steps of acpi_initialize that read no record: the loop over the     *)
(* tables, and its end.                                                    *)
LEMMA TableSteps ==
    ASSUME TablesInv, I!FindRsdp \/ I!NextTable \/ I!LeaveMadt \/ I!TablesRead
    PROVE  TablesInv'
<1>1. acpi' = acpi /\ machine' = machine /\ it' = it
  BY DEF I!FindRsdp, I!NextTable, I!LeaveMadt, I!TablesRead, I!later
<1>2. /\ Len(machine.tables) \in Nat
      /\ DOMAIN machine.tables = 1 .. Len(machine.tables)
      /\ \A k \in DOMAIN machine.tables :
           /\ Len(Table(k).records) \in Nat
           /\ DOMAIN Table(k).records = 1 .. Len(Table(k).records)
           /\ I!IsMadt(Table(k)) => Usable(Table(k)) \in {{}, All}
  BY MachineFacts, Zenon DEF TablesInv, LoopOK, Table
<1>3. \A k : Table(k)' = Table(k)
  BY <1>1, Zenon DEF Table
<1>4. LoopOK'
  BY <1>1, <1>2, <1>3
     DEF TablesInv, LoopOK, I!FindRsdp, I!NextTable, I!LeaveMadt, I!TablesRead
<1>5. \A k, n : ReadRec(k, n)' <=> ReadRec(k, n)
  <2> SUFFICES ASSUME NEW k, NEW n PROVE ReadRec(k, n)' <=> ReadRec(k, n)
    OBVIOUS
  <2>1. k \in DOMAIN machine.tables => (k \in Int /\ (n \in DOMAIN Table(k).records => n \in Int))
    BY <1>2
  <2>2. CASE I!FindRsdp
    BY <1>1, <1>3, <2>1, <2>2 DEF ReadRec, TablesInv, LoopOK, I!FindRsdp
  <2>3. CASE I!NextTable
    BY <1>1, <1>3, <2>1, <2>3 DEF ReadRec, TablesInv, LoopOK, I!NextTable, Table
  <2>4. CASE I!LeaveMadt
    BY <1>1, <1>2, <1>3, <2>1, <2>4 DEF ReadRec, TablesInv, LoopOK, I!LeaveMadt, Table
  <2>5. CASE I!TablesRead
    BY <1>1, <1>3, <2>1, <2>5 DEF ReadRec, TablesInv, LoopOK, I!TablesRead
  <2> QED
    BY <2>2, <2>3, <2>4, <2>5
<1>6. PICK l, io, cpus, map :
        /\ acpi = Acpi(l, io, cpus, map)
        /\ DOMAIN map = 0 .. 23
        /\ MapOK(map)
        /\ CpusOK(cpus)
        /\ l # "null" => I!HasApic(machine)
  BY Zenon DEF TablesInv, AcpiOK
<1>7. MapOK(map)'
  BY <1>1, <1>5, <1>6, MapKept, Zenon
<1>8. CpusOK(cpus)'
  <2>1. boot' # "madt"
    BY DEF I!FindRsdp, I!NextTable, I!LeaveMadt, I!TablesRead
  <2>2. cpus = <<>> \/ All \subseteq ToSet(cpus)
    <3>1. CASE boot # "madt"
      BY <1>6, <3>1, Zenon DEF CpusOK
    <3>2. CASE boot = "madt"
      <4>1. I!LeaveMadt
        BY <3>2 DEF I!FindRsdp, I!NextTable, I!TablesRead
      <4>2. Usable(Table(table)) \subseteq ToSet(cpus)
        BY <1>2, <1>6, <3>2, <4>1
           DEF CpusOK, Usable, UsableRec, I!LeaveMadt, ToSet, Rec, Table, TablesInv, LoopOK
      <4> QED
        BY <1>6, <3>2, <4>2, Zenon DEF CpusOK
    <3> QED
      BY <3>1, <3>2
  <2> QED
    BY <1>6, <2>1, <2>2, Zenon DEF CpusOK
<1> QED
  BY <1>1, <1>4, <1>6, <1>7, <1>8, Zenon DEF TablesInv, AcpiOK

(* A MADT is entered with none of its records read.                        *)
LEMMA EnterTables == ASSUME TablesInv, I!EnterMadt PROVE TablesInv'
<1>1. machine' = machine /\ table' = table /\ boot = "tables" /\ boot' = "madt" /\ it' = 1
  BY DEF I!EnterMadt, I!later
<1>2. table \in DOMAIN machine.tables /\ I!IsMadt(Table(table)) /\ table \in Nat
  BY MachineFacts DEF TablesInv, LoopOK, I!EnterMadt, Table
<1>3. \A k : Table(k)' = Table(k)
  BY <1>1, Zenon DEF Table
<1>4. \A k \in DOMAIN machine.tables :
        k \in Int /\ \A n \in DOMAIN Table(k).records : n \in Int /\ n >= 1
  BY MachineFacts DEF TablesInv, LoopOK, Table
<1>5. LoopOK'
  BY <1>1, <1>2, <1>3, MachineFacts DEF TablesInv, LoopOK
<1>6. \A k, n : ReadRec(k, n)' <=> ReadRec(k, n)
  BY <1>1, <1>2, <1>3, <1>4 DEF ReadRec
<1>7. PICK l, io, cpus, map :
        /\ acpi = Acpi(l, io, cpus, map)
        /\ DOMAIN map = 0 .. 23
        /\ MapOK(map)
        /\ CpusOK(cpus)
        /\ l # "null" => I!HasApic(machine)
  BY Zenon DEF TablesInv, AcpiOK
<1>8. PICK b : acpi' = Acpi(b, "null", cpus, map)
  BY <1>7 DEF Acpi, I!EnterMadt
<1>9. MapOK(map)'
  BY <1>1, <1>6, <1>7, MapKept, Zenon
<1>10. CpusOK(cpus)'
  <2>1. \A n \in DOMAIN Table(table).records : ~(n < 1)
    BY <1>2, <1>4
  <2> QED
    BY <1>1, <1>3, <1>7, <2>1, Zenon DEF CpusOK
<1>11. I!HasApic(machine)
  BY <1>1, <1>2, Zenon DEF I!HasApic, I!Madts, TablesInv, LoopOK, Table
<1> QED
  BY <1>1, <1>5, <1>7, <1>8, <1>9, <1>10, <1>11, Zenon DEF TablesInv, AcpiOK

(* What a record does to the list of processors and to the mappings.       *)
AfterCpu(cpus, r) == IF UsableRec(r) THEN Append(cpus, r.id) ELSE cpus
AfterMap(map, r) == IF r.type = 2 THEN [map EXCEPT ![r.gsi] = r.irq] ELSE map

LEMMA RecordIs ==
    ASSUME NEW l, NEW io, NEW cpus, NEW map, NEW r
    PROVE  \E b, c : I!Record(Acpi(l, io, cpus, map), r) = Acpi(b, c, AfterCpu(cpus, r), AfterMap(map, r))
<1>1. PICK a : a = Acpi(l, io, cpus, map)
  OBVIOUS
<1>2. a.cpus = cpus /\ a.mappings = map
  BY <1>1 DEF Acpi
<1>3. PICK t : t = r.type
  OBVIOUS
<1>4. SUFFICES \E b, c : I!Record(a, r) = Acpi(b, c, AfterCpu(cpus, r), AfterMap(map, r))
  BY <1>1
<1>5. CASE t = 0
  <2>1. I!Record(a, r) = IF r.usable THEN [a EXCEPT !.cpus = Append(a.cpus, r.id)] ELSE a
    BY <1>3, <1>5 DEF I!Record
  <2>2. [a EXCEPT !.cpus = Append(cpus, r.id)] = Acpi(l, io, Append(cpus, r.id), map)
    BY <1>1 DEF Acpi
  <2>3. AfterMap(map, r) = map
    BY <1>3, <1>5 DEF AfterMap
  <2>4. I!Record(a, r) = Acpi(l, io, AfterCpu(cpus, r), map)
    BY <1>1, <1>2, <1>3, <1>5, <2>1, <2>2, Zenon DEF AfterCpu, UsableRec
  <2> QED
    BY <2>3, <2>4, Zenon
<1>6. t # 0 => AfterCpu(cpus, r) = cpus
  BY <1>3, Zenon DEF AfterCpu, UsableRec
<1>7. CASE t = 1
  <2>1. I!Record(a, r) = [a EXCEPT !.ioapic = r.addr]
    BY <1>3, <1>7 DEF I!Record
  <2>2. [a EXCEPT !.ioapic = r.addr] = Acpi(l, r.addr, cpus, map)
    BY <1>1 DEF Acpi
  <2>3. AfterMap(map, r) = map /\ AfterCpu(cpus, r) = cpus
    BY <1>3, <1>6, <1>7 DEF AfterMap
  <2> QED
    BY <2>1, <2>2, <2>3, Zenon
<1>8. CASE t = 2
  <2>1. I!Record(a, r) = [a EXCEPT !.mappings = [a.mappings EXCEPT ![r.gsi] = r.irq]]
    BY <1>3, <1>8 DEF I!Record
  <2>2. PICK x : x = [map EXCEPT ![r.gsi] = r.irq]
    OBVIOUS
  <2>3. [a EXCEPT !.mappings = x] = Acpi(l, io, cpus, x)
    BY <1>1 DEF Acpi
  <2>4. AfterMap(map, r) = x /\ AfterCpu(cpus, r) = cpus
    BY <1>3, <1>6, <1>8, <2>2 DEF AfterMap
  <2> QED
    BY <1>2, <2>1, <2>2, <2>3, <2>4, Zenon
<1>9. CASE t = 5
  <2>1. I!Record(a, r) = [a EXCEPT !.lapic = r.addr]
    BY <1>3, <1>9 DEF I!Record
  <2>2. [a EXCEPT !.lapic = r.addr] = Acpi(r.addr, io, cpus, map)
    BY <1>1 DEF Acpi
  <2>3. AfterMap(map, r) = map /\ AfterCpu(cpus, r) = cpus
    BY <1>3, <1>6, <1>9 DEF AfterMap
  <2> QED
    BY <2>1, <2>2, <2>3, Zenon
<1>10. CASE t \notin {0, 1, 2, 5}
  <2>1. I!Record(a, r) = a
    BY <1>3, <1>10 DEF I!Record
  <2>2. AfterMap(map, r) = map /\ AfterCpu(cpus, r) = cpus
    BY <1>3, <1>6, <1>10 DEF AfterMap
  <2> QED
    BY <1>1, <2>1, <2>2, Zenon
<1> QED
  BY <1>5, <1>7, <1>8, <1>9, <1>10

(* One record: an override moves the input it names and no other, and a    *)
(* usable processor is listed.                                             *)
LEMMA RecordTables == ASSUME TablesInv, I!ReadRecord PROVE TablesInv'
<1>1. /\ machine' = machine /\ table' = table /\ boot = "madt" /\ boot' = "madt"
      /\ it' = it + 1 /\ acpi' = I!Record(acpi, Rec(table, it))
  BY DEF I!ReadRecord, I!later, Rec
<1>2. /\ table \in DOMAIN machine.tables /\ I!IsMadt(Table(table)) /\ table \in Nat
      /\ it \in Nat /\ it \in DOMAIN Table(table).records
  BY MachineFacts DEF TablesInv, LoopOK, I!ReadRecord, Table
<1>3. \A k : Table(k)' = Table(k) /\ \A n : Rec(k, n)' = Rec(k, n)
  BY <1>1, Zenon DEF Table, Rec
<1>4. \A k \in DOMAIN machine.tables :
        k \in Int /\ \A n \in DOMAIN Table(k).records : n \in Int /\ n >= 1
  BY MachineFacts DEF TablesInv, LoopOK, Table
<1>5. LoopOK'
  BY <1>1, <1>2, <1>3 DEF TablesInv, LoopOK
<1>6. \A k, n : ReadRec(k, n)' <=> ReadRec(k, n) \/ (k = table /\ n = it)
  BY <1>1, <1>2, <1>3, <1>4 DEF ReadRec
<1>7. PICK l, io, cpus, map :
        /\ acpi = Acpi(l, io, cpus, map)
        /\ DOMAIN map = 0 .. 23
        /\ MapOK(map)
        /\ CpusOK(cpus)
        /\ l # "null" => I!HasApic(machine)
  BY Zenon DEF TablesInv, AcpiOK
<1>8. PICK r : r = Rec(table, it)
  OBVIOUS
<1>9. PICK b, c : acpi' = Acpi(b, c, AfterCpu(cpus, r), AfterMap(map, r))
  <2>1. \E b, c : I!Record(Acpi(l, io, cpus, map), r) = Acpi(b, c, AfterCpu(cpus, r), AfterMap(map, r))
    BY RecordIs
  <2>2. acpi' = I!Record(Acpi(l, io, cpus, map), r)
    BY <1>1, <1>7, <1>8, Zenon
  <2> QED
    BY <2>1, <2>2, Zenon
<1>10. DOMAIN AfterMap(map, r) = 0 .. 23 /\ MapOK(AfterMap(map, r))'
  <2>1. PICK map2 : map2 = AfterMap(map, r)
    OBVIOUS
  <2>2. \A i, k, n : Moved(i, k, n)' <=>
          Moved(i, k, n) \/ (k = table /\ n = it /\ r.type = 2 /\ r.gsi = i)
    BY <1>3, <1>6, <1>8, Zenon DEF Moved
  <2>3. CASE r.type # 2
    <3>1. map2 = map
      BY <2>1, <2>3, Zenon DEF AfterMap
    <3>2. \A i, k, n : Moved(i, k, n)' <=> Moved(i, k, n)
      BY <2>2, <2>3, Zenon
    <3>3. MapOK(map)'
      BY <1>3, <1>7, <3>2, Zenon DEF MapOK
    <3> QED
      BY <1>7, <2>1, <3>1, <3>3, Zenon
  <2>4. CASE r.type = 2
    <3>1. map2 = [map EXCEPT ![r.gsi] = r.irq]
      BY <2>1, <2>4, Zenon DEF AfterMap
    <3>2. /\ DOMAIN map2 = 0 .. 23
          /\ \A i \in 0 .. 23 : map2[i] = IF i = r.gsi THEN r.irq ELSE map[i]
      BY <1>7, <3>1
    <3>3. ASSUME NEW i \in 0 .. 23
          PROVE  \/ map2[i] = i /\ \A k, n : ~Moved(i, k, n)'
                 \/ \E k, n : Moved(i, k, n)' /\ map2[i] = Rec(k, n)'.irq
      <4>1. CASE i = r.gsi
        <5>1. PICK t, k : t = table /\ k = it
          OBVIOUS
        <5>2. Moved(i, t, k)'
          BY <2>2, <2>4, <4>1, <5>1, Zenon
        <5>3. map2[i] = Rec(t, k)'.irq
          BY <1>3, <1>8, <3>2, <4>1, <5>1, Zenon
        <5> QED
          BY <5>2, <5>3, Zenon
      <4>2. CASE i # r.gsi
        <5>1. map2[i] = map[i]
          BY <3>2, <4>2, Zenon
        <5>2. \A k, n : Moved(i, k, n)' <=> Moved(i, k, n)
          BY <2>2, <4>2, Zenon
        <5>3. \/ map[i] = i /\ \A k, n : ~Moved(i, k, n)
              \/ \E k, n : Moved(i, k, n) /\ map[i] = Rec(k, n).irq
          BY <1>7, Zenon DEF MapOK
        <5> QED
          BY <1>3, <5>1, <5>2, <5>3, Zenon
      <4> QED
        BY <4>1, <4>2
    <3>4. MapOK(map2)'
      BY <3>3, Zenon DEF MapOK
    <3> QED
      BY <2>1, <3>2, <3>4, Zenon
  <2> QED
    BY <2>3, <2>4
<1>11. CpusOK(AfterCpu(cpus, r))'
  <2>1. Usable(Table(table)) \in {{}, All}
    BY <1>2, MachineFacts, Zenon DEF TablesInv, LoopOK, Table
  <2>2. /\ cpus \in Seq(All)
        /\ \A n \in DOMAIN Table(table).records :
             (n < it /\ UsableRec(Rec(table, n))) => Rec(table, n).id \in ToSet(cpus)
        /\ cpus = <<>> \/ All \subseteq ToSet(cpus) \/ Usable(Table(table)) = All
    BY <1>1, <1>7, Zenon DEF CpusOK
  <2>3. PICK cpus2 : cpus2 = AfterCpu(cpus, r)
    OBVIOUS
  <2>4. /\ cpus2 \in Seq(All)
        /\ ToSet(cpus) \subseteq ToSet(cpus2)
        /\ UsableRec(r) => r.id \in ToSet(cpus2)
        /\ cpus2 = <<>> \/ All \subseteq ToSet(cpus2) \/ Usable(Table(table)) = All
    <3>1. CASE UsableRec(r)
      <4>1. r.id \in Usable(Table(table))
        BY <1>2, <1>8, <3>1, Zenon DEF Usable, UsableRec, Rec, Table, ToSet
      <4>2. Usable(Table(table)) = All /\ r.id \in All
        BY <2>1, <4>1, Zenon
      <4>3. cpus2 = Append(cpus, r.id)
        BY <2>3, <3>1, Zenon DEF AfterCpu
      <4>4. cpus2 \in Seq(All) /\ ToSet(cpus) \subseteq ToSet(cpus2) /\ r.id \in ToSet(cpus2)
        BY <2>2, <4>2, <4>3 DEF ToSet
      <4> QED
        BY <4>2, <4>4, Zenon
    <3>2. CASE ~UsableRec(r)
      <4>1. cpus2 = cpus
        BY <2>3, <3>2, Zenon DEF AfterCpu
      <4> QED
        BY <2>2, <3>2, <4>1, Zenon
    <3> QED
      BY <3>1, <3>2
  <2>5. ASSUME NEW n \in DOMAIN Table(table).records, n < it + 1, UsableRec(Rec(table, n))
        PROVE  Rec(table, n).id \in ToSet(cpus2)
    <3>1. CASE n < it
      BY <2>2, <2>4, <2>5, <3>1, Zenon
    <3>2. CASE n = it
      BY <1>8, <2>4, <2>5, <3>2, Zenon
    <3>3. n < it \/ n = it
      BY <1>2, <1>4, <2>5
    <3> QED
      BY <3>1, <3>2, <3>3
  <2>6. CpusOK(cpus2)'
    BY <1>1, <1>3, <2>4, <2>5, Zenon DEF CpusOK
  <2> QED
    BY <2>3, <2>6, Zenon
<1>12. I!HasApic(machine)
  BY <1>1, <1>2, Zenon DEF I!HasApic, I!Madts, TablesInv, LoopOK, Table
<1>13. I!HasApic(machine)'
  BY <1>1, <1>12, Zenon
<1> QED
  BY <1>5, <1>9, <1>10, <1>11, <1>13, Zenon DEF TablesInv, AcpiOK

(* Once the tables are read nothing of this changes.                       *)
LEMMA TablesKept ==
    ASSUME TablesInv, UNCHANGED <<machine, acpi, table, it>>,
           boot' = boot \/ (boot = "pic" /\ boot' = "done")
    PROVE  TablesInv'
<1>1. machine' = machine /\ acpi' = acpi /\ table' = table /\ it' = it
  BY Zenon
<1>2. \A k : Table(k)' = Table(k) /\ \A n : Rec(k, n)' = Rec(k, n)
  BY <1>1, Zenon DEF Table, Rec
<1>3. boot' = "madt" <=> boot = "madt"
  OBVIOUS
<1>4. LoopOK'
  <2>1. CASE boot' = boot
    BY <1>1, <1>2, <2>1, Zenon DEF TablesInv, LoopOK
  <2>2. CASE boot = "pic" /\ boot' = "done"
    BY <1>1, <2>2 DEF TablesInv, LoopOK
  <2> QED
    BY <2>1, <2>2
<1>5. \A k, n : ReadRec(k, n)' <=> ReadRec(k, n)
  BY <1>1, <1>2, <1>3, Zenon DEF ReadRec
<1>6. PICK l, io, cpus, map :
        /\ acpi = Acpi(l, io, cpus, map)
        /\ DOMAIN map = 0 .. 23
        /\ MapOK(map)
        /\ CpusOK(cpus)
        /\ l # "null" => I!HasApic(machine)
  BY Zenon DEF TablesInv, AcpiOK
<1>7. MapOK(map)'
  BY <1>1, <1>5, <1>6, MapKept, Zenon
<1>8. CpusOK(cpus)'
  BY <1>1, <1>2, <1>3, <1>6, Zenon DEF CpusOK
<1> QED
  BY <1>1, <1>4, <1>6, <1>7, <1>8, Zenon DEF TablesInv, AcpiOK

(* The steps of the interrupt controllers and the handlers.                *)
Requests(d) == I!Raise(d) \/ I!Acknowledge(d)
Handling == I!Spurious \/ I!Gate \/ I!Handle \/ I!Eoi \/ I!Schedule \/ I!Iret

(* What a step of kernel_enter does to tables and interrupts.              *)
LEMMA InterruptSteps ==
    ASSUME [KernelNext]_allvars
    PROVE  \/ I!FindRsdp \/ I!NextTable \/ I!LeaveMadt \/ I!TablesRead
           \/ I!EnterMadt
           \/ I!ReadRecord
           \/ I!SetUpControllers
           \/ \E d \in I!Sources : Requests(d)
           \/ Handling
           \/ UNCHANGED ivars
<1>1. I!Next \/ UNCHANGED ivars
  BY Zenon DEF KernelNext, StartCores, allvars
<1> QED
  BY <1>1, Zenon DEF I!Next, I!CpuStep, Requests, Handling

(* They leave alone what the tables have given.                            *)
LEMMA ServedKeeps ==
    ASSUME (\E d \in I!Sources : Requests(d)) \/ Handling \/ UNCHANGED ivars
    PROVE  machine' = machine /\ acpi' = acpi /\ table' = table /\ it' = it /\ boot' = boot
             /\ mode' = mode /\ redir' = redir
<1>1. I!tables' = I!tables \/ UNCHANGED ivars
  BY Zenon DEF Requests, Handling, I!Raise, I!Acknowledge, I!Spurious, I!Gate, I!Handle, I!Eoi, I!Schedule,
     I!Iret
<1> QED
  BY <1>1, Zenon DEF I!tables, ivars

(* One step per action of acpi_initialize, the others change nothing of it.*)
LEMMA StepTables == TablesInv /\ [KernelNext]_allvars => TablesInv'
<1> SUFFICES ASSUME TablesInv, [KernelNext]_allvars PROVE TablesInv'
  OBVIOUS
<1>1. CASE I!FindRsdp \/ I!NextTable \/ I!LeaveMadt \/ I!TablesRead
  BY <1>1, TableSteps
<1>2. CASE I!EnterMadt
  BY <1>2, EnterTables
<1>3. CASE I!ReadRecord
  BY <1>3, RecordTables
<1>4. CASE I!SetUpControllers
  <2>1. /\ UNCHANGED <<machine, acpi, table, it>>
        /\ boot = "pic" /\ boot' = "done"
    BY <1>4, Zenon DEF I!SetUpControllers
  <2> QED
    BY <2>1, TablesKept, Zenon
<1>5. CASE (\E d \in I!Sources : Requests(d)) \/ Handling \/ UNCHANGED ivars
  <2>1. UNCHANGED <<machine, acpi, table, it>> /\ boot' = boot
    BY <1>5, ServedKeeps, Zenon
  <2> QED
    BY <2>1, TablesKept, Zenon
<1> QED
  BY <1>1, <1>2, <1>3, <1>4, <1>5, InterruptSteps, Zenon

(* The tables have been read as far as kernel_enter has come.              *)
LEMMA TablesAlways == KernelSpec => []TablesInv
  BY InitTables, StepTables, PTL DEF KernelSpec

-----------------------------------------------------------------------------
(* The interrupt that the core has taken came by a vector that its device  *)
(* has with the controller in use.                                         *)

Pins == DOMAIN I!Legacy

LEMMA Legacies ==
    /\ Pins = {"pit", "kb", "mouse", "ata1", "ata2"}
    /\ I!Legacy["pit"] = 0 /\ I!Legacy["kb"] = 1 /\ I!Legacy["mouse"] = 12
    /\ I!Legacy["ata1"] = 14 /\ I!Legacy["ata2"] = 15
  BY DEF Pins, I!Legacy

VecOK(v, d) ==
    \/ d = "none" /\ v \in {39, 47}
    \/ mode = "pic" /\ d \in Pins /\ v = 32 + I!Legacy[d]
    \/ mode = "apic" /\ d \in I!Sources /\ v = redir[machine.wired[d]]

Cpu(pc, vec, dev) == [pc |-> pc, vec |-> vec, dev |-> dev]

CpuOK ==
    \E pc, v, d : cpu = Cpu(pc, v, d) /\ (pc \in {"gate", "handler"} => VecOK(v, d))

ModeOK ==
    /\ boot # "done" => (raised = {} /\ cpu.pc = "cli" /\ mode = "pic")
    /\ mode \in {"pic", "apic"}
    /\ mode = "apic" => (I!HasApic(machine) /\ redir = I!Redirection(acpi.mappings))

RaisedOK == raised \subseteq I!Sources /\ (mode = "pic" => raised \subseteq Pins)

RunInv == ModeOK /\ RaisedOK /\ CpuOK

LEMMA CpuFields ==
    ASSUME NEW pc, NEW v, NEW d
    PROVE  /\ Cpu(pc, v, d).pc = pc /\ Cpu(pc, v, d).vec = v /\ Cpu(pc, v, d).dev = d
           /\ \A x : [Cpu(pc, v, d) EXCEPT !.pc = x] = Cpu(x, v, d)
  BY DEF Cpu

LEMMA RunningIs == I!Running = Cpu("run", 0, "none")
  BY DEF I!Running, Cpu

(* Interrupts are disabled at first.                                       *)
LEMMA InitRun == KernelInit => RunInv
<1> SUFFICES ASSUME KernelInit PROVE RunInv
  OBVIOUS
<1>1. boot = "rsdp" /\ mode = "pic" /\ raised = {} /\ cpu = [I!Running EXCEPT !.pc = "cli"]
  BY Zenon DEF KernelInit, I!Init
<1>2. cpu = Cpu("cli", 0, "none")
  BY <1>1, RunningIs, CpuFields
<1>3. CpuOK
  BY <1>2 DEF CpuOK
<1>4. cpu.pc = "cli"
  BY <1>2, CpuFields
<1> QED
  BY <1>1, <1>3, <1>4 DEF RunInv, ModeOK, RaisedOK

(* With the PICs or the APIC an interrupt is taken by its own vector.      *)
LEMMA AcknowledgeRun ==
    ASSUME RunInv, NEW d \in I!Sources, I!Acknowledge(d)
    PROVE  CpuOK'
<1>1. d \in raised /\ UNCHANGED <<machine, mode, redir>>
  BY DEF I!Acknowledge, I!tables
<1>2. I!Sources' = I!Sources
  BY <1>1, Zenon DEF I!Sources
<1>3. CASE I!PicVector(d)
  <2>1. mode = "pic" /\ cpu' = Cpu("gate", 32 + I!Legacy[d], d)
    BY <1>3 DEF I!PicVector, Cpu, I!PIC_IRQ_OFFS
  <2>2. d \in Pins
    BY <1>1, <2>1, Zenon DEF RunInv, RaisedOK
  <2>3. VecOK(32 + I!Legacy[d], d)'
    BY <1>1, <2>1, <2>2, Zenon DEF VecOK
  <2> QED
    BY <2>1, <2>3, Zenon DEF CpuOK
<1>4. CASE I!ApicVector(d)
  <2>1. PICK v : v = redir[machine.wired[d]]
    OBVIOUS
  <2>2. mode = "apic" /\ cpu' = Cpu("gate", v, d)
    BY <1>4, <2>1 DEF I!ApicVector, Cpu
  <2>3. VecOK(v, d)'
    BY <1>1, <1>2, <2>1, <2>2, Zenon DEF VecOK
  <2> QED
    BY <2>2, <2>3, Zenon DEF CpuOK
<1> QED
  BY <1>3, <1>4, Zenon DEF I!Acknowledge

(* No spurious interrupt comes by the local APIC's vector.                 *)
Fits == \A m \in Machines : I!HasApic(m) => "apic" \notin m.spurious

(* What interrupt_handler works on is the interrupt that was taken, until  *)
(* it returns.                                                             *)
LEMMA HandlingRun ==
    ASSUME Fits, TablesInv, RunInv, Handling
    PROVE  CpuOK'
<1>1. PICK pc, v, d : cpu = Cpu(pc, v, d) /\ (pc \in {"gate", "handler"} => VecOK(v, d))
  BY Zenon DEF RunInv, CpuOK
<1>2. cpu.pc = pc /\ cpu.vec = v /\ cpu.dev = d /\ \A x : [cpu EXCEPT !.pc = x] = Cpu(x, v, d)
  BY <1>1, CpuFields
<1>3. machine' = machine /\ mode' = mode /\ redir' = redir
  BY ServedKeeps, Zenon
<1>4. VecOK(v, d)' <=> VecOK(v, d)
  BY <1>3, Zenon DEF VecOK, I!Sources
<1>5. SUFFICES \E x, w, e : cpu' = Cpu(x, w, e) /\ (x \in {"gate", "handler"} => VecOK(w, e)')
  BY Zenon DEF CpuOK
<1>6. CASE I!Spurious
  <2>1. mode \in machine.spurious
    BY <1>6, Zenon DEF I!Spurious
  <2>2. mode = "pic"
    BY <2>1, Zenon DEF RunInv, ModeOK, TablesInv, LoopOK, Fits
  <2>3. \E w \in {39, 47} : cpu' = [pc |-> "gate", vec |-> w, dev |-> "none"]
    BY <1>6, <2>2, Zenon DEF I!Spurious
  <2>4. PICK w \in {39, 47} : cpu' = Cpu("gate", w, "none")
    BY <2>3, Zenon DEF Cpu
  <2>5. VecOK(w, "none")'
    BY Zenon DEF VecOK
  <2> QED
    BY <2>4, <2>5, Zenon
<1>7. CASE I!Gate
  <2>1. cpu' = Cpu("handler", v, d) \/ cpu' = Cpu("hang", 13, d)
    BY <1>2, <1>7, Zenon DEF I!Gate, Cpu
  <2>2. VecOK(v, d)'
    BY <1>1, <1>2, <1>4, <1>7, Zenon DEF I!Gate
  <2> QED
    BY <2>1, <2>2
<1>8. CASE I!Handle \/ I!Eoi
  <2>1. \E x \in {"eoi", "hang", "schedule", "iret"} : cpu' = [cpu EXCEPT !.pc = x]
    BY <1>8, Zenon DEF I!Handle, I!Eoi
  <2>2. PICK x \in {"eoi", "hang", "schedule", "iret"} : cpu' = Cpu(x, v, d)
    BY <1>2, <2>1, Zenon
  <2> QED
    BY <2>2
<1>9. CASE I!Schedule \/ I!Iret
  <2>1. cpu' = Cpu("run", 0, "none") \/ cpu' = Cpu("iret", v, d)
    BY <1>2, <1>9, RunningIs, Zenon DEF I!Schedule, I!Iret
  <2> QED
    BY <2>1
<1> QED
  BY <1>6, <1>7, <1>8, <1>9, Zenon DEF Handling

(* Reading the tables: interrupts are disabled.                            *)
LEMMA ReadingRun ==
    ASSUME RunInv, boot # "done", boot' # "done", UNCHANGED I!later
    PROVE  RunInv'
<1>1. /\ machine' = machine /\ mode' = mode /\ redir' = redir /\ raised' = raised /\ cpu' = cpu
  BY Zenon DEF I!later
<1>2. raised = {} /\ cpu.pc = "cli" /\ mode = "pic"
  BY Zenon DEF RunInv, ModeOK
<1>3. PICK pc, v, d : cpu = Cpu(pc, v, d)
  BY Zenon DEF RunInv, CpuOK
<1>4. pc = "cli"
  BY <1>2, <1>3, CpuFields
<1>5. CpuOK'
  BY <1>1, <1>3, <1>4 DEF CpuOK
<1> QED
  BY <1>1, <1>2, <1>5 DEF RunInv, ModeOK, RaisedOK

(* The controllers are set up from acpi_intr_mappings.                     *)
LEMMA SetUpRun ==
    ASSUME TablesInv, RunInv, I!SetUpControllers
    PROVE  RunInv'
<1>1. /\ machine' = machine /\ acpi' = acpi /\ raised' = raised /\ boot' = "done"
      /\ boot = "pic" /\ cpu' = I!Running
  BY Zenon DEF I!SetUpControllers
<1>2. raised = {} /\ mode = "pic"
  BY <1>1 DEF RunInv, ModeOK
<1>3. CpuOK'
  BY <1>1, RunningIs DEF CpuOK
<1>4. \/ mode' = "pic"
      \/ mode' = "apic" /\ redir' = I!Redirection(acpi.mappings) /\ (acpi.lapic # "null" \/ machine.msr_apic)
  BY <1>2, Zenon DEF I!SetUpControllers
<1>5. acpi.lapic # "null" => I!HasApic(machine)
  <2>1. PICK l, io, cpus, map : acpi = Acpi(l, io, cpus, map) /\ (l # "null" => I!HasApic(machine))
    BY Zenon DEF TablesInv, AcpiOK
  <2>2. acpi.lapic = l
    BY <2>1 DEF Acpi
  <2> QED
    BY <2>1, <2>2, Zenon
<1>6. mode' = "apic" => I!HasApic(machine)
  BY <1>4, <1>5 DEF I!HasApic
<1>7. ModeOK'
  <2>1. CASE mode' = "pic"
    BY <1>1, <2>1 DEF ModeOK
  <2>2. CASE mode' = "apic"
    <3>1. redir' = I!Redirection(acpi.mappings)
      BY <1>4, <2>2
    <3> QED
      BY <1>1, <1>6, <2>2, <3>1, Zenon DEF ModeOK
  <2> QED
    BY <1>4, <2>1, <2>2, Zenon
<1> QED
  BY <1>1, <1>2, <1>3, <1>7, Zenon DEF RunInv, RaisedOK

(* A device may raise an interrupt once they are enabled.                  *)
LEMMA RaiseRun ==
    ASSUME RunInv, NEW d \in I!Sources, I!Raise(d)
    PROVE  RunInv'
<1>1. /\ machine' = machine /\ acpi' = acpi /\ boot' = boot /\ mode' = mode /\ redir' = redir /\ cpu' = cpu
  BY Zenon DEF I!Raise, I!tables
<1>2. boot = "done" /\ raised' = raised \cup {d} /\ (mode = "pic" => d \in Pins)
  BY Zenon DEF I!Raise, Pins
<1>3. I!Sources' = I!Sources /\ \A v, e : VecOK(v, e)' <=> VecOK(v, e)
  BY <1>1, Zenon DEF I!Sources, VecOK
<1>4. CpuOK'
  BY <1>1, <1>3, Zenon DEF RunInv, CpuOK
<1>5. ModeOK'
  BY <1>1, <1>2, Zenon DEF RunInv, ModeOK
<1> QED
  BY <1>1, <1>2, <1>3, <1>4, <1>5, Zenon DEF RunInv, RaisedOK

(* Every step keeps the interrupt at hand with its own vector.             *)
LEMMA StepRun ==
    ASSUME Fits, TablesInv, RunInv, [KernelNext]_allvars
    PROVE  RunInv'
<1>1. CASE I!FindRsdp \/ I!NextTable \/ I!LeaveMadt \/ I!TablesRead \/ I!EnterMadt \/ I!ReadRecord
  <2>1. boot # "done" /\ boot' # "done" /\ UNCHANGED I!later
    BY <1>1
       DEF I!FindRsdp, I!NextTable, I!LeaveMadt, I!TablesRead, I!EnterMadt, I!ReadRecord, I!later
  <2> QED
    BY <2>1, ReadingRun, Zenon
<1>2. CASE I!SetUpControllers
  BY <1>2, SetUpRun
<1>3. ASSUME NEW d \in I!Sources, I!Raise(d)
      PROVE  RunInv'
  BY <1>3, RaiseRun
<1>4. ASSUME CpuOK', raised' \subseteq raised,
             cpu' = cpu \/ boot = "done",
             machine' = machine /\ acpi' = acpi /\ boot' = boot /\ mode' = mode /\ redir' = redir
      PROVE  RunInv'
  <2>1. I!Sources' = I!Sources
    BY <1>4, Zenon DEF I!Sources
  <2>2. RaisedOK'
    BY <1>4, <2>1, Zenon DEF RunInv, RaisedOK
  <2>3. boot # "done" => raised' = {}
    BY <1>4, Zenon DEF RunInv, ModeOK
  <2>4. ModeOK'
    BY <1>4, <2>3, Zenon DEF RunInv, ModeOK
  <2> QED
    BY <1>4, <2>2, <2>4, Zenon DEF RunInv
<1>5. cpu.pc # "cli" => boot = "done"
  BY Zenon DEF RunInv, ModeOK
<1>6. ASSUME NEW d \in I!Sources, I!Acknowledge(d)
      PROVE  RunInv'
  <2>1. cpu.pc = "run" /\ raised' = raised \ {d}
    BY <1>6, Zenon DEF I!Acknowledge
  <2>2. machine' = machine /\ acpi' = acpi /\ boot' = boot /\ mode' = mode /\ redir' = redir
    BY <1>6, ServedKeeps, Zenon DEF Requests
  <2>3. CpuOK'
    BY <1>6, AcknowledgeRun
  <2>4. boot = "done" /\ raised' \subseteq raised
    BY <1>5, <2>1
  <2> QED
    BY <1>4, <2>2, <2>3, <2>4, Zenon
<1>7. CASE Handling
  <2>1. cpu.pc # "cli" /\ raised' = raised
    BY <1>7 DEF Handling, I!Spurious, I!Gate, I!Handle, I!Eoi, I!Schedule, I!Iret
  <2>2. machine' = machine /\ acpi' = acpi /\ boot' = boot /\ mode' = mode /\ redir' = redir
    BY <1>7, ServedKeeps, Zenon
  <2>3. CpuOK'
    BY <1>7, HandlingRun
  <2> QED
    BY <1>4, <1>5, <2>1, <2>2, <2>3, Zenon
<1>8. CASE UNCHANGED ivars
  <2>1. raised' = raised /\ cpu' = cpu
    BY <1>8, Zenon DEF ivars
  <2>2. machine' = machine /\ acpi' = acpi /\ boot' = boot /\ mode' = mode /\ redir' = redir
    BY <1>8, ServedKeeps, Zenon
  <2>3. CpuOK'
    BY <2>1, <2>2, Zenon DEF RunInv, CpuOK, VecOK, I!Sources
  <2> QED
    BY <1>4, <2>1, <2>2, <2>3, Zenon
<1> QED
  BY <1>1, <1>2, <1>3, <1>6, <1>7, <1>8, InterruptSteps, Zenon DEF Requests

(* When interrupts are enabled every record has been read: the number that *)
(* the kernel has for an input is one that the firmware gives it.          *)
LEMMA Mapped ==
    ASSUME TablesInv, boot = "done", NEW i \in 0 .. 23
    PROVE  acpi.mappings[i] \in I!Carries(machine, i)
<1>1. PICK l, io, cpus, map : acpi = Acpi(l, io, cpus, map) /\ MapOK(map)
  BY Zenon DEF TablesInv, AcpiOK
<1>2. acpi.mappings = map
  BY <1>1 DEF Acpi
<1>3. /\ machine \in Machines /\ table \in Nat
      /\ IF I!Rsdps(machine) = <<>> THEN table = 1 ELSE table > Len(machine.tables)
  BY DEF TablesInv, LoopOK
<1>4. \A k, n : ReadRec(k, n) <=> k \in I!Madts(machine) /\ n \in DOMAIN Table(k).records
  <2>1. CASE I!Rsdps(machine) = <<>>
    BY <1>3, <2>1, MachineFacts DEF ReadRec, I!Madts
  <2>2. CASE I!Rsdps(machine) # <<>>
    BY <1>3, <2>2, MachineFacts DEF ReadRec, I!Madts, Table
  <2> QED
    BY <2>1, <2>2
<1>5. \A r : r \in I!Overrides(machine, i) <=> \E k, n : Moved(i, k, n) /\ r = Rec(k, n)
  <2> SUFFICES ASSUME NEW r
               PROVE  r \in I!Overrides(machine, i) <=> \E k, n : Moved(i, k, n) /\ r = Rec(k, n)
    OBVIOUS
  <2>1. r \in I!Overrides(machine, i) <=>
          /\ r.type = 2 /\ r.gsi = i
          /\ \E k \in I!Madts(machine) : r \in ToSet(Table(k).records)
    <3> DEFINE Recs == UNION {ToSet(machine.tables[k].records) : k \in I!Madts(machine)}
    <3>1. r \in Recs <=> \E k \in I!Madts(machine) : r \in ToSet(machine.tables[k].records)
      OBVIOUS
    <3>2. I!Overrides(machine, i) = {x \in Recs : x.type = 2 /\ x.gsi = i}
      BY Zenon DEF I!Overrides, I!ToSet, ToSet
    <3> HIDE DEF Recs
    <3>3. r \in I!Overrides(machine, i) <=> r \in Recs /\ r.type = 2 /\ r.gsi = i
      BY <3>2, Zenon
    <3> QED
      BY <3>1, <3>3, Zenon DEF Table
  <2>2. \A k : r \in ToSet(Table(k).records) <=> \E n \in DOMAIN Table(k).records : r = Rec(k, n)
    BY Zenon DEF ToSet, Rec, Table
  <2> QED
    BY <1>4, <2>1, <2>2, Zenon DEF Moved
<1>6. CASE \E k, n : Moved(i, k, n) /\ map[i] = Rec(k, n).irq
  <2>1. PICK r \in I!Overrides(machine, i) : map[i] = r.irq
    BY <1>5, <1>6, Zenon
  <2> QED
    BY <1>2, <2>1, Zenon DEF I!Carries
<1>7. CASE map[i] = i /\ \A k, n : ~Moved(i, k, n)
  <2>1. I!Overrides(machine, i) = {}
    BY <1>5, <1>7, Zenon
  <2> QED
    BY <1>2, <1>7, <2>1, Zenon DEF I!Carries
<1> QED
  BY <1>1, <1>6, <1>7, Zenon DEF MapOK

(* The vectors that idt_make_default has gates for suffice for a machine   *)
(* with an APIC if no input is named by the firmware beyond 22 and its     *)
(* local APIC raises no spurious interrupt.                                *)
GatesSuffice ==
    \A m \in Machines : I!HasApic(m) =>
      /\ "apic" \notin m.spurious
      /\ \A d \in DOMAIN m.wired : I!Carries(m, m.wired[d]) \subseteq 0 .. 22

(* The vector of the interrupt at hand, as a number of interrupt_handler.  *)
LEMMA ApicNumber ==
    ASSUME GatesSuffice, TablesInv, ModeOK, boot = "done", mode = "apic", NEW d \in I!Sources
    PROVE  \E n \in 0 .. 22 : /\ redir[machine.wired[d]] = 64 + n
                              /\ d \in Pins => n = I!Legacy[d]
<1>1. machine \in Machines /\ I!HasApic(machine) /\ redir = I!Redirection(acpi.mappings)
  BY Zenon DEF TablesInv, LoopOK, ModeOK
<1>2. /\ Pins \subseteq DOMAIN machine.wired
      /\ machine.wired \in [DOMAIN machine.wired -> 0 .. 23]
      /\ \A e \in Pins : I!Carries(machine, machine.wired[e]) = {I!Legacy[e]}
  BY <1>1, ListAssumption, Zenon DEF I!MachineAssumption, Pins
<1>3. d \in DOMAIN machine.wired
  BY <1>2, Zenon DEF I!Sources, Pins
<1>4. PICK i \in 0 .. 23 : i = machine.wired[d]
  BY <1>2, <1>3
<1>5. PICK n : n = acpi.mappings[i]
  OBVIOUS
<1>6. n \in I!Carries(machine, i)
  BY <1>5, Mapped
<1>7. n \in 0 .. 22
  BY <1>1, <1>3, <1>4, <1>6, Zenon DEF GatesSuffice
<1>8. redir[i] = 64 + n
  BY <1>1, <1>5 DEF I!Redirection, I!APIC_IRQ_OFFS
<1>9. d \in Pins => n = I!Legacy[d]
  BY <1>2, <1>4, <1>6
<1> QED
  BY <1>4, <1>7, <1>8, <1>9, Zenon

(* That number is the one interrupt_handler has for the device.            *)
LEMMA RightHandler ==
    ASSUME GatesSuffice, TablesInv, RunInv
    PROVE  RoutedRight
<1>1. PICK pc, v, d : cpu = Cpu(pc, v, d) /\ (pc \in {"gate", "handler"} => VecOK(v, d))
  BY Zenon DEF RunInv, CpuOK
<1>2. cpu.pc = pc /\ cpu.vec = v /\ cpu.dev = d
  BY <1>1, CpuFields
<1>3. SUFFICES ASSUME pc \in {"gate", "handler"}
               PROVE  v \in I!Gates /\ (d \in Pins => I!Handler(I!Irq(v)) = d)
  BY <1>2 DEF RoutedRight, I!RoutedRight, Pins
<1>4. boot = "done"
  BY <1>2, <1>3 DEF RunInv, ModeOK
<1>5. CASE d = "none" /\ v \in {39, 47}
  BY <1>5, Legacies DEF I!Gates
<1>6. CASE mode = "pic" /\ d \in Pins /\ v = 32 + I!Legacy[d]
  BY <1>6, Legacies
     DEF I!Gates, I!Handler, I!Irq, I!is_apic_irq, I!PIC_IRQ_OFFS, I!APIC_IRQ_OFFS
<1>7. CASE mode = "apic" /\ d \in I!Sources /\ v = redir[machine.wired[d]]
  <2>1. PICK n \in 0 .. 22 : v = 64 + n /\ (d \in Pins => n = I!Legacy[d])
    BY <1>4, <1>7, ApicNumber DEF RunInv
  <2> QED
    BY <2>1, Legacies DEF I!Gates, I!Handler, I!Irq, I!is_apic_irq, I!PIC_IRQ_OFFS, I!APIC_IRQ_OFFS
<1> QED
  BY <1>1, <1>3, <1>5, <1>6, <1>7 DEF VecOK

(* Whatever tables the firmware has and however they are laid out, each    *)
(* interrupt finds a gate and the handler of its device: acpi_initialize   *)
(* has the mappings right, apic_initialize programs the vectors from them, *)
(* and interrupt_handler takes them back, with the PICs as with the APIC.  *)
THEOREM AlwaysRoutedRight == GatesSuffice => (KernelSpec => []RoutedRight)
<1> SUFFICES ASSUME GatesSuffice PROVE KernelSpec => []RoutedRight
  OBVIOUS
<1>1. Fits
  BY Zenon DEF GatesSuffice, Fits
<1>2. TablesInv /\ RunInv /\ [KernelNext]_allvars => RunInv'
  BY <1>1, StepRun
<1>3. TablesInv /\ RunInv => RoutedRight
  BY RightHandler
<1> QED
  BY <1>2, <1>3, InitRun, TablesAlways, PTL DEF KernelSpec

-----------------------------------------------------------------------------
(* The list of processors that kernel_enter starts from.                   *)

CoresListed ==
    (boot = "done" /\ mode = "apic" /\ acpi.cpus # <<>>) => ToSet(acpi.cpus) \ {BspId} = Aps

(* The list is whole: every processor that the MADT has.                   *)
LEMMA ListWhole == TablesInv => CoresListed
<1> SUFFICES ASSUME TablesInv, boot = "done", acpi.cpus # <<>>
             PROVE  ToSet(acpi.cpus) \ {BspId} = Aps
  BY DEF CoresListed
<1>1. PICK l, io, cpus, map : acpi = Acpi(l, io, cpus, map) /\ CpusOK(cpus)
  BY Zenon DEF TablesInv, AcpiOK
<1>2. acpi.cpus = cpus
  BY <1>1 DEF Acpi
<1>3. All \subseteq ToSet(cpus) /\ cpus \in Seq(All)
  BY <1>1, <1>2 DEF CpusOK
<1>4. ToSet(cpus) \subseteq All
  BY <1>3 DEF ToSet
<1> QED
  BY <1>2, <1>3, <1>4, ListAssumption, Zenon DEF All

(* Before the processors are started, or when they are not.                *)
Waiting ==
    /\ bsp \in {"before", "skipped"}
    /\ core = Null
    /\ ap_init_lock = FALSE
    /\ msec = 0
    /\ elapsed = 0
    /\ ap = [a \in Aps |-> "off"]
    /\ stack = Null

(* The loop over the processors starts from the state ApStart starts from. *)
LEMMA WaitingSteps ==
    ASSUME Waiting, CoresListed, Bsp \/ Tick \/ StartCores \/ (\E a \in Aps : Ap(a)) \/ UNCHANGED vars
    PROVE  Waiting' \/ Init'
<1>1. CASE StartCores
  <2>1. /\ core' = core /\ ap_init_lock' = ap_init_lock /\ msec' = msec /\ elapsed' = elapsed
        /\ ap' = ap /\ stack' = stack
    BY <1>1, Zenon DEF StartCores, apvars
  <2>2. bsp' = "skipped" \/ (bsp' = "loop" /\ todo' = Aps)
    BY <1>1, Zenon DEF StartCores, CoresListed
  <2> QED
    BY <2>1, <2>2, Zenon DEF Waiting, Init
<1>2. CASE UNCHANGED vars
  BY <1>2, Zenon DEF Waiting, vars
<1>3. ~Bsp /\ ~Tick
  BY DEF Waiting, Bsp, Tick, LockForCore, SendInit, InitSlept, SendSipi, SipiSlept, FinalLock
<1>4. ASSUME NEW a \in Aps
      PROVE  ~Ap(a)
  BY DEF Waiting, Ap, Trampoline, ApPrint, ApRelease, ApHalt
<1> QED
  BY <1>1, <1>2, <1>3, <1>4, Zenon

(* kernel_enter starts every processor that the MADT lists as usable, and  *)
(* goes on to the processes only after each has reported in; so not at all *)
(* if one of them never answers.                                           *)
THEOREM ListedCoresReport == KernelSpec => []AllStarted
<1>1. KernelInit => Waiting
  BY Zenon DEF KernelInit, Waiting
<1>2. Init' => IInv'
  BY InitIInv, PTL
<1>3. (Waiting \/ IInv) /\ CoresListed /\ [KernelNext]_allvars => (Waiting \/ IInv)'
  <2> SUFFICES ASSUME Waiting \/ IInv, CoresListed, [KernelNext]_allvars
               PROVE  Waiting' \/ IInv'
    OBVIOUS
  <2>1. CASE Waiting
    BY <1>2, <2>1, KernelSteps, WaitingSteps, Zenon
  <2>2. CASE IInv
    <3>1. ~StartCores
      BY <2>2 DEF StartCores, IInv, TypeOK, BspPcs
    <3>2. [Next]_vars
      BY <3>1, KernelSteps, Zenon DEF Next
    <3> QED
      BY <2>2, <3>2, StepIInv, Zenon
  <2> QED
    BY <2>1, <2>2
<1>4. Waiting \/ IInv => AllStarted
  BY DEF Waiting, IInv, AllStarted, OthersOK, CoreOK, Released
<1> QED
  BY <1>1, <1>3, <1>4, ListWhole, TablesAlways, PTL DEF KernelSpec
=============================================================================

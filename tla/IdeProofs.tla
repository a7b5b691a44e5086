----------------------------- MODULE IdeProofs -----------------------------
(***************************************************************************)
(* Proofs about the IDE driver, for any threads, addresses, counts and     *)
(* range of the registers: the table of drives, and reads that do not      *)
(* overlap.                                                                *)
(*                                                                         *)
(* The invariant of a read says what each of its steps has left in the     *)
(* controller: OnCourse.  It holds because no other thread is inside       *)
(* ide_read_drive and detection is over.                                   *)
(***************************************************************************)
EXTENDS Ide, TLAPS, SequenceTheorems

Drives == [channel : Channels, bus : Buses, type : {"ata", "atapi"}]

IdeTypeOK ==
    /\ checked \in 0 .. 4
    /\ ide_drives \in Seq(Drives)
    /\ sel \in [Channels -> Buses]
    /\ count_reg \in [Channels -> Int \X Int]
    /\ lba_reg \in [Channels -> Int \X Int]
    /\ dev \in [Channels -> [st : {"idle", "bsy", "drq", "failed"}, bus : Buses,
                             at : Int, left : Int]]
    /\ pc \in [Threads -> {"out", "select", "high", "low", "command", "status", "sector"}]
    /\ drive \in [Threads -> Drives \cup {NoDrive}]
    /\ \A t \in Threads : pc[t] # "out" => drive[t] \in Drives
    /\ lba \in [Threads -> 0 .. B * B - 1]
    /\ sector_count \in [Threads -> Nat]
    /\ data \in [Threads -> Seq(Channels \X Buses \X Int)]
    /\ result \in [Threads -> {"none", "OK", "ERR_UNKNHRDW"}]
    /\ raced \in BOOLEAN

(* The position of a drive, and the drive that is found there.             *)
Place(n) == Positions[n]
Entry(n) == [channel |-> Place(n)[1], bus |-> Place(n)[2], type |-> machine[Place(n)]]
Usable(n) == machine[Place(n)] \in {"ata", "atapi"}

(* The table after the first positions have been looked at.                *)
TableOK ==
    /\ IsInjective(ide_drives)
    /\ ToSet(ide_drives) = {Entry(n) : n \in {k \in 1 .. checked : Usable(k)}}

(* Nobody reads before detection is over, and only one thread does if no   *)
(* two have overlapped.                                                    *)
OneReader ==
    /\ checked # 4 => \A t \in Threads : pc[t] = "out"
    /\ ~raced => \A t, u \in Threads : t # u => pc[t] = "out" \/ pc[u] = "out"

(* The sectors asked for, as far as they have been stored.                 *)
Right(t) ==
    \A k \in 1 .. Len(data[t]) :
      data[t][k] = <<Channel(t), drive[t].bus, lba[t] + k - 1>>

(* What a thread that reads alone finds in the controller.                 *)
OnCourse(t) ==
    LET c == Channel(t) IN
    /\ pc[t] \in {"select", "high", "low", "command", "status"} => data[t] = <<>>
    /\ pc[t] \in {"high", "low", "command"} => sel[c] = drive[t].bus
    /\ pc[t] = "low" => lba_reg[c][1] = (lba[t] \div B) % B
    /\ pc[t] = "command" => /\ lba_reg[c][1] = lba[t] % B
                            /\ lba_reg[c][2] = (lba[t] \div B) % B
    /\ pc[t] \in {"status", "sector"} =>
         /\ Right(t)
         /\ dev[c].st \in {"bsy", "drq"} => /\ dev[c].bus = drive[t].bus
                                            /\ dev[c].at = lba[t] + Len(data[t])

(* What a thread has read when ide_read_drive has returned 0.              *)
Finished(t) ==
    (pc[t] = "out" /\ result[t] = "OK") => Right(t) /\ Len(data[t]) = sector_count[t]

IdeInv ==
    /\ IdeTypeOK
    /\ OneReader
    /\ ~raced => \A t \in Threads : Finished(t) /\ (pc[t] # "out" => OnCourse(t))

-----------------------------------------------------------------------------
(* High and low part of an address.                                        *)

(* The two register groups hold the address.                               *)
LEMMA AddressParts ==
    ASSUME NEW a \in 0 .. B * B - 1
    PROVE  /\ a \div B \in Nat
           /\ a % B \in Nat
           /\ (a \div B) % B \in Nat
           /\ ((a \div B) % B) * B + (a % B) = a
<1>0. B \in Nat \ {0}
  BY AddressAssumption
<1>1. B * B \in Nat
  BY <1>0, Z3
<1>2. a \in Nat /\ a < B * B
  BY <1>1
<1>3. /\ a \div B \in Nat
      /\ a % B \in 0 .. B - 1
      /\ a = B * (a \div B) + (a % B)
  BY <1>0, <1>2, Z3
<1>. DEFINE h == a \div B
            l == a % B
<1>. HIDE DEF h, l
<1>4. h \in Nat /\ l \in 0 .. B - 1 /\ a = B * h + l
  BY <1>3 DEF h, l
<1>5. h < B
  <2>1. ASSUME h >= B PROVE FALSE
    <3>1. PICK d \in Nat : h = B + d
      <4>1. h - B \in Nat /\ h = B + (h - B)
        BY <1>0, <1>4, <2>1
      <4>. QED BY <4>1
    <3>2. B * (B + d) = B * B + B * d /\ B * d \in Nat
      BY <1>0, <3>1, Z3
    <3>. QED BY <1>0, <1>1, <1>2, <1>4, <3>1, <3>2
  <2>. QED BY <1>0, <1>4, <2>1
<1>6. h % B = h
  BY <1>0, <1>4, <1>5
<1>7. h * B = B * h /\ B * h \in Nat
  BY <1>0, <1>4, Z3
<1>8. (h % B) * B + l = a
  BY <1>4, <1>6, <1>7
<1>. QED BY <1>0, <1>4, <1>6, <1>8 DEF h, l

-----------------------------------------------------------------------------
(* The steps of a read.                                                    *)

(* A thread inside ide_read_drive disturbs no other: it is enough to know  *)
(* what it has done itself.                                                *)
LEMMA ReaderStep ==
    ASSUME IdeInv, NEW u \in Threads, pc[u] # "out", IdeTypeOK',
           UNCHANGED <<checked, raced, drive, lba, sector_count>>,
           \A t \in Threads : t # u => /\ pc'[t] = pc[t]
                                      /\ result'[t] = result[t]
                                      /\ data'[t] = data[t],
           ~raced => Finished(u)' /\ (pc'[u] # "out" => OnCourse(u)')
    PROVE  IdeInv'
<1>1. OneReader'
  BY DEF IdeInv, OneReader
<1>2. ASSUME ~raced', NEW t \in Threads
      PROVE  Finished(t)' /\ (pc'[t] # "out" => OnCourse(t)')
  <2>1. CASE t = u
    BY <1>2, <2>1
  <2>2. CASE t # u
    <3>1. pc[t] = "out" /\ pc'[t] = "out" /\ Finished(t)
      BY <1>2, <2>2 DEF IdeInv, OneReader
    <3>2. Finished(t)'
      BY <2>2, <3>1 DEF Finished, Right, Channel
    <3>. QED BY <3>1, <3>2
  <2>. QED BY <2>1, <2>2
<1>. QED BY <1>1, <1>2 DEF IdeInv

(* What every step of a read may use.                                      *)
LEMMA ReaderFacts ==
    ASSUME IdeInv, NEW u \in Threads, pc[u] # "out"
    PROVE  /\ drive[u] \in Drives
           /\ Channel(u) \in Channels
           /\ drive[u].bus \in Buses
           /\ lba[u] \in 0 .. B * B - 1 /\ lba[u] \in Int
           /\ sector_count[u] \in Nat
           /\ data[u] \in Seq(Channels \X Buses \X Int)
           /\ ~raced => OnCourse(u)
<1>1. drive[u] \in Drives
  BY DEF IdeInv, IdeTypeOK
<1>2. Channel(u) \in Channels /\ drive[u].bus \in Buses
  BY <1>1 DEF Drives, Channel
<1>3. lba[u] \in 0 .. B * B - 1
  BY DEF IdeInv, IdeTypeOK
<1>4. lba[u] \in Int
  <2>1. B * B \in Int
    BY AddressAssumption
  <2>. QED BY <1>3, <2>1
<1>. QED BY <1>1, <1>2, <1>3, <1>4 DEF IdeInv, IdeTypeOK

(* The drive is selected; what an earlier reader wrote is of no use.       *)
LEMMA SelectInv ==
    ASSUME IdeInv, NEW u \in Threads, Select(u)
    PROVE  IdeInv'
<1>0. pc[u] = "select" /\ pc' = [pc EXCEPT ![u] = "high"]
  BY DEF Select, Goto
<1>. DEFINE c == Channel(u)
<1>1. drive[u].bus \in Buses /\ c \in Channels /\ (~raced => OnCourse(u))
  BY <1>0, ReaderFacts
<1>2. /\ sel' = [sel EXCEPT ![c] = drive[u].bus]
      /\ UNCHANGED <<machine, checked, ide_drives, count_reg, lba_reg, dev, drive, lba,
                     sector_count, data, result, calls, raced, stalled>>
  BY DEF Select, detection, arguments
<1>3. /\ pc'[u] = "high" /\ \A t \in Threads : t # u => pc'[t] = pc[t]
      /\ sel' \in [Channels -> Buses] /\ sel'[c] = drive[u].bus
      /\ pc' \in [Threads -> {"out", "select", "high", "low", "command", "status", "sector"}]
      /\ pc[u] # "out"
  BY <1>0, <1>1, <1>2 DEF IdeInv, IdeTypeOK
<1>4. IdeTypeOK'
  BY <1>2, <1>3 DEF IdeInv, IdeTypeOK
<1>5. ~raced => Finished(u)' /\ OnCourse(u)'
  BY <1>0, <1>1, <1>2, <1>3 DEF OnCourse, Finished, Channel
<1>. QED BY <1>2, <1>3, <1>4, <1>5, ReaderStep

(* The registers of the thread's channel take a value, and the one before  *)
(* moves back.                                                             *)
LEMMA RegistersWritten ==
    ASSUME IdeInv, NEW u \in Threads, pc[u] # "out", NEW n \in Int, NEW a \in Int,
           WriteRegs(u, n, a)
    PROVE  /\ count_reg' \in [Channels -> Int \X Int]
           /\ lba_reg' \in [Channels -> Int \X Int]
           /\ lba_reg'[Channel(u)][1] = a
           /\ lba_reg'[Channel(u)][2] = lba_reg[Channel(u)][1]
           /\ UNCHANGED <<machine, checked, ide_drives, sel, dev, drive, lba,
                          sector_count, data, result, calls, raced, stalled>>
<1>1. Channel(u) \in Channels
  BY ReaderFacts
<1>2. /\ count_reg \in [Channels -> Int \X Int]
      /\ lba_reg \in [Channels -> Int \X Int]
  BY DEF IdeInv, IdeTypeOK
<1>3. UNCHANGED <<machine, checked, ide_drives, sel, dev, drive, lba,
                  sector_count, data, result, calls, raced, stalled>>
  BY DEF WriteRegs, detection, arguments
<1>. DEFINE c == Channel(u)
<1>4. /\ count_reg' = [count_reg EXCEPT ![c] = <<n, count_reg[c][1]>>]
      /\ lba_reg' = [lba_reg EXCEPT ![c] = <<a, lba_reg[c][1]>>]
  BY DEF WriteRegs
<1>5. c \in Channels
  BY <1>1
<1>. HIDE DEF c
<1>6. /\ <<n, count_reg[c][1]>> \in Int \X Int
      /\ <<a, lba_reg[c][1]>> \in Int \X Int
  BY <1>2, <1>5
<1>7. /\ count_reg' \in [Channels -> Int \X Int]
      /\ lba_reg' \in [Channels -> Int \X Int]
      /\ lba_reg'[c] = <<a, lba_reg[c][1]>>
  BY <1>2, <1>4, <1>5, <1>6
<1>. QED BY <1>3, <1>7 DEF c

(* The high bytes of count and address go in first.                        *)
LEMMA WriteHighInv ==
    ASSUME IdeInv, NEW u \in Threads, WriteHigh(u)
    PROVE  IdeInv'
<1>0. pc[u] = "high" /\ pc' = [pc EXCEPT ![u] = "low"]
  BY DEF WriteHigh, Goto
<1>. DEFINE n == (sector_count[u] \div B) % B
            a == (lba[u] \div B) % B
            c == Channel(u)
<1>1. /\ c \in Channels /\ (~raced => OnCourse(u))
      /\ lba[u] \in 0 .. B * B - 1 /\ sector_count[u] \in Nat
  BY <1>0, ReaderFacts
<1>2. n \in Int /\ a \in Int
  BY <1>1, AddressAssumption, AddressParts
<1>3. WriteRegs(u, n, a)
  BY DEF WriteHigh
<1>. HIDE DEF n, a
<1>4. /\ count_reg' \in [Channels -> Int \X Int]
      /\ lba_reg' \in [Channels -> Int \X Int]
      /\ lba_reg'[c][1] = a
      /\ UNCHANGED <<machine, checked, ide_drives, sel, dev, drive, lba,
                     sector_count, data, result, calls, raced, stalled>>
  BY <1>0, <1>2, <1>3, RegistersWritten
<1>5. /\ pc'[u] = "low" /\ \A t \in Threads : t # u => pc'[t] = pc[t]
      /\ pc' \in [Threads -> {"out", "select", "high", "low", "command", "status", "sector"}]
      /\ pc[u] # "out"
  BY <1>0 DEF IdeInv, IdeTypeOK
<1>6. IdeTypeOK'
  BY <1>4, <1>5 DEF IdeInv, IdeTypeOK
<1>7. ~raced => Finished(u)' /\ OnCourse(u)'
  BY <1>0, <1>1, <1>4, <1>5 DEF OnCourse, Finished, Channel, a
<1>. QED BY <1>4, <1>5, <1>6, <1>7, ReaderStep

(* The low bytes push them into the second register of each pair.          *)
LEMMA WriteLowInv ==
    ASSUME IdeInv, NEW u \in Threads, WriteLow(u)
    PROVE  IdeInv'
<1>0. pc[u] = "low" /\ pc' = [pc EXCEPT ![u] = "command"]
  BY DEF WriteLow, Goto
<1>. DEFINE n == sector_count[u] % B
            a == lba[u] % B
            c == Channel(u)
<1>1. /\ c \in Channels /\ (~raced => OnCourse(u))
      /\ lba[u] \in 0 .. B * B - 1 /\ sector_count[u] \in Nat
  BY <1>0, ReaderFacts
<1>2. n \in Int /\ a \in Int
  BY <1>1, AddressAssumption, AddressParts
<1>3. WriteRegs(u, n, a)
  BY DEF WriteLow
<1>. HIDE DEF n, a
<1>4. /\ count_reg' \in [Channels -> Int \X Int]
      /\ lba_reg' \in [Channels -> Int \X Int]
      /\ lba_reg'[c][1] = a
      /\ lba_reg'[c][2] = lba_reg[c][1]
      /\ UNCHANGED <<machine, checked, ide_drives, sel, dev, drive, lba,
                     sector_count, data, result, calls, raced, stalled>>
  BY <1>0, <1>2, <1>3, RegistersWritten
<1>5. /\ pc'[u] = "command" /\ \A t \in Threads : t # u => pc'[t] = pc[t]
      /\ pc' \in [Threads -> {"out", "select", "high", "low", "command", "status", "sector"}]
      /\ pc[u] # "out"
  BY <1>0 DEF IdeInv, IdeTypeOK
<1>6. IdeTypeOK'
  BY <1>4, <1>5 DEF IdeInv, IdeTypeOK
<1>7. ~raced => Finished(u)' /\ OnCourse(u)'
  BY <1>0, <1>1, <1>4, <1>5 DEF OnCourse, Finished, Channel, a
<1>. QED BY <1>4, <1>5, <1>6, <1>7, ReaderStep

(* The command makes the drive read what the registers say.                *)
LEMMA CommandInv ==
    ASSUME IdeInv, NEW u \in Threads, Command(u)
    PROVE  IdeInv'
<1>0. pc[u] = "command" /\ pc' = [pc EXCEPT ![u] = "status"]
  BY DEF Command, Goto
<1>. DEFINE c == Channel(u)
            n == count_reg[c][2] * B + count_reg[c][1]
            at == lba_reg[c][2] * B + lba_reg[c][1]
            left == IF n = 0 THEN B * B ELSE n
<1>1. /\ c \in Channels /\ (~raced => OnCourse(u))
      /\ lba[u] \in 0 .. B * B - 1 /\ lba[u] \in Int
  BY <1>0, ReaderFacts
<1>2. /\ dev' = [dev EXCEPT ![c] = [st |-> "bsy", bus |-> sel[c], at |-> at, left |-> left]]
      /\ UNCHANGED <<machine, checked, ide_drives, sel, count_reg, lba_reg, drive, lba,
                     sector_count, data, result, calls, raced, stalled>>
  BY DEF Command, detection, arguments
<1>3. /\ pc'[u] = "status" /\ \A t \in Threads : t # u => pc'[t] = pc[t]
      /\ pc' \in [Threads -> {"out", "select", "high", "low", "command", "status", "sector"}]
      /\ pc[u] # "out"
  BY <1>0 DEF IdeInv, IdeTypeOK
<1>4. at \in Int /\ left \in Int
  <2>1. /\ count_reg[c][1] \in Int /\ count_reg[c][2] \in Int
        /\ lba_reg[c][1] \in Int /\ lba_reg[c][2] \in Int
    BY <1>1 DEF IdeInv, IdeTypeOK
  <2>. QED BY <2>1, AddressAssumption
<1>5. ~raced => at = lba[u]
  BY <1>0, <1>1, AddressParts DEF OnCourse
<1>. HIDE DEF n, at, left
<1>6. sel[c] \in Buses
  BY <1>1 DEF IdeInv, IdeTypeOK
<1>7. /\ dev' \in [Channels -> [st : {"idle", "bsy", "drq", "failed"}, bus : Buses,
                                 at : Int, left : Int]]
      /\ dev'[c].bus = sel[c] /\ dev'[c].at = at
  BY <1>1, <1>2, <1>4, <1>6 DEF IdeInv, IdeTypeOK
<1>8. IdeTypeOK'
  BY <1>2, <1>3, <1>7 DEF IdeInv, IdeTypeOK
<1>9. ~raced => Finished(u)' /\ OnCourse(u)'
  <2>. SUFFICES ASSUME ~raced PROVE Finished(u)' /\ OnCourse(u)'
    OBVIOUS
  <2>1. data'[u] = <<>> /\ Len(data'[u]) = 0 /\ sel[c] = drive[u].bus
    BY <1>0, <1>1, <1>2 DEF OnCourse
  <2>2. Right(u)'
    BY <2>1 DEF Right
  <2>3. dev'[c].bus = drive'[u].bus /\ dev'[c].at = lba'[u] + Len(data'[u])
    BY <1>1, <1>2, <1>5, <1>7, <2>1
  <2>4. Channel(u)' = c
    BY <1>2 DEF Channel
  <2>. QED BY <1>3, <2>1, <2>2, <2>3, <2>4 DEF OnCourse, Finished
<1>. QED BY <1>2, <1>3, <1>8, <1>9, ReaderStep

(* The wait for the drive ends a read, or lets it go on.                   *)
LEMMA StatusInv ==
    ASSUME IdeInv, NEW u \in Threads, Status(u)
    PROVE  IdeInv'
<1>0. pc[u] = "status" /\ pc[u] # "out"
  BY DEF Status
<1>1. UNCHANGED <<machine, checked, ide_drives, sel, count_reg, lba_reg, dev, drive, lba,
                  sector_count, data, calls, raced, stalled>>
  BY DEF Status, Return, detection, arguments, regs
<1>2. ~raced => OnCourse(u)
  BY <1>0, ReaderFacts
<1>3. CASE Return(u, "ERR_UNKNHRDW")
  <2>1. /\ pc' = [pc EXCEPT ![u] = "out"]
        /\ result' = [result EXCEPT ![u] = "ERR_UNKNHRDW"]
    BY <1>3 DEF Return, Goto
  <2>2. /\ pc'[u] = "out" /\ result'[u] = "ERR_UNKNHRDW"
        /\ \A t \in Threads : t # u => pc'[t] = pc[t] /\ result'[t] = result[t]
        /\ pc' \in [Threads -> {"out", "select", "high", "low", "command", "status", "sector"}]
        /\ result' \in [Threads -> {"none", "OK", "ERR_UNKNHRDW"}]
    BY <2>1 DEF IdeInv, IdeTypeOK
  <2>3. IdeTypeOK'
    BY <1>1, <2>2 DEF IdeInv, IdeTypeOK
  <2>4. Finished(u)'
    BY <2>2 DEF Finished
  <2>. QED BY <1>0, <1>1, <2>2, <2>3, <2>4, ReaderStep
<1>4. CASE Goto(u, "sector") /\ UNCHANGED result
  <2>1. /\ pc'[u] = "sector" /\ \A t \in Threads : t # u => pc'[t] = pc[t]
        /\ pc' \in [Threads -> {"out", "select", "high", "low", "command", "status", "sector"}]
    BY <1>4 DEF Goto, IdeInv, IdeTypeOK
  <2>2. IdeTypeOK'
    BY <1>0, <1>1, <1>4, <2>1 DEF IdeInv, IdeTypeOK
  <2>3. ~raced => Finished(u)' /\ OnCourse(u)'
    BY <1>0, <1>1, <1>2, <2>1 DEF OnCourse, Finished, Right, Channel
  <2>. QED BY <1>0, <1>1, <1>4, <2>1, <2>2, <2>3, ReaderStep
<1>. QED BY <1>3, <1>4 DEF Status

(* After the last sector the read returns.                                 *)
LEMMA DoneInv ==
    ASSUME IdeInv, NEW u \in Threads, Done(u)
    PROVE  IdeInv'
<1>0. pc[u] = "sector" /\ pc[u] # "out" /\ Len(data[u]) = sector_count[u]
  BY DEF Done
<1>1. /\ UNCHANGED <<machine, checked, ide_drives, sel, count_reg, lba_reg, dev, drive, lba,
                     sector_count, data, calls, raced, stalled>>
      /\ pc' = [pc EXCEPT ![u] = "out"]
      /\ result' = [result EXCEPT ![u] = "OK"]
  BY DEF Done, Return, Goto, detection, arguments, regs
<1>2. ~raced => OnCourse(u)
  BY <1>0, ReaderFacts
<1>3. /\ pc'[u] = "out" /\ \A t \in Threads : t # u => pc'[t] = pc[t] /\ result'[t] = result[t]
      /\ pc' \in [Threads -> {"out", "select", "high", "low", "command", "status", "sector"}]
      /\ result' \in [Threads -> {"none", "OK", "ERR_UNKNHRDW"}]
  BY <1>1 DEF IdeInv, IdeTypeOK
<1>4. IdeTypeOK'
  BY <1>1, <1>3 DEF IdeInv, IdeTypeOK
<1>5. ~raced => Finished(u)'
  BY <1>0, <1>1, <1>2 DEF OnCourse, Finished, Right, Channel
<1>. QED BY <1>0, <1>1, <1>3, <1>4, <1>5, ReaderStep

(* A sector is the next one of those asked for.                            *)
LEMMA SectorInv ==
    ASSUME IdeInv, NEW u \in Threads, Sector(u)
    PROVE  IdeInv'
<1>. DEFINE c == Channel(u)
            d == dev[c]
            e == <<c, d.bus, d.at>>
            next == IF d.left = 1 THEN Idle
                    ELSE [st |-> "bsy", bus |-> d.bus, at |-> d.at + 1, left |-> d.left - 1]
<1>0. pc[u] = "sector" /\ pc[u] # "out"
  BY DEF Sector
<1>1. /\ d.st = "drq"
      /\ data' = [data EXCEPT ![u] = Append(data[u], e)]
      /\ dev' = [dev EXCEPT ![c] = next]
      /\ UNCHANGED <<machine, checked, ide_drives, sel, count_reg, lba_reg, pc, drive, lba,
                     sector_count, result, calls, raced, stalled>>
  BY DEF Sector, detection, arguments
<1>2. /\ c \in Channels /\ (~raced => OnCourse(u))
      /\ lba[u] \in Int /\ data[u] \in Seq(Channels \X Buses \X Int)
  BY <1>0, ReaderFacts
<1>3. d.bus \in Buses /\ d.at \in Int /\ d.left \in Int
  BY <1>2 DEF IdeInv, IdeTypeOK
<1>4. /\ next \in [st : {"idle", "bsy", "drq", "failed"}, bus : Buses, at : Int, left : Int]
      /\ next.st \in {"bsy", "drq"} => next.bus = d.bus /\ next.at = d.at + 1
  <2>1. CASE d.left = 1
    <3>1. next = Idle
      BY <2>1
    <3>2. /\ Idle \in [st : {"idle", "bsy", "drq", "failed"}, bus : Buses, at : Int, left : Int]
          /\ Idle.st = "idle"
      BY DEF Idle, Buses
    <3>. QED BY <3>1, <3>2
  <2>2. CASE d.left # 1
    BY <1>3, <2>2
  <2>. QED BY <2>1, <2>2
<1>5. e \in Channels \X Buses \X Int
  BY <1>2, <1>3
<1>. HIDE DEF e, next, d
<1>6. /\ data'[u] = Append(data[u], e) /\ data'[u] \in Seq(Channels \X Buses \X Int)
      /\ \A t \in Threads : t # u => data'[t] = data[t]
      /\ data' \in [Threads -> Seq(Channels \X Buses \X Int)]
  <2>1. Append(data[u], e) \in Seq(Channels \X Buses \X Int)
    BY <1>2, <1>5
  <2>. QED BY <1>1, <2>1 DEF IdeInv, IdeTypeOK
<1>7. /\ dev'[c] = next
      /\ dev' \in [Channels -> [st : {"idle", "bsy", "drq", "failed"}, bus : Buses,
                                 at : Int, left : Int]]
  BY <1>1, <1>2, <1>4 DEF IdeInv, IdeTypeOK
<1>8. IdeTypeOK'
  BY <1>1, <1>6, <1>7 DEF IdeInv, IdeTypeOK
<1>9. ~raced => Finished(u)' /\ OnCourse(u)'
  <2>. SUFFICES ASSUME ~raced PROVE Finished(u)' /\ OnCourse(u)'
    OBVIOUS
  <2>1. Right(u) /\ d.bus = drive[u].bus /\ d.at = lba[u] + Len(data[u])
    BY <1>0, <1>1, <1>2 DEF OnCourse, d
  <2>2. /\ Len(data'[u]) = Len(data[u]) + 1 /\ Len(data[u]) \in Nat
        /\ \A k \in 1 .. Len(data[u]) : data'[u][k] = data[u][k]
        /\ data'[u][Len(data[u]) + 1] = e
    BY <1>2, <1>5, <1>6
  <2>3. Channel(u)' = c /\ drive'[u] = drive[u] /\ lba'[u] = lba[u]
    BY <1>1 DEF Channel
  <2>4. ASSUME NEW k \in 1 .. Len(data'[u])
        PROVE  data'[u][k] = <<c, drive[u].bus, lba[u] + k - 1>>
    <3>1. CASE k = Len(data[u]) + 1
      <4>1. lba[u] + k - 1 = d.at
        BY <1>2, <2>1, <2>2, <3>1
      <4>. QED BY <2>1, <2>2, <3>1, <4>1 DEF e
    <3>2. CASE k # Len(data[u]) + 1
      <4>1. k \in 1 .. Len(data[u])
        BY <2>2, <3>2
      <4>. QED BY <2>1, <2>2, <4>1 DEF Right
    <3>. QED BY <3>1, <3>2
  <2>5. Right(u)'
    BY <2>3, <2>4 DEF Right
  <2>6. dev'[c].st \in {"bsy", "drq"} =>
          dev'[c].bus = drive[u].bus /\ dev'[c].at = lba[u] + Len(data'[u])
    BY <1>2, <1>4, <1>7, <2>1, <2>2
  <2>. QED BY <1>0, <1>1, <2>3, <2>5, <2>6 DEF OnCourse, Finished
<1>. QED BY <1>0, <1>1, <1>6, <1>8, <1>9, ReaderStep

(* A thread enters ide_read_drive; if another is inside, they have raced.  *)
LEMMA CallInv ==
    ASSUME IdeInv, NEW u \in Threads, Call(u)
    PROVE  IdeInv'
<1>0. /\ checked = 4 /\ pc[u] = "out"
      /\ raced' = (raced \/ \E t \in Threads \ {u} : pc[t] # "out")
      /\ data' = [data EXCEPT ![u] = <<>>]
      /\ pc' = [pc EXCEPT ![u] = "select"]
      /\ UNCHANGED <<machine, checked, ide_drives, sel, count_reg, lba_reg, dev, result, stalled>>
  BY DEF Call, Goto, detection, regs, Positions
<1>1. PICK d \in ToSet(ide_drives), a \in Lbas, n \in Counts :
        /\ drive' = [drive EXCEPT ![u] = d]
        /\ lba' = [lba EXCEPT ![u] = a]
        /\ sector_count' = [sector_count EXCEPT ![u] = n]
  BY DEF Call
<1>2. d \in Drives
  BY DEF ToSet, IdeInv, IdeTypeOK
<1>3. a \in 0 .. B * B - 1 /\ n \in Nat
  BY AddressAssumption
<1>4. /\ pc'[u] = "select" /\ data'[u] = <<>> /\ drive'[u] = d
      /\ \A t \in Threads : t # u => /\ pc'[t] = pc[t] /\ data'[t] = data[t]
                                    /\ drive'[t] = drive[t] /\ lba'[t] = lba[t]
                                    /\ sector_count'[t] = sector_count[t]
  BY <1>0, <1>1 DEF IdeInv, IdeTypeOK
<1>5. IdeTypeOK'
  <2>1. pc' \in [Threads -> {"out", "select", "high", "low", "command", "status", "sector"}]
    BY <1>0 DEF IdeInv, IdeTypeOK
  <2>2. drive' \in [Threads -> Drives \cup {NoDrive}]
    BY <1>1, <1>2 DEF IdeInv, IdeTypeOK
  <2>3. \A t \in Threads : pc'[t] # "out" => drive'[t] \in Drives
    BY <1>2, <1>4 DEF IdeInv, IdeTypeOK
  <2>4. lba' \in [Threads -> 0 .. B * B - 1] /\ sector_count' \in [Threads -> Nat]
    <3>. DEFINE A == 0 .. B * B - 1
    <3>1. a \in A /\ lba \in [Threads -> A]
      BY <1>3 DEF IdeInv, IdeTypeOK
    <3>. HIDE DEF A
    <3>2. lba' \in [Threads -> A]
      BY <1>1, <3>1
    <3>3. sector_count' \in [Threads -> Nat]
      BY <1>1, <1>3 DEF IdeInv, IdeTypeOK
    <3>. QED BY <3>2, <3>3 DEF A
  <2>5. data' \in [Threads -> Seq(Channels \X Buses \X Int)]
    <3>1. <<>> \in Seq(Channels \X Buses \X Int)
      OBVIOUS
    <3>. QED BY <1>0, <3>1 DEF IdeInv, IdeTypeOK
  <2>6. raced' \in BOOLEAN
    BY <1>0
  <2>. QED BY <1>0, <2>1, <2>2, <2>3, <2>4, <2>5, <2>6 DEF IdeInv, IdeTypeOK
<1>6. ~raced' => ~raced /\ \A t \in Threads : t # u => pc[t] = "out"
  BY <1>0
<1>7. OneReader'
  BY <1>0, <1>4, <1>6 DEF OneReader
<1>8. ASSUME ~raced', NEW t \in Threads
      PROVE  Finished(t)' /\ (pc'[t] # "out" => OnCourse(t)')
  <2>1. CASE t = u
    BY <1>4, <2>1 DEF Finished, OnCourse
  <2>2. CASE t # u
    <3>1. pc'[t] = "out" /\ Finished(t)
      BY <1>4, <1>6, <1>8, <2>2 DEF IdeInv
    <3>2. Finished(t)'
      BY <1>0, <1>4, <2>2, <3>1 DEF Finished, Right, Channel
    <3>. QED BY <3>1, <3>2
  <2>. QED BY <2>1, <2>2
<1>. QED BY <1>5, <1>7, <1>8 DEF IdeInv

(* A drive becomes ready or fails: only the status changes.                *)
LEMMA DriveInv ==
    ASSUME IdeInv, NEW c \in Channels, Drive(c)
    PROVE  IdeInv'
<1>1. /\ dev[c].st = "bsy"
      /\ \E s \in {"drq", "failed"} : dev' = [dev EXCEPT ![c].st = s]
      /\ UNCHANGED <<machine, checked, ide_drives, sel, count_reg, lba_reg, pc, drive, lba,
                     sector_count, data, result, calls, raced>>
  BY DEF Drive, DriveReady, DriveFails, detection, arguments
<1>2. PICK s \in {"drq", "failed"} : dev' = [dev EXCEPT ![c].st = s]
  BY <1>1
<1>3. dev \in [Channels -> [st : {"idle", "bsy", "drq", "failed"}, bus : Buses,
                             at : Int, left : Int]]
  BY DEF IdeInv, IdeTypeOK
<1>. DEFINE dc == dev[c]
            new == [dc EXCEPT !.st = s]
<1>4. dev' = [dev EXCEPT ![c] = new]
  BY <1>2
<1>5. dc \in [st : {"idle", "bsy", "drq", "failed"}, bus : Buses, at : Int, left : Int]
  BY <1>3
<1>6. /\ new \in [st : {"idle", "bsy", "drq", "failed"}, bus : Buses, at : Int, left : Int]
      /\ new.bus = dc.bus /\ new.at = dc.at
  <2>. HIDE DEF dc
  <2>. QED BY <1>5
<1>. HIDE DEF new
<1>7. /\ dev' \in [Channels -> [st : {"idle", "bsy", "drq", "failed"}, bus : Buses,
                                 at : Int, left : Int]]
      /\ \A x \in Channels : /\ dev'[x].bus = dev[x].bus /\ dev'[x].at = dev[x].at
                              /\ dev'[x].st \in {"bsy", "drq"} => dev[x].st \in {"bsy", "drq"}
  BY <1>1, <1>3, <1>4, <1>6
<1>8. IdeTypeOK'
  BY <1>1, <1>7 DEF IdeInv, IdeTypeOK
<1>9. OneReader'
  BY <1>1 DEF IdeInv, OneReader
<1>10. ASSUME ~raced', NEW t \in Threads
       PROVE  Finished(t)' /\ (pc'[t] # "out" => OnCourse(t)')
  <2>1. Finished(t) /\ (pc[t] # "out" => OnCourse(t))
    BY <1>1, <1>10 DEF IdeInv
  <2>2. Channel(t)' = Channel(t) /\ (pc[t] # "out" => Channel(t) \in Channels)
    BY <1>1, ReaderFacts DEF Channel
  <2>3. Right(t)' <=> Right(t)
    BY <1>1 DEF Right, Channel
  <2>4. Finished(t)'
    BY <1>1, <2>1, <2>3 DEF Finished
  <2>5. ASSUME pc'[t] # "out" PROVE OnCourse(t)'
    <3>1. OnCourse(t) /\ Channel(t) \in Channels
      BY <1>1, <2>1, <2>2, <2>5
    <3>. QED BY <1>1, <1>7, <2>2, <2>3, <3>1 DEF OnCourse
  <2>. QED BY <2>4, <2>5
<1>. QED BY <1>8, <1>9, <1>10 DEF IdeInv

(* The four positions.                                                     *)
LEMMA PositionsAre ==
    /\ Len(Positions) = 4
    /\ \A n \in 1 .. 4 : Place(n)[1] \in Channels /\ Place(n)[2] \in Buses
    /\ \A m, n \in 1 .. 4 :
         Place(m)[1] = Place(n)[1] /\ Place(m)[2] = Place(n)[2] => m = n
    /\ ToSet(Positions) = {Place(n) : n \in 1 .. 4}
<1>1. /\ Place(1)[1] = 0 /\ Place(1)[2] = 0 /\ Place(2)[1] = 0 /\ Place(2)[2] = 1
      /\ Place(3)[1] = 1 /\ Place(3)[2] = 0 /\ Place(4)[1] = 1 /\ Place(4)[2] = 1
  BY DEF Place, Positions
<1>2. \A n \in 1 .. 4 : n = 1 \/ n = 2 \/ n = 3 \/ n = 4
  OBVIOUS
<1>3. Len(Positions) = 4 /\ DOMAIN Positions = 1 .. 4
  BY DEF Positions
<1>4. ToSet(Positions) = {Place(n) : n \in 1 .. 4}
  BY <1>3 DEF ToSet, Place
<1>5. \A n \in 1 .. 4 : Place(n)[1] \in Channels /\ Place(n)[2] \in Buses
  BY <1>1, <1>2 DEF Channels, Buses
<1>6. \A m, n \in 1 .. 4 :
        Place(m)[1] = Place(n)[1] /\ Place(m)[2] = Place(n)[2] => m = n
  BY <1>1, <1>2
<1>. QED BY <1>3, <1>4, <1>5, <1>6

(* What ide_check_and_add_drive does to the table: the drive at the next   *)
(* position is appended if it is one.                                      *)
LEMMA TableGrows ==
    ASSUME IdeTypeOK, CheckAndAddDrive
    PROVE  /\ checked + 1 \in 1 .. 4
           /\ checked' = IF machine[Place(checked + 1)] = "silent" THEN checked
                         ELSE checked + 1
           /\ Usable(checked + 1) => /\ Entry(checked + 1) \in Drives
                                     /\ ide_drives' = Append(ide_drives, Entry(checked + 1))
           /\ ~Usable(checked + 1) => ide_drives' = ide_drives
<1>. DEFINE n == checked + 1
            p == Positions[n]
<1>1. n \in 1 .. 4 /\ checked' = IF machine[p] = "silent" THEN checked ELSE n
  BY PositionsAre DEF CheckAndAddDrive, IdeTypeOK
<1>2. /\ TypeOf(machine[p]) = {} => ide_drives' = ide_drives
      /\ TypeOf(machine[p]) # {} => \E k \in TypeOf(machine[p]) :
           ide_drives' = Append(ide_drives, [channel |-> p[1], bus |-> p[2], type |-> k])
  BY DEF CheckAndAddDrive
<1>3. Usable(n) <=> machine[p] \in {"ata", "atapi"}
  BY DEF Usable, Place
<1>4. Entry(n) = [channel |-> p[1], bus |-> p[2], type |-> machine[p]]
  BY DEF Entry, Place
<1>5. p[1] \in Channels /\ p[2] \in Buses
  BY <1>1, PositionsAre DEF Place
<1>6. /\ machine[p] \in {"ata", "atapi"} => TypeOf(machine[p]) = {machine[p]}
      /\ machine[p] \notin {"ata", "atapi"} => TypeOf(machine[p]) = {}
  BY DEF TypeOf
<1>. HIDE DEF n, p
<1>7. ASSUME Usable(n) PROVE Entry(n) \in Drives /\ ide_drives' = Append(ide_drives, Entry(n))
  <2>1. Entry(n) \in Drives
    BY <1>3, <1>4, <1>5, <1>7 DEF Drives
  <2>. QED BY <1>2, <1>3, <1>4, <1>6, <1>7, <2>1
<1>8. ASSUME ~Usable(n) PROVE ide_drives' = ide_drives
  BY <1>2, <1>3, <1>6, <1>8
<1>. QED BY <1>1, <1>7, <1>8 DEF n, p, Place

(* Detection comes before all reads.                                       *)
LEMMA CheckAndAddDriveInv ==
    ASSUME IdeInv, CheckAndAddDrive
    PROVE  IdeInv'
<1>. DEFINE n == checked + 1
            p == Positions[n]
<1>0. /\ UNCHANGED <<machine, count_reg, dev, pc, drive, lba, sector_count, data, result,
                     raced>>
      /\ sel' = [sel EXCEPT ![p[1]] = p[2]]
      /\ lba_reg' = [lba_reg EXCEPT ![p[1]] = <<0, lba_reg[p[1]][1]>>]
      /\ checked < Len(Positions)
  BY DEF CheckAndAddDrive, arguments
<1>1. n \in 1 .. 4 /\ checked' \in {checked, n} /\ ide_drives' \in Seq(Drives)
  <2>1. IdeTypeOK /\ ide_drives \in Seq(Drives)
    BY DEF IdeInv, IdeTypeOK
  <2>. QED BY <2>1, TableGrows
<1>2. p[1] \in Channels /\ p[2] \in Buses
  BY <1>1, PositionsAre DEF Place
<1>3. \A t \in Threads : pc[t] = "out"
  <2>1. checked \in 0 .. 4 /\ checked # 4
    BY <1>0, PositionsAre DEF IdeInv, IdeTypeOK
  <2>. QED BY <2>1 DEF IdeInv, OneReader
<1>. HIDE DEF n, p
<1>4. sel' \in [Channels -> Buses]
  BY <1>0, <1>2 DEF IdeInv, IdeTypeOK
<1>5. lba_reg' \in [Channels -> Int \X Int]
  <2>1. lba_reg \in [Channels -> Int \X Int]
    BY DEF IdeInv, IdeTypeOK
  <2>2. <<0, lba_reg[p[1]][1]>> \in Int \X Int
    BY <1>2, <2>1
  <2>. QED BY <1>0, <1>2, <2>1, <2>2
<1>6. checked' \in 0 .. 4
  BY <1>1 DEF n, IdeInv, IdeTypeOK
<1>7. IdeTypeOK'
  BY <1>0, <1>1, <1>4, <1>5, <1>6 DEF IdeInv, IdeTypeOK
<1>8. OneReader'
  BY <1>0, <1>3 DEF OneReader
<1>9. ASSUME ~raced', NEW t \in Threads PROVE Finished(t)' /\ pc'[t] = "out"
  <2>1. Finished(t) /\ pc[t] = "out"
    BY <1>0, <1>3, <1>9 DEF IdeInv
  <2>. QED BY <1>0, <2>1 DEF Finished, Right, Channel
<1>. QED BY <1>7, <1>8, <1>9 DEF IdeInv

(* What the table is said to list depends on nothing else.                 *)
LEMMA TableKept ==
    ASSUME TableOK, UNCHANGED <<machine, checked, ide_drives>>
    PROVE  TableOK'
BY DEF TableOK, Entry, Usable, Place, IsInjective, ToSet

(* The table stays right when a drive answers.                             *)
LEMMA TableStep ==
    ASSUME IdeTypeOK, TableOK, CheckAndAddDrive, machine[Place(checked + 1)] # "silent"
    PROVE  TableOK'
<1>. DEFINE n == checked + 1
            E(k) == Entry(k)
<1>0. /\ n \in 1 .. 4 /\ checked' = n /\ checked \in 0 .. 4 /\ checked \in Int
      /\ Usable(n) => E(n) \in Drives /\ ide_drives' = Append(ide_drives, E(n))
      /\ ~Usable(n) => ide_drives' = ide_drives
      /\ ide_drives \in Seq(Drives)
  BY TableGrows DEF IdeTypeOK
<1>1. /\ machine' = machine
      /\ \A k \in 1 .. 4 : (Entry(k)' = Entry(k)) /\ (Usable(k)' <=> Usable(k))
  BY DEF CheckAndAddDrive, Entry, Usable, Place
<1>2. \A k \in 1 .. n : k \in 1 .. checked \/ k = n
  BY <1>0
<1>3. \A k \in 1 .. checked : k \in 1 .. n /\ k # n /\ k \in 1 .. 4
  BY <1>0
<1>4. \A k, l \in 1 .. 4 : E(k) = E(l) => k = l
  <2>1. \A k \in 1 .. 4 : E(k).channel = Place(k)[1] /\ E(k).bus = Place(k)[2]
    BY DEF Entry
  <2>. HIDE DEF E
  <2>. QED BY <2>1, PositionsAre
<1>5. ToSet(ide_drives) = {E(k) : k \in {l \in 1 .. checked : Usable(l)}}
  BY DEF TableOK
<1>6. ToSet(ide_drives)' = {E(k) : k \in {l \in 1 .. n : Usable(l)}} /\ IsInjective(ide_drives)'
  <2>1. CASE Usable(n)
    <3>. DEFINE s == ide_drives
                m == Len(ide_drives)
    <3>1. /\ m \in Nat /\ DOMAIN s = 1 .. m /\ DOMAIN ide_drives' = 1 .. m + 1
          /\ \A k \in 1 .. m : ide_drives'[k] = s[k]
          /\ ide_drives'[m + 1] = E(n)
      <4>. HIDE DEF E, n
      <4>. QED BY <1>0, <2>1
    <3>2. ToSet(ide_drives)' = ToSet(ide_drives) \cup {E(n)}
      <4>. HIDE DEF E, n, m
      <4>1. \A k \in 1 .. m + 1 : k \in 1 .. m \/ k = m + 1
        BY <3>1
      <4>2. \A k \in 1 .. m : k \in 1 .. m + 1
        BY <3>1
      <4>3. m + 1 \in 1 .. m + 1
        BY <3>1
      <4>. QED BY <3>1, <4>1, <4>2, <4>3 DEF ToSet
    <3>3. {E(k) : k \in {l \in 1 .. n : Usable(l)}}
            = {E(k) : k \in {l \in 1 .. checked : Usable(l)}} \cup {E(n)}
      <4>1. n \in 1 .. n
        BY <1>0
      <4>. HIDE DEF E, n
      <4>. QED BY <1>2, <1>3, <2>1, <4>1
    <3>4. E(n) \notin ToSet(ide_drives)
      <4>. HIDE DEF E, n
      <4>. QED BY <1>0, <1>3, <1>4, <1>5
    <3>5. IsInjective(ide_drives)'
      <4>. HIDE DEF E, n
      <4>1. \A k \in 1 .. m : s[k] # E(n)
        BY <3>1, <3>4 DEF ToSet
      <4>2. \A k, l \in 1 .. m : s[k] = s[l] => k = l
        BY <3>1 DEF TableOK, IsInjective
      <4>3. \A k \in 1 .. m + 1 : k \in 1 .. m \/ k = m + 1
        BY <3>1
      <4>4. \A k, l \in 1 .. m + 1 : ide_drives'[k] = ide_drives'[l] => k = l
        <5>. HIDE DEF m, s
        <5>. QED BY <3>1, <4>1, <4>2, <4>3
      <4>. QED BY <3>1, <4>4 DEF IsInjective
    <3>. QED BY <1>5, <3>2, <3>3, <3>5
  <2>2. CASE ~Usable(n)
    <3>1. {E(k) : k \in {l \in 1 .. n : Usable(l)}}
            = {E(k) : k \in {l \in 1 .. checked : Usable(l)}}
      <4>. HIDE DEF E, n
      <4>. QED BY <1>2, <1>3, <2>2
    <3>. QED BY <1>0, <1>5, <2>2, <3>1 DEF TableOK, IsInjective, ToSet
  <2>. QED BY <2>1, <2>2
<1>7. {E(k) : k \in {l \in 1 .. n : Usable(l)}}
        = {Entry(k)' : k \in {l \in 1 .. checked' : Usable(l)'}}
  <2>1. \A k \in 1 .. n : k \in 1 .. 4
    BY <1>0
  <2>. QED BY <1>0, <1>1, <2>1
<1>. QED BY <1>6, <1>7 DEF TableOK

-----------------------------------------------------------------------------
(* The controller holds what the thread that reads alone has put there     *)
(* (ide_read_drive), after any detection and any reads, failed ones too.   *)
THEOREM ReadsOnCourse == Spec => []IdeInv
<1>1. Init => IdeInv
  <2>. SUFFICES ASSUME Init PROVE IdeInv
    OBVIOUS
  <2>1. 0 \in 0 .. B * B - 1
    <3>1. B \in Nat \ {0} /\ B * B \in Nat \ {0}
      BY AddressAssumption
    <3>. QED BY <3>1
  <2>2. IdeTypeOK
    <3>1. /\ checked \in 0 .. 4 /\ ide_drives \in Seq(Drives) /\ raced \in BOOLEAN
          /\ sel \in [Channels -> Buses]
          /\ count_reg \in [Channels -> Int \X Int]
          /\ lba_reg \in [Channels -> Int \X Int]
      <4>1. checked = 0 /\ ide_drives = <<>> /\ raced = FALSE
        BY DEF Init
      <4>2. sel \in [Channels -> Buses]
        BY DEF Init, Buses
      <4>3. <<0, 0>> \in Int \X Int
        OBVIOUS
      <4>4. count_reg \in [Channels -> Int \X Int] /\ lba_reg \in [Channels -> Int \X Int]
        BY <4>3 DEF Init
      <4>5. checked \in 0 .. 4
        BY <4>1
      <4>6. <<>> \in Seq(Drives)
        OBVIOUS
      <4>. QED BY <4>1, <4>2, <4>4, <4>5, <4>6
    <3>2. dev \in [Channels -> [st : {"idle", "bsy", "drq", "failed"}, bus : Buses,
                                at : Int, left : Int]]
      BY DEF Init, Idle, Buses
    <3>3. /\ pc \in [Threads -> {"out", "select", "high", "low", "command", "status", "sector"}]
          /\ drive \in [Threads -> Drives \cup {NoDrive}]
          /\ \A t \in Threads : pc[t] = "out"
          /\ sector_count \in [Threads -> Nat]
          /\ result \in [Threads -> {"none", "OK", "ERR_UNKNHRDW"}]
      BY DEF Init
    <3>4. lba \in [Threads -> 0 .. B * B - 1]
      BY <2>1 DEF Init
    <3>5. data \in [Threads -> Seq(Channels \X Buses \X Int)]
      <4>1. <<>> \in Seq(Channels \X Buses \X Int)
        OBVIOUS
      <4>2. data = [t \in Threads |-> <<>>]
        BY DEF Init
      <4>. QED BY <4>1, <4>2
    <3>. QED BY <3>1, <3>2, <3>3, <3>4, <3>5 DEF IdeTypeOK
  <2>3. \A t \in Threads : pc[t] = "out" /\ result[t] = "none"
    BY DEF Init
  <2>. QED BY <2>2, <2>3 DEF IdeInv, OneReader, Finished
<1>2. IdeInv /\ [Next]_vars => IdeInv'
  <2>. SUFFICES ASSUME IdeInv, [Next]_vars PROVE IdeInv'
    OBVIOUS
  <2>1. CASE CheckAndAddDrive
    BY <2>1, CheckAndAddDriveInv
  <2>2. ASSUME NEW t \in Threads, Call(t) PROVE IdeInv'
    BY <2>2, CallInv
  <2>3. ASSUME NEW t \in Threads, Read(t) PROVE IdeInv'
    BY <2>3, SelectInv, WriteHighInv, WriteLowInv, CommandInv, StatusInv, SectorInv, DoneInv
       DEF Read
  <2>4. ASSUME NEW c \in Channels, Drive(c) PROVE IdeInv'
    BY <2>4, DriveInv
  <2>5. CASE UNCHANGED vars
    <3>0. UNCHANGED <<machine, checked, ide_drives, sel, count_reg, lba_reg, dev, pc, drive,
                      lba, sector_count, data, result, raced>>
      BY <2>5 DEF vars, detection, regs, arguments
    <3>1. IdeTypeOK' /\ OneReader'
      BY <3>0 DEF IdeInv, IdeTypeOK, OneReader
    <3>2. \A t \in Threads : (Finished(t)' <=> Finished(t)) /\ (OnCourse(t)' <=> OnCourse(t))
      BY <3>0 DEF Finished, OnCourse, Right, Channel
    <3>. QED BY <3>0, <3>1, <3>2 DEF IdeInv
  <2>. QED BY <2>1, <2>2, <2>3, <2>4, <2>5 DEF Next
<1>. QED BY <1>1, <1>2, PTL DEF Spec

(* Reads that do not overlap give the sectors asked for (ide_read_drive):  *)
(* for any threads, counts and addresses that fit the registers.           *)
THEOREM SerialReadsRight == Spec => []SerialReads
<1>1. IdeInv => SerialReads
  <2>. SUFFICES ASSUME IdeInv, ~raced, NEW t \in Threads, pc[t] = "out", result[t] = "OK"
                PROVE  data[t] = [k \in 1 .. sector_count[t] |->
                                    <<Channel(t), drive[t].bus, lba[t] + k - 1>>]
    BY DEF SerialReads
  <2>1. Right(t) /\ Len(data[t]) = sector_count[t]
    BY DEF IdeInv, Finished
  <2>2. data[t] \in Seq(Channels \X Buses \X Int)
    BY DEF IdeInv, IdeTypeOK
  <2>. DEFINE s == data[t]
              n == sector_count[t]
              F(k) == <<Channel(t), drive[t].bus, lba[t] + k - 1>>
  <2>3. /\ DOMAIN s = 1 .. n /\ s = [k \in DOMAIN s |-> s[k]]
        /\ \A k \in 1 .. n : s[k] = F(k)
    BY <2>1, <2>2 DEF Right
  <2>. HIDE DEF s, n, F
  <2>4. s = [k \in 1 .. n |-> F(k)]
    BY <2>3
  <2>. QED BY <2>4 DEF s, n, F
<1>. QED BY <1>1, ReadsOnCourse, PTL

(* The table lists the drives that are there, each once (ide_initialize,   *)
(* ide_check_and_add_drive).                                               *)
THEOREM TableListsDrives == Spec => []DrivesListed
<1>1. Init => TableOK
  <2>. SUFFICES ASSUME Init PROVE TableOK
    OBVIOUS
  <2>1. ide_drives = <<>> /\ checked = 0 /\ DOMAIN ide_drives = {}
    BY DEF Init
  <2>2. 1 .. 0 = {}
    OBVIOUS
  <2>. QED BY <2>1, <2>2 DEF TableOK, IsInjective, ToSet
<1>2. IdeTypeOK /\ TableOK /\ [Next]_vars => TableOK'
  <2>. SUFFICES ASSUME IdeTypeOK, TableOK, [Next]_vars PROVE TableOK'
    OBVIOUS
  <2>1. CASE CheckAndAddDrive
    <3>1. CASE machine[Place(checked + 1)] # "silent"
      BY <2>1, <3>1, TableStep
    <3>2. CASE machine[Place(checked + 1)] = "silent"
      <4>1. checked' = checked /\ ide_drives' = ide_drives
        BY <2>1, <3>2, TableGrows DEF Usable
      <4>2. machine' = machine
        BY <2>1 DEF CheckAndAddDrive
      <4>. QED BY <4>1, <4>2, TableKept
    <3>. QED BY <3>1, <3>2
  <2>2. ASSUME UNCHANGED <<machine, checked, ide_drives>> PROVE TableOK'
    BY <2>2, TableKept
  <2>3. ASSUME NEW t \in Threads, Call(t) PROVE TableOK'
    BY <2>2, <2>3 DEF Call, detection
  <2>4. ASSUME NEW t \in Threads, Read(t) PROVE TableOK'
    <3>1. UNCHANGED <<machine, checked, ide_drives>>
      BY <2>4 DEF Read, Select, WriteHigh, WriteLow, WriteRegs, Command, Status, Return, Sector,
                  Done, detection
    <3>. QED BY <2>2, <3>1
  <2>5. ASSUME NEW c \in Channels, Drive(c) PROVE TableOK'
    BY <2>2, <2>5 DEF Drive, DriveReady, DriveFails, detection
  <2>6. CASE UNCHANGED vars
    BY <2>2, <2>6 DEF vars, detection
  <2>. QED BY <2>1, <2>3, <2>4, <2>5, <2>6 DEF Next
<1>3. TableOK => DrivesListed
  <2>. SUFFICES ASSUME TableOK, checked = Len(Positions) PROVE
         ToSet(ide_drives) = {[channel |-> p[1], bus |-> p[2], type |-> machine[p]] :
                                p \in {q \in ToSet(Positions) : machine[q] \in {"ata", "atapi"}}}
    BY DEF DrivesListed, TableOK
  <2>. DEFINE G(p) == [channel |-> p[1], bus |-> p[2], type |-> machine[p]]
              U(p) == machine[p] \in {"ata", "atapi"}
  <2>1. ToSet(ide_drives) = {G(Place(n)) : n \in {k \in 1 .. 4 : U(Place(k))}}
    BY PositionsAre DEF TableOK, Entry, Usable
  <2>2. ToSet(Positions) = {Place(n) : n \in 1 .. 4}
    BY PositionsAre
  <2>. HIDE DEF G, U
  <2>3. {G(Place(n)) : n \in {k \in 1 .. 4 : U(Place(k))}} = {G(p) : p \in {q \in ToSet(Positions) : U(q)}}
    BY <2>2
  <2>. QED BY <2>1, <2>3 DEF G, U
<1>4. IdeInv => IdeTypeOK
  BY DEF IdeInv
<1>. QED BY <1>1, <1>2, <1>3, <1>4, ReadsOnCourse, PTL DEF Spec
=============================================================================

-------------------------------- MODULE Ide --------------------------------
(***************************************************************************)
(* The IDE driver (drivers/ide.c): detection of the drives and PIO reads   *)
(* with 48-bit addresses, by threads that may preempt each other.  Every   *)
(* write of a register group is a step.  The drives are external: a        *)
(* channel has one set of registers, each remembering the value written    *)
(* before, and whichever drive is selected executes the command.           *)
(*                                                                         *)
(* An address has a high and a low part below B, and so has a count.       *)
(***************************************************************************)
EXTENDS Integers, Sequences, SequencesExt

CONSTANTS
    Machines,    \* what is at each position: "none", "ata", "atapi", "other"
                 \* (neither of them), "abort" (IDENTIFY fails) or "silent"
                 \* (stays busy, or reports neither data nor an error)
    Threads,
    Lbas,        \* addresses read from
    Counts,      \* numbers of sectors read
    B,           \* the range of a register group
    NoDrive,
    MaxCalls     \* bound: reads in all

(* Addresses fit into the six bytes of their registers.                    *)
ASSUME AddressAssumption ==
    /\ B \in Nat \ {0}
    /\ Lbas \subseteq 0 .. B * B - 1
    /\ Counts \subseteq Nat

Channels == {0, 1}
Buses == {0, 1}
(* The order of ide_initialize.                                            *)
Positions == <<<<0, 0>>, <<0, 1>>, <<1, 0>>, <<1, 1>>>>

VARIABLES
    machine,
    checked,     \* positions ide_initialize has looked at
    waiting,     \* it waits for a drive that does not answer
    ide_drives,  \* the drives found: channel, bus and type
    sel,         \* per channel: the drive DEVSEL selects
    count_reg, lba_reg,  \* per channel: the value written last, and before
    dev,         \* per channel: the command that is executed
    pc,          \* per thread: where it is in ide_read_drive
    drive, lba, sector_count,  \* its arguments
    data,        \* the sectors it has stored at dst
    result,      \* what its last read returned
    calls, raced, stalled

regs == <<sel, count_reg, lba_reg, dev>>
detection == <<machine, checked, waiting, ide_drives>>
arguments == <<drive, lba, sector_count>>
vars == <<detection, regs, pc, arguments, data, result, calls, raced, stalled>>

Idle == [st |-> "idle", bus |-> 0, at |-> 0, left |-> 0]

Init ==
    /\ machine \in Machines
    /\ checked = 0
    /\ waiting = FALSE
    /\ ide_drives = <<>>
    /\ sel = [c \in Channels |-> 0]
    /\ count_reg = [c \in Channels |-> <<0, 0>>]
    /\ lba_reg = [c \in Channels |-> <<0, 0>>]
    /\ dev = [c \in Channels |-> Idle]
    /\ pc = [t \in Threads |-> "out"]
    /\ drive = [t \in Threads |-> NoDrive]
    /\ lba = [t \in Threads |-> 0]
    /\ sector_count = [t \in Threads |-> 0]
    /\ data = [t \in Threads |-> <<>>]
    /\ result = [t \in Threads |-> "none"]
    /\ calls = 0
    /\ raced = FALSE
    /\ stalled = FALSE

-----------------------------------------------------------------------------
(* Detection.                                                              *)

(* Mutant: a drive that answers at all is taken for an ATA drive. *)
TypeOfAny(kind) == IF kind = "none" THEN {} ELSE {"ata"}

(* The type of drive that ide_check_and_add_drive adds, if any: a zero     *)
(* status, a signature that is not ATAPI's and an error end it early.      *)
TypeOf(kind) == {kind} \cap {"ata", "atapi"}

(* ide_check_and_add_drive for the next position, which it leaves selected *)
(* with a zero address.  Its waits, for BSY to clear, for DRQ or ERR and,  *)
(* of an ATAPI drive, for DRQ, have no end.                                *)
CheckAndAddDrive ==
    /\ checked < Len(Positions)
    /\ ~waiting
    /\ LET p == Positions[checked + 1] IN
         /\ waiting' = (machine[p] = "silent")
         /\ checked' = IF machine[p] = "silent" THEN checked ELSE checked + 1
         /\ IF TypeOf(machine[p]) = {} THEN UNCHANGED ide_drives
            ELSE \E k \in TypeOf(machine[p]) :
                   ide_drives' = Append(ide_drives, [channel |-> p[1], bus |-> p[2], type |-> k])
         /\ sel' = [sel EXCEPT ![p[1]] = p[2]]
         /\ lba_reg' = [lba_reg EXCEPT ![p[1]] = <<0, @[1]>>]
    /\ UNCHANGED <<machine, count_reg, dev, pc, arguments, data, result, calls,
                   raced, stalled>>

-----------------------------------------------------------------------------
(* ide_read_drive.                                                         *)

Channel(t) == drive[t].channel

Goto(t, l) == pc' = [pc EXCEPT ![t] = l]

Call(t) ==
    /\ checked = Len(Positions)
    /\ ide_drives # <<>>
    /\ pc[t] = "out"
    /\ calls < MaxCalls
    /\ calls' = calls + 1
    /\ raced' = (raced \/ \E u \in Threads \ {t} : pc[u] # "out")
    /\ \E d \in ToSet(ide_drives), a \in Lbas, n \in Counts :
         /\ drive' = [drive EXCEPT ![t] = d]
         /\ lba' = [lba EXCEPT ![t] = a]
         /\ sector_count' = [sector_count EXCEPT ![t] = n]
    /\ data' = [data EXCEPT ![t] = <<>>]
    /\ Goto(t, "select")
    /\ UNCHANGED <<detection, regs, result, stalled>>

Waiting(t) == dev[Channel(t)].st = "bsy"

Select(t) ==
    /\ pc[t] = "select"
    /\ ~Waiting(t)
    /\ sel' = [sel EXCEPT ![Channel(t)] = drive[t].bus]
    /\ Goto(t, "high")
    /\ UNCHANGED <<detection, count_reg, lba_reg, dev, arguments, data, result,
                   calls, raced, stalled>>

(* One group of register writes: each pushes the value before it back.     *)
WriteRegs(t, count, addr) ==
    /\ count_reg' = [count_reg EXCEPT ![Channel(t)] = <<count, @[1]>>]
    /\ lba_reg' = [lba_reg EXCEPT ![Channel(t)] = <<addr, @[1]>>]
    /\ UNCHANGED <<detection, sel, dev, arguments, data, result, calls, raced,
                   stalled>>

(* Mutant: the low values twice. *)
WriteHighLow(t) ==
    /\ pc[t] = "high"
    /\ WriteRegs(t, sector_count[t] % B, lba[t] % B)
    /\ Goto(t, "low")

WriteHigh(t) ==
    /\ pc[t] = "high"
    /\ WriteRegs(t, (sector_count[t] \div B) % B, (lba[t] \div B) % B)
    /\ Goto(t, "low")

WriteLow(t) ==
    /\ pc[t] = "low"
    /\ WriteRegs(t, sector_count[t] % B, lba[t] % B)
    /\ Goto(t, "command")

(* The selected drive takes the command; a count of 0 stands for the most. *)
Command(t) ==
    /\ pc[t] = "command"
    /\ LET c == Channel(t)
           n == count_reg[c][2] * B + count_reg[c][1]
       IN  dev' = [dev EXCEPT ![c] =
                     [st |-> "bsy", bus |-> sel[c],
                      at |-> lba_reg[c][2] * B + lba_reg[c][1],
                      left |-> IF n = 0 THEN B * B ELSE n]]
    /\ Goto(t, "status")
    /\ UNCHANGED <<detection, sel, count_reg, lba_reg, arguments, data, result,
                   calls, raced, stalled>>

Return(t, r) ==
    /\ result' = [result EXCEPT ![t] = r]
    /\ Goto(t, "out")
    /\ UNCHANGED <<detection, regs, arguments, data, calls, raced, stalled>>

(* Mutant: the status is not looked at. *)
StatusIgnored(t) ==
    /\ pc[t] = "status"
    /\ ~Waiting(t)
    /\ Goto(t, "sector")
    /\ UNCHANGED <<detection, regs, arguments, data, result, calls, raced, stalled>>

(* The status after the command.                                           *)
Status(t) ==
    /\ pc[t] = "status"
    /\ ~Waiting(t)
    /\ IF dev[Channel(t)].st = "failed"
       THEN Return(t, "ERR_UNKNHRDW")
       ELSE /\ Goto(t, "sector")
            /\ UNCHANGED <<detection, regs, arguments, data, result, calls, raced,
                           stalled>>

(* One turn of the loop: wait for BSY to clear and DRQ to set, then read   *)
(* the sector.  The drive goes on to the next one.                         *)
Sector(t) ==
    /\ pc[t] = "sector"
    /\ Len(data[t]) < sector_count[t]
    /\ LET c == Channel(t)
           d == dev[c]
       IN  /\ d.st = "drq"
           /\ data' = [data EXCEPT ![t] = Append(@, <<c, d.bus, d.at>>)]
           /\ dev' = [dev EXCEPT ![c] =
                        IF d.left = 1 THEN Idle
                        ELSE [st |-> "bsy", bus |-> d.bus, at |-> d.at + 1,
                              left |-> d.left - 1]]
    /\ UNCHANGED <<detection, sel, count_reg, lba_reg, pc, arguments, result,
                   calls, raced, stalled>>

Done(t) ==
    /\ pc[t] = "sector"
    /\ Len(data[t]) = sector_count[t]
    /\ ~Waiting(t)
    /\ Return(t, "OK")

-----------------------------------------------------------------------------
(* The drives.                                                             *)

(* A busy drive has a sector ready.  ATAPI drives and positions without a  *)
(* drive do not know the command.                                          *)
DriveReady(c) ==
    /\ dev[c].st = "bsy"
    /\ machine[<<c, dev[c].bus>>] = "ata"
    /\ dev' = [dev EXCEPT ![c].st = "drq"]
    /\ UNCHANGED <<detection, sel, count_reg, lba_reg, pc, arguments, data, result,
                   calls, raced, stalled>>

(* A busy drive fails.  In the middle of a transfer nobody looks at the    *)
(* error any more, and DRQ does not come (stalled).                        *)
DriveFails(c) ==
    /\ dev[c].st = "bsy"
    /\ dev' = [dev EXCEPT ![c].st = "failed"]
    /\ stalled' = (stalled \/ \E t \in Threads :
                                pc[t] = "sector" /\ Channel(t) = c)
    /\ UNCHANGED <<detection, sel, count_reg, lba_reg, pc, arguments, data, result,
                   calls, raced>>

-----------------------------------------------------------------------------
Read(t) ==
    \/ Select(t) \/ WriteHigh(t) \/ WriteLow(t) \/ Command(t)
    \/ Status(t) \/ Sector(t) \/ Done(t)
Drive(c) == DriveReady(c) \/ DriveFails(c)

Next ==
    \/ CheckAndAddDrive
    \/ \E t \in Threads : Call(t) \/ Read(t)
    \/ \E c \in Channels : Drive(c)

Spec == Init /\ [][Next]_vars

(* Threads are scheduled and a busy drive becomes ready or fails.          *)
FairSpec ==
    /\ Spec
    /\ \A t \in Threads : WF_vars(Read(t))
    /\ \A c \in Channels : WF_vars(Drive(c))

-----------------------------------------------------------------------------
(* Properties.                                                             *)

(* The drives in the table are those that are there, each once.            *)
DrivesListed ==
    checked = Len(Positions) =>
      /\ IsInjective(ide_drives)
      /\ ToSet(ide_drives) =
           {[channel |-> p[1], bus |-> p[2], type |-> machine[p]] :
              p \in {q \in ToSet(Positions) : machine[q] \in {"ata", "atapi"}}}

(* Reads that do not overlap give the sectors asked for, of the drive asked*)
(* for, in order, whatever was read or detected before and through however *)
(* many errors: the high and low values reach the drive as one address.    *)
SerialReads ==
    ~raced =>
      \A t \in Threads :
        (pc[t] = "out" /\ result[t] = "OK") =>
          data[t] = [k \in 1 .. sector_count[t] |->
                       <<Channel(t), drive[t].bus, lba[t] + k - 1>>]

(* A read that does not overlap with another returns, with an error when   *)
(* the drive fails at once; only a failure between two sectors is waited   *)
(* for without end.                                                        *)
ReadReturns ==
    \A t \in Threads : pc[t] # "out" ~> (pc[t] = "out" \/ raced \/ stalled)
=============================================================================

------------------------------- MODULE Loader -------------------------------
(***************************************************************************)
(* From the boot sector to the kernel: bootsector/ reads stage 2, stage2/  *)
(* sets a graphics mode, opens address line 20, looks for the disks, finds *)
(* kernel.bin on one of them and loads its sections.  Every call of the    *)
(* firmware and every read of a disk may fail, and the detection of the    *)
(* disks may wait for ever.  (What the memory map is for is in module      *)
(* PmmanInit, the commands of the disks are in module Ide.)                *)
(***************************************************************************)
EXTENDS Integers, Sequences, SequencesExt

CONSTANTS
    Machines,     \* modes, a20, pci, drives: see MachineAssumption
    Elfs,         \* kernel images: sequences of section headers
    MaxErrors,    \* bound: reads that fail
    TMP_ELF_ADDR  \* where the image is read to (0x200000)

(* modes: the graphics modes; a20: the checks of the address line that find*)
(* it open; pci: for each function found, whether it is an IDE controller; *)
(* drives: on the four positions of the controller, what is there and which*)
(* headers its sectors hold.  An image ends below the place it is read to. *)
MachineAssumption ==
    /\ \A m \in Machines : m.a20 \in SUBSET (1 .. 3) /\ Len(m.drives) = 4
    /\ \A e \in Elfs : \A k \in DOMAIN e : e[k].addr + e[k].size <= TMP_ELF_ADDR
    /\ MaxErrors \in Nat

VARIABLES
    machine, elf,
    pc,
    stage2,       \* sectors of stage 2, as the header in memory says
    mib,          \* the mode that was set
    drives, i,    \* drives found, the loop variable
    lba, header,  \* the search: sector and buffer
    sh,           \* the loop over the sections
    klow, khigh,
    mem,          \* the kernel's memory: -1 unknown, 0 zero, k data of section k
    errors,
    misled        \* the first read of a drive failed, and what was in the buffer
                  \* kept the search from that drive's files

vars == <<machine, elf, pc, stage2, mib, drives, i, lba, header, sh, klow, khigh,
          mem, errors, misled>>
image == <<sh, klow, khigh, mem>>

(* More than any address of a section.                                    *)
UINT32_MAX == 2147483647

(* The buffer on stage2_c's stack holds anything before the first read.    *)
Init ==
    /\ machine \in Machines
    /\ elf \in Elfs
    /\ pc = "boot sector"
    /\ stage2 = 0
    /\ mib = <<>>
    /\ drives = <<>>
    /\ i = 1
    /\ lba = 1
    /\ header \in {[name |-> "other", next |-> n, sectors |-> 0] : n \in {0, 1, 9}}
    /\ sh = 1
    /\ klow = UINT32_MAX
    /\ khigh = 0
    /\ mem = [a \in 0 .. TMP_ELF_ADDR - 1 |-> -1]
    /\ errors = 0
    /\ misled = FALSE

-----------------------------------------------------------------------------
(* The boot sector and the firmware: a call that fails, and a read that    *)
(* does (carry), ends in panic.                                            *)

Fails == errors < MaxErrors /\ errors' = errors + 1
Works == UNCHANGED errors
Panic == pc' = "panic"

BootDrive == machine.drives[1]

(* A call of the firmware that works leads on to the place next.           *)
FirmwareCall(from, next) ==
    /\ pc = from
    /\ pc' = next \/ Panic
    /\ UNCHANGED <<machine, elf, stage2, mib, drives, i, lba, header, image, errors, misled>>

SetTextMode == FirmwareCall("boot sector", "stage 2 header")

(* The header of the first file, for its size.                             *)
ReadStage2Size ==
    /\ pc = "stage 2 header"
    /\ \/ Fails /\ Panic /\ UNCHANGED stage2
       \/ Works /\ pc' = "stage 2" /\ stage2' = BootDrive.sectors[1].sectors
    /\ UNCHANGED <<machine, elf, mib, drives, i, lba, header, image, misled>>

(* As many sectors as the header says, which stage 2 is then entered in.   *)
ReadStage2 ==
    /\ pc = "stage 2"
    /\ \/ Fails /\ Panic
       \/ Works /\ pc' = "vbe"
    /\ UNCHANGED <<machine, elf, stage2, mib, drives, i, lba, header, image, misled>>

(* The first mode with 32 bits and at least 1024 x 768 points.             *)
ModeFits(m) == m.bits = 32 /\ m.x >= 1024 /\ m.y >= 768

(* The firmware may refuse its info block, that of a mode which is looked  *)
(* at, or the mode; and none may fit.                                      *)
SetMode ==
    /\ pc = "vbe"
    /\ LET fit == SelectSeq(machine.modes, ModeFits) IN
         \/ fit # <<>> /\ mib' = Head(fit) /\ pc' = "memory map"
         \/ Panic /\ UNCHANGED mib
    /\ UNCHANGED <<machine, elf, stage2, drives, i, lba, header, image, errors, misled>>

(* build_memory_map: any call of its loop may fail.  The map it has when   *)
(* all have worked is used by the kernel only (PmmanInit).                 *)
BuildMemoryMap == FirmwareCall("memory map", "a20")

(* Checked as it is, after port 0x92 and after port 0xEE.                  *)
EnableA20 ==
    /\ pc = "a20"
    /\ IF machine.a20 = {} THEN Panic ELSE pc' = "pci"
    /\ UNCHANGED <<machine, elf, stage2, mib, drives, i, lba, header, image, errors, misled>>

(* ide_initialize: the positions with an ATA or ATAPI drive, in order.     *)
Found == SelectSeq(machine.drives, LAMBDA d : d.kind \in {"ata", "atapi"})

(* ide_check_and_add_drive waits for ever for a drive that stays busy, or  *)
(* that after IDENTIFY reports neither data nor an error.                  *)
Unanswered == \E k \in DOMAIN machine.drives : machine.drives[k].kind = "silent"

(* enumerate_and_initialize stops at the first IDE controller.             *)
EnumerateAndInitialize ==
    /\ pc = "pci"
    /\ IF TRUE \notin ToSet(machine.pci) THEN Panic /\ UNCHANGED drives
       ELSE IF Unanswered THEN pc' = "detecting" /\ UNCHANGED drives
       ELSE drives' = Found /\ pc' = "drive"
    /\ UNCHANGED <<machine, elf, stage2, mib, i, lba, header, image, errors, misled>>

-----------------------------------------------------------------------------
(* stage2_c: the search.                                                   *)

NextDrive ==
    /\ pc = "drive"
    /\ pc' = IF i > Len(drives) THEN "no kernel" ELSE "read"
    /\ lba' = 1
    /\ UNCHANGED <<machine, elf, stage2, mib, drives, i, header, image, errors, misled>>

(* Sectors a drive can deliver; a CD-ROM drive refuses the command.        *)
Readable(d, n) == d.kind = "ata" /\ n \in DOMAIN d.sectors

(* Mutant: a read that fails ends the search on this drive. *)
AfterFailureGivesUp(h) == [h EXCEPT !.next = 0]

(* ide_read_drive returns without a word: the buffer is the one of before. *)
AfterFailure(h) == h

ReadHeader ==
    /\ pc = "read"
    /\ pc' = "name"
    /\ \/ /\ Readable(drives[i], lba)
          /\ Works
          /\ header' = drives[i].sectors[lba]
          /\ UNCHANGED misled
       \/ /\ IF Readable(drives[i], lba) THEN Fails ELSE Works
          /\ header' = AfterFailure(header)
          /\ misled' = (misled \/ (lba = 1 /\ (header.next # 0 \/ Readable(drives[i], lba))))
    /\ UNCHANGED <<machine, elf, stage2, mib, drives, i, lba, image>>

CompareName ==
    /\ pc = "name"
    /\ IF header.name = "kernel.bin"
       THEN pc' = "read elf" /\ UNCHANGED <<i, lba>>
       ELSE /\ lba' = header.next
            /\ pc' = IF header.next = 0 THEN "drive" ELSE "read"
            /\ i' = IF header.next = 0 THEN i + 1 ELSE i
    /\ UNCHANGED <<machine, elf, stage2, mib, drives, header, image, errors, misled>>

(* The image; without its data the signature is missing.                   *)
ReadElf ==
    /\ pc = "read elf"
    /\ \/ Fails /\ Panic
       \/ Works /\ pc' = "section"
    /\ UNCHANGED <<machine, elf, stage2, mib, drives, i, lba, header, image, misled>>

-----------------------------------------------------------------------------
(* load_elf_kernel: one section.                                           *)

Loaded(s) == (s.type = "PROGBITS" /\ s.addr # 0) \/ s.type = "NOBITS"

(* Mutant: the sections without data are not counted. *)
HighShort(s) == IF s.type = "PROGBITS" /\ s.addr + s.size > khigh THEN s.addr + s.size ELSE khigh

High(s) == IF s.addr + s.size > khigh THEN s.addr + s.size ELSE khigh
Low(s) == IF s.addr < klow THEN s.addr ELSE klow

LoadSection ==
    /\ pc = "section"
    /\ IF sh > Len(elf)
       THEN pc' = "jump" /\ UNCHANGED image
       ELSE /\ sh' = sh + 1
            /\ UNCHANGED pc
            /\ LET s == elf[sh] IN
                 IF Loaded(s)
                 THEN /\ klow' = Low(s)
                      /\ khigh' = High(s)
                      /\ mem' = [a \in DOMAIN mem |->
                                   IF a \in s.addr .. s.addr + s.size - 1
                                   THEN IF s.type = "NOBITS" THEN 0 ELSE sh
                                   ELSE mem[a]]
                 ELSE UNCHANGED <<klow, khigh, mem>>
    /\ UNCHANGED <<machine, elf, stage2, mib, drives, i, lba, header, errors, misled>>

Next ==
    \/ SetTextMode \/ ReadStage2Size \/ ReadStage2
    \/ SetMode \/ BuildMemoryMap \/ EnableA20 \/ EnumerateAndInitialize
    \/ NextDrive \/ ReadHeader \/ CompareName \/ ReadElf \/ LoadSection

(* The boot core runs on.                                                  *)
Spec == Init /\ [][Next]_vars /\ WF_vars(Next)

-----------------------------------------------------------------------------
(* Properties.                                                             *)

(* When the kernel is entered, each of its sections is in its place, those *)
(* without data zeroed, and klow and khigh, from which the kernel reserves *)
(* its own memory (module PmmanInit), enclose them exactly.                *)
KernelIntact ==
    LET Alloc == {elf[k] : k \in {n \in DOMAIN elf : elf[n].alloc}} IN
    pc = "jump" =>
      /\ \A k \in DOMAIN elf : elf[k].alloc =>
           \A a \in elf[k].addr .. elf[k].addr + elf[k].size - 1 :
             mem[a] = IF elf[k].type = "NOBITS" THEN 0 ELSE k
      /\ \A s \in Alloc : klow <= s.addr /\ s.addr + s.size <= khigh
      /\ \E s \in Alloc : s.addr = klow
      /\ \E s \in Alloc : s.addr + s.size = khigh

HasKernel(d) == d.kind = "ata" /\ \E n \in DOMAIN d.sectors : d.sectors[n].name = "kernel.bin"

(* A header that cannot be read is in effect read again, since the buffer  *)
(* still names the same sector as the next one: unless the firmware or the *)
(* hardware fails the start, a drive does not answer in detection or the   *)
(* image cannot be read, the kernel is found on whichever drive it is, in  *)
(* spite of such errors; only an error on the first sector of a drive can  *)
(* mislead the search.                                                     *)
KernelFound ==
    <>(\/ pc \in {"jump", "panic", "detecting"}
       \/ misled
       \/ pc = "no kernel" /\ \A k \in DOMAIN drives : ~HasKernel(drives[k]))
=============================================================================

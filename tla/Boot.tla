-------------------------------- MODULE Boot --------------------------------
(***************************************************************************)
(* From the boot sector to the bitmap that pmman_alloc starts from: the    *)
(* loader (module Loader) tells the kernel where it lies, and the kernel,  *)
(* knowing no more of itself than that, marks its memory as used (module   *)
(* PmmanInit).  pc, i and the bitmap are the kernel's, lpc and li belong to*)
(* the loader.                                                             *)
(***************************************************************************)
EXTENDS PmmanInit

CONSTANTS Machines, Elfs, MaxErrors, TMP_ELF_ADDR

VARIABLES machine, elf, lpc, stage2, mib, drives, li, lba, header, sh, klow, khigh,
          mem, errors, misled

L == INSTANCE Loader WITH pc <- lpc, i <- li

ASSUME LoaderAssumption == L!MachineAssumption

(* linker.ld: the sections that the kernel uses are the ones that          *)
(* load_elf_kernel loads; they do not overlap, and fill one of Kernels from*)
(* end to end.                                                             *)
ASSUME ImageAssumption ==
    /\ TMP_ELF_ADDR \in 0 .. L!UINT32_MAX - 1
    /\ \A e \in Elfs :
         LET Alloc == {k \in DOMAIN e : e[k].alloc} IN
         /\ e \in Seq([type : STRING, addr : Nat, size : Nat, alloc : BOOLEAN])
         /\ \A k \in DOMAIN e : e[k].alloc <=> L!Loaded(e[k])
         /\ \A j, k \in Alloc :
              j # k => \/ e[j].addr + e[j].size <= e[k].addr
                       \/ e[k].addr + e[k].size <= e[j].addr
         /\ \E p \in Kernels :
              /\ \A k \in Alloc : p.start <= e[k].addr /\ e[k].addr + e[k].size <= p.end
              /\ \E k \in Alloc : e[k].addr = p.start
              /\ \E k \in Alloc : e[k].addr + e[k].size = p.end

lvars == <<machine, elf, lpc, stage2, mib, drives, li, lba, header, sh, klow, khigh,
           mem, errors, misled>>
allvars == <<vars, lvars>>

(* The kernel has not been entered.                                        *)
BootInit ==
    /\ L!Init
    /\ e820 = <<>>
    /\ kernel = [start |-> 0, end |-> 0]
    /\ memmap = <<>>
    /\ memmap_count = 0
    /\ bits = [b \in Blocks |-> FALSE]
    /\ pass = 1
    /\ i = 1
    /\ pc = "off"

LoaderStep == L!Next /\ UNCHANGED vars

(* The jump: boot_info names the kernel's place and the memory map, which  *)
(* stage 2 has fetched before it loaded the kernel; nothing that comes     *)
(* between depends on it, so that PmmanInit begins with it.  Of the        *)
(* loader's variables only the image is referred to afterwards; the others *)
(* are given up.                                                           *)
EnterKernel ==
    /\ lpc = "jump"
    /\ lpc' = "entered"
    /\ kernel' = [start |-> klow, end |-> khigh]
    /\ e820' \in Maps
    /\ pc' = "e820"
    /\ machine' = <<>> /\ stage2' = 0 /\ mib' = <<>> /\ drives' = <<>> /\ header' = <<>>
    /\ li' = 1 /\ lba' = 1 /\ sh' = 1 /\ errors' = 0 /\ misled' = FALSE
    /\ UNCHANGED <<memmap, memmap_count, bits, pass, i, elf, klow, khigh, mem>>

KernelStep == Next /\ UNCHANGED lvars

BootNext == LoaderStep \/ EnterKernel \/ KernelStep

(* The boot core runs on.                                                  *)
BootSpec == BootInit /\ [][BootNext]_allvars /\ WF_allvars(LoaderStep)

-----------------------------------------------------------------------------
(* Properties.                                                             *)

(* The kernel is found, in spite of headers that cannot be read (stage2_c).*)
KernelFound == L!KernelFound

(* The kernel is entered with all its sections in place, and no byte of    *)
(* them, of those without data in the file neither, is in a block that     *)
(* pmman_alloc may hand out (load_elf_kernel, kernel_enter).               *)
KernelKept ==
    /\ L!KernelIntact
    /\ pc = "done" =>
         \A s \in {elf[k] : k \in DOMAIN elf} : s.alloc =>
           \A a \in s.addr .. s.addr + s.size - 1 : bits[to_block(a)]
=============================================================================

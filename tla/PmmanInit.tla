----------------------------- MODULE PmmanInit -----------------------------
(***************************************************************************)
(* How the bitmap of physical memory comes to be: build_memory_map (stage2)*)
(* asks the firmware for its memory map, pmman_initialize sorts the map and*)
(* clears the blocks of usable memory, and kernel_enter marks the kernel,  *)
(* the low BIOS area and the memory map itself.                            *)
(***************************************************************************)
EXTENDS PmmanMap, Sequences, SequencesExt

CONSTANTS
    Maps,         \* the memory maps a firmware may report
    NoBase,       \* UINT64_MAX, above every base a firmware reports
    Kernels,      \* where the kernel may lie: start and end
    LowEnd,       \* the end of the low BIOS area (0x7C00)
    MemmapStart,  \* where stage2 keeps the memory map
    EntrySize,    \* sizeof(memmap_t) (24)
    MaxEntries    \* entries that stage 2's memmap has room for (32)

Types == {"usable", "reserved"}

Entries == [base : Nat, len : Nat, type : Types]

(* Reported regions are disjoint, and end below the wrap of a u64.  The    *)
(* firmware reports two regions at least, and no more than there is room   *)
(* for: build_memory_map does not look at the end of memmap.               *)
ASSUME MapsAssumption ==
    \A m \in Maps :
      /\ m \in Seq(Entries)
      /\ Len(m) > 1 /\ Len(m) <= MaxEntries
      /\ \A k \in 1 .. Len(m) : m[k].base + m[k].len < NoBase
      /\ \A j, k \in 1 .. Len(m) :
           j < k => \/ m[j].base + m[j].len <= m[k].base
                    \/ m[k].base + m[k].len <= m[j].base

(* linker.ld puts the kernel at 1 MiB, the beginning of a block; stage2    *)
(* keeps the memory map within one block.                                  *)
ASSUME LayoutAssumption ==
    /\ LowEnd \in 0 .. PMMAN_SIZE
    /\ MemmapStart \in Nat
    /\ EntrySize \in Nat
    /\ MaxEntries \in Nat
    /\ \A k \in Kernels :
         /\ k \in [start : Nat, end : Nat]
         /\ k.start <= k.end /\ k.end <= PMMAN_SIZE
         /\ k.start % PMMAN_BLOCK_SIZE = 0
    /\ MemmapStart < PMMAN_SIZE
    /\ PMMAN_SIZE + PMMAN_BLOCK_SIZE <= AddrMod
    /\ \A m \in Maps :
         (MemmapStart % PMMAN_BLOCK_SIZE) + Len(m) * EntrySize <= PMMAN_BLOCK_SIZE

VARIABLES
    e820,          \* the firmware's memory map
    kernel,        \* boot_info.kernel_start, kernel_end
    memmap, memmap_count,
    bits,          \* pmman_kernel_map.bits
    pass, i,       \* the loops of pmman_initialize, counted from 1
    pc

vars == <<e820, kernel, memmap, memmap_count, bits, pass, i, pc>>

Init ==
    /\ e820 \in Maps
    /\ kernel \in Kernels
    /\ memmap = <<>>
    /\ memmap_count = 0
    /\ bits = [b \in Blocks |-> FALSE]
    /\ pass = 1
    /\ i = 1
    /\ pc = "e820"

(* The loop over int 0x15 counts from -1, so the count it stores leaves    *)
(* the last entry out.  (A call that fails ends in panic, before there is a*)
(* kernel: BuildMemoryMap of module Loader.)  pmman_initialize begins with *)
(* every bit set.                                                          *)
BuildMemoryMap ==
    /\ pc = "e820"
    /\ memmap' = e820
    /\ memmap_count' = Len(e820) - 1
    /\ bits' = [b \in Blocks |-> TRUE]
    /\ pc' = "sort"
    /\ UNCHANGED <<e820, kernel, pass, i>>

(* Mutant: the search begins behind the first unsorted entry. *)
MinIndexNext(k) ==
    CHOOSE m \in k + 1 .. memmap_count :
      \A n \in k + 1 .. memmap_count : memmap[m].base <= memmap[n].base

(* The first of the smallest bases from position k on; no base is NoBase.  *)
MinIndex(k) ==
    CHOOSE m \in k .. memmap_count :
      \A n \in k .. memmap_count :
        memmap[m].base < memmap[n].base \/ (memmap[m].base = memmap[n].base /\ m <= n)

Swap(s, a, b) == [s EXCEPT ![a] = s[b], ![b] = s[a]]

SortPass ==
    /\ pc = "sort"
    /\ pass < memmap_count
    /\ memmap' = Swap(memmap, pass, MinIndex(pass))
    /\ pass' = pass + 1
    /\ UNCHANGED <<e820, kernel, memmap_count, bits, i, pc>>

SortDone ==
    /\ pc = "sort"
    /\ pass >= memmap_count
    /\ pc' = "clear"
    /\ UNCHANGED <<e820, kernel, memmap, memmap_count, bits, pass, i>>

(* The blocks of pmman_mark_range and pmman_clear_range for an address and *)
(* a length in bytes.                                                      *)
BlockRange(addr, len) == to_block(addr) .. to_block(addr) + to_blocks(len) - 1

WriteRange(range, b) == bits' = [k \in Blocks |-> IF k \in range THEN b ELSE bits[k]]

(* Mutant: the length of an entry is not cut off at the end of the map. *)
ClippedNot(e) == e.len

(* The length of an entry, cut off at the end of the map.                  *)
Clipped(e) == IF e.base + e.len >= PMMAN_SIZE THEN PMMAN_SIZE - e.base ELSE e.len

IsCleared(e) == e.type = "usable" /\ e.base < PMMAN_SIZE

ClearEntry ==
    /\ pc = "clear"
    /\ i <= memmap_count
    /\ IF IsCleared(memmap[i])
       THEN WriteRange(BlockRange(memmap[i].base, Clipped(memmap[i])), FALSE)
       ELSE UNCHANGED bits
    /\ i' = i + 1
    /\ UNCHANGED <<e820, kernel, memmap, memmap_count, pass, pc>>

ClearDone ==
    /\ pc = "clear"
    /\ i > memmap_count
    /\ pc' = "kernel"
    /\ UNCHANGED <<e820, kernel, memmap, memmap_count, bits, pass, i>>

Mark(from, to, addr, len) ==
    /\ pc = from
    /\ WriteRange(BlockRange(addr, len), TRUE)
    /\ pc' = to
    /\ UNCHANGED <<e820, kernel, memmap, memmap_count, pass, i>>

(* Mutant: the end of the kernel is taken for its length's last block. *)
MarkKernelShort ==
    Mark("kernel", "low", kernel.start, kernel.end - kernel.start - 1)

MarkKernel == Mark("kernel", "low", kernel.start, kernel.end - kernel.start)
MarkLowBios == Mark("low", "memmap", 0, LowEnd)
MarkMemmap == Mark("memmap", "done", MemmapStart, EntrySize * memmap_count)

Next ==
    \/ BuildMemoryMap
    \/ SortPass \/ SortDone
    \/ ClearEntry \/ ClearDone
    \/ MarkKernel \/ MarkLowBios \/ MarkMemmap

Spec == Init /\ [][Next]_vars

-----------------------------------------------------------------------------
(* Properties.                                                             *)

Counted == {memmap[k] : k \in 1 .. memmap_count}
Bytes(e) == e.base .. e.base + e.len - 1
BytesOf(b) == b * PMMAN_BLOCK_SIZE .. (b + 1) * PMMAN_BLOCK_SIZE - 1
Usable == UNION {Bytes(e) : e \in {x \in Counted : x.type = "usable"}}
Reserved == UNION {Bytes(e) : e \in {x \in Counted : x.type = "reserved"}}

(* The selection sort of pmman_initialize orders the entries by base and   *)
(* neither loses nor repeats one.                                          *)
SortedPermutation ==
    pc \notin {"e820", "sort"} =>
      /\ \A j, k \in 1 .. memmap_count : j < k => memmap[j].base <= memmap[k].base
      /\ Counted = {e820[k] : k \in 1 .. memmap_count}

(* No range that pmman_initialize clears reaches beyond the map, also where*)
(* an entry starts inside a block or ends behind the map.                  *)
ClearInsideMap ==
    pc = "clear" /\ i <= memmap_count /\ IsCleared(memmap[i]) =>
      BlockRange(memmap[i].base, Clipped(memmap[i])) \subseteq Blocks

(* Once every entry has been looked at, a block that lies wholly in one    *)
(* usable entry is free and a block without a usable byte is not: rounding *)
(* the base down and the length up wastes nothing and invents nothing.     *)
FreeIsUsable ==
    pc = "kernel" =>
      \A b \in Blocks :
        /\ (\E e \in Counted : e.type = "usable" /\ BytesOf(b) \subseteq Bytes(e))
             => ~bits[b]
        /\ BytesOf(b) \cap Usable = {} => bits[b]

(* "Mark kernel", "Mark low BIOS", "keep [the memory map] from being       *)
(* overwritten" (kernel.c): no byte of the three is in a free block.       *)
KernelProtected ==
    pc = "done" =>
      \A b \in Blocks :
        ~bits[b] =>
          BytesOf(b) \cap ((kernel.start .. kernel.end - 1) \cup (0 .. LowEnd - 1)
            \cup (MemmapStart .. MemmapStart + EntrySize * memmap_count - 1)) = {}

(* What pmman_initialize and kernel_enter leave for pmman_alloc: the       *)
(* usable memory, without what the kernel needs of it.                     *)
InitialMapSound == FreeIsUsable /\ KernelProtected

(* "Mark reserved areas" (pmman.c): no byte of a reserved entry is in a    *)
(* block that pmman_alloc may hand out.                                    *)
ReservedMarked ==
    pc = "done" => \A b \in Blocks : ~bits[b] => BytesOf(b) \cap Reserved = {}
=============================================================================

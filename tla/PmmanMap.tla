------------------------------ MODULE PmmanMap ------------------------------
(***************************************************************************)
(* The bitmap of the physical memory manager and the conversions between   *)
(* bytes and blocks (kernel/pmman.c, kernel/pmman.h, libk/align.h).  A bit *)
(* that is set stands for a block in use; the map starts at address 0.     *)
(***************************************************************************)
EXTENDS Integers

CONSTANTS
    PMMAN_BITS,        \* blocks in the map (1024)
    PMMAN_BLOCK_SIZE,  \* bytes in a block (2^14)
    AddrMod            \* the wrap of usz (2^32)

ASSUME MapAssumption ==
    /\ PMMAN_BITS \in Nat \ {0}
    /\ PMMAN_BLOCK_SIZE \in Nat \ {0}
    /\ AddrMod \in Nat
    /\ PMMAN_BLOCK_SIZE <= AddrMod

PMMAN_SIZE == PMMAN_BITS * PMMAN_BLOCK_SIZE

Blocks == 0 .. PMMAN_BITS - 1

to_block(addr) == addr \div PMMAN_BLOCK_SIZE

(* Mutant: the size is rounded down. *)
to_blocks_down(len) == len \div PMMAN_BLOCK_SIZE

(* align_fwd(len, block size) in usz arithmetic, then the shift.           *)
to_blocks(len) == ((len + PMMAN_BLOCK_SIZE - 1) % AddrMod) \div PMMAN_BLOCK_SIZE
=============================================================================

------------------------------ MODULE MCPmman ------------------------------
(* Instances of Pmman for TLC.                                             *)
EXTENDS Pmman

CONSTANTS t1, t2

MCThreads == {t1, t2}
(* Nothing, one block, one byte more, one byte more than the map, and a    *)
(* size whose rounding wraps.                                              *)
MCSizes == {0, PMMAN_BLOCK_SIZE, PMMAN_BLOCK_SIZE + 1, PMMAN_SIZE + 1, AddrMod - 1}
=============================================================================

----------------------------- MODULE MCProcWrap -----------------------------
(* An instance of Proc whose clock wraps, as pit_systime_msec does after   *)
(* 2^32 ms; the wrap is scaled down to TimeMod.                            *)
EXTENDS Proc

CONSTANTS p1, p2

MCProcs == {p1, p2}
MCSleepArgs == {2}
=============================================================================

------------------------------- MODULE MCProc -------------------------------
(* Instances of Proc for TLC that stay below the wrap of the clock.        *)
EXTENDS Proc, TLC

CONSTANTS p1, p2, p3

MCProcs == {p1, p2, p3}
MCTwoProcs == {p1, p2}
MCBootProcs == {p1, p2}
MCSleepArgs == {1, 3}
MCSymmetry == Permutations(MCBootProcs)

ASSUME NoWrapAssumption == NoWrap
=============================================================================

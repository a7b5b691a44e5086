------------------------------ MODULE MCMouse ------------------------------
(* Instances of Mouse for TLC.                                             *)
EXTENDS Mouse

MCDevices == {"generic", "zaxis", "5btn"}
MCScrolls == {-8, -1, 0, 7}
(* Offsets that fit in eight bits with their sign, and the full range.     *)
MCSlow == {-128, -1, 0, 127}
MCFast == {-200, -1, 0, 130}
=============================================================================

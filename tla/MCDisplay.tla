----------------------------- MODULE MCDisplay ------------------------------
(* An instance of Display for TLC: images at every place from well before  *)
(* to well behind each edge; two windows that overlap, one higher.         *)
EXTENDS Display

MCPlaces == -4 .. 5
MCSizes == 0 .. 5
MCHeight == <<2, 1>>
=============================================================================

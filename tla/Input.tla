------------------------------- MODULE Input -------------------------------
(***************************************************************************)
(* Keyboard and mouse from the set-up in kernel_enter to their use: the    *)
(* controller and its devices are initialised (module Ps2); what that      *)
(* leaves in mouse_type and mouse_packet_size is what the mouse's handler  *)
(* works with (module Mouse), or, without a mouse, keys are typed (module  *)
(* Keyboard).  Module Mouse has the keyboard's bytes between the mouse's.  *)
(***************************************************************************)
EXTENDS Mouse

CONSTANTS Mice, MaxLate, MaxEvents, MaxLost

VARIABLES
    stage,      \* "set-up", "mouse" or "keys"
    todo, drv, hw, inp, answer, config, target, dev, late,
    scan_buf, shift_pressed, wire, held, events, lost, damaged, whole, last

P == INSTANCE Ps2 WITH out <- answer
K == INSTANCE Keyboard

ASSUME InputAssumption ==
    /\ P!Ps2Assumption
    /\ K!BoundsAssumption

pvars == <<todo, drv, hw, inp, answer, config, target, dev, late>>
kvars == <<scan_buf, shift_pressed, wire, held, events, lost, damaged, whole, last>>
inputvars == <<stage, vars, pvars, kvars>>

InputInit ==
    /\ stage = "set-up"
    /\ P!Init
    /\ Init /\ mouse_type = "generic"
    /\ K!Init

TypeOf(id) == CASE id = 3 -> "zaxis" [] id = 4 -> "5btn" [] OTHER -> "generic"

(* kernel_enter goes on, with interrupts of both devices enabled; taken up *)
(* for machines with a keyboard whose answers came in time.                *)
SetUpDone ==
    /\ stage = "set-up"
    /\ P!Done /\ inp = <<>> /\ answer = <<>>
    /\ hw = "dual" /\ dev.kb /\ late = 0
    /\ stage' = IF drv.p2 = 0 THEN "mouse" ELSE "keys"
    /\ mouse_type' = TypeOf(drv.type)
    /\ mouse_packet_size' = drv.size
    /\ UNCHANGED <<packet_byte, packet, position, out, to_send, moved, sent, pvars, kvars>>

InputNext ==
    \/ stage = "set-up" /\ P!Next /\ UNCHANGED <<stage, vars, kvars>>
    \/ SetUpDone
    \/ stage = "mouse" /\ Next /\ UNCHANGED <<stage, pvars, kvars>>
    \/ stage = "keys" /\ K!Next /\ UNCHANGED <<stage, vars, pvars>>

InputSpec == InputInit /\ [][InputNext]_inputvars

-----------------------------------------------------------------------------
(* Properties, beside those of Mouse, of which MouseTracked now says that  *)
(* the mouse is followed with the type and the packet size that the set-up *)
(* has found.                                                              *)

(* Driver and devices agree after a set-up with answers in time            *)
(* (ps2_initialize, mouse_initialize, ps2_enable_irqs).                    *)
HandshakeAgrees == P!HandshakeAgrees

(* What the driver has concluded is true, however late answers come        *)
(* (ps2_identify, mouse_initialize).                                       *)
FoundIsThere == P!FoundIsThere

(* Keys are decoded, with shift, and again after bytes have been lost      *)
(* (kb_handle_interrupt).                                                  *)
KeysDecoded == K!KeysDecoded
=============================================================================

------------------------------- MODULE Mouse -------------------------------
(***************************************************************************)
(* The stream of PS/2 mouse packets and its decoding in the interrupt      *)
(* handler (drivers/mouse.c).  The mouse reports movements as packets of   *)
(* bytes; the controller passes one byte at a time, from the mouse or from *)
(* the keyboard, and the handler puts the packets together again.          *)
(***************************************************************************)
EXTENDS Integers, Sequences

CONSTANTS
    Devices,     \* device types, among "generic", "zaxis", "5btn"
    Motions,     \* movements along x or y in one packet, within -256 .. 255
    Scrolls,     \* movements of the wheel in one packet, within -8 .. 7
    MaxPackets   \* bound: packets the mouse sends

ASSUME MotionsAssumption ==
    /\ Devices \subseteq {"generic", "zaxis", "5btn"}
    /\ Motions \subseteq -256 .. 255
    /\ Scrolls \subseteq -8 .. 7
    /\ MaxPackets \in Nat

VARIABLES
    mouse_type, mouse_packet_size,
    packet_byte, packet,             \* the handler's static locals
    mouse_x, mouse_y, mouse_z,
    mouse_button_states,             \* by button, 1 to 5
    out,                             \* the controller's output buffer
    to_send,                         \* bytes of its packet the mouse still has
    moved,                           \* what the mouse has reported in all
    sent                             \* packets so far

vars == <<mouse_type, mouse_packet_size, packet_byte, packet, mouse_x, mouse_y,
          mouse_z, mouse_button_states, out, to_send, moved, sent>>
position == <<mouse_x, mouse_y, mouse_z, mouse_button_states>>

Bytes == 0 .. 255
Empty == [from |-> "none", byte |-> 0]

PacketSize(type) == IF type = "generic" THEN 3 ELSE 4

(* The state mouse_initialize leaves when the handshake succeeds.          *)
Init ==
    /\ mouse_type \in Devices
    /\ mouse_packet_size = PacketSize(mouse_type)
    /\ packet_byte = 0
    /\ packet = [k \in 1 .. 4 |-> 0]
    /\ mouse_x = 0
    /\ mouse_y = 0
    /\ mouse_z = 0
    /\ mouse_button_states = [k \in 1 .. 5 |-> 0]
    /\ out = Empty
    /\ to_send = <<>>
    /\ moved = [x |-> 0, y |-> 0, z |-> 0, btn |-> {}]
    /\ sent = 0

-----------------------------------------------------------------------------
(* The device and the controller.                                          *)

Flag(b, m) == IF b THEN m ELSE 0

(* A packet: buttons, the signs of the 9-bit offsets, their low bytes, and *)
(* the wheel, to which the 5-button mouse adds two buttons.                *)
PacketOf(type, x, y, z, btn) ==
    LET p0 == Flag(1 \in btn, 1) + Flag(2 \in btn, 2) + Flag(3 \in btn, 4) + 8
                + Flag(x < 0, 16) + Flag(y < 0, 32)
        p3 == IF type = "zaxis" THEN z % 256
              ELSE (z % 16) + Flag(4 \in btn, 16) + Flag(5 \in btn, 32)
    IN  SubSeq(<<p0, x % 256, y % 256, p3>>, 1, PacketSize(type))

MouseMoves ==
    /\ to_send = <<>>
    /\ sent < MaxPackets
    /\ \E x, y \in Motions, btn \in {{}, {1}, {2, 3}, {4}, {5, 1}},
          z \in IF mouse_type = "generic" THEN {0} ELSE Scrolls :
         /\ mouse_type # "5btn" => btn \cap {4, 5} = {}
         /\ to_send' = PacketOf(mouse_type, x, y, z, btn)
         /\ moved' = [x |-> moved.x + x, y |-> moved.y + y, z |-> moved.z + z,
                      btn |-> btn]
    /\ sent' = sent + 1
    /\ UNCHANGED <<mouse_type, mouse_packet_size, packet_byte, packet, position, out>>

ControllerTakesMouse ==
    /\ out = Empty
    /\ to_send # <<>>
    /\ out' = [from |-> "mouse", byte |-> Head(to_send)]
    /\ to_send' = Tail(to_send)
    /\ UNCHANGED <<mouse_type, mouse_packet_size, packet_byte, packet, position,
                   moved, sent>>

ControllerTakesKey ==
    /\ out = Empty
    /\ out' = [from |-> "kb", byte |-> 16]
    /\ UNCHANGED <<mouse_type, mouse_packet_size, packet_byte, packet, position,
                   to_send, moved, sent>>

(* kb_handle_interrupt reads the byte.                                     *)
KbHandle ==
    /\ out.from = "kb"
    /\ out' = Empty
    /\ UNCHANGED <<mouse_type, mouse_packet_size, packet_byte, packet, position,
                   to_send, moved, sent>>

-----------------------------------------------------------------------------
(* The handler.                                                            *)

Bit(v, m) == m * ((v \div m) % 2)

(* The value of v % 2^bits as a signed integer of that width.              *)
Signed(v, half) == IF v % (2 * half) >= half THEN (v % (2 * half)) - 2 * half
                                              ELSE v % (2 * half)

(* (i16)((((p0 & sign) << 8) | byte) << 8) >> 8                            *)
Offset(p0, sign, byte) ==
    Signed((Bit(p0, sign) * 256 + byte) * 256, 32768) \div 256

(* Mutant: the four bits of the 5-button mouse are not sign-extended. *)
ScrollUnsigned(b) ==
    CASE mouse_type = "zaxis" -> Signed(b, 128)
      [] mouse_type = "5btn"  -> b % 16
      [] OTHER                -> 0

(* The movement of the wheel, from the last byte.                          *)
Scroll(b) ==
    CASE mouse_type = "zaxis" -> Signed(b, 128)
      [] mouse_type = "5btn"  -> Signed((b % 16) * 16, 128) \div 16
      [] OTHER                -> 0

(* Where the next byte goes after k bytes.                                 *)
NextByte(k) == IF k < mouse_packet_size THEN k ELSE 0

(* The button states a packet sets; only the 5-button mouse has 4 and 5.   *)
Buttons(p) ==
    [mouse_button_states EXCEPT
       ![1] = Bit(p[1], 1), ![2] = Bit(p[1], 2), ![3] = Bit(p[1], 4),
       ![4] = IF mouse_type = "5btn" THEN Bit(p[4], 16) ELSE @,
       ![5] = IF mouse_type = "5btn" THEN Bit(p[4], 32) ELSE @]

(* One turn of the loop of mouse_handle_interrupt, which goes on while the *)
(* controller has a byte from the mouse.                                   *)
MouseHandle ==
    /\ out.from = "mouse"
    /\ out' = Empty
    /\ LET p == [packet EXCEPT ![packet_byte + 1] = out.byte] IN
         /\ packet' = p
         /\ packet_byte' = NextByte(packet_byte + 1)
         /\ IF packet_byte' # 0
            THEN UNCHANGED position
            ELSE /\ mouse_button_states' = Buttons(p)
                 /\ mouse_x' = mouse_x + Offset(p[1], 16, p[2])
                 /\ mouse_y' = mouse_y - Offset(p[1], 32, p[3])
                 /\ mouse_z' = mouse_z + Scroll(p[4])
    /\ UNCHANGED <<mouse_type, mouse_packet_size, to_send, moved, sent>>

Next ==
    \/ MouseMoves \/ ControllerTakesMouse \/ ControllerTakesKey
    \/ KbHandle \/ MouseHandle

Spec == Init /\ [][Next]_vars

-----------------------------------------------------------------------------
(* Properties.                                                             *)

(* Nothing the mouse sent is under way.                                    *)
Quiet == to_send = <<>> /\ out.from # "mouse"

(* "Bit shifting magic to sign extend the 9-bit x/y offsets from the       *)
(* packet" (mouse.c): when a packet has been taken in, the cursor has moved*)
(* by what the mouse reported, y being reported upwards.                   *)
PositionTracks ==
    Quiet => mouse_x = moved.x /\ mouse_y = -moved.y

(* The wheel has turned by what the mouse reported, whether it is coded in *)
(* a byte or in the four bits beside the additional buttons, and the       *)
(* buttons are those of the last packet, for every size of packet and      *)
(* however keyboard bytes come between.                                    *)
WheelAndButtonsTrack ==
    Quiet => /\ mouse_z = moved.z
             /\ \A k \in 1 .. 5 : mouse_button_states[k] # 0 <=> k \in moved.btn

(* Cursor, wheel and buttons follow the mouse (mouse_handle_interrupt),    *)
(* for offsets of eight bits.                                              *)
MouseTracked == PositionTracks /\ WheelAndButtonsTrack
=============================================================================

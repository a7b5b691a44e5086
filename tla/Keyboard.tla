------------------------------ MODULE Keyboard ------------------------------
(***************************************************************************)
(* The scan codes of a PS/2 keyboard and their decoding in the interrupt   *)
(* handler (drivers/keyboard.c).  A key sends one to eight bytes; a byte   *)
(* can be lost on the way (taken by ps2_recv, or overwritten).             *)
(***************************************************************************)
EXTENDS Integers, Sequences

CONSTANTS
    MaxEvents,   \* bound: keys pressed or released
    MaxLost      \* bound: bytes lost

BoundsAssumption == MaxEvents \in Nat /\ MaxLost \in Nat

VARIABLES
    scan_buf, shift_pressed,    \* scan_len is Len(scan_buf)
    wire,        \* bytes under way, with the event they belong to
    held,        \* the keys the user holds
    events, lost,
    damaged,     \* the event whose bytes are being read has lost one
    whole,       \* events read whole since the last that was not
    last         \* the last event read, and the character printed for it

vars == <<scan_buf, shift_pressed, wire, held, events, lost, damaged, whole, last>>

(* Keys: a character, the shift keys, control; after 0xE0 an arrow key and *)
(* the shift that print screen claims to press; pause, which sends the     *)
(* codes of control and num lock.                                          *)
Keys == {"a", "lshift", "rshift", "ctrl", "up", "prtsc", "pause"}

Make(k) ==
    CASE k = "a"      -> <<28>>
      [] k = "lshift" -> <<18>>
      [] k = "rshift" -> <<89>>
      [] k = "ctrl"   -> <<20>>
      [] k = "up"     -> <<224, 117>>
      [] k = "prtsc"  -> <<224, 18, 224, 124>>
      [] k = "pause"  -> <<225, 20, 119, 225, 240, 20, 240, 119>>

Break(k) ==
    CASE k = "a"      -> <<240, 28>>
      [] k = "lshift" -> <<240, 18>>
      [] k = "rshift" -> <<240, 89>>
      [] k = "ctrl"   -> <<240, 20>>
      [] k = "up"     -> <<224, 240, 117>>
      [] k = "prtsc"  -> <<224, 240, 124, 224, 240, 18>>
      [] k = "pause"  -> <<>>

(* The tables' columns, without and with shift, for these codes; 97 and 65 *)
(* stand for all characters, 256 and more are keys without a character, 0  *)
(* is unknown.                                                             *)
KEY_LSHIFT == 258
KEY_RSHIFT == 259
kb_keymap1(code) ==
    CASE code = 28 -> <<97, 65>>
      [] code = 18 -> <<KEY_LSHIFT, KEY_LSHIFT>>
      [] code = 89 -> <<KEY_RSHIFT, KEY_RSHIFT>>
      [] code = 20 -> <<260, 260>>
      [] code = 119 -> <<265, 265>>
      [] OTHER     -> <<0, 0>>

kb_keymap2(code) == IF code = 117 THEN <<273, 273>> ELSE <<0, 0>>

Init ==
    /\ scan_buf = <<>>
    /\ shift_pressed = 0
    /\ wire = <<>>
    /\ held = {}
    /\ events = 0
    /\ lost = 0
    /\ damaged = FALSE
    /\ whole = 0
    /\ last = [key |-> "none", press |-> FALSE, shift |-> FALSE, printed |-> {}]

-----------------------------------------------------------------------------
(* The user, the keyboard and the line.                                    *)

Shifts == {"lshift", "rshift"}

(* A key goes down or up; the user holds one shift key at a time.          *)
Event(k, press) ==
    LET bytes == IF press THEN Make(k) ELSE Break(k)
        ev == [key |-> k, press |-> press, shift |-> held \cap Shifts # {}]
    IN  /\ events < MaxEvents
        /\ press # (k \in held)
        /\ k \in Shifts => held \cap Shifts \subseteq {k}
        /\ events' = events + 1
        /\ held' = IF press THEN held \cup {k} ELSE held \ {k}
        /\ wire' = wire \o [i \in 1 .. Len(bytes) |->
                              [byte |-> bytes[i], ev |-> ev, final |-> i = Len(bytes)]]
        /\ UNCHANGED <<scan_buf, shift_pressed, lost, damaged, whole, last>>

Lose ==
    /\ wire # <<>>
    /\ lost < MaxLost
    /\ lost' = lost + 1
    /\ wire' = Tail(wire)
    /\ damaged' = ~Head(wire).final
    /\ whole' = 0
    /\ UNCHANGED <<scan_buf, shift_pressed, held, events, last>>

-----------------------------------------------------------------------------
(* kb_handle_interrupt.                                                    *)

Prefixes == {240, 224, 225}
Skip(buf, prefix) == IF Head(buf) = prefix THEN Tail(buf) ELSE buf

(* Mutant: codes behind 0xE0 are looked up in the first table. *)
DecodeOneTable(buf) ==
    LET rest == Skip(buf, 224)
        code == Head(Skip(rest, 240))
    IN  [c |-> kb_keymap1(code)[shift_pressed + 1], press |-> IF Head(rest) = 240 THEN 0 ELSE 1]

(* What the bytes of a key stand for: 0xE0 selects the second table, 0xF0  *)
(* after it means a release, and the byte behind them is the code.         *)
Decode(buf) ==
    LET rest == Skip(buf, 224)
        code == Head(Skip(rest, 240))
        keymap == IF Head(buf) = 224 THEN kb_keymap2(code) ELSE kb_keymap1(code)
    IN  [c |-> keymap[shift_pressed + 1], press |-> IF Head(rest) = 240 THEN 0 ELSE 1]

(* The handler's effect: buffer, shift and the characters printed.         *)
HandleByte(b) ==
    LET buf == Append(scan_buf, b)
        k == Decode(buf)
    IN  IF b \in Prefixes
        THEN [buf |-> buf, shift |-> shift_pressed, printed |-> {}]
        ELSE [buf |-> <<>>,
              shift |-> IF k.c \in {KEY_LSHIFT, KEY_RSHIFT} THEN k.press ELSE shift_pressed,
              printed |-> IF k.press = 1 /\ k.c \in 1 .. 255 THEN {k.c} ELSE {}]

KbHandle ==
    /\ wire # <<>>
    /\ LET b == Head(wire)
           r == HandleByte(b.byte)
       IN  /\ wire' = Tail(wire)
           /\ scan_buf' = r.buf
           /\ shift_pressed' = r.shift
           /\ IF b.final
              THEN /\ damaged' = FALSE
                   /\ whole' = IF damaged THEN 0 ELSE whole + 1
                   /\ last' = [key |-> b.ev.key, press |-> b.ev.press, shift |-> b.ev.shift,
                               printed |-> r.printed]
              ELSE UNCHANGED <<damaged, whole, last>>
    /\ UNCHANGED <<held, events, lost>>

Next == (\E k \in Keys, press \in BOOLEAN : Event(k, press)) \/ Lose \/ KbHandle

Spec == Init /\ [][Next]_vars

-----------------------------------------------------------------------------
(* Properties.                                                             *)

(* While no byte is lost, what is printed for a key is its character, and  *)
(* shifted exactly if the user held a shift key, whatever longer codes come*)
(* between.  After a loss the first key that arrives whole may be misread, *)
(* but from the second on characters come out again, though perhaps with   *)
(* the wrong shift; and the buffer holds more than one key's prefixes only *)
(* for bytes that were lost.                                               *)
KeysDecoded ==
    /\ (lost = 0 /\ last.key # "none") =>
         last.printed = IF last.key = "a" /\ last.press
                        THEN {IF last.shift THEN 65 ELSE 97} ELSE {}
    /\ (lost = 0 /\ wire = <<>>) => (shift_pressed = 1 <=> held \cap Shifts # {})
    /\ whole >= 2 => last.printed \in
         (IF last.key = "a" /\ last.press THEN {{97}, {65}} ELSE {{}})
    /\ Len(scan_buf) <= 2 * (lost + 1)
=============================================================================

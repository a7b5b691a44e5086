---------------------------- MODULE InputProofs ----------------------------
(***************************************************************************)
(* Proofs about the interrupt handlers of the mouse and of the keyboard,   *)
(* and about the set-up of the PS/2 controller and its devices.            *)
(* The first part is about every kind of mouse and every sequence of       *)
(* movements that fit in eight bits with their sign (for longer ones the   *)
(* run mouse_fast shows that the cursor is off), the second about every    *)
(* sequence of keys and of bytes lost, the third about every order in      *)
(* which driver, controller, handlers and devices take their steps.        *)
(*                                                                         *)
(* The mouse's invariant: while a packet is under way, the bytes the       *)
(* handler has put into packet, the one in the controller's buffer and     *)
(* those the mouse still has are together the packet of one report, and    *)
(* the position is behind the mouse by just that report; or the last byte  *)
(* of one report is in the controller's buffer and the whole of the next   *)
(* one behind it.                                                          *)
(* Where module InputInv has no invariant of a part, it is stated where    *)
(* the part begins.                                                        *)
(***************************************************************************)
EXTENDS InputInv, TLAPS, SequenceTheorems

-----------------------------------------------------------------------------
(* What the decoding of a packet gives back.                               *)

(* p is a packet with the report r, byte by byte.                          *)
BytesOf(type, r, p) ==
    /\ p \in Seq(Int)
    /\ Len(p) = PacketSize(type)
    /\ PacketSize(type) = IF type = "generic" THEN 3 ELSE 4
    /\ \A k \in 1 .. PacketSize(type) : p[k] \in Int
    /\ p[1] = Flag(1 \in r.btn, 1) + Flag(2 \in r.btn, 2) + Flag(3 \in r.btn, 4) + 8
                + Flag(r.x < 0, 16) + Flag(r.y < 0, 32)
    /\ p[2] = r.x % 256
    /\ p[3] = r.y % 256
    /\ type = "zaxis" => p[4] = r.z % 256
    /\ type = "5btn" =>
         p[4] = (r.z % 16) + Flag(4 \in r.btn, 16) + Flag(5 \in r.btn, 32)

(* The bytes of the packet the mouse makes of a report.                    *)
LEMMA PacketBytes ==
    ASSUME NEW type \in {"generic", "zaxis", "5btn"}, NEW r \in Reports
    PROVE  BytesOf(type, r, Packet(type, r))
<1>. DEFINE p0 == Flag(1 \in r.btn, 1) + Flag(2 \in r.btn, 2) + Flag(3 \in r.btn, 4) + 8
                    + Flag(r.x < 0, 16) + Flag(r.y < 0, 32)
            p3 == IF type = "zaxis" THEN r.z % 256
                  ELSE (r.z % 16) + Flag(4 \in r.btn, 16) + Flag(5 \in r.btn, 32)
            n == PacketSize(type)
<1>1. p0 \in Int /\ p3 \in Int /\ r.x % 256 \in Int /\ r.y % 256 \in Int
  BY DEF Flag, Reports
<1>2. n \in 3 .. 4 /\ n = IF type = "generic" THEN 3 ELSE 4 BY DEF PacketSize
<1>3. Packet(type, r) = SubSeq(<<p0, r.x % 256, r.y % 256, p3>>, 1, n)
  BY DEF Packet, PacketOf
<1>. HIDE DEF p0, p3, n
<1>. DEFINE s == <<p0, r.x % 256, r.y % 256, p3>>
<1>4. s[1] = p0 /\ s[2] = r.x % 256 /\ s[3] = r.y % 256 /\ s[4] = p3 OBVIOUS
<1>5. \A k \in 1 .. n : s[k] \in Int BY <1>1, <1>2
<1>. HIDE DEF s
<1>6. /\ SubSeq(s, 1, n) \in Seq(Int)
      /\ Len(SubSeq(s, 1, n)) = n
      /\ \A k \in 1 .. n : SubSeq(s, 1, n)[k] = s[k]
  BY <1>2, <1>5, SubSeqProperties
<1>7. /\ Packet(type, r) \in Seq(Int) /\ Len(Packet(type, r)) = n
      /\ \A k \in 1 .. n : Packet(type, r)[k] = s[k]
  <2>1. Packet(type, r) = SubSeq(s, 1, n) BY <1>3, Zenon DEF s
  <2>. QED BY <1>6, <2>1
<1>8. /\ Packet(type, r)[1] = p0 /\ Packet(type, r)[2] = r.x % 256
      /\ Packet(type, r)[3] = r.y % 256
      /\ n = 4 => Packet(type, r)[4] = p3
  BY <1>2, <1>4, <1>7
<1>9. \A k \in 1 .. n : Packet(type, r)[k] \in Int BY <1>5, <1>7
<1>10. type = "zaxis" => n = 4 /\ p3 = r.z % 256 BY <1>2 DEF p3
<1>11. type = "5btn" =>
         n = 4 /\ p3 = (r.z % 16) + Flag(4 \in r.btn, 16) + Flag(5 \in r.btn, 32)
  BY <1>2 DEF p3
<1>12. type = "zaxis" => Packet(type, r)[4] = r.z % 256 BY <1>8, <1>10, Zenon
<1>13. type = "5btn" => Packet(type, r)[4] =
         (r.z % 16) + Flag(4 \in r.btn, 16) + Flag(5 \in r.btn, 32)
  BY <1>8, <1>11, Zenon
<1>. QED BY <1>2, <1>7, <1>8, <1>9, <1>12, <1>13, Zenon DEF n, p0, BytesOf

(* The shifts that extend the sign give an offset of eight bits back,      *)
(* whatever the sign bit says.                                             *)
LEMMA OffsetRight ==
    ASSUME NEW p0 \in Int, NEW v \in -128 .. 127
    PROVE  Offset(p0, 16, v % 256) = v /\ Offset(p0, 32, v % 256) = v
<1>1. Bit(p0, 16) \in {0, 16} /\ Bit(p0, 32) \in {0, 32}
  <2>1. \A u \in Int : u % 2 = 0 \/ u % 2 = 1 OBVIOUS
  <2>2. p0 \div 16 \in Int /\ p0 \div 32 \in Int OBVIOUS
  <2>. QED BY <2>1, <2>2 DEF Bit
<1>2. ASSUME NEW b \in {0, 16, 32}
      PROVE  Signed((b * 256 + (v % 256)) * 256, 32768) \div 256 = v
  <2>1. CASE v >= 0
    <3>1. v % 256 = v BY <2>1
    <3>2. ((b * 256 + v) * 256) % 65536 = v * 256 BY <2>1
    <3>. QED BY <2>1, <3>1, <3>2 DEF Signed
  <2>2. CASE v < 0
    <3>1. v % 256 = v + 256 BY <2>2
    <3>2. ((b * 256 + (v + 256)) * 256) % 65536 = (v + 256) * 256 BY <2>2
    <3>. QED BY <2>2, <3>1, <3>2 DEF Signed
  <2>. QED BY <2>1, <2>2
<1>3. \A b \in {0, 16, 32} : Signed((b * 256 + (v % 256)) * 256, 32768) \div 256 = v
  BY <1>2
<1>. DEFINE b16 == Bit(p0, 16)
            b32 == Bit(p0, 32)
<1>4. b16 \in {0, 16, 32} /\ b32 \in {0, 16, 32} BY <1>1
<1>5. /\ Signed((b16 * 256 + (v % 256)) * 256, 32768) \div 256 = v
      /\ Signed((b32 * 256 + (v % 256)) * 256, 32768) \div 256 = v
  <2>. HIDE DEF b16, b32
  <2>. QED BY <1>3, <1>4
<1>. QED BY <1>5 DEF Offset

(* A sum of flags and a single bit of it.                                  *)
LEMMA ButtonBits ==
    ASSUME NEW f1 \in {0, 1}, NEW f2 \in {0, 1}, NEW f3 \in {0, 1},
           NEW f4 \in {0, 1}, NEW f5 \in {0, 1}
    PROVE  LET p == f1 + 2 * f2 + 4 * f3 + 8 + 16 * f4 + 32 * f5 IN
           /\ Bit(p, 1) # 0 <=> f1 = 1
           /\ Bit(p, 2) # 0 <=> f2 = 1
           /\ Bit(p, 4) # 0 <=> f3 = 1
BY DEF Bit

(* The wheel and the two buttons beside it in the last byte.               *)
DecodesTo(p, z, f4, f5) ==
    /\ Signed((p % 16) * 16, 128) \div 16 = z
    /\ Bit(p, 16) # 0 <=> f4 = 1
    /\ Bit(p, 32) # 0 <=> f5 = 1

(* The shifts of the handler give them back.                               *)
LEMMA WheelBits ==
    ASSUME NEW z \in -8 .. 7, NEW f4 \in {0, 1}, NEW f5 \in {0, 1}
    PROVE  /\ Signed(z % 256, 128) = z
           /\ \A p : p = (z % 16) + 16 * f4 + 32 * f5 => DecodesTo(p, z, f4, f5)
<1>1. CASE z >= 0
  <2>1. z % 16 = z /\ z % 256 = z BY <1>1
  <2>2. (z + 16 * f4 + 32 * f5) % 16 = z BY <1>1
  <2>3. Signed(z, 128) = z /\ Signed(z * 16, 128) = z * 16 BY <1>1 DEF Signed
  <2>4. /\ Bit(z + 16 * f4 + 32 * f5, 16) # 0 <=> f4 = 1
        /\ Bit(z + 16 * f4 + 32 * f5, 32) # 0 <=> f5 = 1
    BY <1>1 DEF Bit
  <2>. QED BY <1>1, <2>1, <2>2, <2>3, <2>4 DEF DecodesTo
<1>2. CASE z < 0
  <2>1. z % 16 = z + 16 /\ z % 256 = z + 256 BY <1>2
  <2>2. ((z + 16) + 16 * f4 + 32 * f5) % 16 = z + 16 BY <1>2
  <2>3. Signed(z + 256, 128) = z /\ Signed((z + 16) * 16, 128) = z * 16
    BY <1>2 DEF Signed
  <2>4. /\ Bit((z + 16) + 16 * f4 + 32 * f5, 16) # 0 <=> f4 = 1
        /\ Bit((z + 16) + 16 * f4 + 32 * f5, 32) # 0 <=> f5 = 1
    BY <1>2 DEF Bit
  <2>. QED BY <1>2, <2>1, <2>2, <2>3, <2>4 DEF DecodesTo
<1>. QED BY <1>1, <1>2

-----------------------------------------------------------------------------
(* The steps.                                                              *)

(* The byte taken goes to its place in the packet.                         *)
LEMMA ByteStored ==
    ASSUME MouseTypeOK, MouseHandle
    PROVE  /\ packet' \in [1 .. 4 -> Int]
           /\ packet'[packet_byte + 1] = out.byte
           /\ \A k \in 1 .. 4 : k # packet_byte + 1 => packet'[k] = packet[k]
           /\ out' = Empty /\ out'.from = "none"
           /\ UNCHANGED <<mouse_type, mouse_packet_size, to_send, moved>>
           /\ packet_byte' = NextByte(packet_byte + 1)
<1>1. packet' = [packet EXCEPT ![packet_byte + 1] = out.byte] BY DEF MouseHandle
<1>2. packet_byte + 1 \in 1 .. 4 /\ packet \in [1 .. 4 -> Int] /\ out.byte \in Int
  BY DEF MouseTypeOK
<1>3. /\ packet' \in [1 .. 4 -> Int]
      /\ packet'[packet_byte + 1] = out.byte
      /\ \A k \in 1 .. 4 : k # packet_byte + 1 => packet'[k] = packet[k]
  BY <1>1, <1>2
<1>4. /\ out' = Empty /\ packet_byte' = NextByte(packet_byte + 1)
      /\ UNCHANGED <<mouse_type, mouse_packet_size, to_send, moved>>
  BY DEF MouseHandle
<1>5. out'.from = "none" BY <1>4 DEF Empty
<1>. QED BY <1>3, <1>4, <1>5

(* With the last byte of a packet, the position and the buttons take in    *)
(* the report it was made of.                                              *)
LEMMA Complete ==
    ASSUME MouseTypeOK, MouseHandle, NEW q \in Reports, Possible(mouse_type, q),
           packet_byte = mouse_packet_size - 1,
           out.byte = Packet(mouse_type, q)[mouse_packet_size],
           \A k \in 1 .. 4 : k <= packet_byte => packet[k] = Packet(mouse_type, q)[k]
    PROVE  /\ packet_byte' = 0
           /\ mouse_x' = mouse_x + q.x
           /\ mouse_y' = mouse_y - q.y
           /\ mouse_z' = mouse_z + q.z
           /\ mouse_button_states' \in [1 .. 5 -> Int]
           /\ \A k \in 1 .. 5 : mouse_button_states'[k] # 0 <=> k \in q.btn
<1>. DEFINE pk == Packet(mouse_type, q)
            size == mouse_packet_size
<1>0. /\ mouse_type \in {"generic", "zaxis", "5btn"}
      /\ size = IF mouse_type = "generic" THEN 3 ELSE 4
      /\ size = PacketSize(mouse_type)
  BY DEF MouseTypeOK, PacketSize
<1>b. BytesOf(mouse_type, q, pk) BY <1>0, PacketBytes
<1>. HIDE DEF pk
<1>1. \A k \in 1 .. size : packet'[k] = pk[k] /\ pk[k] \in Int
  <2>1. \A k \in 1 .. size : pk[k] \in Int BY <1>0, <1>b DEF BytesOf
  <2>2. ASSUME NEW k \in 1 .. size PROVE packet'[k] = pk[k]
    <3>1. k \in 1 .. 4 /\ (k <= packet_byte \/ k = packet_byte + 1) BY <1>0, <2>2
    <3>. QED BY <3>1, <1>0, ByteStored DEF pk
  <2>. QED BY <2>1, <2>2
<1>2. packet_byte' = 0 BY <1>0, ByteStored DEF NextByte
<1>3. /\ mouse_button_states' = Buttons(packet')
      /\ mouse_x' = mouse_x + Offset(packet'[1], 16, packet'[2])
      /\ mouse_y' = mouse_y - Offset(packet'[1], 32, packet'[3])
      /\ mouse_z' = mouse_z + Scroll(packet'[4])
  BY <1>2 DEF MouseHandle
<1>4. packet'[1] = pk[1] /\ packet'[2] = q.x % 256 /\ packet'[3] = q.y % 256 /\ pk[1] \in Int
  BY <1>0, <1>1, <1>b DEF BytesOf
<1>5. q.x \in -128 .. 127 /\ q.y \in -128 .. 127 /\ q.z \in -8 .. 7 /\ q.btn \subseteq 1 .. 5
  BY DEF Reports
<1>6. mouse_x' = mouse_x + q.x /\ mouse_y' = mouse_y - q.y
  <2>1. Offset(pk[1], 16, q.x % 256) = q.x /\ Offset(pk[1], 32, q.y % 256) = q.y
    <3>1. pk[1] \in Int BY <1>4
    <3>. DEFINE R == -128 .. 127
    <3>2. \A v \in R : Offset(pk[1], 16, v % 256) = v /\ Offset(pk[1], 32, v % 256) = v
      BY <3>1, OffsetRight, Zenon
    <3>3. q.x \in R /\ q.y \in R BY <1>5
    <3>. HIDE DEF R
    <3>4. Offset(pk[1], 16, q.x % 256) = q.x BY <3>2, <3>3
    <3>5. Offset(pk[1], 32, q.y % 256) = q.y BY <3>2, <3>3
    <3>. QED BY <3>4, <3>5
  <2>. QED BY <1>3, <1>4, <2>1
<1>. DEFINE f(k) == IF k \in q.btn THEN 1 ELSE 0
            f4 == IF q.x < 0 THEN 1 ELSE 0
            f5 == IF q.y < 0 THEN 1 ELSE 0
<1>7. /\ Bit(packet'[1], 1) # 0 <=> 1 \in q.btn
      /\ Bit(packet'[1], 2) # 0 <=> 2 \in q.btn
      /\ Bit(packet'[1], 4) # 0 <=> 3 \in q.btn
  <2>1. pk[1] = f(1) + 2 * f(2) + 4 * f(3) + 8 + 16 * f4 + 32 * f5
    BY <1>b DEF BytesOf, Flag
  <2>2. /\ f(1) \in {0, 1} /\ f(2) \in {0, 1} /\ f(3) \in {0, 1}
        /\ f4 \in {0, 1} /\ f5 \in {0, 1} OBVIOUS
  <2>3. /\ f(1) = 1 <=> 1 \in q.btn
        /\ f(2) = 1 <=> 2 \in q.btn
        /\ f(3) = 1 <=> 3 \in q.btn OBVIOUS
  <2>. HIDE DEF f, f4, f5
  <2>4. /\ Bit(pk[1], 1) # 0 <=> f(1) = 1
        /\ Bit(pk[1], 2) # 0 <=> f(2) = 1
        /\ Bit(pk[1], 4) # 0 <=> f(3) = 1
    BY <2>1, <2>2, ButtonBits
  <2>. QED BY <1>4, <2>3, <2>4
<1>8. /\ mouse_type = "5btn" => /\ Bit(packet'[4], 16) # 0 <=> 4 \in q.btn
                                /\ Bit(packet'[4], 32) # 0 <=> 5 \in q.btn
      /\ Scroll(packet'[4]) = q.z
  <2>1. CASE mouse_type = "generic" BY <2>1 DEF Scroll, Possible
  <2>2. CASE mouse_type = "zaxis"
    <3>1. packet'[4] = q.z % 256 BY <1>0, <1>1, <2>2, <1>b DEF BytesOf
    <3>2. Signed(q.z % 256, 128) = q.z BY <1>5, WheelBits
    <3>. QED BY <2>2, <3>1, <3>2 DEF Scroll
  <2>3. CASE mouse_type = "5btn"
    <3>1. packet'[4] = (q.z % 16) + 16 * f(4) + 32 * f(5)
      BY <1>0, <1>1, <2>3, <1>b DEF BytesOf, Flag
    <3>2. f(4) \in {0, 1} /\ f(5) \in {0, 1} OBVIOUS
    <3>3. (f(4) = 1 <=> 4 \in q.btn) /\ (f(5) = 1 <=> 5 \in q.btn) OBVIOUS
    <3>. HIDE DEF f
    <3>. DEFINE w == (q.z % 16) + 16 * f(4) + 32 * f(5)
    <3>4. /\ Signed((w % 16) * 16, 128) \div 16 = q.z
          /\ Bit(w, 16) # 0 <=> f(4) = 1
          /\ Bit(w, 32) # 0 <=> f(5) = 1
      <4>. DEFINE z == q.z
                  g4 == f(4)
                  g5 == f(5)
      <4>1. /\ w = (z % 16) + 16 * g4 + 32 * g5
            /\ z \in -8 .. 7 /\ g4 \in {0, 1} /\ g5 \in {0, 1}
        BY <1>5, <3>2
      <4>. HIDE DEF w, z, g4, g5
      <4>2. \A p : p = (z % 16) + 16 * g4 + 32 * g5 => DecodesTo(p, z, g4, g5)
        BY <4>1, WheelBits
      <4>3. DecodesTo(w, z, g4, g5) BY <4>1, <4>2, Zenon
      <4>. QED BY <4>3 DEF DecodesTo, z, g4, g5
    <3>5. packet'[4] = w BY <3>1
    <3>. HIDE DEF w
    <3>. QED BY <2>3, <3>3, <3>4, <3>5 DEF Scroll
  <2>. QED BY <1>0, <2>1, <2>2, <2>3
<1>9. /\ mouse_button_states' \in [1 .. 5 -> Int]
      /\ mouse_button_states'[1] = Bit(packet'[1], 1)
      /\ mouse_button_states'[2] = Bit(packet'[1], 2)
      /\ mouse_button_states'[3] = Bit(packet'[1], 4)
      /\ mouse_type = "5btn" => /\ mouse_button_states'[4] = Bit(packet'[4], 16)
                                /\ mouse_button_states'[5] = Bit(packet'[4], 32)
      /\ mouse_type # "5btn" => /\ mouse_button_states'[4] = 0
                                /\ mouse_button_states'[5] = 0
  <2>1. \A v \in Int : Bit(v, 1) \in Int /\ Bit(v, 2) \in Int /\ Bit(v, 4) \in Int
                       /\ Bit(v, 16) \in Int /\ Bit(v, 32) \in Int
    BY DEF Bit
  <2>2. packet'[1] \in Int /\ packet'[4] \in Int BY ByteStored
  <2>3. /\ mouse_button_states \in [1 .. 5 -> Int]
        /\ mouse_type # "5btn" => mouse_button_states[4] = 0 /\ mouse_button_states[5] = 0
    BY DEF MouseTypeOK
  <2>. DEFINE d == IF mouse_type = "5btn" THEN Bit(packet'[4], 16) ELSE mouse_button_states[4]
              e == IF mouse_type = "5btn" THEN Bit(packet'[4], 32) ELSE mouse_button_states[5]
              a == Bit(packet'[1], 1)
              b == Bit(packet'[1], 2)
              c == Bit(packet'[1], 4)
  <2>4. a \in Int /\ b \in Int /\ c \in Int /\ d \in Int /\ e \in Int
    <3>1. a \in Int /\ b \in Int /\ c \in Int /\ Bit(packet'[4], 16) \in Int /\ Bit(packet'[4], 32) \in Int
      BY <2>1, <2>2, Zenon
    <3>2. mouse_button_states[4] \in Int /\ mouse_button_states[5] \in Int BY <2>3
    <3>. QED BY <3>1, <3>2, Zenon
  <2>5. mouse_button_states' =
          [mouse_button_states EXCEPT ![1] = a, ![2] = b, ![3] = c, ![4] = d, ![5] = e]
    BY <1>3 DEF Buttons
  <2>6. /\ mouse_type = "5btn" => d = Bit(packet'[4], 16) /\ e = Bit(packet'[4], 32)
        /\ mouse_type # "5btn" => d = 0 /\ e = 0
    BY <2>3
  <2>7. /\ mouse_button_states' \in [1 .. 5 -> Int]
        /\ mouse_button_states'[1] = a
        /\ mouse_button_states'[2] = b
        /\ mouse_button_states'[3] = c
        /\ mouse_button_states'[4] = d
        /\ mouse_button_states'[5] = e
    <3>. HIDE DEF a, b, c, d, e
    <3>. QED BY <2>3, <2>4, <2>5
  <2>. QED BY <2>6, <2>7
<1>10. ASSUME NEW k \in 1 .. 5 PROVE mouse_button_states'[k] # 0 <=> k \in q.btn
  <2>1. mouse_type # "5btn" => 4 \notin q.btn /\ 5 \notin q.btn BY DEF Possible
  <2>2. k = 1 \/ k = 2 \/ k = 3 \/ k = 4 \/ k = 5 OBVIOUS
  <2>. QED BY <1>7, <1>8, <1>9, <2>1, <2>2
<1>11. mouse_z' = mouse_z + q.z BY <1>3, <1>8
<1>. QED BY <1>2, <1>6, <1>9, <1>10, <1>11

(* A report sets out, behind the last byte of the one before or alone.     *)
LEMMA MouseMovesInv ==
    ASSUME SlowMotions, MouseInv, MouseMoves
    PROVE  MouseInv'
<1>. USE DEF MouseInv
<1>0. /\ to_send = <<>>
      /\ UNCHANGED <<mouse_type, mouse_packet_size, packet_byte, packet, mouse_x, mouse_y,
                     mouse_z, mouse_button_states, out>>
  BY DEF MouseMoves, position
<1>1. PICK x \in Motions, y \in Motions, btn \in {{}, {1}, {2, 3}, {4}, {5, 1}},
           z \in IF mouse_type = "generic" THEN {0} ELSE Scrolls :
        /\ mouse_type # "5btn" => btn \cap {4, 5} = {}
        /\ to_send' = PacketOf(mouse_type, x, y, z, btn)
        /\ moved' = [x |-> moved.x + x, y |-> moved.y + y, z |-> moved.z + z, btn |-> btn]
  BY DEF MouseMoves
<1>. DEFINE r == [x |-> x, y |-> y, z |-> z, btn |-> btn]
<1>2. /\ r \in Reports
      /\ r.x = x /\ r.y = y /\ r.z = z /\ r.btn = btn
  <2>1. x \in -128 .. 127 /\ y \in -128 .. 127 BY DEF SlowMotions
  <2>2. z \in -8 .. 7 BY MotionsAssumption
  <2>3. btn \in SUBSET (1 .. 5) BY <1>1
  <2>. QED BY <2>1, <2>2, <2>3 DEF Reports
<1>3. Possible(mouse_type, r)
  <2>1. mouse_type = "generic" => z = 0 BY <1>1
  <2>2. mouse_type # "5btn" => 4 \notin btn /\ 5 \notin btn BY <1>1
  <2>. QED BY <1>2, <2>1, <2>2 DEF Possible
<1>4. to_send' = Packet(mouse_type, r) BY <1>1, <1>2 DEF Packet
<1>5. /\ moved' \in [x : Int, y : Int, z : Int, btn : SUBSET (1 .. 5)]
      /\ moved'.x = moved.x + r.x /\ moved'.y = moved.y + r.y /\ moved'.z = moved.z + r.z
      /\ moved'.btn = r.btn
  <2>1. moved.x \in Int /\ moved.y \in Int /\ moved.z \in Int BY DEF MouseTypeOK
  <2>2. x \in Int /\ y \in Int /\ z \in Int /\ btn \in SUBSET (1 .. 5)
    BY <1>2 DEF Reports
  <2>3. moved.x + x \in Int /\ moved.y + y \in Int /\ moved.z + z \in Int BY <2>1, <2>2
  <2>4. moved' \in [x : Int, y : Int, z : Int, btn : SUBSET (1 .. 5)]
    BY <1>1, <2>2, <2>3, Zenon
  <2>5. moved'.x = moved.x + x /\ moved'.y = moved.y + y /\ moved'.z = moved.z + z /\ moved'.btn = btn
    BY <1>1
  <2>. QED BY <1>2, <2>4, <2>5
<1>. HIDE DEF r
<1>6. /\ mouse_type \in {"generic", "zaxis", "5btn"}
      /\ mouse_packet_size = PacketSize(mouse_type)
  BY DEF MouseTypeOK
<1>7. /\ to_send' \in Seq(Int) /\ Len(to_send') = mouse_packet_size
      /\ mouse_packet_size \in 3 .. 4
  <2>1. BytesOf(mouse_type, r, to_send') BY <1>2, <1>4, <1>6, PacketBytes
  <2>2. PacketSize(mouse_type) \in 3 .. 4 BY <1>6 DEF PacketSize
  <2>. QED BY <1>6, <2>1, <2>2 DEF BytesOf
<1>t. /\ mouse_x \in Int /\ mouse_y \in Int /\ mouse_z \in Int
      /\ moved.x \in Int /\ moved.y \in Int /\ moved.z \in Int
      /\ packet_byte \in 0 .. 3
  BY DEF MouseTypeOK
<1>u. \A v \in Reports : v.x \in Int /\ v.y \in Int /\ v.z \in Int BY DEF Reports
<1>8. MouseTypeOK' BY <1>0, <1>5, <1>7 DEF MouseTypeOK
<1>9. ~Quiet' BY <1>7 DEF Quiet
<1>10. CASE out.from # "mouse"
  <2>1. packet_byte = 0 /\ Tracked BY <1>0, <1>10 DEF Quiet
  <2>2. UnderWay(r)'
    <3>1. InBuffer' = 0 BY <1>0, <1>10 DEF InBuffer
    <3>2. \A k \in 1 .. Len(to_send') :
            to_send'[k] = Packet(mouse_type, r)[packet_byte' + InBuffer' + k]
      BY <1>0, <1>4, <2>1, <3>1
    <3>3. /\ moved'.x = mouse_x' + r.x
          /\ moved'.y = r.y - mouse_y'
          /\ moved'.z = mouse_z' + r.z
          /\ moved'.btn = r.btn
      <4>1. mouse_x = moved.x /\ mouse_y = -moved.y /\ mouse_z = moved.z
        BY <2>1 DEF Tracked
      <4>2. r.x \in Int /\ r.y \in Int /\ r.z \in Int BY <1>2, <1>u
      <4>. QED BY <1>0, <1>5, <1>t, <4>1, <4>2
    <3>4. /\ packet_byte' + InBuffer' + Len(to_send') = mouse_packet_size'
          /\ packet_byte' = 0
      BY <1>0, <1>7, <2>1, <3>1
    <3>5. /\ \A k \in 1 .. 4 : k <= packet_byte' => packet'[k] = Packet(mouse_type, r)[k]
          /\ out'.from = "mouse" => out'.byte = Packet(mouse_type, r)[packet_byte' + 1]
      BY <1>0, <1>10, <3>4
    <3>. QED BY <1>0, <1>3, <3>2, <3>3, <3>4, <3>5 DEF UnderWay
  <2>. QED BY <1>2, <1>8, <1>9, <2>2
<1>11. CASE out.from = "mouse"
  <2>1. PICK q \in Reports : UnderWay(q)
    <3>1. ASSUME NEW q \in Reports, NEW v \in Reports, Trailing(q, v) PROVE FALSE
      <4>1. BytesOf(mouse_type, v, to_send) BY <1>6, <3>1, PacketBytes DEF Trailing
      <4>2. Len(to_send) = mouse_packet_size BY <1>6, <4>1 DEF BytesOf
      <4>. QED BY <1>0, <1>7, <4>2
    <3>. QED BY <1>11, <3>1 DEF Quiet
  <2>2. packet_byte = mouse_packet_size - 1
    <3>1. InBuffer = 1 /\ Len(to_send) = 0 BY <1>0, <1>11 DEF InBuffer
    <3>2. packet_byte + InBuffer + Len(to_send) = mouse_packet_size BY <2>1 DEF UnderWay
    <3>. QED BY <1>7, <1>t, <3>1, <3>2
  <2>3. Trailing(q, r)'
    <3>1. /\ out.byte = Packet(mouse_type, q)[mouse_packet_size]
          /\ \A k \in 1 .. 4 : k <= packet_byte => packet[k] = Packet(mouse_type, q)[k]
          /\ Possible(mouse_type, q)
      BY <1>7, <1>11, <2>1, <2>2 DEF UnderWay
    <3>2. /\ moved'.x = mouse_x' + q.x + r.x
          /\ moved'.y = q.y + r.y - mouse_y'
          /\ moved'.z = mouse_z' + q.z + r.z
          /\ moved'.btn = r.btn
      <4>1. /\ moved.x = mouse_x + q.x
            /\ moved.y = q.y - mouse_y
            /\ moved.z = mouse_z + q.z
        BY <2>1 DEF UnderWay
      <4>2. q.x \in Int /\ q.y \in Int /\ q.z \in Int /\ r.x \in Int /\ r.y \in Int /\ r.z \in Int
        BY <1>2, <1>u, <2>1
      <4>3. mouse_x' = mouse_x /\ mouse_y' = mouse_y /\ mouse_z' = mouse_z BY <1>0
      <4>. HIDE DEF MouseInv
      <4>4. moved'.x = mouse_x' + q.x + r.x BY <1>5, <1>t, <4>1, <4>2, <4>3
      <4>5. moved'.y = q.y + r.y - mouse_y' BY <1>5, <1>t, <4>1, <4>2, <4>3
      <4>6. moved'.z = mouse_z' + q.z + r.z BY <1>5, <1>t, <4>1, <4>2, <4>3
      <4>. QED BY <1>5, <4>4, <4>5, <4>6
    <3>. QED BY <1>0, <1>3, <1>4, <1>11, <2>2, <3>1, <3>2 DEF Trailing
  <2>. QED BY <1>2, <1>8, <1>9, <2>1, <2>3
<1>. QED BY <1>10, <1>11

(* The controller takes the next byte of the packet under way.             *)
LEMMA ControllerTakesMouseInv ==
    ASSUME MouseInv, ControllerTakesMouse
    PROVE  MouseInv'
<1>. USE DEF MouseInv
<1>0. /\ UNCHANGED <<mouse_type, mouse_packet_size, packet_byte, packet, mouse_x, mouse_y,
                     mouse_z, mouse_button_states, moved>>
      /\ to_send # <<>> /\ to_send' = Tail(to_send)
      /\ out'.from = "mouse" /\ out'.byte = Head(to_send) /\ out.from = "none"
  BY DEF ControllerTakesMouse, position, Empty
<1>1. PICK r \in Reports : UnderWay(r) BY <1>0 DEF Quiet, Trailing
<1>2. to_send \in Seq(Int) BY DEF MouseTypeOK
<1>3. /\ to_send' \in Seq(Int) /\ Len(to_send') = Len(to_send) - 1
      /\ Len(to_send) \in Nat \ {0}
      /\ Head(to_send) = to_send[1] /\ Head(to_send) \in Int
      /\ \A k \in 1 .. Len(to_send') : to_send'[k] = to_send[k + 1]
  BY <1>0, <1>2
<1>4. MouseTypeOK'
  <2>1. out' \in [from : {"none", "kb", "mouse"}, byte : Int]
    BY <1>3 DEF ControllerTakesMouse
  <2>. QED BY <1>0, <1>3, <2>1 DEF MouseTypeOK
<1>5. UnderWay(r)'
  <2>1. InBuffer = 0 /\ InBuffer' = 1 /\ packet_byte \in 0 .. 3
    BY <1>0 DEF InBuffer, MouseTypeOK
  <2>2. packet_byte' + InBuffer' + Len(to_send') = mouse_packet_size'
    BY <1>0, <1>1, <1>3, <2>1 DEF UnderWay
  <2>3. out'.byte = Packet(mouse_type, r)[packet_byte' + 1]
    BY <1>0, <1>1, <1>3, <2>1 DEF UnderWay
  <2>4. ASSUME NEW k \in 1 .. Len(to_send')
        PROVE  to_send'[k] = Packet(mouse_type, r)[packet_byte' + InBuffer' + k]
    <3>1. k + 1 \in 1 .. Len(to_send) BY <1>3
    <3>2. to_send[k + 1] = Packet(mouse_type, r)[packet_byte + InBuffer + (k + 1)]
      BY <1>1, <3>1 DEF UnderWay
    <3>3. packet_byte + InBuffer + (k + 1) = packet_byte' + InBuffer' + k
      BY <1>0, <1>3, <2>1
    <3>. QED BY <1>3, <3>2, <3>3
  <2>. QED BY <1>0, <1>1, <2>2, <2>3, <2>4 DEF UnderWay
<1>6. ~Quiet' BY <1>0 DEF Quiet
<1>. QED BY <1>4, <1>5, <1>6

(* Keyboard bytes between those of the mouse.                              *)
LEMMA KeyInv ==
    ASSUME MouseInv, ControllerTakesKey \/ KbHandle
    PROVE  MouseInv'
<1>. USE DEF MouseInv
<1>0. /\ UNCHANGED <<mouse_type, mouse_packet_size, packet_byte, packet, mouse_x, mouse_y,
                     mouse_z, mouse_button_states, to_send, moved>>
      /\ out.from # "mouse" /\ out'.from # "mouse"
      /\ out' \in [from : {"none", "kb", "mouse"}, byte : Int]
  BY DEF ControllerTakesKey, KbHandle, position, Empty
<1>1. MouseTypeOK' BY <1>0 DEF MouseTypeOK
<1>2. Quiet' <=> Quiet BY <1>0 DEF Quiet
<1>3. Quiet' => (packet_byte = 0 /\ Tracked)' BY <1>0, <1>2 DEF Tracked
<1>4. ASSUME NEW r \in Reports, UnderWay(r) PROVE UnderWay(r)'
  <2>1. InBuffer' = InBuffer BY <1>0 DEF InBuffer
  <2>. QED BY <1>0, <1>4, <2>1 DEF UnderWay
<1>5. ~Quiet => \E r \in Reports : UnderWay(r) BY <1>0 DEF Trailing
<1>. QED BY <1>1, <1>2, <1>3, <1>4, <1>5

(* The handler takes a byte: the packet goes on, or it is complete.        *)
LEMMA MouseHandleInv ==
    ASSUME MouseInv, MouseHandle
    PROVE  MouseInv'
<1>. USE DEF MouseInv
<1>0. /\ out.from = "mouse" /\ ~Quiet
      /\ mouse_type \in {"generic", "zaxis", "5btn"}
      /\ mouse_packet_size = PacketSize(mouse_type)
  BY DEF MouseHandle, Quiet, MouseTypeOK
<1>1. /\ mouse_packet_size \in 3 .. 4 /\ packet_byte \in 0 .. 3
      /\ to_send \in Seq(Int) /\ Len(to_send) \in Nat
  BY <1>0 DEF MouseTypeOK, PacketSize
<1>2. /\ mouse_x \in Int /\ mouse_y \in Int /\ mouse_z \in Int
      /\ moved.x \in Int /\ moved.y \in Int /\ moved.z \in Int
  BY DEF MouseTypeOK
<1>3. /\ packet' \in [1 .. 4 -> Int]
      /\ packet'[packet_byte + 1] = out.byte
      /\ \A k \in 1 .. 4 : k # packet_byte + 1 => packet'[k] = packet[k]
      /\ out' = Empty /\ out'.from = "none"
      /\ UNCHANGED <<mouse_type, mouse_packet_size, to_send, moved>>
      /\ packet_byte' = NextByte(packet_byte + 1)
  BY ByteStored
<1>4. InBuffer = 1 /\ InBuffer' = 0 BY <1>0, <1>3 DEF InBuffer
<1>5. out' \in [from : {"none", "kb", "mouse"}, byte : Int] BY <1>3 DEF Empty
<1>6. \A v \in Reports : v.x \in Int /\ v.y \in Int /\ v.z \in Int BY DEF Reports
<1>7. ASSUME NEW q \in Reports, Possible(mouse_type, q),
             packet_byte = mouse_packet_size - 1,
             out.byte = Packet(mouse_type, q)[mouse_packet_size],
             \A k \in 1 .. 4 : k <= packet_byte => packet[k] = Packet(mouse_type, q)[k]
      PROVE  /\ MouseTypeOK'
             /\ packet_byte' = 0
             /\ mouse_x' = mouse_x + q.x
             /\ mouse_y' = mouse_y - q.y
             /\ mouse_z' = mouse_z + q.z
             /\ \A k \in 1 .. 5 : mouse_button_states'[k] # 0 <=> k \in q.btn
  <2>1. /\ packet_byte' = 0
        /\ mouse_x' = mouse_x + q.x
        /\ mouse_y' = mouse_y - q.y
        /\ mouse_z' = mouse_z + q.z
        /\ mouse_button_states' \in [1 .. 5 -> Int]
        /\ \A k \in 1 .. 5 : mouse_button_states'[k] # 0 <=> k \in q.btn
    BY <1>7, Complete
  <2>2. mouse_x' \in Int /\ mouse_y' \in Int /\ mouse_z' \in Int
    BY <1>2, <1>6, <1>7, <2>1
  <2>3. mouse_type # "5btn" => mouse_button_states'[4] = 0 /\ mouse_button_states'[5] = 0
    BY <1>7, <2>1 DEF Possible
  <2>4. packet_byte' \in 0 .. 3 /\ packet_byte' < mouse_packet_size BY <1>1, <2>1
  <2>5. MouseTypeOK' BY <1>1, <1>3, <1>5, <2>1, <2>2, <2>3, <2>4 DEF MouseTypeOK
  <2>. QED BY <2>1, <2>5
<1>8. CASE \E r \in Reports : UnderWay(r)
  <2>1. PICK r \in Reports : UnderWay(r) BY <1>8
  <2>2. packet_byte + 1 + Len(to_send) = mouse_packet_size
    BY <1>1, <1>4, <2>1 DEF UnderWay
  <2>3. /\ out.byte = Packet(mouse_type, r)[packet_byte + 1]
        /\ Possible(mouse_type, r)
        /\ \A k \in 1 .. 4 : k <= packet_byte => packet[k] = Packet(mouse_type, r)[k]
        /\ moved.x = mouse_x + r.x
        /\ moved.y = r.y - mouse_y
        /\ moved.z = mouse_z + r.z
        /\ moved.btn = r.btn
    BY <1>0, <2>1 DEF UnderWay
  <2>4. CASE to_send = <<>>
    <3>1. packet_byte + 1 = mouse_packet_size /\ packet_byte = mouse_packet_size - 1
      BY <1>1, <2>2, <2>4
    <3>2. /\ MouseTypeOK'
          /\ packet_byte' = 0
          /\ mouse_x' = mouse_x + r.x
          /\ mouse_y' = mouse_y - r.y
          /\ mouse_z' = mouse_z + r.z
          /\ \A k \in 1 .. 5 : mouse_button_states'[k] # 0 <=> k \in r.btn
      BY <1>7, <2>1, <2>3, <3>1
    <3>3. mouse_x' = moved'.x /\ mouse_y' = -moved'.y /\ mouse_z' = moved'.z
      BY <1>2, <1>3, <1>6, <2>1, <2>3, <3>2
    <3>4. Tracked' BY <1>3, <2>3, <3>2, <3>3 DEF Tracked
    <3>5. Quiet' BY <1>3, <2>4 DEF Quiet
    <3>. QED BY <3>2, <3>4, <3>5
  <2>5. CASE to_send # <<>>
    <3>1. /\ packet_byte + 1 < mouse_packet_size
          /\ packet_byte' = packet_byte + 1
      BY <1>1, <1>3, <2>2, <2>5, EmptySeq DEF NextByte
    <3>2. UNCHANGED <<mouse_x, mouse_y, mouse_z, mouse_button_states>>
      BY <1>1, <3>1 DEF MouseHandle, position
    <3>3. MouseTypeOK'
      <4>1. packet_byte' \in 0 .. 3 /\ packet_byte' < mouse_packet_size'
        BY <1>1, <1>3, <3>1
      <4>. QED BY <1>3, <1>5, <3>2, <4>1 DEF MouseTypeOK
    <3>4. \A k \in 1 .. 4 : k <= packet_byte' => packet'[k] = Packet(mouse_type, r)[k]
      <4>1. \A k \in 1 .. 4 : k <= packet_byte' => k <= packet_byte \/ k = packet_byte + 1
        BY <1>1, <3>1
      <4>. QED BY <1>1, <1>3, <2>3, <4>1
    <3>5. \A k \in 1 .. Len(to_send') :
            to_send'[k] = Packet(mouse_type, r)[packet_byte' + InBuffer' + k]
      <4>1. \A k \in 1 .. Len(to_send) :
              to_send[k] = Packet(mouse_type, r)[packet_byte + InBuffer + k]
        BY <2>1 DEF UnderWay
      <4>2. packet_byte' + InBuffer' = packet_byte + InBuffer BY <1>1, <1>4, <3>1
      <4>. QED BY <1>3, <4>1, <4>2
    <3>6. packet_byte' + InBuffer' + Len(to_send') = mouse_packet_size'
      <4>1. mouse_packet_size' = mouse_packet_size /\ to_send' = to_send /\ InBuffer' = 0
        BY <1>3, <1>4
      <4>. QED BY <1>1, <2>2, <3>1, <4>1
    <3>7. UnderWay(r)' BY <1>3, <2>3, <3>2, <3>4, <3>5, <3>6 DEF UnderWay
    <3>8. ~Quiet' BY <1>3, <2>5 DEF Quiet
    <3>. QED BY <2>1, <3>3, <3>7, <3>8
  <2>. QED BY <2>4, <2>5
<1>9. CASE \E q, r \in Reports : Trailing(q, r)
  <2>1. PICK q \in Reports, r \in Reports : Trailing(q, r) BY <1>9
  <2>2. /\ Possible(mouse_type, q) /\ Possible(mouse_type, r)
        /\ packet_byte = mouse_packet_size - 1
        /\ out.byte = Packet(mouse_type, q)[mouse_packet_size]
        /\ \A k \in 1 .. 4 : k <= packet_byte => packet[k] = Packet(mouse_type, q)[k]
        /\ to_send = Packet(mouse_type, r)
        /\ moved.x = mouse_x + q.x + r.x
        /\ moved.y = q.y + r.y - mouse_y
        /\ moved.z = mouse_z + q.z + r.z
        /\ moved.btn = r.btn
    BY <2>1 DEF Trailing
  <2>3. /\ MouseTypeOK'
        /\ packet_byte' = 0
        /\ mouse_x' = mouse_x + q.x
        /\ mouse_y' = mouse_y - q.y
        /\ mouse_z' = mouse_z + q.z
    BY <1>7, <2>1, <2>2
  <2>4. Len(to_send') = mouse_packet_size
    <3>1. BytesOf(mouse_type, r, to_send) BY <1>0, <2>1, <2>2, PacketBytes
    <3>. QED BY <1>0, <1>3, <3>1 DEF BytesOf
  <2>5. /\ moved'.x = mouse_x' + r.x
        /\ moved'.y = r.y - mouse_y'
        /\ moved'.z = mouse_z' + r.z
        /\ moved'.btn = r.btn
    BY <1>2, <1>3, <1>6, <2>1, <2>2, <2>3
  <2>6. /\ packet_byte' + InBuffer' + Len(to_send') = mouse_packet_size'
        /\ \A k \in 1 .. Len(to_send') :
             to_send'[k] = Packet(mouse_type, r)[packet_byte' + InBuffer' + k]
        /\ \A k \in 1 .. 4 : k <= packet_byte' => packet'[k] = Packet(mouse_type, r)[k]
    BY <1>1, <1>3, <1>4, <2>2, <2>3, <2>4
  <2>7. UnderWay(r)' BY <1>3, <2>2, <2>5, <2>6 DEF UnderWay
  <2>8. ~Quiet' BY <1>1, <1>3, <2>4 DEF Quiet
  <2>. QED BY <2>1, <2>3, <2>7, <2>8
<1>. QED BY <1>0, <1>8, <1>9

(* What mouse_initialize leaves: no byte of a packet has come yet.         *)
MouseReady ==
    /\ mouse_type \in {"generic", "zaxis", "5btn"}
    /\ mouse_packet_size = PacketSize(mouse_type)
    /\ packet_byte = 0
    /\ packet = [k \in 1 .. 4 |-> 0]
    /\ mouse_x = 0
    /\ mouse_y = 0
    /\ mouse_z = 0
    /\ mouse_button_states = [k \in 1 .. 5 |-> 0]
    /\ out = Empty
    /\ to_send = <<>>
    /\ moved = [x |-> 0, y |-> 0, z |-> 0, btn |-> {}]

LEMMA ReadyInv == MouseReady => MouseInv
<1>. SUFFICES ASSUME MouseReady PROVE MouseInv OBVIOUS
<1>1. mouse_type \in {"generic", "zaxis", "5btn"} BY DEF MouseReady
<1>2. /\ packet \in [1 .. 4 -> Int] /\ mouse_button_states \in [1 .. 5 -> Int]
      /\ \A k \in 1 .. 5 : mouse_button_states[k] = 0
  BY DEF MouseReady
<1>3. /\ out.from = "none" /\ out \in [from : {"none", "kb", "mouse"}, byte : Int]
      /\ to_send = <<>> /\ to_send \in Seq(Int)
  BY DEF MouseReady, Empty
<1>4. /\ moved \in [x : Int, y : Int, z : Int, btn : SUBSET (1 .. 5)]
      /\ moved.x = 0 /\ moved.y = 0 /\ moved.z = 0 /\ moved.btn = {}
  BY DEF MouseReady
<1>5. MouseTypeOK
  <2>1. /\ mouse_packet_size = PacketSize(mouse_type) /\ packet_byte = 0
        /\ mouse_x = 0 /\ mouse_y = 0 /\ mouse_z = 0
    BY DEF MouseReady
  <2>2. packet_byte \in 0 .. 3 /\ packet_byte < mouse_packet_size
    BY <1>1, <2>1 DEF PacketSize
  <2>. QED BY <1>1, <1>2, <1>3, <1>4, <2>1, <2>2 DEF MouseTypeOK
<1>6. Quiet /\ packet_byte = 0 /\ Tracked
  <2>1. packet_byte = 0 /\ mouse_x = 0 /\ mouse_y = 0 /\ mouse_z = 0 BY DEF MouseReady
  <2>2. Tracked
    <3>1. mouse_x = moved.x /\ mouse_y = -moved.y /\ mouse_z = moved.z
      <4>1. moved.x = 0 /\ moved.y = 0 /\ moved.z = 0 BY <1>4, Zenon
      <4>2. \A v \in Int : -v = 0 - v OBVIOUS
      <4>3. 0 \in Int /\ 0 - 0 = 0 OBVIOUS
      <4>4. -moved.y = 0 - moved.y BY <4>1, <4>2, <4>3, Zenon
      <4>. QED BY <2>1, <4>1, <4>3, <4>4, Zenon
    <3>2. \A k \in 1 .. 5 : mouse_button_states[k] # 0 <=> k \in moved.btn
      <4>1. \A k \in 1 .. 5 : k \notin moved.btn BY <1>4
      <4>. QED BY <1>2, <4>1, Zenon
    <3>. QED BY <3>1, <3>2 DEF Tracked
  <2>. QED BY <1>3, <2>1, <2>2 DEF Quiet
<1>. QED BY <1>5, <1>6 DEF MouseInv

LEMMA MouseStepInv ==
    ASSUME SlowMotions
    PROVE  MouseInv /\ [Next]_vars => MouseInv'
<1>. SUFFICES ASSUME MouseInv, [Next]_vars PROVE MouseInv' OBVIOUS
<1>1. CASE MouseMoves BY <1>1, MouseMovesInv
<1>2. CASE ControllerTakesMouse BY <1>2, ControllerTakesMouseInv
<1>3. CASE ControllerTakesKey \/ KbHandle BY <1>3, KeyInv
<1>4. CASE MouseHandle BY <1>4, MouseHandleInv
<1>5. CASE UNCHANGED vars
  BY <1>5 DEF vars, MouseInv, MouseTypeOK, Quiet, Tracked, UnderWay, Trailing, InBuffer
<1>. QED BY <1>1, <1>2, <1>3, <1>4, <1>5 DEF Next

-----------------------------------------------------------------------------
(* A report is only ever split over packet, the controller's buffer and    *)
(* the mouse (mouse_handle_interrupt, with its static locals), for every   *)
(* type of mouse and any movements of eight bits.                          *)
THEOREM ReportsWhole == SlowMotions => (Spec => []MouseInv)
<1>. SUFFICES ASSUME SlowMotions PROVE Spec => []MouseInv OBVIOUS
<1>1. Init => MouseInv BY ReadyInv, MotionsAssumption, Zenon DEF Init, MouseReady
<1>2. MouseInv /\ [Next]_vars => MouseInv' BY MouseStepInv
<1>. QED BY <1>1, <1>2, PTL DEF Spec

(* Cursor, wheel and buttons follow the mouse (mouse_handle_interrupt): as *)
(* soon as nothing is under way, they are where the reports add up to,     *)
(* however bytes of the keyboard come between those of the packets.        *)
THEOREM CursorTracksMouse == SlowMotions => (Spec => []MouseTracked)
<1>. SUFFICES ASSUME SlowMotions PROVE Spec => []MouseTracked OBVIOUS
<1>1. MouseInv => MouseTracked
  BY DEF MouseInv, MouseTracked, PositionTracks, WheelAndButtonsTrack, Tracked
<1>2. Spec => []MouseInv BY ReportsWhole
<1>. QED BY <1>1, <1>2, PTL

-----------------------------------------------------------------------------
(* The keyboard.  The bytes on the line are those of whole events, but for *)
(* what has been read of the first; and the handler's buffer holds the     *)
(* prefixes that the event being read has sent since its last code, unless *)
(* a byte was lost and no event has been read whole since.                 *)

KeyEvents == [key : K!Keys, press : BOOLEAN, shift : BOOLEAN]
KeyBytes(ev) == IF ev.press THEN K!Make(ev.key) ELSE K!Break(ev.key)

(* The prefixes right before byte n; there are never more than two.        *)
Pre(b, n) ==
    IF n > 1 /\ b[n - 1] \in K!Prefixes
    THEN IF n > 2 /\ b[n - 2] \in K!Prefixes THEN <<b[n - 2], b[n - 1]>> ELSE <<b[n - 1]>>
    ELSE <<>>

(* The same with byte n: what the handler then decodes.                    *)
Group(ev, n) ==
    IF n > 1 /\ KeyBytes(ev)[n - 1] \in K!Prefixes
    THEN IF n > 2 /\ KeyBytes(ev)[n - 2] \in K!Prefixes
         THEN <<KeyBytes(ev)[n - 2], KeyBytes(ev)[n - 1], KeyBytes(ev)[n]>>
         ELSE <<KeyBytes(ev)[n - 1], KeyBytes(ev)[n]>>
    ELSE <<KeyBytes(ev)[n]>>

KEY_SHIFTS == {K!KEY_LSHIFT, K!KEY_RSHIFT}

(* Byte n of an event does what it should when the buffer is as it should. *)
ReadsAs(ev, n) ==
    /\ KeyBytes(ev)[n] \in K!Prefixes =>
         n < Len(KeyBytes(ev)) /\ Pre(KeyBytes(ev), n + 1) = Group(ev, n)
    /\ (KeyBytes(ev)[n] \notin K!Prefixes /\ n < Len(KeyBytes(ev))) =>
         K!Decode(Group(ev, n)).c \notin KEY_SHIFTS
    /\ n = Len(KeyBytes(ev)) =>
         /\ K!Decode(Group(ev, n)).c \in KEY_SHIFTS <=> ev.key \in K!Shifts
         /\ ev.key \in K!Shifts => K!Decode(Group(ev, n)).press = IF ev.press THEN 1 ELSE 0
         /\ (ev.key = "a" /\ ev.press) =>
              /\ K!Decode(Group(ev, n)).press = 1
              /\ K!Decode(Group(ev, n)).c = IF shift_pressed = 1 THEN 65 ELSE 97
         /\ ~(ev.key = "a" /\ ev.press) =>
              K!Decode(Group(ev, n)).press = 0 \/ K!Decode(Group(ev, n)).c \notin 1 .. 255

(* The key, without and with shift, and the direction that a group stands  *)
(* for.                                                                    *)
StandsFor(group, c, shifted, press) ==
    /\ K!Decode(group).c = IF shift_pressed = 1 THEN shifted ELSE c
    /\ K!Decode(group).press = press

(* All groups that occur.                                                  *)
LEMMA Groups ==
    ASSUME shift_pressed \in {0, 1}
    PROVE  /\ StandsFor(<<28>>, 97, 65, 1)
           /\ StandsFor(<<18>>, 258, 258, 1)
           /\ StandsFor(<<89>>, 259, 259, 1)
           /\ StandsFor(<<20>>, 260, 260, 1)
           /\ StandsFor(<<224, 117>>, 273, 273, 1)
           /\ StandsFor(<<224, 18>>, 0, 0, 1)
           /\ StandsFor(<<224, 124>>, 0, 0, 1)
           /\ StandsFor(<<225, 20>>, 0, 0, 1)
           /\ StandsFor(<<119>>, 265, 265, 1)
           /\ StandsFor(<<225, 240, 20>>, 0, 0, 1)
           /\ StandsFor(<<240, 119>>, 265, 265, 0)
           /\ StandsFor(<<240, 28>>, 97, 65, 0)
           /\ StandsFor(<<240, 18>>, 258, 258, 0)
           /\ StandsFor(<<240, 89>>, 259, 259, 0)
           /\ StandsFor(<<240, 20>>, 260, 260, 0)
           /\ StandsFor(<<224, 240, 117>>, 273, 273, 0)
           /\ StandsFor(<<224, 240, 124>>, 0, 0, 0)
           /\ StandsFor(<<224, 240, 18>>, 0, 0, 0)
<1>. USE DEF StandsFor, K!Decode, K!Skip, K!kb_keymap1, K!kb_keymap2, K!KEY_LSHIFT, K!KEY_RSHIFT
<1>1. StandsFor(<<28>>, 97, 65, 1) OBVIOUS
<1>2. StandsFor(<<18>>, 258, 258, 1) OBVIOUS
<1>3. StandsFor(<<89>>, 259, 259, 1) OBVIOUS
<1>4. StandsFor(<<20>>, 260, 260, 1) OBVIOUS
<1>5. StandsFor(<<224, 117>>, 273, 273, 1) OBVIOUS
<1>6. StandsFor(<<224, 18>>, 0, 0, 1) OBVIOUS
<1>7. StandsFor(<<224, 124>>, 0, 0, 1) OBVIOUS
<1>8. StandsFor(<<225, 20>>, 0, 0, 1) OBVIOUS
<1>9. StandsFor(<<119>>, 265, 265, 1) OBVIOUS
<1>10. StandsFor(<<225, 240, 20>>, 0, 0, 1) OBVIOUS
<1>11. StandsFor(<<240, 119>>, 265, 265, 0) OBVIOUS
<1>12. StandsFor(<<240, 28>>, 97, 65, 0) OBVIOUS
<1>13. StandsFor(<<240, 18>>, 258, 258, 0) OBVIOUS
<1>14. StandsFor(<<240, 89>>, 259, 259, 0) OBVIOUS
<1>15. StandsFor(<<240, 20>>, 260, 260, 0) OBVIOUS
<1>16. StandsFor(<<224, 240, 117>>, 273, 273, 0) OBVIOUS
<1>17. StandsFor(<<224, 240, 124>>, 0, 0, 0) OBVIOUS
<1>18. StandsFor(<<224, 240, 18>>, 0, 0, 0) OBVIOUS
<1>. HIDE DEF StandsFor
<1>. QED BY <1>1, <1>2, <1>3, <1>4, <1>5, <1>6, <1>7, <1>8, <1>9, <1>10, <1>11, <1>12,
            <1>13, <1>14, <1>15, <1>16, <1>17, <1>18

(* One, two or three numbers one after the other.                         *)
LEMMA Appended ==
    ASSUME NEW a \in Int, NEW b \in Int, NEW c \in Int
    PROVE  /\ Append(<<>>, a) = <<a>>
           /\ Append(<<a>>, b) = <<a, b>>
           /\ Append(<<a, b>>, c) = <<a, b, c>>
<1>1. Append(<<>>, a) = <<a>> OBVIOUS
<1>2. Append(<<a>>, b) = <<a, b>>
  <2>. DEFINE s == Append(<<a>>, b)
              t == <<a, b>>
  <2>1. s \in Seq(Int) /\ Len(s) = 2 /\ s[1] = a /\ s[2] = b OBVIOUS
  <2>2. t \in Seq(Int) /\ Len(t) = 2 /\ t[1] = a /\ t[2] = b OBVIOUS
  <2>. HIDE DEF s, t
  <2>3. \A i \in 1 .. Len(s) : s[i] = t[i] BY <2>1, <2>2
  <2>4. s = t BY <2>1, <2>2, <2>3, SeqEqual
  <2>. QED BY <2>4 DEF s, t
<1>3. Append(<<a, b>>, c) = <<a, b, c>>
  <2>. DEFINE s == Append(<<a, b>>, c)
              t == <<a, b, c>>
  <2>1. s \in Seq(Int) /\ Len(s) = 3 /\ s[1] = a /\ s[2] = b /\ s[3] = c OBVIOUS
  <2>2. t \in Seq(Int) /\ Len(t) = 3 /\ t[1] = a /\ t[2] = b /\ t[3] = c OBVIOUS
  <2>. HIDE DEF s, t
  <2>3. \A i \in 1 .. Len(s) : s[i] = t[i] BY <2>1, <2>2
  <2>4. s = t BY <2>1, <2>2, <2>3, SeqEqual
  <2>. QED BY <2>4 DEF s, t
<1>. QED BY <1>1, <1>2, <1>3

(* The codes of all events, byte by byte.                                  *)
LEMMA EventReads ==
    ASSUME NEW ev \in KeyEvents, NEW n \in 1 .. Len(KeyBytes(ev)), shift_pressed \in {0, 1}
    PROVE  ReadsAs(ev, n)
<1>1. CASE ev.key = "a" /\ ev.press
  <2>0. KeyBytes(ev) = <<28>> BY <1>1 DEF KeyBytes, K!Make
  <2>1. ASSUME n = 1 PROVE ReadsAs(ev, n)
    <3>1. Len(KeyBytes(ev)) = 1 /\ KeyBytes(ev)[n] = 28 /\ Group(ev, n) = <<28>>
      BY <2>0, <2>1 DEF Group, K!Prefixes
    <3>2. StandsFor(Group(ev, n), 97, 65, 1) BY <3>1, Groups
    <3>. QED BY <1>1, <2>1, <3>1, <3>2 DEF ReadsAs, StandsFor, KEY_SHIFTS, K!Prefixes, K!Shifts, K!KEY_LSHIFT, K!KEY_RSHIFT
  <2>. QED BY <2>0, <2>1
<1>2. CASE ev.key = "lshift" /\ ev.press
  <2>0. KeyBytes(ev) = <<18>> BY <1>2 DEF KeyBytes, K!Make
  <2>1. ASSUME n = 1 PROVE ReadsAs(ev, n)
    <3>1. Len(KeyBytes(ev)) = 1 /\ KeyBytes(ev)[n] = 18 /\ Group(ev, n) = <<18>>
      BY <2>0, <2>1 DEF Group, K!Prefixes
    <3>2. StandsFor(Group(ev, n), 258, 258, 1) BY <3>1, Groups
    <3>. QED BY <1>2, <2>1, <3>1, <3>2 DEF ReadsAs, StandsFor, KEY_SHIFTS, K!Prefixes, K!Shifts, K!KEY_LSHIFT, K!KEY_RSHIFT
  <2>. QED BY <2>0, <2>1
<1>3. CASE ev.key = "rshift" /\ ev.press
  <2>0. KeyBytes(ev) = <<89>> BY <1>3 DEF KeyBytes, K!Make
  <2>1. ASSUME n = 1 PROVE ReadsAs(ev, n)
    <3>1. Len(KeyBytes(ev)) = 1 /\ KeyBytes(ev)[n] = 89 /\ Group(ev, n) = <<89>>
      BY <2>0, <2>1 DEF Group, K!Prefixes
    <3>2. StandsFor(Group(ev, n), 259, 259, 1) BY <3>1, Groups
    <3>. QED BY <1>3, <2>1, <3>1, <3>2 DEF ReadsAs, StandsFor, KEY_SHIFTS, K!Prefixes, K!Shifts, K!KEY_LSHIFT, K!KEY_RSHIFT
  <2>. QED BY <2>0, <2>1
<1>4. CASE ev.key = "ctrl" /\ ev.press
  <2>0. KeyBytes(ev) = <<20>> BY <1>4 DEF KeyBytes, K!Make
  <2>1. ASSUME n = 1 PROVE ReadsAs(ev, n)
    <3>1. Len(KeyBytes(ev)) = 1 /\ KeyBytes(ev)[n] = 20 /\ Group(ev, n) = <<20>>
      BY <2>0, <2>1 DEF Group, K!Prefixes
    <3>2. StandsFor(Group(ev, n), 260, 260, 1) BY <3>1, Groups
    <3>. QED BY <1>4, <2>1, <3>1, <3>2 DEF ReadsAs, StandsFor, KEY_SHIFTS, K!Prefixes, K!Shifts, K!KEY_LSHIFT, K!KEY_RSHIFT
  <2>. QED BY <2>0, <2>1
<1>5. CASE ev.key = "up" /\ ev.press
  <2>0. KeyBytes(ev) = <<224, 117>> BY <1>5 DEF KeyBytes, K!Make
  <2>1. ASSUME n = 1 PROVE ReadsAs(ev, n)
    <3>1. Len(KeyBytes(ev)) = 2 /\ KeyBytes(ev)[n] = 224 /\ Group(ev, n) = <<224>>
      BY <2>0, <2>1 DEF Group, K!Prefixes
    <3>2. Pre(KeyBytes(ev), n + 1) = <<224>> BY <2>0, <2>1 DEF Pre, K!Prefixes
    <3>. QED BY <2>1, <3>1, <3>2 DEF ReadsAs, K!Prefixes
  <2>2. ASSUME n = 2 PROVE ReadsAs(ev, n)
    <3>1. Len(KeyBytes(ev)) = 2 /\ KeyBytes(ev)[n] = 117 /\ Group(ev, n) = <<224, 117>>
      BY <2>0, <2>2 DEF Group, K!Prefixes
    <3>2. StandsFor(Group(ev, n), 273, 273, 1) BY <3>1, Groups
    <3>. QED BY <1>5, <2>2, <3>1, <3>2 DEF ReadsAs, StandsFor, KEY_SHIFTS, K!Prefixes, K!Shifts, K!KEY_LSHIFT, K!KEY_RSHIFT
  <2>. QED BY <2>0, <2>1, <2>2
<1>6. CASE ev.key = "prtsc" /\ ev.press
  <2>0. KeyBytes(ev) = <<224, 18, 224, 124>> BY <1>6 DEF KeyBytes, K!Make
  <2>1. ASSUME n = 1 PROVE ReadsAs(ev, n)
    <3>1. Len(KeyBytes(ev)) = 4 /\ KeyBytes(ev)[n] = 224 /\ Group(ev, n) = <<224>>
      BY <2>0, <2>1 DEF Group, K!Prefixes
    <3>2. Pre(KeyBytes(ev), n + 1) = <<224>> BY <2>0, <2>1 DEF Pre, K!Prefixes
    <3>. QED BY <2>1, <3>1, <3>2 DEF ReadsAs, K!Prefixes
  <2>2. ASSUME n = 2 PROVE ReadsAs(ev, n)
    <3>1. Len(KeyBytes(ev)) = 4 /\ KeyBytes(ev)[n] = 18 /\ Group(ev, n) = <<224, 18>>
      BY <2>0, <2>2 DEF Group, K!Prefixes
    <3>2. StandsFor(Group(ev, n), 0, 0, 1) BY <3>1, Groups
    <3>. QED BY <1>6, <2>2, <3>1, <3>2 DEF ReadsAs, StandsFor, KEY_SHIFTS, K!Prefixes, K!Shifts, K!KEY_LSHIFT, K!KEY_RSHIFT
  <2>3. ASSUME n = 3 PROVE ReadsAs(ev, n)
    <3>1. Len(KeyBytes(ev)) = 4 /\ KeyBytes(ev)[n] = 224 /\ Group(ev, n) = <<224>>
      BY <2>0, <2>3 DEF Group, K!Prefixes
    <3>2. Pre(KeyBytes(ev), n + 1) = <<224>> BY <2>0, <2>3 DEF Pre, K!Prefixes
    <3>. QED BY <2>3, <3>1, <3>2 DEF ReadsAs, K!Prefixes
  <2>4. ASSUME n = 4 PROVE ReadsAs(ev, n)
    <3>1. Len(KeyBytes(ev)) = 4 /\ KeyBytes(ev)[n] = 124 /\ Group(ev, n) = <<224, 124>>
      BY <2>0, <2>4 DEF Group, K!Prefixes
    <3>2. StandsFor(Group(ev, n), 0, 0, 1) BY <3>1, Groups
    <3>. QED BY <1>6, <2>4, <3>1, <3>2 DEF ReadsAs, StandsFor, KEY_SHIFTS, K!Prefixes, K!Shifts, K!KEY_LSHIFT, K!KEY_RSHIFT
  <2>. QED BY <2>0, <2>1, <2>2, <2>3, <2>4
<1>7. CASE ev.key = "pause" /\ ev.press
  <2>0. KeyBytes(ev) = <<225, 20, 119, 225, 240, 20, 240, 119>>
    BY <1>7 DEF KeyBytes, K!Make
  <2>1. ASSUME n = 1 PROVE ReadsAs(ev, n)
    <3>1. Len(KeyBytes(ev)) = 8 /\ KeyBytes(ev)[n] = 225 /\ Group(ev, n) = <<225>>
      BY <2>0, <2>1 DEF Group, K!Prefixes
    <3>2. Pre(KeyBytes(ev), n + 1) = <<225>> BY <2>0, <2>1 DEF Pre, K!Prefixes
    <3>. QED BY <2>1, <3>1, <3>2 DEF ReadsAs, K!Prefixes
  <2>2. ASSUME n = 2 PROVE ReadsAs(ev, n)
    <3>1. Len(KeyBytes(ev)) = 8 /\ KeyBytes(ev)[n] = 20 /\ Group(ev, n) = <<225, 20>>
      BY <2>0, <2>2 DEF Group, K!Prefixes
    <3>2. StandsFor(Group(ev, n), 0, 0, 1) BY <3>1, Groups
    <3>. QED BY <1>7, <2>2, <3>1, <3>2 DEF ReadsAs, StandsFor, KEY_SHIFTS, K!Prefixes, K!Shifts, K!KEY_LSHIFT, K!KEY_RSHIFT
  <2>3. ASSUME n = 3 PROVE ReadsAs(ev, n)
    <3>1. Len(KeyBytes(ev)) = 8 /\ KeyBytes(ev)[n] = 119 /\ Group(ev, n) = <<119>>
      BY <2>0, <2>3 DEF Group, K!Prefixes
    <3>2. StandsFor(Group(ev, n), 265, 265, 1) BY <3>1, Groups
    <3>. QED BY <1>7, <2>3, <3>1, <3>2 DEF ReadsAs, StandsFor, KEY_SHIFTS, K!Prefixes, K!Shifts, K!KEY_LSHIFT, K!KEY_RSHIFT
  <2>4. ASSUME n = 4 PROVE ReadsAs(ev, n)
    <3>1. Len(KeyBytes(ev)) = 8 /\ KeyBytes(ev)[n] = 225 /\ Group(ev, n) = <<225>>
      BY <2>0, <2>4 DEF Group, K!Prefixes
    <3>2. Pre(KeyBytes(ev), n + 1) = <<225>> BY <2>0, <2>4 DEF Pre, K!Prefixes
    <3>. QED BY <2>4, <3>1, <3>2 DEF ReadsAs, K!Prefixes
  <2>5. ASSUME n = 5 PROVE ReadsAs(ev, n)
    <3>1. Len(KeyBytes(ev)) = 8 /\ KeyBytes(ev)[n] = 240 /\ Group(ev, n) = <<225, 240>>
      BY <2>0, <2>5 DEF Group, K!Prefixes
    <3>2. Pre(KeyBytes(ev), n + 1) = <<225, 240>> BY <2>0, <2>5 DEF Pre, K!Prefixes
    <3>. QED BY <2>5, <3>1, <3>2 DEF ReadsAs, K!Prefixes
  <2>6. ASSUME n = 6 PROVE ReadsAs(ev, n)
    <3>1. Len(KeyBytes(ev)) = 8 /\ KeyBytes(ev)[n] = 20 /\ Group(ev, n) = <<225, 240, 20>>
      BY <2>0, <2>6 DEF Group, K!Prefixes
    <3>2. StandsFor(Group(ev, n), 0, 0, 1) BY <3>1, Groups
    <3>. QED BY <1>7, <2>6, <3>1, <3>2 DEF ReadsAs, StandsFor, KEY_SHIFTS, K!Prefixes, K!Shifts, K!KEY_LSHIFT, K!KEY_RSHIFT
  <2>7. ASSUME n = 7 PROVE ReadsAs(ev, n)
    <3>1. Len(KeyBytes(ev)) = 8 /\ KeyBytes(ev)[n] = 240 /\ Group(ev, n) = <<240>>
      BY <2>0, <2>7 DEF Group, K!Prefixes
    <3>2. Pre(KeyBytes(ev), n + 1) = <<240>> BY <2>0, <2>7 DEF Pre, K!Prefixes
    <3>. QED BY <2>7, <3>1, <3>2 DEF ReadsAs, K!Prefixes
  <2>8. ASSUME n = 8 PROVE ReadsAs(ev, n)
    <3>1. Len(KeyBytes(ev)) = 8 /\ KeyBytes(ev)[n] = 119 /\ Group(ev, n) = <<240, 119>>
      BY <2>0, <2>8 DEF Group, K!Prefixes
    <3>2. StandsFor(Group(ev, n), 265, 265, 0) BY <3>1, Groups
    <3>. QED BY <1>7, <2>8, <3>1, <3>2 DEF ReadsAs, StandsFor, KEY_SHIFTS, K!Prefixes, K!Shifts, K!KEY_LSHIFT, K!KEY_RSHIFT
  <2>. QED BY <2>0, <2>1, <2>2, <2>3, <2>4, <2>5, <2>6, <2>7, <2>8
<1>8. CASE ev.key = "a" /\ ~ev.press
  <2>0. KeyBytes(ev) = <<240, 28>> BY <1>8 DEF KeyBytes, K!Break
  <2>1. ASSUME n = 1 PROVE ReadsAs(ev, n)
    <3>1. Len(KeyBytes(ev)) = 2 /\ KeyBytes(ev)[n] = 240 /\ Group(ev, n) = <<240>>
      BY <2>0, <2>1 DEF Group, K!Prefixes
    <3>2. Pre(KeyBytes(ev), n + 1) = <<240>> BY <2>0, <2>1 DEF Pre, K!Prefixes
    <3>. QED BY <2>1, <3>1, <3>2 DEF ReadsAs, K!Prefixes
  <2>2. ASSUME n = 2 PROVE ReadsAs(ev, n)
    <3>1. Len(KeyBytes(ev)) = 2 /\ KeyBytes(ev)[n] = 28 /\ Group(ev, n) = <<240, 28>>
      BY <2>0, <2>2 DEF Group, K!Prefixes
    <3>2. StandsFor(Group(ev, n), 97, 65, 0) BY <3>1, Groups
    <3>. QED BY <1>8, <2>2, <3>1, <3>2 DEF ReadsAs, StandsFor, KEY_SHIFTS, K!Prefixes, K!Shifts, K!KEY_LSHIFT, K!KEY_RSHIFT
  <2>. QED BY <2>0, <2>1, <2>2
<1>9. CASE ev.key = "lshift" /\ ~ev.press
  <2>0. KeyBytes(ev) = <<240, 18>> BY <1>9 DEF KeyBytes, K!Break
  <2>1. ASSUME n = 1 PROVE ReadsAs(ev, n)
    <3>1. Len(KeyBytes(ev)) = 2 /\ KeyBytes(ev)[n] = 240 /\ Group(ev, n) = <<240>>
      BY <2>0, <2>1 DEF Group, K!Prefixes
    <3>2. Pre(KeyBytes(ev), n + 1) = <<240>> BY <2>0, <2>1 DEF Pre, K!Prefixes
    <3>. QED BY <2>1, <3>1, <3>2 DEF ReadsAs, K!Prefixes
  <2>2. ASSUME n = 2 PROVE ReadsAs(ev, n)
    <3>1. Len(KeyBytes(ev)) = 2 /\ KeyBytes(ev)[n] = 18 /\ Group(ev, n) = <<240, 18>>
      BY <2>0, <2>2 DEF Group, K!Prefixes
    <3>2. StandsFor(Group(ev, n), 258, 258, 0) BY <3>1, Groups
    <3>. QED BY <1>9, <2>2, <3>1, <3>2 DEF ReadsAs, StandsFor, KEY_SHIFTS, K!Prefixes, K!Shifts, K!KEY_LSHIFT, K!KEY_RSHIFT
  <2>. QED BY <2>0, <2>1, <2>2
<1>10. CASE ev.key = "rshift" /\ ~ev.press
  <2>0. KeyBytes(ev) = <<240, 89>> BY <1>10 DEF KeyBytes, K!Break
  <2>1. ASSUME n = 1 PROVE ReadsAs(ev, n)
    <3>1. Len(KeyBytes(ev)) = 2 /\ KeyBytes(ev)[n] = 240 /\ Group(ev, n) = <<240>>
      BY <2>0, <2>1 DEF Group, K!Prefixes
    <3>2. Pre(KeyBytes(ev), n + 1) = <<240>> BY <2>0, <2>1 DEF Pre, K!Prefixes
    <3>. QED BY <2>1, <3>1, <3>2 DEF ReadsAs, K!Prefixes
  <2>2. ASSUME n = 2 PROVE ReadsAs(ev, n)
    <3>1. Len(KeyBytes(ev)) = 2 /\ KeyBytes(ev)[n] = 89 /\ Group(ev, n) = <<240, 89>>
      BY <2>0, <2>2 DEF Group, K!Prefixes
    <3>2. StandsFor(Group(ev, n), 259, 259, 0) BY <3>1, Groups
    <3>. QED BY <1>10, <2>2, <3>1, <3>2 DEF ReadsAs, StandsFor, KEY_SHIFTS, K!Prefixes, K!Shifts, K!KEY_LSHIFT, K!KEY_RSHIFT
  <2>. QED BY <2>0, <2>1, <2>2
<1>11. CASE ev.key = "ctrl" /\ ~ev.press
  <2>0. KeyBytes(ev) = <<240, 20>> BY <1>11 DEF KeyBytes, K!Break
  <2>1. ASSUME n = 1 PROVE ReadsAs(ev, n)
    <3>1. Len(KeyBytes(ev)) = 2 /\ KeyBytes(ev)[n] = 240 /\ Group(ev, n) = <<240>>
      BY <2>0, <2>1 DEF Group, K!Prefixes
    <3>2. Pre(KeyBytes(ev), n + 1) = <<240>> BY <2>0, <2>1 DEF Pre, K!Prefixes
    <3>. QED BY <2>1, <3>1, <3>2 DEF ReadsAs, K!Prefixes
  <2>2. ASSUME n = 2 PROVE ReadsAs(ev, n)
    <3>1. Len(KeyBytes(ev)) = 2 /\ KeyBytes(ev)[n] = 20 /\ Group(ev, n) = <<240, 20>>
      BY <2>0, <2>2 DEF Group, K!Prefixes
    <3>2. StandsFor(Group(ev, n), 260, 260, 0) BY <3>1, Groups
    <3>. QED BY <1>11, <2>2, <3>1, <3>2 DEF ReadsAs, StandsFor, KEY_SHIFTS, K!Prefixes, K!Shifts, K!KEY_LSHIFT, K!KEY_RSHIFT
  <2>. QED BY <2>0, <2>1, <2>2
<1>12. CASE ev.key = "up" /\ ~ev.press
  <2>0. KeyBytes(ev) = <<224, 240, 117>> BY <1>12 DEF KeyBytes, K!Break
  <2>1. ASSUME n = 1 PROVE ReadsAs(ev, n)
    <3>1. Len(KeyBytes(ev)) = 3 /\ KeyBytes(ev)[n] = 224 /\ Group(ev, n) = <<224>>
      BY <2>0, <2>1 DEF Group, K!Prefixes
    <3>2. Pre(KeyBytes(ev), n + 1) = <<224>> BY <2>0, <2>1 DEF Pre, K!Prefixes
    <3>. QED BY <2>1, <3>1, <3>2 DEF ReadsAs, K!Prefixes
  <2>2. ASSUME n = 2 PROVE ReadsAs(ev, n)
    <3>1. Len(KeyBytes(ev)) = 3 /\ KeyBytes(ev)[n] = 240 /\ Group(ev, n) = <<224, 240>>
      BY <2>0, <2>2 DEF Group, K!Prefixes
    <3>2. Pre(KeyBytes(ev), n + 1) = <<224, 240>> BY <2>0, <2>2 DEF Pre, K!Prefixes
    <3>. QED BY <2>2, <3>1, <3>2 DEF ReadsAs, K!Prefixes
  <2>3. ASSUME n = 3 PROVE ReadsAs(ev, n)
    <3>1. Len(KeyBytes(ev)) = 3 /\ KeyBytes(ev)[n] = 117 /\ Group(ev, n) = <<224, 240, 117>>
      BY <2>0, <2>3 DEF Group, K!Prefixes
    <3>2. StandsFor(Group(ev, n), 273, 273, 0) BY <3>1, Groups
    <3>. QED BY <1>12, <2>3, <3>1, <3>2 DEF ReadsAs, StandsFor, KEY_SHIFTS, K!Prefixes, K!Shifts, K!KEY_LSHIFT, K!KEY_RSHIFT
  <2>. QED BY <2>0, <2>1, <2>2, <2>3
<1>13. CASE ev.key = "prtsc" /\ ~ev.press
  <2>0. KeyBytes(ev) = <<224, 240, 124, 224, 240, 18>> BY <1>13 DEF KeyBytes, K!Break
  <2>1. ASSUME n = 1 PROVE ReadsAs(ev, n)
    <3>1. Len(KeyBytes(ev)) = 6 /\ KeyBytes(ev)[n] = 224 /\ Group(ev, n) = <<224>>
      BY <2>0, <2>1 DEF Group, K!Prefixes
    <3>2. Pre(KeyBytes(ev), n + 1) = <<224>> BY <2>0, <2>1 DEF Pre, K!Prefixes
    <3>. QED BY <2>1, <3>1, <3>2 DEF ReadsAs, K!Prefixes
  <2>2. ASSUME n = 2 PROVE ReadsAs(ev, n)
    <3>1. Len(KeyBytes(ev)) = 6 /\ KeyBytes(ev)[n] = 240 /\ Group(ev, n) = <<224, 240>>
      BY <2>0, <2>2 DEF Group, K!Prefixes
    <3>2. Pre(KeyBytes(ev), n + 1) = <<224, 240>> BY <2>0, <2>2 DEF Pre, K!Prefixes
    <3>. QED BY <2>2, <3>1, <3>2 DEF ReadsAs, K!Prefixes
  <2>3. ASSUME n = 3 PROVE ReadsAs(ev, n)
    <3>1. Len(KeyBytes(ev)) = 6 /\ KeyBytes(ev)[n] = 124 /\ Group(ev, n) = <<224, 240, 124>>
      BY <2>0, <2>3 DEF Group, K!Prefixes
    <3>2. StandsFor(Group(ev, n), 0, 0, 0) BY <3>1, Groups
    <3>. QED BY <1>13, <2>3, <3>1, <3>2 DEF ReadsAs, StandsFor, KEY_SHIFTS, K!Prefixes, K!Shifts, K!KEY_LSHIFT, K!KEY_RSHIFT
  <2>4. ASSUME n = 4 PROVE ReadsAs(ev, n)
    <3>1. Len(KeyBytes(ev)) = 6 /\ KeyBytes(ev)[n] = 224 /\ Group(ev, n) = <<224>>
      BY <2>0, <2>4 DEF Group, K!Prefixes
    <3>2. Pre(KeyBytes(ev), n + 1) = <<224>> BY <2>0, <2>4 DEF Pre, K!Prefixes
    <3>. QED BY <2>4, <3>1, <3>2 DEF ReadsAs, K!Prefixes
  <2>5. ASSUME n = 5 PROVE ReadsAs(ev, n)
    <3>1. Len(KeyBytes(ev)) = 6 /\ KeyBytes(ev)[n] = 240 /\ Group(ev, n) = <<224, 240>>
      BY <2>0, <2>5 DEF Group, K!Prefixes
    <3>2. Pre(KeyBytes(ev), n + 1) = <<224, 240>> BY <2>0, <2>5 DEF Pre, K!Prefixes
    <3>. QED BY <2>5, <3>1, <3>2 DEF ReadsAs, K!Prefixes
  <2>6. ASSUME n = 6 PROVE ReadsAs(ev, n)
    <3>1. Len(KeyBytes(ev)) = 6 /\ KeyBytes(ev)[n] = 18 /\ Group(ev, n) = <<224, 240, 18>>
      BY <2>0, <2>6 DEF Group, K!Prefixes
    <3>2. StandsFor(Group(ev, n), 0, 0, 0) BY <3>1, Groups
    <3>. QED BY <1>13, <2>6, <3>1, <3>2 DEF ReadsAs, StandsFor, KEY_SHIFTS, K!Prefixes, K!Shifts, K!KEY_LSHIFT, K!KEY_RSHIFT
  <2>. QED BY <2>0, <2>1, <2>2, <2>3, <2>4, <2>5, <2>6
<1>14. ~(ev.key = "pause" /\ ~ev.press)
  <2>1. ASSUME ev.key = "pause", ~ev.press PROVE FALSE
    <3>1. KeyBytes(ev) = <<>> BY <2>1 DEF KeyBytes, K!Break
    <3>2. Len(<<>>) = 0 OBVIOUS
    <3>. QED BY <3>1, <3>2
  <2>. QED BY <2>1
<1>. QED BY <1>1, <1>2, <1>3, <1>4, <1>5, <1>6, <1>7, <1>8,
            <1>9, <1>10, <1>11, <1>12, <1>13, <1>14 DEF KeyEvents, K!Keys

(* Codes are numbers.                                                      *)
LEMMA BytesType ==
    ASSUME NEW ev \in KeyEvents
    PROVE  KeyBytes(ev) \in Seq(Int)
<1>1. ev.key \in K!Keys BY DEF KeyEvents
<1>2. K!Make(ev.key) \in Seq(Int) BY <1>1 DEF K!Keys, K!Make
<1>3. K!Break(ev.key) \in Seq(Int) BY <1>1 DEF K!Keys, K!Break
<1>. QED BY <1>2, <1>3 DEF KeyBytes

(* A group is the prefixes and the byte behind them.                       *)
LEMMA GroupAppends ==
    ASSUME NEW ev \in KeyEvents, NEW n \in 1 .. Len(KeyBytes(ev))
    PROVE  Group(ev, n) = Append(Pre(KeyBytes(ev), n), KeyBytes(ev)[n])
<1>. DEFINE b == KeyBytes(ev)
<1>1. b \in Seq(Int) /\ Len(b) \in Nat BY BytesType
<1>. HIDE DEF b
<1>2. n \in 1 .. Len(b) /\ n \in Nat BY <1>1 DEF b
<1>3. b[n] \in Int BY <1>1, <1>2
<1>4. CASE ~(n > 1 /\ b[n - 1] \in K!Prefixes)
  <2>1. Pre(b, n) = <<>> /\ Group(ev, n) = <<b[n]>> BY <1>4 DEF Pre, Group, b
  <2>2. Append(<<>>, b[n]) = <<b[n]>> BY <1>3, Appended
  <2>. QED BY <2>1, <2>2 DEF b
<1>5. CASE n > 1 /\ b[n - 1] \in K!Prefixes
  <2>1. b[n - 1] \in Int BY <1>1, <1>2, <1>5
  <2>2. CASE ~(n > 2 /\ b[n - 2] \in K!Prefixes)
    <3>1. Pre(b, n) = <<b[n - 1]>> /\ Group(ev, n) = <<b[n - 1], b[n]>>
      BY <1>5, <2>2 DEF Pre, Group, b
    <3>2. Append(<<b[n - 1]>>, b[n]) = <<b[n - 1], b[n]>> BY <1>3, <2>1, Appended
    <3>. QED BY <3>1, <3>2 DEF b
  <2>3. CASE n > 2 /\ b[n - 2] \in K!Prefixes
    <3>1. Pre(b, n) = <<b[n - 2], b[n - 1]>> /\ Group(ev, n) = <<b[n - 2], b[n - 1], b[n]>>
      BY <1>5, <2>3 DEF Pre, Group, b
    <3>2. b[n - 2] \in Int BY <1>1, <1>2, <2>3
    <3>3. Append(<<b[n - 2], b[n - 1]>>, b[n]) = <<b[n - 2], b[n - 1], b[n]>>
      BY <1>3, <2>1, <3>2, Appended
    <3>. QED BY <3>1, <3>3 DEF b
  <2>. QED BY <2>2, <2>3
<1>. QED BY <1>4, <1>5

(* There are none before the first byte nor behind a code.                 *)
LEMMA PreFacts ==
    ASSUME NEW b \in Seq(Int), NEW n \in Nat, n <= Len(b) + 1
    PROVE  /\ Pre(b, 1) = <<>>
           /\ Len(Pre(b, n)) <= 2
           /\ Len(Pre(b, n)) \in Nat
           /\ Pre(b, n) \in Seq(Int)
           /\ (n >= 1 /\ b[n] \notin K!Prefixes) => Pre(b, n + 1) = <<>>
<1>1. Pre(b, 1) = <<>> BY DEF Pre
<1>2. (n >= 1 /\ b[n] \notin K!Prefixes) => Pre(b, n + 1) = <<>>
  <2>1. n + 1 - 1 = n OBVIOUS
  <2>. QED BY <2>1 DEF Pre
<1>3. Len(<<>>) = 0 /\ Len(<<b[n - 1]>>) = 1 /\ Len(<<b[n - 2], b[n - 1]>>) = 2 OBVIOUS
<1>4. Len(Pre(b, n)) \in {0, 1, 2} BY <1>3 DEF Pre
<1>. DEFINE l == Len(Pre(b, n))
<1>5. l <= 2 /\ l \in Nat
  <2>1. l \in {0, 1, 2} BY <1>4
  <2>. HIDE DEF l
  <2>. QED BY <2>1
<1>6. Pre(b, n) \in Seq(Int)
  <2>1. (n > 1 => b[n - 1] \in Int) /\ (n > 2 => b[n - 2] \in Int) OBVIOUS
  <2>2. <<>> \in Seq(Int) OBVIOUS
  <2>3. n > 1 => <<b[n - 1]>> \in Seq(Int) BY <2>1
  <2>4. n > 2 => <<b[n - 2], b[n - 1]>> \in Seq(Int) BY <2>1
  <2>. QED BY <2>2, <2>3, <2>4 DEF Pre
<1>. QED BY <1>1, <1>2, <1>5, <1>6

(* The character that the last byte of an event prints.                    *)
Printed(ev, c) == IF ev.key = "a" /\ ev.press THEN {c} ELSE {}

(* kb_handle_interrupt with its buffer as it should be.                    *)
LEMMA HandlesByte ==
    ASSUME NEW ev \in KeyEvents, NEW n \in 1 .. Len(KeyBytes(ev)), shift_pressed \in {0, 1},
           scan_buf = Pre(KeyBytes(ev), n)
    PROVE  /\ K!HandleByte(KeyBytes(ev)[n]).buf =
                IF n = Len(KeyBytes(ev)) THEN <<>> ELSE Pre(KeyBytes(ev), n + 1)
           /\ K!HandleByte(KeyBytes(ev)[n]).shift =
                IF n = Len(KeyBytes(ev)) /\ ev.key \in K!Shifts
                THEN IF ev.press THEN 1 ELSE 0 ELSE shift_pressed
           /\ n = Len(KeyBytes(ev)) =>
                K!HandleByte(KeyBytes(ev)[n]).printed =
                  Printed(ev, IF shift_pressed = 1 THEN 65 ELSE 97)
<1>. DEFINE x == KeyBytes(ev)[n]
            L == Len(KeyBytes(ev))
            g == Group(ev, n)
            d == K!Decode(g)
            r == K!HandleByte(x)
<1>1. g = Append(scan_buf, x) BY GroupAppends
<1>2. ReadsAs(ev, n) BY EventReads
<1>3. L \in Nat /\ n \in 1 .. L /\ KeyBytes(ev) \in Seq(Int) BY BytesType
<1>4. /\ x \in K!Prefixes => r.buf = g /\ r.shift = shift_pressed
      /\ x \notin K!Prefixes =>
           /\ r.buf = <<>>
           /\ r.shift = IF d.c \in KEY_SHIFTS THEN d.press ELSE shift_pressed
           /\ r.printed = IF d.press = 1 /\ d.c \in 1 .. 255 THEN {d.c} ELSE {}
  BY <1>1 DEF K!HandleByte, KEY_SHIFTS
<1>. HIDE DEF r, d
<1>5. CASE x \in K!Prefixes
  <2>1. n < L /\ Pre(KeyBytes(ev), n + 1) = g BY <1>2, <1>5 DEF ReadsAs
  <2>2. n # L BY <1>3, <2>1
  <2>. QED BY <1>4, <1>5, <2>1, <2>2 DEF r
<1>6. CASE x \notin K!Prefixes /\ n # L
  <2>1. n < L BY <1>3, <1>6
  <2>2. d.c \notin KEY_SHIFTS BY <1>2, <1>6, <2>1 DEF ReadsAs, d
  <2>3. Pre(KeyBytes(ev), n + 1) = <<>> BY <1>3, <1>6, PreFacts
  <2>. QED BY <1>4, <1>6, <2>2, <2>3 DEF r
<1>7. CASE x \notin K!Prefixes /\ n = L
  <2>1. /\ d.c \in KEY_SHIFTS <=> ev.key \in K!Shifts
        /\ ev.key \in K!Shifts => d.press = IF ev.press THEN 1 ELSE 0
        /\ (ev.key = "a" /\ ev.press) => d.press = 1 /\ d.c = IF shift_pressed = 1 THEN 65 ELSE 97
        /\ ~(ev.key = "a" /\ ev.press) => d.press = 0 \/ d.c \notin 1 .. 255
    BY <1>2, <1>7 DEF ReadsAs, d
  <2>2. r.shift = IF n = L /\ ev.key \in K!Shifts
                  THEN IF ev.press THEN 1 ELSE 0 ELSE shift_pressed
    BY <1>4, <1>7, <2>1
  <2>3. r.printed = Printed(ev, IF shift_pressed = 1 THEN 65 ELSE 97)
    <3>1. CASE ev.key = "a" /\ ev.press
      <4>1. d.press = 1 /\ d.c = (IF shift_pressed = 1 THEN 65 ELSE 97) /\ d.c \in 1 .. 255
        BY <2>1, <3>1
      <4>. QED BY <1>4, <1>7, <3>1, <4>1 DEF Printed
    <3>2. CASE ~(ev.key = "a" /\ ev.press)
      <4>1. ~(d.press = 1 /\ d.c \in 1 .. 255) BY <2>1, <3>2
      <4>. QED BY <1>4, <1>7, <3>2, <4>1 DEF Printed
    <3>. QED BY <3>1, <3>2
  <2>. QED BY <1>4, <1>7, <2>2, <2>3 DEF r
<1>. QED BY <1>5, <1>6, <1>7

(* And with any buffer.                                                    *)
LEMMA HandlesAny ==
    ASSUME NEW x \in Int, shift_pressed \in {0, 1}
    PROVE  /\ K!HandleByte(x).shift \in {0, 1}
           /\ K!HandleByte(x).buf = IF x \in K!Prefixes THEN Append(scan_buf, x) ELSE <<>>
<1>1. \A b : K!Decode(b).press \in {0, 1} BY DEF K!Decode
<1>. QED BY <1>1 DEF K!HandleByte

(* A byte on the line.                                                     *)
Sent == [byte : Int, ev : KeyEvents, final : BOOLEAN]

ShiftAfter(ev) ==
    (ev.key \in K!Shifts /\ ev.press) \/ (ev.key \notin K!Shifts /\ ev.shift)
Held == held \cap K!Shifts # {}

KeysTypeOK ==
    /\ wire \in Seq(Sent)
    /\ held \in SUBSET K!Keys
    /\ lost \in Nat /\ whole \in Nat
    /\ damaged \in BOOLEAN
    /\ shift_pressed \in {0, 1}
    /\ scan_buf \in Seq(Int)

(* Byte n on the line is byte at[n] of its event; an event follows another *)
(* when that is complete, and knows whether shift is held by then; h is    *)
(* whether it is held at the end.                                          *)
ByteOf(b, n) ==
    /\ n \in 1 .. Len(KeyBytes(b.ev))
    /\ b.byte = KeyBytes(b.ev)[n]
    /\ b.final <=> n = Len(KeyBytes(b.ev))
Follows(b, n, c, m) ==
    /\ b.final => m = 1 /\ (c.ev.shift <=> ShiftAfter(b.ev))
    /\ ~b.final => m = n + 1 /\ c.ev = b.ev
EndsWith(b, h) == b.final /\ (ShiftAfter(b.ev) <=> h)

LineOf(w, at, h) ==
    /\ \A n \in 1 .. Len(w) : ByteOf(w[n], at[n])
    /\ \A n \in 1 .. Len(w) - 1 : Follows(w[n], at[n], w[n + 1], at[n + 1])
    /\ w # <<>> => EndsWith(w[Len(w)], h)

(* What buffer and shift should be by the byte that is read next.          *)
PendingOf(w, at) == IF w = <<>> THEN <<>> ELSE Pre(KeyBytes(w[1].ev), at[1])
ShiftedOf(w, h) == (w = <<>> /\ h) \/ (w # <<>> /\ w[1].ev.shift)

Line(at) == LineOf(wire, at, Held)
Pending(at) == PendingOf(wire, at)
Shifted == ShiftedOf(wire, Held)

BufferOK(at) ==
    /\ (lost = 0 \/ whole >= 1) => scan_buf = Pending(at) /\ ~damaged
    /\ Len(scan_buf) <= 2 * lost + Len(Pending(at))
    /\ lost = 0 => (shift_pressed = 1 <=> Shifted)

PrintedOK ==
    /\ (lost = 0 /\ last.key # "none") =>
         last.printed = Printed(last, IF last.shift THEN 65 ELSE 97)
    /\ whole >= 2 =>
         \/ last.printed = Printed(last, 97)
         \/ last.printed = Printed(last, 65)

KeysInv ==
    /\ KeysTypeOK /\ PrintedOK
    /\ \E at : Line(at) /\ BufferOK(at)

(* The keyboard starts with nothing on the line.                          *)
LEMMA KeysInit == K!Init => KeysInv
<1>. SUFFICES ASSUME K!Init PROVE KeysInv OBVIOUS
<1>1. /\ scan_buf = <<>> /\ shift_pressed = 0 /\ wire = <<>> /\ held = {}
      /\ lost = 0 /\ damaged = FALSE /\ whole = 0 /\ last.key = "none"
  BY DEF K!Init
<1>2. Len(<<>>) = 0 /\ <<>> \in Seq(Sent) /\ <<>> \in Seq(Int) OBVIOUS
<1>3. KeysTypeOK BY <1>1, <1>2 DEF KeysTypeOK
<1>4. PrintedOK BY <1>1 DEF PrintedOK
<1>. DEFINE at == <<>>
<1>. HIDE DEF at
<1>5. Line(at) BY <1>1, <1>2 DEF Line, LineOf
<1>6. BufferOK(at)
  BY <1>1, <1>2 DEF BufferOK, Pending, Shifted, PendingOf, ShiftedOf, Held
<1>. QED BY <1>3, <1>4, <1>5, <1>6 DEF KeysInv

-----------------------------------------------------------------------------
(* The first byte leaves the line, read or lost.                           *)

(* What the invariant says of it.                                          *)
LEMMA FirstByte ==
    ASSUME KeysTypeOK, NEW at, Line(at), wire # <<>>
    PROVE  /\ Len(wire) \in Nat \ {0}
           /\ Head(wire) = wire[1]
           /\ wire[1].ev \in KeyEvents
           /\ wire[1].byte \in Int
           /\ ByteOf(wire[1], at[1])
           /\ Pending(at) = Pre(KeyBytes(wire[1].ev), at[1])
           /\ Shifted <=> wire[1].ev.shift
<1>1. wire \in Seq(Sent) BY DEF KeysTypeOK
<1>2. Len(wire) \in Nat \ {0} /\ Head(wire) = wire[1] /\ wire[1] \in Sent BY <1>1
<1>3. wire[1].ev \in KeyEvents /\ wire[1].byte \in Int BY <1>2 DEF Sent
<1>4. 1 \in 1 .. Len(wire) BY <1>2
<1>5. ByteOf(wire[1], at[1]) BY <1>4 DEF Line, LineOf
<1>. QED BY <1>2, <1>3, <1>5 DEF Pending, PendingOf, Shifted, ShiftedOf

(* The line without it, and what buffer and shift should be then.          *)
LEMMA ShorterLine ==
    ASSUME NEW w \in Seq(Sent), w # <<>>, NEW at, NEW h, LineOf(w, at, h)
    PROVE  \E at2 :
             /\ LineOf(Tail(w), at2, h)
             /\ w[1].final => PendingOf(Tail(w), at2) = <<>> /\ (ShiftedOf(Tail(w), h) <=> ShiftAfter(w[1].ev))
             /\ ~w[1].final => /\ PendingOf(Tail(w), at2) = Pre(KeyBytes(w[1].ev), at[1] + 1)
                               /\ ShiftedOf(Tail(w), h) <=> w[1].ev.shift
<1>1. Len(w) \in Nat \ {0} OBVIOUS
<1>. DEFINE t == Tail(w)
<1>2. t \in Seq(Sent) /\ Len(t) = Len(w) - 1 /\ Len(t) \in Nat OBVIOUS
<1>3. \A n \in 1 .. Len(w) - 1 : t[n] = w[n + 1] OBVIOUS
<1>. DEFINE at2 == [n \in 1 .. Len(w) - 1 |-> at[n + 1]]
<1>4. \A n \in 1 .. Len(w) - 1 : at2[n] = at[n + 1] OBVIOUS
<1>. HIDE DEF t, at2
<1>5. ASSUME NEW n \in 1 .. Len(t) PROVE ByteOf(t[n], at2[n])
  <2>1. n \in 1 .. Len(w) - 1 /\ n + 1 \in 1 .. Len(w) BY <1>1, <1>2
  <2>2. t[n] = w[n + 1] /\ at2[n] = at[n + 1] BY <1>3, <1>4, <2>1
  <2>3. ByteOf(w[n + 1], at[n + 1]) BY <2>1 DEF LineOf
  <2>. QED BY <2>2, <2>3
<1>6. ASSUME NEW n \in 1 .. Len(t) - 1 PROVE Follows(t[n], at2[n], t[n + 1], at2[n + 1])
  <2>1. n \in 1 .. Len(w) - 1 /\ n + 1 \in 1 .. Len(w) - 1 BY <1>1, <1>2
  <2>2. t[n] = w[n + 1] /\ at2[n] = at[n + 1] /\ t[n + 1] = w[n + 1 + 1] /\ at2[n + 1] = at[n + 1 + 1]
    BY <1>3, <1>4, <2>1
  <2>3. Follows(w[n + 1], at[n + 1], w[n + 1 + 1], at[n + 1 + 1]) BY <2>1 DEF LineOf
  <2>. QED BY <2>2, <2>3
<1>7. CASE t = <<>>
  <2>1. Len(t) = 0 BY <1>7
  <2>2. Len(w) = 1 BY <1>1, <1>2, <2>1
  <2>3. EndsWith(w[1], h) BY <2>2 DEF LineOf
  <2>4. LineOf(t, at2, h) BY <1>5, <1>6, <1>7 DEF LineOf
  <2>5. PendingOf(t, at2) = <<>> /\ (ShiftedOf(t, h) <=> h)
    BY <1>7 DEF PendingOf, ShiftedOf
  <2>. QED BY <2>3, <2>4, <2>5 DEF EndsWith, t
<1>8. CASE t # <<>>
  <2>1. Len(t) # 0 BY <1>2, <1>8
  <2>2. 1 \in 1 .. Len(w) - 1 /\ Len(t) \in 1 .. Len(w) - 1 /\ Len(t) + 1 = Len(w)
    BY <1>1, <1>2, <2>1
  <2>3. EndsWith(t[Len(t)], h)
    <3>1. t[Len(t)] = w[Len(w)] BY <1>3, <2>2
    <3>. QED BY <3>1 DEF LineOf
  <2>4. LineOf(t, at2, h) BY <1>5, <1>6, <2>3 DEF LineOf
  <2>5. t[1] = w[1 + 1] /\ at2[1] = at[1 + 1] BY <1>3, <1>4, <2>2
  <2>6. Follows(w[1], at[1], t[1], at2[1]) BY <2>2, <2>5 DEF LineOf
  <2>7. PendingOf(t, at2) = Pre(KeyBytes(t[1].ev), at2[1]) /\ (ShiftedOf(t, h) <=> t[1].ev.shift)
    BY <1>8 DEF PendingOf, ShiftedOf
  <2>8. Pre(KeyBytes(t[1].ev), 1) = <<>> BY DEF Pre
  <2>. QED BY <2>4, <2>6, <2>7, <2>8 DEF Follows, t
<1>. QED BY <1>7, <1>8

(* There are at most two prefixes to wait for.                             *)
LEMMA PendingType ==
    ASSUME NEW w \in Seq(Sent), NEW at, NEW h, LineOf(w, at, h)
    PROVE  Len(PendingOf(w, at)) \in Nat /\ Len(PendingOf(w, at)) <= 2
<1>1. CASE w = <<>>
  <2>1. PendingOf(w, at) = <<>> BY <1>1 DEF PendingOf
  <2>. QED BY <2>1
<1>2. CASE w # <<>>
  <2>1. 1 \in 1 .. Len(w) /\ w[1] \in Sent BY <1>2
  <2>2. w[1].ev \in KeyEvents BY <2>1 DEF Sent
  <2>3. at[1] \in 1 .. Len(KeyBytes(w[1].ev)) BY <2>1 DEF LineOf, ByteOf
  <2>4. KeyBytes(w[1].ev) \in Seq(Int) BY <2>2, BytesType
  <2>5. PendingOf(w, at) = Pre(KeyBytes(w[1].ev), at[1]) BY <1>2 DEF PendingOf
  <2>. QED BY <2>3, <2>4, <2>5, PreFacts
<1>. QED BY <1>1, <1>2

(* A lost byte.                                                            *)
LEMMA LoseInv == KeysInv /\ K!Lose => KeysInv'
<1>. SUFFICES ASSUME KeysInv, K!Lose PROVE KeysInv' OBVIOUS
<1>1. PICK at : Line(at) /\ BufferOK(at) BY DEF KeysInv
<1>2. KeysTypeOK /\ wire # <<>> /\ wire \in Seq(Sent) /\ wire' = Tail(wire)
  BY DEF KeysInv, KeysTypeOK, K!Lose
<1>3. /\ lost' = lost + 1 /\ whole' = 0 /\ damaged' = ~wire[1].final
      /\ UNCHANGED <<scan_buf, shift_pressed, held, events, last>>
  BY <1>1, <1>2, FirstByte DEF K!Lose
<1>4. Held' <=> Held BY <1>3 DEF Held
<1>5. PICK at2 : LineOf(Tail(wire), at2, Held) BY <1>1, <1>2, ShorterLine DEF Line
<1>6. Line(at2)' BY <1>2, <1>4, <1>5 DEF Line, LineOf, EndsWith
<1>7. lost \in Nat /\ lost' \in Nat /\ lost' # 0 /\ Len(scan_buf) \in Nat
  BY <1>2, <1>3 DEF KeysTypeOK
<1>8. Tail(wire) \in Seq(Sent) BY <1>2
<1>9. KeysTypeOK' BY <1>2, <1>3, <1>7, <1>8 DEF KeysTypeOK
<1>10. PrintedOK' BY <1>3, <1>7 DEF PrintedOK
<1>11. Len(Pending(at)) \in Nat /\ Len(Pending(at)) <= 2
  BY <1>1, <1>2, PendingType DEF Line, Pending
<1>12. Len(Pending(at2)') \in Nat
  <2>1. Len(PendingOf(Tail(wire), at2)) \in Nat BY <1>5, <1>8, PendingType
  <2>. QED BY <1>2, <2>1 DEF Pending
<1>13. BufferOK(at2)'
  <2>1. Len(scan_buf) <= 2 * lost + Len(Pending(at)) BY <1>1 DEF BufferOK
  <2>2. Len(scan_buf') <= 2 * lost' + Len(Pending(at2)')
    BY <1>3, <1>7, <1>11, <1>12, <2>1
  <2>. QED BY <1>3, <1>7, <2>2 DEF BufferOK
<1>. QED BY <1>6, <1>9, <1>10, <1>13 DEF KeysInv

(* A byte read.                                                            *)
LEMMA KbHandleInv == KeysInv /\ K!KbHandle => KeysInv'
<1>. SUFFICES ASSUME KeysInv, K!KbHandle PROVE KeysInv' OBVIOUS
<1>1. PICK at : Line(at) /\ BufferOK(at) BY DEF KeysInv
<1>2. KeysTypeOK /\ wire # <<>> /\ wire \in Seq(Sent) /\ wire' = Tail(wire)
  BY DEF KeysInv, KeysTypeOK, K!KbHandle
<1>. DEFINE ev == wire[1].ev
            n == at[1]
            x == wire[1].byte
            r == K!HandleByte(x)
            L == Len(KeyBytes(ev))
<1>3. /\ ev \in KeyEvents /\ x \in Int
      /\ Pending(at) = Pre(KeyBytes(ev), n) /\ (Shifted <=> ev.shift)
      /\ n \in 1 .. L /\ x = KeyBytes(ev)[n] /\ (wire[1].final <=> n = L)
  BY <1>1, <1>2, FirstByte DEF ByteOf
<1>4. /\ scan_buf' = r.buf /\ shift_pressed' = r.shift
      /\ UNCHANGED <<held, events, lost>>
      /\ wire[1].final =>
           /\ damaged' = FALSE
           /\ whole' = IF damaged THEN 0 ELSE whole + 1
           /\ last' = [key |-> ev.key, press |-> ev.press, shift |-> ev.shift, printed |-> r.printed]
      /\ ~wire[1].final => UNCHANGED <<damaged, whole, last>>
  <2>1. Head(wire) = wire[1] BY <1>1, <1>2, FirstByte
  <2>. QED BY <2>1 DEF K!KbHandle
<1>. HIDE DEF r, x, n, ev, L
<1>5. PICK at2 :
        /\ LineOf(Tail(wire), at2, Held)
        /\ wire[1].final => PendingOf(Tail(wire), at2) = <<>> /\ (ShiftedOf(Tail(wire), Held) <=> ShiftAfter(ev))
        /\ ~wire[1].final => /\ PendingOf(Tail(wire), at2) = Pre(KeyBytes(ev), n + 1)
                             /\ ShiftedOf(Tail(wire), Held) <=> ev.shift
  BY <1>1, <1>2, ShorterLine DEF Line, ev, n
<1>6. Held' <=> Held BY <1>4 DEF Held
<1>7. Line(at2)' BY <1>2, <1>5, <1>6 DEF Line, LineOf, EndsWith
<1>8. /\ wire[1].final => Pending(at2)' = <<>> /\ (Shifted' <=> ShiftAfter(ev))
      /\ ~wire[1].final => Pending(at2)' = Pre(KeyBytes(ev), n + 1) /\ (Shifted' <=> ev.shift)
  <2>1. Pending(at2)' = PendingOf(Tail(wire), at2) BY <1>2 DEF Pending
  <2>2. Shifted' <=> ShiftedOf(Tail(wire), Held) BY <1>2, <1>6 DEF Shifted, ShiftedOf
  <2>. QED BY <1>5, <2>1, <2>2
<1>9. /\ lost \in Nat /\ whole \in Nat /\ shift_pressed \in {0, 1} /\ scan_buf \in Seq(Int)
      /\ damaged \in BOOLEAN /\ L \in Nat /\ KeyBytes(ev) \in Seq(Int)
  BY <1>2, <1>3, BytesType DEF KeysTypeOK, L
<1>10. r.shift \in {0, 1} /\ r.buf = IF x \in K!Prefixes THEN Append(scan_buf, x) ELSE <<>>
  BY <1>3, <1>9, HandlesAny DEF r
<1>11. x \in K!Prefixes => ~wire[1].final /\ Pre(KeyBytes(ev), n + 1) = Append(Pending(at), x)
  <2>1. ReadsAs(ev, n) BY <1>3, <1>9, EventReads DEF L
  <2>2. Group(ev, n) = Append(Pre(KeyBytes(ev), n), KeyBytes(ev)[n])
    BY <1>3, GroupAppends DEF L
  <2>3. x \in K!Prefixes => n < L /\ Pre(KeyBytes(ev), n + 1) = Group(ev, n)
    BY <1>3, <2>1 DEF ReadsAs, L
  <2>. QED BY <1>3, <1>9, <2>2, <2>3
<1>12. ASSUME lost = 0 \/ whole >= 1
       PROVE  /\ r.buf = IF n = L THEN <<>> ELSE Pre(KeyBytes(ev), n + 1)
              /\ r.shift = IF n = L /\ ev.key \in K!Shifts
                           THEN IF ev.press THEN 1 ELSE 0 ELSE shift_pressed
              /\ n = L => r.printed = Printed(ev, IF shift_pressed = 1 THEN 65 ELSE 97)
  <2>1. scan_buf = Pre(KeyBytes(ev), n) BY <1>1, <1>3, <1>12 DEF BufferOK
  <2>. QED BY <1>3, <1>9, <2>1, HandlesByte DEF r, L
<1>13. Tail(wire) \in Seq(Sent) /\ <<>> \in Seq(Int) /\ Append(scan_buf, x) \in Seq(Int)
  BY <1>2, <1>3, <1>9
<1>14. KeysTypeOK'
  <2>1. r.buf \in Seq(Int) BY <1>10, <1>13
  <2>2. whole' \in Nat BY <1>4, <1>9
  <2>3. damaged' \in BOOLEAN BY <1>4, <1>9
  <2>. QED BY <1>2, <1>4, <1>10, <1>13, <2>1, <2>2, <2>3 DEF KeysTypeOK
<1>15. (lost' = 0 \/ whole' >= 1) => scan_buf' = Pending(at2)' /\ ~damaged'
  <2>1. CASE wire[1].final
    <3>1. x \notin K!Prefixes BY <1>11, <2>1
    <3>. QED BY <1>4, <1>8, <1>10, <2>1, <3>1
  <2>2. CASE ~wire[1].final
    <3>. SUFFICES ASSUME lost = 0 \/ whole >= 1 PROVE scan_buf' = Pending(at2)' /\ ~damaged'
      BY <1>4, <2>2
    <3>1. r.buf = Pre(KeyBytes(ev), n + 1) BY <1>3, <1>12, <2>2
    <3>2. ~damaged BY <1>1 DEF BufferOK
    <3>. QED BY <1>4, <1>8, <2>2, <3>1, <3>2
  <2>. QED BY <2>1, <2>2
<1>16. Len(scan_buf') <= 2 * lost' + Len(Pending(at2)')
  <2>1. CASE x \in K!Prefixes
    <3>1. scan_buf' = Append(scan_buf, x) /\ Pending(at2)' = Append(Pending(at), x)
      BY <1>4, <1>8, <1>10, <1>11, <2>1
    <3>2. Len(scan_buf) \in Nat /\ Len(scan_buf') = Len(scan_buf) + 1 BY <1>9, <3>1
    <3>3. Pending(at) \in Seq(Int) BY <1>3, <1>9, PreFacts DEF L
    <3>4. Len(Pending(at)) \in Nat /\ Len(Pending(at2)') = Len(Pending(at)) + 1
      BY <3>1, <3>3
    <3>5. Len(scan_buf) <= 2 * lost + Len(Pending(at)) BY <1>1 DEF BufferOK
    <3>. QED BY <1>4, <1>9, <3>2, <3>4, <3>5
  <2>2. CASE x \notin K!Prefixes
    <3>1. Len(scan_buf') = 0 BY <1>4, <1>10, <2>2
    <3>2. Len(PendingOf(Tail(wire), at2)) \in Nat BY <1>5, <1>13, PendingType
    <3>3. Len(Pending(at2)') \in Nat BY <1>2, <3>2 DEF Pending
    <3>. QED BY <1>4, <1>9, <3>1, <3>3
  <2>. QED BY <2>1, <2>2
<1>17. lost' = 0 => (shift_pressed' = 1 <=> Shifted')
  <2>. SUFFICES ASSUME lost = 0 PROVE shift_pressed' = 1 <=> Shifted' BY <1>4
  <2>1. shift_pressed = 1 <=> ev.shift BY <1>1, <1>3 DEF BufferOK
  <2>2. CASE wire[1].final /\ ev.key \in K!Shifts
    <3>1. r.shift = IF ev.press THEN 1 ELSE 0 BY <1>3, <1>12, <2>2
    <3>. QED BY <1>4, <1>8, <2>2, <3>1 DEF ShiftAfter
  <2>3. CASE ~(wire[1].final /\ ev.key \in K!Shifts)
    <3>1. r.shift = shift_pressed BY <1>3, <1>12, <2>3
    <3>. QED BY <1>4, <1>8, <2>1, <2>3, <3>1 DEF ShiftAfter
  <2>. QED BY <2>2, <2>3
<1>18. BufferOK(at2)' BY <1>15, <1>16, <1>17 DEF BufferOK
<1>19. ASSUME lost = 0 \/ whole >= 1, wire[1].final
       PROVE  /\ last'.printed = Printed(last', IF shift_pressed = 1 THEN 65 ELSE 97)
              /\ last'.shift = ev.shift
  <2>1. r.printed = Printed(ev, IF shift_pressed = 1 THEN 65 ELSE 97)
    BY <1>3, <1>12, <1>19
  <2>2. last'.printed = r.printed /\ last'.key = ev.key /\ last'.press = ev.press /\ last'.shift = ev.shift
    BY <1>4, <1>19
  <2>. QED BY <2>1, <2>2 DEF Printed
<1>20. PrintedOK'
  <2>1. CASE wire[1].final
    <3>1. lost' = 0 => last'.printed = Printed(last', IF last'.shift THEN 65 ELSE 97)
      <4>1. lost = 0 => (shift_pressed = 1 <=> ev.shift) BY <1>1, <1>3 DEF BufferOK
      <4>. QED BY <1>4, <1>19, <2>1, <4>1
    <3>2. whole' >= 2 => whole >= 1 BY <1>4, <1>9, <2>1
    <3>3. whole' >= 2 => last'.printed = Printed(last', 97) \/ last'.printed = Printed(last', 65)
      BY <1>19, <2>1, <3>2
    <3>. QED BY <3>1, <3>3 DEF PrintedOK
  <2>2. CASE ~wire[1].final
    <3>1. PrintedOK BY DEF KeysInv
    <3>. QED BY <1>4, <2>2, <3>1 DEF PrintedOK
  <2>. QED BY <2>1, <2>2
<1>. QED BY <1>7, <1>14, <1>18, <1>20 DEF KeysInv

-----------------------------------------------------------------------------
(* The bytes of an event join the line.                                    *)

NewBytes(ev) ==
    [i \in 1 .. Len(KeyBytes(ev)) |->
        [byte |-> KeyBytes(ev)[i], ev |-> ev, final |-> i = Len(KeyBytes(ev))]]

(* Of what they consist.                                                   *)
LEMMA NewBytesFacts ==
    ASSUME NEW ev \in KeyEvents
    PROVE  /\ NewBytes(ev) \in Seq(Sent)
           /\ Len(NewBytes(ev)) = Len(KeyBytes(ev))
           /\ Len(KeyBytes(ev)) \in Nat
           /\ \A i \in 1 .. Len(KeyBytes(ev)) : ByteOf(NewBytes(ev)[i], i) /\ NewBytes(ev)[i].ev = ev
           /\ KeyBytes(ev) = <<>> => NewBytes(ev) = <<>> /\ ev.key \notin K!Shifts
<1>. DEFINE b == KeyBytes(ev)
            New(i) == [byte |-> b[i], ev |-> ev, final |-> i = Len(b)]
<1>1. b \in Seq(Int) /\ Len(b) \in Nat BY BytesType
<1>2. NewBytes(ev) = [i \in 1 .. Len(b) |-> New(i)] BY DEF NewBytes
<1>. HIDE DEF b
<1>3. \A i \in 1 .. Len(b) : New(i) \in Sent BY <1>1 DEF Sent
<1>4. \A i \in 1 .. Len(b) : New(i).byte = b[i] /\ New(i).ev = ev /\ (New(i).final <=> i = Len(b)) OBVIOUS
<1>. HIDE DEF New
<1>5. NewBytes(ev) \in Seq(Sent) /\ Len(NewBytes(ev)) = Len(b) BY <1>1, <1>2, <1>3
<1>6. ASSUME NEW i \in 1 .. Len(b) PROVE ByteOf(NewBytes(ev)[i], i) /\ NewBytes(ev)[i].ev = ev
  <2>1. NewBytes(ev)[i] = New(i) BY <1>2
  <2>. QED BY <1>4, <2>1 DEF ByteOf, b
<1>7. ASSUME b = <<>> PROVE NewBytes(ev) = <<>> /\ ev.key \notin K!Shifts
  <2>1. Len(b) = 0 BY <1>7
  <2>2. NewBytes(ev) = <<>> BY <1>5, <2>1
  <2>3. ASSUME ev.key \in K!Shifts PROVE FALSE
    <3>1. b \in {<<18>>, <<89>>, <<240, 18>>, <<240, 89>>}
      BY <2>3 DEF b, KeyBytes, K!Make, K!Break, K!Shifts
    <3>. QED BY <2>1, <3>1
  <2>. QED BY <2>2, <2>3
<1>. QED BY <1>1, <1>5, <1>6, <1>7 DEF b

(* The line with them: what is read next is what it was.                   *)
LEMMA LongerLine ==
    ASSUME NEW w \in Seq(Sent), NEW at, NEW h, NEW h2, LineOf(w, at, h),
           NEW ev \in KeyEvents, ev.shift <=> h, ShiftAfter(ev) <=> h2
    PROVE  \E at2 :
             /\ LineOf(w \o NewBytes(ev), at2, h2)
             /\ PendingOf(w \o NewBytes(ev), at2) = PendingOf(w, at)
             /\ ShiftedOf(w \o NewBytes(ev), h2) <=> ShiftedOf(w, h)
<1>. DEFINE s == NewBytes(ev)
            L == Len(KeyBytes(ev))
            W == Len(w)
            v == w \o s
<1>1. /\ s \in Seq(Sent) /\ Len(s) = L /\ L \in Nat /\ W \in Nat
      /\ \A i \in 1 .. L : ByteOf(s[i], i) /\ s[i].ev = ev
  BY NewBytesFacts
<1>2. CASE KeyBytes(ev) = <<>>
  <2>1. s = <<>> /\ ev.key \notin K!Shifts BY <1>2, NewBytesFacts
  <2>2. v = w BY <2>1
  <2>3. h2 <=> h BY <2>1 DEF ShiftAfter
  <2>4. LineOf(w, at, h2) /\ (ShiftedOf(w, h2) <=> ShiftedOf(w, h))
    BY <2>3 DEF LineOf, EndsWith, ShiftedOf
  <2>. QED BY <2>2, <2>4
<1>3. CASE KeyBytes(ev) # <<>>
  <2>1. L >= 1 BY <1>3, BytesType
  <2>2. v \in Seq(Sent) /\ Len(v) = W + L BY <1>1
  <2>3. \A i \in 1 .. W : v[i] = w[i] BY <1>1
  <2>4. \A i \in W + 1 .. W + L : v[i] = s[i - W] BY <1>1
  <2>. DEFINE at2 == [i \in 1 .. W + L |-> IF i <= W THEN at[i] ELSE i - W]
  <2>5. \A i \in 1 .. W : at2[i] = at[i] BY <1>1
  <2>6. \A i \in W + 1 .. W + L : at2[i] = i - W BY <1>1
  <2>. HIDE DEF s, L, W, v, at2
  <2>7. ASSUME NEW i \in 1 .. Len(v) PROVE ByteOf(v[i], at2[i])
    <3>1. CASE i <= W
      <4>1. i \in 1 .. W BY <1>1, <2>2, <3>1
      <4>2. ByteOf(w[i], at[i]) BY <4>1 DEF LineOf, W
      <4>. QED BY <2>3, <2>5, <4>1, <4>2
    <3>2. CASE i > W
      <4>1. i \in W + 1 .. W + L /\ i - W \in 1 .. L BY <1>1, <2>2, <3>2
      <4>. QED BY <1>1, <2>4, <2>6, <4>1
    <3>. QED BY <1>1, <2>2, <3>1, <3>2
  <2>8. ASSUME NEW i \in 1 .. Len(v) - 1 PROVE Follows(v[i], at2[i], v[i + 1], at2[i + 1])
    <3>1. CASE i < W
      <4>1. i \in 1 .. W /\ i + 1 \in 1 .. W /\ i \in 1 .. W - 1 BY <1>1, <2>2, <3>1
      <4>2. Follows(w[i], at[i], w[i + 1], at[i + 1]) BY <4>1 DEF LineOf, W
      <4>. QED BY <2>3, <2>5, <4>1, <4>2
    <3>2. CASE i = W
      <4>1. i \in 1 .. W /\ W # 0 /\ i + 1 \in W + 1 .. W + L /\ i + 1 - W = 1 /\ 1 \in 1 .. L
        BY <1>1, <2>1, <2>2, <3>2
      <4>2. w # <<>> BY <4>1 DEF W
      <4>3. EndsWith(w[W], h) BY <4>2 DEF LineOf, W
      <4>4. v[i] = w[W] /\ v[i + 1] = s[1] /\ at2[i + 1] = 1 /\ s[1].ev = ev
        BY <1>1, <2>3, <2>4, <2>6, <3>2, <4>1
      <4>. QED BY <4>3, <4>4 DEF Follows, EndsWith
    <3>3. CASE i > W
      <4>. DEFINE j == i - W
      <4>1. /\ i \in W + 1 .. W + L /\ i + 1 \in W + 1 .. W + L
            /\ j \in 1 .. L /\ j + 1 \in 1 .. L /\ i - W = j /\ i + 1 - W = j + 1 /\ j # L
        BY <1>1, <2>2, <3>3
      <4>. HIDE DEF j
      <4>2. v[i] = s[j] /\ v[i + 1] = s[j + 1] /\ at2[i] = j /\ at2[i + 1] = j + 1
        <5>. DEFINE m == i + 1
        <5>1. m \in W + 1 .. W + L /\ m - W = j + 1 BY <1>1, <4>1
        <5>. HIDE DEF m
        <5>2. v[m] = s[j + 1] /\ at2[m] = j + 1 BY <2>4, <2>6, <5>1
        <5>3. v[i] = s[j] /\ at2[i] = j BY <2>4, <2>6, <4>1
        <5>. QED BY <5>2, <5>3 DEF m
      <4>3. s[j].ev = ev /\ s[j + 1].ev = ev /\ ~s[j].final BY <1>1, <4>1 DEF ByteOf, L
      <4>. QED BY <4>2, <4>3 DEF Follows
    <3>. QED BY <1>1, <2>2, <3>1, <3>2, <3>3
  <2>9. EndsWith(v[Len(v)], h2)
    <3>1. W + L \in W + 1 .. W + L /\ W + L - W = L /\ L \in 1 .. L BY <1>1, <2>1
    <3>2. v[Len(v)] = s[L]
      <4>. DEFINE m == W + L
      <4>1. m \in W + 1 .. W + L /\ m - W = L /\ Len(v) = m BY <1>1, <2>1, <2>2, <3>1
      <4>. HIDE DEF m
      <4>. QED BY <2>4, <4>1
    <3>3. s[L].ev = ev /\ s[L].final BY <1>1, <3>1 DEF ByteOf, L
    <3>. QED BY <3>2, <3>3 DEF EndsWith
  <2>10. LineOf(v, at2, h2) BY <2>7, <2>8, <2>9 DEF LineOf
  <2>11. v # <<>> BY <1>1, <2>1, <2>2
  <2>12. CASE w = <<>>
    <3>1. W = 0 BY <2>12 DEF W
    <3>2. 1 \in W + 1 .. W + L /\ 1 - W = 1 /\ 1 \in 1 .. L BY <1>1, <2>1, <3>1
    <3>3. v[1] = s[1] /\ at2[1] = 1 /\ s[1].ev = ev BY <1>1, <2>4, <2>6, <3>2
    <3>4. Pre(KeyBytes(ev), 1) = <<>> BY DEF Pre
    <3>5. PendingOf(v, at2) = PendingOf(w, at) BY <2>11, <2>12, <3>3, <3>4 DEF PendingOf
    <3>6. ShiftedOf(v, h2) <=> ShiftedOf(w, h) BY <2>11, <2>12, <3>3 DEF ShiftedOf
    <3>. QED BY <2>10, <3>5, <3>6 DEF v, s
  <2>13. CASE w # <<>>
    <3>1. 1 \in 1 .. W BY <1>1, <2>13 DEF W
    <3>2. v[1] = w[1] /\ at2[1] = at[1] BY <2>3, <2>5, <3>1
    <3>3. PendingOf(v, at2) = PendingOf(w, at) BY <2>11, <2>13, <3>2 DEF PendingOf
    <3>4. ShiftedOf(v, h2) <=> ShiftedOf(w, h) BY <2>11, <2>13, <3>2 DEF ShiftedOf
    <3>. QED BY <2>10, <3>3, <3>4 DEF v, s
  <2>. QED BY <2>12, <2>13
<1>. QED BY <1>2, <1>3

(* A key goes down or up.                                                  *)
LEMMA EventInv ==
    ASSUME KeysInv, NEW k \in K!Keys, NEW press \in BOOLEAN, K!Event(k, press)
    PROVE  KeysInv'
<1>1. PICK at : Line(at) /\ BufferOK(at) BY DEF KeysInv
<1>2. KeysTypeOK /\ PrintedOK /\ wire \in Seq(Sent) /\ held \in SUBSET K!Keys
  BY DEF KeysInv, KeysTypeOK
<1>. DEFINE ev == [key |-> k, press |-> press, shift |-> held \cap K!Shifts # {}]
<1>3. ev \in KeyEvents BY DEF KeyEvents
<1>4. ev.key = k /\ ev.press = press /\ (ev.shift <=> Held) BY DEF Held
<1>5. wire' = wire \o NewBytes(ev) BY DEF K!Event, NewBytes, KeyBytes
<1>. HIDE DEF ev
<1>6. /\ held' = IF press THEN held \cup {k} ELSE held \ {k}
      /\ press # (k \in held)
      /\ k \in K!Shifts => held \cap K!Shifts \subseteq {k}
      /\ UNCHANGED <<scan_buf, shift_pressed, lost, damaged, whole, last>>
  BY DEF K!Event
<1>7. ShiftAfter(ev) <=> Held'
  <2>1. CASE k \in K!Shifts /\ press BY <1>4, <1>6, <2>1 DEF ShiftAfter, Held
  <2>2. CASE k \in K!Shifts /\ ~press BY <1>4, <1>6, <2>2 DEF ShiftAfter, Held
  <2>3. CASE k \notin K!Shifts BY <1>4, <1>6, <2>3 DEF ShiftAfter, Held
  <2>. QED BY <2>1, <2>2, <2>3
<1>8. PICK at2 :
        /\ LineOf(wire', at2, Held')
        /\ PendingOf(wire', at2) = PendingOf(wire, at)
        /\ ShiftedOf(wire', Held') <=> ShiftedOf(wire, Held)
  <2>1. LineOf(wire, at, Held) BY <1>1 DEF Line
  <2>. DEFINE h == Held
              h2 == Held'
  <2>2. LineOf(wire, at, h) /\ (ev.shift <=> h) /\ (ShiftAfter(ev) <=> h2)
    BY <1>4, <1>7, <2>1
  <2>. HIDE DEF h, h2
  <2>3. \E at2 :
          /\ LineOf(wire \o NewBytes(ev), at2, h2)
          /\ PendingOf(wire \o NewBytes(ev), at2) = PendingOf(wire, at)
          /\ ShiftedOf(wire \o NewBytes(ev), h2) <=> ShiftedOf(wire, h)
    BY <1>2, <1>3, <2>2, LongerLine
  <2>. QED BY <1>5, <2>3 DEF h, h2
<1>9. Line(at2)' /\ Pending(at2)' = Pending(at) /\ (Shifted' <=> Shifted)
  BY <1>8 DEF Line, Pending, Shifted
<1>10. BufferOK(at2)' BY <1>1, <1>6, <1>9 DEF BufferOK
<1>11. wire' \in Seq(Sent) /\ held' \in SUBSET K!Keys
  <2>1. NewBytes(ev) \in Seq(Sent) BY <1>3, NewBytesFacts
  <2>2. wire' \in Seq(Sent) BY <1>2, <1>5, <2>1
  <2>. QED BY <1>2, <1>6, <2>2
<1>12. KeysTypeOK' /\ PrintedOK' BY <1>2, <1>6, <1>11 DEF KeysTypeOK, PrintedOK
<1>. QED BY <1>9, <1>10, <1>12 DEF KeysInv

-----------------------------------------------------------------------------
(* All steps keep the invariant.                                           *)
LEMMA KeysStep == KeysInv /\ [K!Next]_kvars => KeysInv'
<1>. SUFFICES ASSUME KeysInv, [K!Next]_kvars PROVE KeysInv' OBVIOUS
<1>1. CASE UNCHANGED kvars
  BY <1>1 DEF kvars, KeysInv, KeysTypeOK, PrintedOK, Line, BufferOK, Pending, Shifted, Held
<1>2. CASE \E k \in K!Keys, press \in BOOLEAN : K!Event(k, press) BY <1>2, EventInv
<1>3. CASE K!Lose BY <1>3, LoseInv
<1>4. CASE K!KbHandle BY <1>4, KbHandleInv
<1>. QED BY <1>1, <1>2, <1>3, <1>4 DEF K!Next

(* The invariant says what KeysDecoded says.                               *)
LEMMA KeysInvDecodes == KeysInv => KeysDecoded
<1>. SUFFICES ASSUME KeysInv PROVE K!KeysDecoded BY DEF KeysDecoded
<1>1. PICK at : Line(at) /\ BufferOK(at) BY DEF KeysInv
<1>2. KeysTypeOK /\ PrintedOK BY DEF KeysInv
<1>3. (lost = 0 /\ last.key # "none") =>
        last.printed = IF last.key = "a" /\ last.press
                       THEN {IF last.shift THEN 65 ELSE 97} ELSE {}
  BY <1>2 DEF PrintedOK, Printed
<1>4. (lost = 0 /\ wire = <<>>) => (shift_pressed = 1 <=> held \cap K!Shifts # {})
  BY <1>1 DEF BufferOK, Shifted, ShiftedOf, Held
<1>5. whole >= 2 => last.printed \in
        (IF last.key = "a" /\ last.press THEN {{97}, {65}} ELSE {{}})
  BY <1>2 DEF PrintedOK, Printed
<1>6. Len(scan_buf) <= 2 * (lost + 1)
  <2>1. lost \in Nat /\ scan_buf \in Seq(Int) /\ wire \in Seq(Sent)
    BY <1>2 DEF KeysTypeOK
  <2>2. Len(scan_buf) \in Nat BY <2>1
  <2>3. Len(Pending(at)) \in Nat /\ Len(Pending(at)) <= 2
    BY <1>1, <2>1, PendingType DEF Line, Pending
  <2>4. Len(scan_buf) <= 2 * lost + Len(Pending(at)) BY <1>1 DEF BufferOK
  <2>. QED BY <2>1, <2>2, <2>3, <2>4
<1>. QED BY <1>3, <1>4, <1>5, <1>6 DEF K!KeysDecoded

(* Whatever keys are pressed and released, and whichever bytes are lost,   *)
(* kb_handle_interrupt prints the right characters, shifted as they should *)
(* be while no byte is lost, prints characters again from the second whole *)
(* key after a loss, and its buffer is bounded by the losses.              *)
THEOREM KeysAlwaysDecoded == InputSpec => []KeysDecoded
<1>1. InputInit => KeysInv BY KeysInit DEF InputInit
<1>2. KeysInv /\ [InputNext]_inputvars => KeysInv'
  <2>1. [InputNext]_inputvars => [K!Next]_kvars BY DEF InputNext, inputvars, SetUpDone
  <2>. QED BY <2>1, KeysStep
<1>. QED BY <1>1, <1>2, KeysInvDecodes, PTL DEF InputSpec

-----------------------------------------------------------------------------
(* The set-up of controller and devices (HandshakeInv).                    *)

(* The accesses as sequences: what comes first and what is left.           *)

LEMMA First ==
    ASSUME NEW a \in Access, NEW r \in Seq(Access)
    PROVE  /\ <<a>> \o r # <<>>
           /\ Head(<<a>> \o r) = a
           /\ Tail(<<a>> \o r) = r
           /\ <<a>> \o r \in Seq(Access)
<1>1. <<a>> \in Seq(Access) /\ Len(<<a>>) = 1 /\ <<a>>[1] = a OBVIOUS
<1> DEFINE s == <<a>> \o r
<1>2. /\ s \in Seq(Access) /\ Len(s) = 1 + Len(r)
      /\ \A i \in 1 .. 1 + Len(r) : s[i] = IF i <= 1 THEN <<a>>[i] ELSE r[i - 1]
  BY <1>1, ConcatProperties, Zenon
<1>3. Len(r) \in Nat BY LenProperties
<1> HIDE DEF s
<1>4. s # <<>> BY <1>2, <1>3, EmptySeq
<1>5. Head(s) = a BY <1>1, <1>2, <1>3, <1>4
<1>6. /\ Tail(s) \in Seq(Access)
      /\ Len(Tail(s)) = Len(s) - 1
      /\ \A i \in 1 .. Len(Tail(s)) : Tail(s)[i] = s[i + 1]
  BY <1>2, <1>4, HeadTailProperties, Zenon
<1>7. Len(Tail(s)) = Len(r) BY <1>2, <1>3, <1>6
<1>8. \A i \in 1 .. Len(Tail(s)) : Tail(s)[i] = r[i] BY <1>2, <1>3, <1>6, <1>7
<1>9. Tail(s) = r BY <1>6, <1>7, <1>8, SeqEqual, Zenon
<1> QED BY <1>2, <1>4, <1>5, <1>9 DEF s

(* The accesses one by one, before r.                                      *)
Acc(op, arg, skip) == [op |-> op, arg |-> arg, skip |-> skip]

LEMMA AccessType ==
    /\ \A c \in Int, n \in Nat : Acc("cmd", c, n) \in Access
    /\ \A b \in Int : Acc("data", b, 0) \in Access
    /\ Acc("inb", 0, 0) \in Access
    /\ \A t \in Tags : Acc("recv", t, 0) \in Access
<1>1. \A c \in Int, n \in Nat : Acc("cmd", c, n) \in Access BY DEF Acc, Access
<1>2. \A b \in Int : Acc("data", b, 0) \in Access BY DEF Acc, Access
<1>3. Acc("inb", 0, 0) \in Access BY DEF Acc, Access
<1>4. \A t \in Tags : Acc("recv", t, 0) \in Access BY DEF Acc, Access
<1> QED BY <1>1, <1>2, <1>3, <1>4, Zenon

Starts(t, op, arg, r) ==
    /\ t # <<>> /\ t \in Seq(Access)
    /\ Head(t).op = op /\ Head(t).arg = arg
    /\ Tail(t) = r

LEMMA CmdStarts ==
    ASSUME NEW c \in Int, NEW n \in Nat, NEW r \in Seq(Access)
    PROVE  Starts(Then(P!CmdOrSkip(c, n), r), "cmd", c, r)
<1> DEFINE a == Acc("cmd", c, n)
<1>1. a \in Access /\ a.op = "cmd" /\ a.arg = c BY AccessType DEF Acc
<1>2. P!CmdOrSkip(c, n) = <<a>> BY DEF P!CmdOrSkip, Acc
<1> HIDE DEF a
<1> QED BY <1>1, <1>2, First DEF Starts, Then

LEMMA DataStarts ==
    ASSUME NEW b \in Int, NEW r \in Seq(Access)
    PROVE  Starts(Then(P!Data(b), r), "data", b, r)
<1> DEFINE a == Acc("data", b, 0)
<1>1. a \in Access /\ a.op = "data" /\ a.arg = b BY AccessType DEF Acc
<1>2. P!Data(b) = <<a>> BY DEF P!Data, Acc
<1> HIDE DEF a
<1> QED BY <1>1, <1>2, First DEF Starts, Then

LEMMA InbStarts ==
    ASSUME NEW r \in Seq(Access)
    PROVE  Starts(Then(P!Inb, r), "inb", 0, r)
<1> DEFINE a == Acc("inb", 0, 0)
<1>1. a \in Access /\ a.op = "inb" /\ a.arg = 0 BY AccessType DEF Acc
<1>2. P!Inb = <<a>> BY DEF P!Inb, Acc
<1> HIDE DEF a
<1> QED BY <1>1, <1>2, First DEF Starts, Then

LEMMA RecvStarts ==
    ASSUME NEW t \in Tags, NEW r \in Seq(Access)
    PROVE  Starts(Then(P!Recv(t), r), "recv", t, r)
<1> DEFINE a == Acc("recv", t, 0)
<1>1. a \in Access /\ a.op = "recv" /\ a.arg = t BY AccessType DEF Acc
<1>2. P!Recv(t) = <<a>> BY DEF P!Recv, Acc
<1> HIDE DEF a
<1> QED BY <1>1, <1>2, First DEF Starts, Then

LEMMA OpTypes ==
    /\ \A c \in Int : P!Cmd(c) = P!CmdOrSkip(c, 0)
    /\ \A c \in Int, n \in Nat : P!CmdOrSkip(c, n) \in Seq(Access)
    /\ \A b \in Int : P!Data(b) \in Seq(Access)
    /\ P!Inb \in Seq(Access)
    /\ \A t \in Tags : P!Recv(t) \in Seq(Access)
<1>1. \A a \in Access : <<a>> \in Seq(Access) OBVIOUS
<1>2. \A c \in Int : P!Cmd(c) = P!CmdOrSkip(c, 0) BY DEF P!Cmd, P!CmdOrSkip
<1>3. \A c \in Int, n \in Nat : P!CmdOrSkip(c, n) \in Seq(Access)
  BY <1>1, AccessType, Zenon DEF Acc, P!CmdOrSkip
<1>4. \A b \in Int : P!Data(b) \in Seq(Access)
  BY <1>1, AccessType, Zenon DEF Acc, P!Data
<1>5. P!Inb \in Seq(Access) BY <1>1, AccessType, Zenon DEF Acc, P!Inb
<1>6. \A t \in Tags : P!Recv(t) \in Seq(Access)
  BY <1>1, AccessType, Zenon DEF Acc, P!Recv
<1> QED BY <1>2, <1>3, <1>4, <1>5, <1>6, Zenon

(* The programs are these sequences.                                       *)
LEMMA Flat ==
    ASSUME NEW p \in Seq(Access), NEW q \in Seq(Access), NEW r \in Seq(Access)
    PROVE  /\ Then(p, q) \in Seq(Access)
           /\ Then(Then(p, q), r) = Then(p, Then(q, r))
           /\ Then(p, <<>>) = p
           /\ Then(<<>>, p) = p
<1>1. p \o q \in Seq(Access) OBVIOUS
<1>2. (p \o q) \o r = p \o (q \o r) OBVIOUS
<1>3. p \o <<>> = p OBVIOUS
<1>4. <<>> \o p = p OBVIOUS
<1> QED BY <1>1, <1>2, <1>3, <1>4, Zenon DEF Then

LEMMA Flat4 ==
    ASSUME NEW p \in Seq(Access), NEW q \in Seq(Access), NEW r \in Seq(Access),
           NEW s \in Seq(Access)
    PROVE  /\ Then(Then(Then(p, q), r), s) = Then(p, Then(q, Then(r, s)))
           /\ Then(Then(p, q), r) \in Seq(Access)
<1>1. Then(p, q) \in Seq(Access) /\ Then(r, s) \in Seq(Access) BY Flat, Zenon
<1> QED BY <1>1, Flat, SMT

LEMMA Flat6 ==
    ASSUME NEW p \in Seq(Access), NEW q \in Seq(Access), NEW r \in Seq(Access),
           NEW s \in Seq(Access), NEW t \in Seq(Access), NEW u \in Seq(Access)
    PROVE  Then(Then(Then(Then(Then(p, q), r), s), t), u)
             = Then(p, Then(q, Then(r, Then(s, Then(t, u)))))
<1>1. Then(Then(p, q), r) \in Seq(Access) BY Flat4, SMT
<1>2. Then(Then(Then(Then(Then(p, q), r), s), t), u)
        = Then(Then(Then(p, q), r), Then(s, Then(t, u)))
  BY <1>1, Flat4, SMT
<1>3. Then(s, Then(t, u)) \in Seq(Access) BY Flat, Zenon
<1>4. Then(Then(Then(p, q), r), Then(s, Then(t, u)))
        = Then(p, Then(q, Then(r, Then(s, Then(t, u)))))
  BY <1>3, Flat4, SMT
<1> QED BY <1>2, <1>4, Zenon

LEMMA Send2Type ==
    ASSUME NEW b \in Int, NEW r \in Seq(Access)
    PROVE  /\ P!SendPort2(b) \in Seq(Access)
           /\ Send2(b, r) \in Seq(Access)
           /\ Then(P!SendPort2(b), r) = Send2(b, r)
           /\ Then(P!Data(b), r) \in Seq(Access)
           /\ Then(P!Inb, Then(P!Data(b), r)) \in Seq(Access)
<1> DEFINE x == P!CmdOrSkip(212, 2)
           y == P!Inb
           z == P!Data(b)
<1>1. 212 \in Int /\ 2 \in Nat OBVIOUS
<1>2. x \in Seq(Access) /\ y \in Seq(Access) /\ z \in Seq(Access)
  BY <1>1, OpTypes, Zenon
<1>3. P!SendPort2(b) = Then(Then(x, y), z) /\ Send2(b, r) = Then(x, Then(y, Then(z, r)))
  BY Zenon DEF P!SendPort2, Send2, Then
<1> HIDE DEF x, y, z
<1>4. Then(z, r) \in Seq(Access) BY <1>2, Flat, Zenon
<1>5. Then(y, Then(z, r)) \in Seq(Access) BY <1>2, <1>4, Flat, Zenon
<1>6. Then(x, Then(y, Then(z, r))) \in Seq(Access) BY <1>2, <1>5, Flat, Zenon
<1>7. Then(Then(x, y), z) \in Seq(Access) BY <1>2, Flat, Zenon
<1>8. Then(Then(Then(x, y), z), r) = Then(x, Then(y, Then(z, r))) BY <1>2, Flat4, SMT
<1> QED BY <1>3, <1>4, <1>5, <1>6, <1>7, <1>8, Zenon DEF y, z

LEMMA GetType ==
    ASSUME NEW t \in Tags, NEW r \in Seq(Access)
    PROVE  /\ Get(t, r) \in Seq(Access)
           /\ P!Recv(t) \in Seq(Access)
           /\ P!Recv(t) = Get(t, <<>>)
           /\ Starts(Get(t, r), "recv", t, r)
<1>1. P!Recv(t) \in Seq(Access) BY OpTypes, Zenon
<1> QED BY <1>1, Flat, RecvStarts, Zenon DEF Get

LEMMA MagicTypes ==
    ASSUME NEW a \in Int, NEW b \in Int, NEW c \in Int, NEW tag \in Tags
    PROVE  /\ M11(tag) \in Seq(Access) /\ Get(tag, <<>>) \in Seq(Access)
           /\ Send2(242, M11(tag)) \in Seq(Access)
           /\ M9(c, tag) \in Seq(Access) /\ Get("unused", M9(c, tag)) \in Seq(Access)
           /\ M7(c, tag) \in Seq(Access) /\ M6(b, c, tag) \in Seq(Access)
           /\ Get("unused", M6(b, c, tag)) \in Seq(Access)
           /\ M4(b, c, tag) \in Seq(Access) /\ M3(a, b, c, tag) \in Seq(Access)
           /\ Get("unused", M3(a, b, c, tag)) \in Seq(Access)
           /\ M1(a, b, c, tag) \in Seq(Access)
<1>0. "unused" \in Tags BY DEF Tags
<1>01. 242 \in Int /\ 243 \in Int OBVIOUS
<1>00. <<>> \in Seq(Access) OBVIOUS
<1>1. M11(tag) \in Seq(Access) /\ Get(tag, <<>>) \in Seq(Access)
  BY <1>0, <1>00, <1>01, GetType, Zenon DEF M11
<1>2. Send2(242, M11(tag)) \in Seq(Access) BY <1>0, <1>00, <1>01, <1>1, Send2Type, Zenon
<1>3. M9(c, tag) \in Seq(Access) BY <1>2, Send2Type, SMT DEF M9
<1>4. Get("unused", M9(c, tag)) \in Seq(Access)
  BY <1>0, <1>00, <1>01, <1>3, GetType, Zenon
<1>5. M7(c, tag) \in Seq(Access) BY <1>0, <1>00, <1>01, <1>4, Send2Type, Zenon DEF M7
<1>6. M6(b, c, tag) \in Seq(Access) BY <1>5, Send2Type, Zenon DEF M6
<1>7. Get("unused", M6(b, c, tag)) \in Seq(Access)
  BY <1>0, <1>00, <1>01, <1>6, GetType, Zenon
<1>8. M4(b, c, tag) \in Seq(Access)
  BY <1>0, <1>00, <1>01, <1>7, Send2Type, ZenonT(40) DEF M4
<1>9. M3(a, b, c, tag) \in Seq(Access) BY <1>8, Send2Type, Zenon DEF M3
<1>10. Get("unused", M3(a, b, c, tag)) \in Seq(Access)
  BY <1>0, <1>00, <1>01, <1>9, GetType, Zenon
<1>11. M1(a, b, c, tag) \in Seq(Access)
  BY <1>0, <1>00, <1>01, <1>10, Send2Type, Zenon DEF M1
<1> QED BY <1>1, <1>2, <1>3, <1>4, <1>5, <1>6, <1>7, <1>8, <1>9, <1>10, <1>11, Zenon

LEMMA SetRateIs ==
    ASSUME NEW x \in Int, NEW r \in Seq(Access)
    PROVE  /\ P!mouse_set_rate(x) \in Seq(Access)
           /\ Then(P!mouse_set_rate(x), r) = Send2(243, Get("unused", Send2(x, r)))
<1> DEFINE p == P!SendPort2(243)
           q == P!Recv("unused")
           s == P!SendPort2(x)
<1>0. "unused" \in Tags /\ 243 \in Int BY DEF Tags
<1>1. p \in Seq(Access) /\ q \in Seq(Access) /\ s \in Seq(Access) /\ Then(s, r) = Send2(x, r)
  BY <1>0, Send2Type, GetType, Zenon
<1>2. Then(s, r) \in Seq(Access) /\ Then(q, Then(s, r)) \in Seq(Access)
  BY <1>1, Flat, Zenon
<1>3. Then(p, Then(q, Then(s, r))) = Send2(243, Then(q, Then(s, r)))
  BY <1>0, <1>2, Send2Type, SMT
<1>4. Then(q, Then(s, r)) = Get("unused", Send2(x, r)) BY <1>1, Zenon DEF Get
<1>5. P!mouse_set_rate(x) = Then(Then(p, q), s) BY Zenon DEF P!mouse_set_rate, Then
<1> HIDE DEF p, q, s
<1>6. /\ Then(Then(p, q), s) \in Seq(Access)
      /\ Then(Then(Then(p, q), s), r) = Then(p, Then(q, Then(s, r)))
  BY <1>1, Flat4, SMT
<1> QED BY <1>3, <1>4, <1>5, <1>6, Zenon

LEMMA MagicIs ==
    ASSUME NEW a \in Int, NEW b \in Int, NEW c \in Int, NEW tag \in Tags
    PROVE  /\ P!Magic(a, b, c, tag) = M1(a, b, c, tag)
           /\ M1(a, b, c, tag) \in Seq(Access)
<1> DEFINE p == P!mouse_set_rate(a)
           q == P!mouse_set_rate(b)
           r == P!mouse_set_rate(c)
           s == P!SendPort2(242)
           t == P!Recv("unused")
           u == P!Recv(tag)
<1>0. "unused" \in Tags BY DEF Tags
<1>01. 242 \in Int OBVIOUS
<1>00. <<>> \in Seq(Access) OBVIOUS
<1>1. /\ p \in Seq(Access) /\ q \in Seq(Access) /\ r \in Seq(Access)
      /\ s \in Seq(Access) /\ t \in Seq(Access) /\ u \in Seq(Access)
  BY <1>0, <1>00, <1>01, SetRateIs, Send2Type, GetType, ZenonT(40)
<1>2. P!Magic(a, b, c, tag) = Then(Then(Then(Then(Then(p, q), r), s), t), u)
  BY Zenon DEF P!Magic, Then
<1>10. /\ M11(tag) \in Seq(Access) /\ M7(c, tag) \in Seq(Access) /\ M4(b, c, tag) \in Seq(Access)
       /\ M1(a, b, c, tag) \in Seq(Access)
  BY MagicTypes, SMT
<1>11. Send2(242, M11(tag)) \in Seq(Access) BY <1>01, <1>10, Send2Type, SMT
<1>3. Then(t, u) = M11(tag) BY <1>0, <1>00, <1>01, GetType, Zenon DEF M11, Get
<1>4. Then(s, M11(tag)) = Send2(242, M11(tag)) BY <1>01, <1>10, Send2Type, SMT
<1>5. Then(r, Send2(242, M11(tag))) = M7(c, tag) BY <1>11, SetRateIs, SMT DEF M7, M9
<1>6. Then(q, M7(c, tag)) = M4(b, c, tag) BY <1>10, SetRateIs, SMT DEF M4, M6
<1>7. Then(p, M4(b, c, tag)) = M1(a, b, c, tag) BY <1>10, SetRateIs, SMT DEF M1, M3
<1>8. M1(a, b, c, tag) \in Seq(Access) BY MagicTypes, Zenon
<1> HIDE DEF p, q, r, s, t, u
<1>9. Then(Then(Then(Then(Then(p, q), r), s), t), u)
        = Then(p, Then(q, Then(r, Then(s, Then(t, u)))))
  BY <1>1, Flat6, SMT
<1> QED BY <1>2, <1>3, <1>4, <1>5, <1>6, <1>7, <1>8, <1>9, SMT

LEMMA CmdType ==
    ASSUME NEW c \in Int, NEW r \in Seq(Access)
    PROVE  /\ P!Cmd(c) \in Seq(Access) /\ P!Data(c) \in Seq(Access)
           /\ Then(P!Cmd(c), r) \in Seq(Access) /\ Then(P!Data(c), r) \in Seq(Access)
           /\ Then(P!Inb, r) \in Seq(Access)
           /\ Starts(Then(P!Cmd(c), r), "cmd", c, r)
<1>1. 0 \in Nat OBVIOUS
<1>2. P!Cmd(c) = P!CmdOrSkip(c, 0) BY OpTypes, Zenon
<1>3. Starts(Then(P!CmdOrSkip(c, 0), r), "cmd", c, r) BY <1>1, CmdStarts, Zenon
<1>4. P!CmdOrSkip(c, 0) \in Seq(Access) /\ P!Data(c) \in Seq(Access) /\ P!Inb \in Seq(Access)
  BY <1>1, OpTypes, Zenon
<1> QED BY <1>2, <1>3, <1>4, Flat, Zenon

LEMMA EarlyTypes ==
    /\ <<>> \in Seq(Access)
    /\ E6 \in Seq(Access) /\ E5 \in Seq(Access) /\ E4 \in Seq(Access)
    /\ E3 \in Seq(Access) /\ E2 \in Seq(Access)
    /\ E10 \in Seq(Access) /\ E9 \in Seq(Access)
    /\ \A c \in Int : E8(c) \in Seq(Access)
    /\ E12 \in Seq(Access) /\ E14 \in Seq(Access)
<1>0. <<>> \in Seq(Access) OBVIOUS
<1>1. /\ "config" \in Tags /\ "self_test" \in Tags /\ "p1_test" \in Tags /\ "p2_test" \in Tags
  BY DEF Tags
<1>2. 32 \in Int /\ 173 \in Int /\ 170 \in Int OBVIOUS
<1>3. /\ E6 \in Seq(Access) /\ E10 \in Seq(Access) /\ E12 \in Seq(Access) /\ E14 \in Seq(Access)
  BY <1>0, <1>1, GetType, Zenon DEF E6, E10, E12, E14
<1>4. E5 \in Seq(Access) BY <1>2, <1>3, CmdType, Zenon DEF E5
<1>5. E4 \in Seq(Access) BY <1>2, <1>4, CmdType, Zenon DEF E4
<1>6. E3 \in Seq(Access) BY <1>2, <1>5, CmdType, Zenon DEF E3
<1>7. E2 \in Seq(Access)
  <2>1. 167 \in Int /\ 1 \in Nat OBVIOUS
  <2> QED BY <2>1, <1>6, CmdStarts, SMT DEF E2, Starts
<1>8. E9 \in Seq(Access) BY <1>2, <1>3, CmdType, Zenon DEF E9
<1>9. \A c \in Int : E8(c) \in Seq(Access) BY <1>8, CmdType, Zenon DEF E8
<1> QED BY <1>0, <1>3, <1>4, <1>5, <1>6, <1>7, <1>8, <1>9, Zenon

LEMMA InitializeIs == P!Initialize = E1
<1> DEFINE p == P!Cmd(173)
           q == P!CmdOrSkip(167, 1)
           t == P!Inb
           u == P!Cmd(32)
           v == P!Recv("config")
<1>1. 173 \in Int /\ 167 \in Int /\ 1 \in Nat /\ 32 \in Int OBVIOUS
<1>2. "config" \in Tags BY DEF Tags
<1>3. /\ p \in Seq(Access) /\ q \in Seq(Access) /\ t \in Seq(Access)
      /\ u \in Seq(Access) /\ v \in Seq(Access)
  BY <1>1, <1>2, OpTypes, CmdType, EarlyTypes, Zenon
<1>4. P!Initialize = Then(Then(Then(Then(Then(p, q), p), t), u), v)
  BY Zenon DEF P!Initialize, P!DisablePorts, Then
<1>5. v = E6 BY <1>2, GetType, EarlyTypes, Zenon DEF E6
<1>6. E1 = Then(p, Then(q, Then(p, Then(t, Then(u, E6)))))
  BY Zenon DEF E1, E2, E3, E4, E5
<1> HIDE DEF p, q, t, u, v
<1>7. Then(Then(Then(Then(Then(p, q), p), t), u), v)
        = Then(p, Then(q, Then(p, Then(t, Then(u, v)))))
  BY <1>3, Flat6, SMT
<1> QED BY <1>4, <1>5, <1>6, <1>7, Zenon

LEMMA SelfTestIs ==
    ASSUME NEW c \in Int
    PROVE  P!Cmd(96) \o P!Data(c) \o P!Cmd(170) \o P!Recv("self_test") = E7(c)
<1> DEFINE p == P!Cmd(96)
           q == P!Data(c)
           r == P!Cmd(170)
           s == P!Recv("self_test")
<1>1. 96 \in Int /\ 170 \in Int OBVIOUS
<1>2. "self_test" \in Tags BY DEF Tags
<1>3. p \in Seq(Access) /\ q \in Seq(Access) /\ r \in Seq(Access) /\ s \in Seq(Access)
  BY <1>1, <1>2, CmdType, OpTypes, EarlyTypes, Zenon
<1>4. ((p \o q) \o r) \o s = Then(Then(Then(p, q), r), s) BY Zenon DEF Then
<1>5. s = E10 BY <1>2, GetType, EarlyTypes, Zenon DEF E10
<1>6. E7(c) = Then(p, Then(q, Then(r, E10))) BY Zenon DEF E7, E8, E9
<1> HIDE DEF p, q, r, s
<1>7. Then(Then(Then(p, q), r), s) = Then(p, Then(q, Then(r, s))) BY <1>3, Flat4, SMT
<1>8. ((p \o q) \o r) \o s = E7(c) BY <1>4, <1>5, <1>6, <1>7, Zenon
<1> QED BY <1>8, Zenon DEF p, q, r, s

(* A test of one of the ports.                                             *)
LEMMA TestIs ==
    ASSUME NEW c \in Int, NEW t \in Tags
    PROVE  P!Cmd(c) \o P!Recv(t) = Then(P!Cmd(c), Get(t, <<>>))
  BY GetType, EarlyTypes, Zenon DEF Then

LEMMA KeyboardTypes ==
    /\ Get("p1_reset", <<>>) \in Seq(Access)
    /\ Then(P!Data(255), Get("p1_reset", <<>>)) \in Seq(Access)
    /\ Get("p1_type", <<>>) \in Seq(Access)
    /\ Get("ack", Get("p1_type", <<>>)) \in Seq(Access)
    /\ Get("p2_type", <<>>) \in Seq(Access)
    /\ MsIdentify \in Seq(Access)
    /\ Get("p2_reset", <<>>) \in Seq(Access)
    /\ MsReset \in Seq(Access)
    /\ Send2(255, Get("p2_reset", <<>>)) \in Seq(Access)
    /\ Get("irqs", <<>>) \in Seq(Access)
<1>1. /\ "p1_reset" \in Tags /\ "p1_type" \in Tags /\ "ack" \in Tags /\ "p2_type" \in Tags
      /\ "p2_reset" \in Tags /\ "irqs" \in Tags
  BY DEF Tags
<1>2. 255 \in Int /\ 174 \in Int OBVIOUS
<1>3. <<>> \in Seq(Access) OBVIOUS
<1>4. /\ Get("p1_reset", <<>>) \in Seq(Access) /\ Get("p1_type", <<>>) \in Seq(Access)
      /\ Get("p2_type", <<>>) \in Seq(Access) /\ Get("p2_reset", <<>>) \in Seq(Access)
      /\ Get("irqs", <<>>) \in Seq(Access)
  BY <1>1, <1>3, GetType, Zenon
<1>5. Then(P!Data(255), Get("p1_reset", <<>>)) \in Seq(Access)
  BY <1>2, <1>4, CmdType, SMT
<1>6. Get("ack", Get("p1_type", <<>>)) \in Seq(Access) /\ MsIdentify \in Seq(Access)
  BY <1>1, <1>4, GetType, Zenon DEF MsIdentify
<1>7. Send2(255, Get("p2_reset", <<>>)) \in Seq(Access) BY <1>2, <1>4, Send2Type, Zenon
<1>8. MsReset \in Seq(Access) BY <1>2, <1>7, CmdType, SMT DEF MsReset
<1> QED BY <1>4, <1>5, <1>6, <1>7, <1>8, Zenon

LEMMA Port1Is == P!Port1 = Then(P!Cmd(174), Then(P!Data(255), Get("p1_reset", <<>>)))
<1> DEFINE p == P!Cmd(174)
           q == P!Data(255)
           r == P!Recv("p1_reset")
<1>1. 174 \in Int /\ 255 \in Int OBVIOUS
<1>2. "p1_reset" \in Tags BY DEF Tags
<1>3. p \in Seq(Access) /\ q \in Seq(Access) /\ r \in Seq(Access)
  BY <1>1, <1>2, CmdType, OpTypes, EarlyTypes, ZenonT(40)
<1>4. P!Port1 = Then(Then(p, q), r)
  BY Zenon DEF P!Port1, P!EnablePort1, P!SendPort1, Then
<1>5. r = Get("p1_reset", <<>>) BY <1>2, GetType, EarlyTypes, Zenon
<1> HIDE DEF p, q, r
<1>6. Then(Then(p, q), r) = Then(p, Then(q, r)) BY <1>3, Flat, SMT
<1>7. P!Port1 = Then(p, Then(q, Get("p1_reset", <<>>))) BY <1>4, <1>5, <1>6, Zenon
<1> QED BY <1>7, Zenon DEF p, q

LEMMA Port2Is == P!Port2 = Then(P!CmdOrSkip(168, 1), MsReset)
<1> DEFINE p == P!CmdOrSkip(168, 1)
           q == P!Cmd(174)
           r == P!SendPort2(255)
           s == P!Recv("p2_reset")
           g == Get("p2_reset", <<>>)
<1>1. 174 \in Int /\ 255 \in Int /\ 168 \in Int /\ 1 \in Nat OBVIOUS
<1>2. "p2_reset" \in Tags BY DEF Tags
<1>3. p \in Seq(Access) /\ q \in Seq(Access) /\ r \in Seq(Access) /\ s \in Seq(Access)
  BY <1>1, <1>2, CmdType, OpTypes, EarlyTypes, Send2Type, ZenonT(40)
<1>4. P!Port2 = Then(Then(Then(p, q), r), s) BY Zenon DEF P!Port2, P!EnablePort2, Then
<1>5. s = g BY <1>2, GetType, EarlyTypes, Zenon
<1>6. Then(r, g) = Send2(255, g) BY <1>1, KeyboardTypes, Send2Type, SMT
<1>7. MsReset = Then(q, Send2(255, g)) BY Zenon DEF MsReset
<1> HIDE DEF p, q, r, s, g
<1>8. Then(Then(Then(p, q), r), s) = Then(p, Then(q, Then(r, s))) BY <1>3, Flat4, SMT
<1>9. P!Port2 = Then(p, MsReset) BY <1>4, <1>5, <1>6, <1>7, <1>8, Zenon
<1> QED BY <1>9, Zenon DEF p

LEMMA IdentifyIs ==
    /\ P!SendPort1(242) \o P!Recv("ack") \o P!Recv("p1_type") = KbIdentify
    /\ P!SendPort2(242) \o P!Recv("ack") \o P!Recv("p2_type") = Send2(242, MsIdentify)
<1> DEFINE p == P!Data(242)
           q == P!SendPort2(242)
           r == P!Recv("ack")
           s == P!Recv("p1_type")
           t == P!Recv("p2_type")
<1>1. 242 \in Int OBVIOUS
<1>2. "ack" \in Tags /\ "p1_type" \in Tags /\ "p2_type" \in Tags BY DEF Tags
<1>3. /\ p \in Seq(Access) /\ q \in Seq(Access) /\ r \in Seq(Access)
      /\ s \in Seq(Access) /\ t \in Seq(Access)
  BY <1>1, <1>2, CmdType, OpTypes, EarlyTypes, Send2Type, ZenonT(40)
<1>4. /\ (P!SendPort1(242) \o r) \o s = Then(Then(p, r), s)
      /\ (q \o r) \o t = Then(Then(q, r), t)
  BY Zenon DEF P!SendPort1, Then
<1>5. s = Get("p1_type", <<>>) /\ t = Get("p2_type", <<>>)
  BY <1>2, GetType, EarlyTypes, Zenon
<1>6. KbIdentify = Then(p, Then(r, s)) /\ MsIdentify = Then(r, t)
  BY <1>5, Zenon DEF KbIdentify, MsIdentify, Get
<1>7. Then(q, MsIdentify) = Send2(242, MsIdentify)
  BY <1>1, KeyboardTypes, Send2Type, SMT
<1> HIDE DEF p, q, r, s, t
<1>8. Then(Then(p, r), s) = Then(p, Then(r, s)) /\ Then(Then(q, r), t) = Then(q, Then(r, t))
  BY <1>3, Flat, SMT
<1>9. /\ (P!SendPort1(242) \o r) \o s = KbIdentify
      /\ (q \o r) \o t = Send2(242, MsIdentify)
  BY <1>4, <1>6, <1>7, <1>8, SMT
<1> QED BY <1>9, Zenon DEF q, r, s, t

LEMMA MouseIs ==
    /\ P!Mouse = Send2(246, MouseMore)
    /\ MouseProgram \in Seq(Access) /\ MouseRest \in Seq(Access) /\ MouseMore \in Seq(Access)
    /\ Send2(244, MouseRest) \in Seq(Access)
<1> DEFINE p == P!SendPort2(246)
           q == P!Recv("unused")
           r == P!SendPort2(244)
           m == P!Magic(200, 100, 80, "id")
<1>1. 246 \in Int /\ 244 \in Int /\ 200 \in Int /\ 100 \in Int /\ 80 \in Int OBVIOUS
<1>2. "unused" \in Tags /\ "id" \in Tags BY DEF Tags
<1>3. m = MouseProgram /\ m \in Seq(Access) BY <1>1, <1>2, MagicIs, SMT DEF MouseProgram
<1>4. p \in Seq(Access) /\ q \in Seq(Access) /\ r \in Seq(Access)
  BY <1>1, <1>2, OpTypes, EarlyTypes, Send2Type, ZenonT(40)
<1>5. P!Mouse = Then(Then(Then(Then(p, q), r), q), m) BY Zenon DEF P!Mouse, Then
<1>6. Then(q, m) = MouseRest BY <1>3, Zenon DEF MouseRest, Get
<1>7. MouseRest \in Seq(Access) BY <1>2, <1>3, GetType, Zenon DEF MouseRest
<1>8. Then(r, MouseRest) = Send2(244, MouseRest) /\ Send2(244, MouseRest) \in Seq(Access)
  BY <1>1, <1>7, Send2Type, SMT
<1>9. Then(q, Send2(244, MouseRest)) = MouseMore BY Zenon DEF MouseMore, Get
<1>10. MouseMore \in Seq(Access) BY <1>2, <1>8, GetType, ZenonT(40) DEF MouseMore
<1>11. Then(p, MouseMore) = Send2(246, MouseMore) BY <1>1, <1>10, Send2Type, SMT
<1> HIDE DEF p, q, r, m
<1>12. Then(Then(Then(Then(p, q), r), q), m) = Then(Then(Then(p, q), r), Then(q, m))
  <2>1. Then(Then(p, q), r) \in Seq(Access) BY <1>4, Flat4, SMT
  <2> HIDE DEF Then
  <2> QED BY <2>1, <1>3, <1>4, Flat, SMT
<1>13. Then(Then(Then(p, q), r), MouseRest) = Then(p, Then(q, Then(r, MouseRest)))
  BY <1>4, <1>7, Flat4, SMT
<1>14. P!Mouse = Send2(246, MouseMore)
  BY <1>5, <1>6, <1>8, <1>9, <1>11, <1>12, <1>13, SMT
<1> QED BY <1>3, <1>7, <1>8, <1>10, <1>14, Zenon

-----------------------------------------------------------------------------
(* The devices.                                                            *)

(* x is dv with these fields, and bytes added to the mouse's answers.      *)
Said(dv, x, rates, id, reporting, rate_next, bytes) ==
    /\ x \in DevSet
    /\ x.kb = dv.kb /\ x.ms = dv.ms
    /\ x.kb_queue = dv.kb_queue /\ x.ms_queue = dv.ms_queue \o bytes
    /\ x.rates = rates /\ x.id = id
    /\ x.reporting = reporting /\ x.rate_next = rate_next

LEMMA SayIs ==
    ASSUME NEW mm \in DevSet, NEW bytes \in Seq(Int)
    PROVE  Said(mm, [mm EXCEPT !.ms_queue = @ \o bytes],
                mm.rates, mm.id, mm.reporting, mm.rate_next, bytes)
<1> DEFINE z == mm.ms_queue \o bytes
           x == [mm EXCEPT !.ms_queue = z]
<1>1. mm.ms_queue \in Seq(Int) BY DEF DevSet
<1>2. z \in Seq(Int) BY <1>1
<1> HIDE DEF z
<1>3. x \in DevSet BY <1>2 DEF DevSet
<1>4. /\ x.kb = mm.kb /\ x.ms = mm.ms /\ x.kb_queue = mm.kb_queue /\ x.ms_queue = z
      /\ x.rates = mm.rates /\ x.id = mm.id
      /\ x.reporting = mm.reporting /\ x.rate_next = mm.rate_next
  BY <1>2 DEF DevSet
<1> HIDE DEF x
<1>5. Said(mm, x, mm.rates, mm.id, mm.reporting, mm.rate_next, bytes)
  BY <1>3, <1>4, Zenon DEF Said, z
<1> QED BY <1>5, Zenon DEF x, z

(* The same of a mouse in the state that a byte puts it into.              *)
LEMMA SayAfter ==
    ASSUME NEW dv \in DevSet, NEW mm \in DevSet, NEW bytes \in Seq(Int),
           mm.kb = dv.kb, mm.ms = dv.ms, mm.kb_queue = dv.kb_queue, mm.ms_queue = dv.ms_queue
    PROVE  Said(dv, [mm EXCEPT !.ms_queue = @ \o bytes],
                mm.rates, mm.id, mm.reporting, mm.rate_next, bytes)
<1> DEFINE x == [mm EXCEPT !.ms_queue = @ \o bytes]
<1>1. Said(mm, x, mm.rates, mm.id, mm.reporting, mm.rate_next, bytes) BY SayIs, Zenon
<1> HIDE DEF x
<1>2. Said(dv, x, mm.rates, mm.id, mm.reporting, mm.rate_next, bytes)
  BY <1>1, SMT DEF Said
<1> QED BY <1>2, Zenon DEF x

LEMMA RatesType ==
    ASSUME NEW rates \in Seq(Int), NEW b \in Int
    PROVE  NewRates(rates, b) \in Seq(Int)
<1> DEFINE s == Append(rates, b)
           k == IF Len(rates) = 3 THEN 2 ELSE 1
<1>1. Len(rates) \in Nat /\ s \in Seq(Int) /\ Len(s) = Len(rates) + 1 OBVIOUS
<1>2. k \in Int /\ k >= 1 OBVIOUS
<1> HIDE DEF s, k
<1>3. \A i \in k .. Len(rates) + 1 : s[i] \in Int BY <1>1, <1>2
<1>4. SubSeq(s, k, Len(rates) + 1) \in Seq(Int) BY <1>1, <1>2, <1>3, SubSeqProperties
<1> QED BY <1>4 DEF NewRates, s, k

(* x is dv after a byte that puts the mouse into state new.                *)
Heeded(dv, x, new, says) ==
    /\ x \in DevSet
    /\ x.kb = dv.kb /\ x.ms = dv.ms /\ x.kb_queue = dv.kb_queue
    /\ x.ms_queue = dv.ms_queue \o says
    /\ StateOf(x) = new

LEMMA HeededIs ==
    ASSUME NEW dv \in DevSet, NEW mm \in DevSet, NEW bytes \in Seq(Int), NEW x, NEW new,
           mm.kb = dv.kb, mm.ms = dv.ms, mm.kb_queue = dv.kb_queue, mm.ms_queue = dv.ms_queue,
           x = [mm EXCEPT !.ms_queue = @ \o bytes],
           new = State(mm.rates, mm.id, mm.reporting, mm.rate_next)
    PROVE  Heeded(dv, x, new, bytes)
<1>1. Said(dv, x, mm.rates, mm.id, mm.reporting, mm.rate_next, bytes) BY SayAfter, Zenon
<1> QED BY <1>1, SMT DEF Said, Heeded, StateOf

LEMMA DevChanges ==
    ASSUME NEW dv \in DevSet, NEW x \in Int, NEW y \in BOOLEAN
    PROVE  /\ [dv EXCEPT !.id = x, !.reporting = y] \in DevSet
           /\ [dv EXCEPT !.id = x] \in DevSet
           /\ [dv EXCEPT !.reporting = y] \in DevSet
           /\ [dv EXCEPT !.rate_next = y] \in DevSet
<1>1. [dv EXCEPT !.id = x, !.reporting = y] \in DevSet BY DEF DevSet
<1>2. [dv EXCEPT !.id = x] \in DevSet BY DEF DevSet
<1>3. [dv EXCEPT !.reporting = y] \in DevSet BY DEF DevSet
<1>4. [dv EXCEPT !.rate_next = y] \in DevSet BY DEF DevSet
<1> QED BY <1>1, <1>2, <1>3, <1>4, Zenon

SameDevs(dv, mm) ==
    /\ mm \in DevSet
    /\ mm.kb = dv.kb /\ mm.ms = dv.ms /\ mm.kb_queue = dv.kb_queue
    /\ mm.ms_queue = dv.ms_queue

LEMMA MouseHeeds ==
    ASSUME NEW dv \in DevSet, NEW b \in Int, dv.ms # "none"
    PROVE  Heeded(dv, P!MsCommand(dv, b), Heeds(dv.ms, StateOf(dv), b),
                  Says(dv.ms, StateOf(dv), b))
<1> DEFINE x == P!MsCommand(dv, b)
           m == StateOf(dv)
           says == Says(dv.ms, m, b)
           new == Heeds(dv.ms, m, b)
           nid == NewId(dv.ms, dv.rates, dv.id)
           nrates == NewRates(dv.rates, b)
<1>0. /\ dv.rates \in Seq(Int) /\ dv.id \in Int /\ dv.reporting \in BOOLEAN
      /\ dv.rate_next \in BOOLEAN
  BY DEF DevSet
<1>1. /\ m.rates = dv.rates /\ m.id = dv.id /\ m.reporting = dv.reporting
      /\ m.rate_next = dv.rate_next
  BY DEF StateOf, State
<1>2. nid \in Int BY <1>0 DEF NewId
<1>3. nrates \in Seq(Int) BY <1>0, RatesType
<1>02. 0 \in Int OBVIOUS
<1>4. SUFFICES \E mm \in DevSet, bytes \in Seq(Int) :
                 /\ SameDevs(dv, mm)
                 /\ x = [mm EXCEPT !.ms_queue = @ \o bytes]
                 /\ new = State(mm.rates, mm.id, mm.reporting, mm.rate_next)
                 /\ says = bytes
  <2>1. PICK mm \in DevSet, bytes \in Seq(Int) :
                 /\ SameDevs(dv, mm)
                 /\ x = [mm EXCEPT !.ms_queue = @ \o bytes]
                 /\ new = State(mm.rates, mm.id, mm.reporting, mm.rate_next)
                 /\ says = bytes
    BY <1>4
  <2> HIDE DEF x, says, new
  <2>2. Heeded(dv, x, new, bytes) BY <2>1, HeededIs, Zenon DEF SameDevs
  <2> QED BY <2>1, <2>2, Zenon DEF x, says, new, m
<1> HIDE DEF m, nid, nrates
<1>5. CASE dv.rate_next
  <2> DEFINE mm == [dv EXCEPT !.rate_next = FALSE, !.rates = nrates]
  <2>1. /\ SameDevs(dv, mm)
        /\ mm.rates = nrates /\ mm.id = dv.id
        /\ mm.reporting = dv.reporting /\ mm.rate_next = FALSE
    BY <1>3 DEF DevSet, SameDevs
  <2>2. x = [mm EXCEPT !.ms_queue = @ \o <<250>>]
    BY <1>5, Zenon DEF P!MsCommand, P!PS2_ACK, NewRates, nrates
  <2>3. says = <<250>> BY <1>1, <1>5 DEF Says
  <2>4. new = State(nrates, dv.id, dv.reporting, FALSE) BY <1>1, <1>5 DEF Heeds, nrates
  <2>5. <<250>> \in Seq(Int) OBVIOUS
  <2> HIDE DEF mm, x, says, new
  <2>6. new = State(mm.rates, mm.id, mm.reporting, mm.rate_next) BY <2>1, <2>4
  <2>7. mm \in DevSet BY <2>1, Zenon DEF SameDevs
  <2> QED BY <2>1, <2>2, <2>3, <2>5, <2>6, <2>7, Zenon
<1>6. CASE ~dv.rate_next /\ b = 255
  <2> DEFINE mm == [dv EXCEPT !.id = 0, !.reporting = FALSE]
             bytes == <<250, 170, 0>>
  <2>0. dv.rate_next = FALSE BY <1>0, <1>6, Zenon
  <2>1. SameDevs(dv, mm)
    <3>1. mm \in DevSet BY <1>2, <1>02, DevChanges, Zenon
    <3>2. /\ mm.kb = dv.kb /\ mm.ms = dv.ms /\ mm.kb_queue = dv.kb_queue
          /\ mm.ms_queue = dv.ms_queue
      BY <1>2, SMT DEF DevSet
    <3> HIDE DEF mm
    <3> QED BY <3>1, <3>2, Zenon DEF SameDevs
  <2>2. mm.rates = dv.rates /\ mm.id = 0 BY <1>0, <1>2, SMT DEF DevSet
  <2>3. mm.reporting = FALSE /\ mm.rate_next = dv.rate_next
    BY <1>0, <1>2, SMT DEF DevSet
  <2>4. x = [mm EXCEPT !.ms_queue = @ \o bytes]
    BY <1>6, <1>1, SMT DEF P!MsCommand, P!PS2_ACK
  <2>5. says = bytes BY <1>6, <1>1, SMT DEF Says
  <2>6. HeedsId(dv.ms, m, b) = 0 BY <1>6, <1>1, SMT DEF HeedsId
  <2>7. HeedsOn(m, b) = FALSE BY <1>6, <1>1, SMT DEF HeedsOn
  <2>8. HeedsNext(b) = FALSE BY <1>6, SMT DEF HeedsNext
  <2>9. new = State(m.rates, HeedsId(dv.ms, m, b), HeedsOn(m, b), HeedsNext(b))
    BY <1>6, <1>1, Zenon DEF Heeds
  <2>10. bytes \in Seq(Int) BY <1>2
  <2> HIDE DEF mm, x, says, new, bytes
  <2>11. new = State(mm.rates, mm.id, mm.reporting, mm.rate_next)
    BY <1>1, <2>0, <2>2, <2>3, <2>6, <2>7, <2>8, <2>9, Zenon
  <2>12. mm \in DevSet BY <2>1, Zenon DEF SameDevs
  <2> QED BY <2>1, <2>4, <2>5, <2>10, <2>11, <2>12, Zenon
<1>7. CASE ~dv.rate_next /\ b = 246
  <2> DEFINE mm == [dv EXCEPT !.reporting = FALSE]
             bytes == <<250>>
  <2>0. dv.rate_next = FALSE BY <1>0, <1>7, Zenon
  <2>1. SameDevs(dv, mm)
    <3>1. mm \in DevSet BY <1>2, <1>02, DevChanges, Zenon
    <3>2. /\ mm.kb = dv.kb /\ mm.ms = dv.ms /\ mm.kb_queue = dv.kb_queue
          /\ mm.ms_queue = dv.ms_queue
      BY <1>2, SMT DEF DevSet
    <3> HIDE DEF mm
    <3> QED BY <3>1, <3>2, Zenon DEF SameDevs
  <2>2. mm.rates = dv.rates /\ mm.id = dv.id BY <1>0, <1>2, SMT DEF DevSet
  <2>3. mm.reporting = FALSE /\ mm.rate_next = dv.rate_next
    BY <1>0, <1>2, SMT DEF DevSet
  <2>4. x = [mm EXCEPT !.ms_queue = @ \o bytes]
    BY <1>7, <1>1, SMT DEF P!MsCommand, P!PS2_ACK
  <2>5. says = bytes BY <1>7, <1>1, SMT DEF Says
  <2>6. HeedsId(dv.ms, m, b) = dv.id BY <1>7, <1>1, SMT DEF HeedsId
  <2>7. HeedsOn(m, b) = FALSE BY <1>7, <1>1, SMT DEF HeedsOn
  <2>8. HeedsNext(b) = FALSE BY <1>7, SMT DEF HeedsNext
  <2>9. new = State(m.rates, HeedsId(dv.ms, m, b), HeedsOn(m, b), HeedsNext(b))
    BY <1>7, <1>1, Zenon DEF Heeds
  <2>10. bytes \in Seq(Int) BY <1>2
  <2> HIDE DEF mm, x, says, new, bytes
  <2>11. new = State(mm.rates, mm.id, mm.reporting, mm.rate_next)
    BY <1>1, <2>0, <2>2, <2>3, <2>6, <2>7, <2>8, <2>9, Zenon
  <2>12. mm \in DevSet BY <2>1, Zenon DEF SameDevs
  <2> QED BY <2>1, <2>4, <2>5, <2>10, <2>11, <2>12, Zenon
<1>8. CASE ~dv.rate_next /\ b = 244
  <2> DEFINE mm == [dv EXCEPT !.reporting = TRUE]
             bytes == <<250>>
  <2>0. dv.rate_next = FALSE BY <1>0, <1>8, Zenon
  <2>1. SameDevs(dv, mm)
    <3>1. mm \in DevSet BY <1>2, <1>02, DevChanges, Zenon
    <3>2. /\ mm.kb = dv.kb /\ mm.ms = dv.ms /\ mm.kb_queue = dv.kb_queue
          /\ mm.ms_queue = dv.ms_queue
      BY <1>2, SMT DEF DevSet
    <3> HIDE DEF mm
    <3> QED BY <3>1, <3>2, Zenon DEF SameDevs
  <2>2. mm.rates = dv.rates /\ mm.id = dv.id BY <1>0, <1>2, SMT DEF DevSet
  <2>3. mm.reporting = TRUE /\ mm.rate_next = dv.rate_next BY <1>0, <1>2, SMT DEF DevSet
  <2>4. x = [mm EXCEPT !.ms_queue = @ \o bytes]
    BY <1>8, <1>1, SMT DEF P!MsCommand, P!PS2_ACK
  <2>5. says = bytes BY <1>8, <1>1, SMT DEF Says
  <2>6. HeedsId(dv.ms, m, b) = dv.id BY <1>8, <1>1, SMT DEF HeedsId
  <2>7. HeedsOn(m, b) = TRUE BY <1>8, <1>1, SMT DEF HeedsOn
  <2>8. HeedsNext(b) = FALSE BY <1>8, SMT DEF HeedsNext
  <2>9. new = State(m.rates, HeedsId(dv.ms, m, b), HeedsOn(m, b), HeedsNext(b))
    BY <1>8, <1>1, Zenon DEF Heeds
  <2>10. bytes \in Seq(Int) BY <1>2
  <2> HIDE DEF mm, x, says, new, bytes
  <2>11. new = State(mm.rates, mm.id, mm.reporting, mm.rate_next)
    BY <1>1, <2>0, <2>2, <2>3, <2>6, <2>7, <2>8, <2>9, Zenon
  <2>12. mm \in DevSet BY <2>1, Zenon DEF SameDevs
  <2> QED BY <2>1, <2>4, <2>5, <2>10, <2>11, <2>12, Zenon
<1>9. CASE ~dv.rate_next /\ b = 243
  <2> DEFINE mm == [dv EXCEPT !.rate_next = TRUE]
             bytes == <<250>>
  <2>0. dv.rate_next = FALSE BY <1>0, <1>9, Zenon
  <2>1. SameDevs(dv, mm)
    <3>1. mm \in DevSet BY <1>2, <1>02, DevChanges, Zenon
    <3>2. /\ mm.kb = dv.kb /\ mm.ms = dv.ms /\ mm.kb_queue = dv.kb_queue
          /\ mm.ms_queue = dv.ms_queue
      BY <1>2, SMT DEF DevSet
    <3> HIDE DEF mm
    <3> QED BY <3>1, <3>2, Zenon DEF SameDevs
  <2>2. mm.rates = dv.rates /\ mm.id = dv.id BY <1>0, <1>2, SMT DEF DevSet
  <2>3. mm.reporting = dv.reporting /\ mm.rate_next = TRUE BY <1>0, <1>2, SMT DEF DevSet
  <2>4. x = [mm EXCEPT !.ms_queue = @ \o bytes]
    BY <1>9, <1>1, SMT DEF P!MsCommand, P!PS2_ACK
  <2>5. says = bytes BY <1>9, <1>1, SMT DEF Says
  <2>6. HeedsId(dv.ms, m, b) = dv.id BY <1>9, <1>1, SMT DEF HeedsId
  <2>7. HeedsOn(m, b) = dv.reporting BY <1>9, <1>1, SMT DEF HeedsOn
  <2>8. HeedsNext(b) = TRUE BY <1>9, SMT DEF HeedsNext
  <2>9. new = State(m.rates, HeedsId(dv.ms, m, b), HeedsOn(m, b), HeedsNext(b))
    BY <1>9, <1>1, Zenon DEF Heeds
  <2>10. bytes \in Seq(Int) BY <1>2
  <2> HIDE DEF mm, x, says, new, bytes
  <2>11. new = State(mm.rates, mm.id, mm.reporting, mm.rate_next)
    BY <1>1, <2>0, <2>2, <2>3, <2>6, <2>7, <2>8, <2>9, Zenon
  <2>12. mm \in DevSet BY <2>1, Zenon DEF SameDevs
  <2> QED BY <2>1, <2>4, <2>5, <2>10, <2>11, <2>12, Zenon
<1>10. CASE ~dv.rate_next /\ b = 242
  <2> DEFINE mm == [dv EXCEPT !.id = nid]
             bytes == <<250, nid>>
  <2>0. dv.rate_next = FALSE BY <1>0, <1>10, Zenon
  <2>1. SameDevs(dv, mm)
    <3>1. mm \in DevSet BY <1>2, <1>02, DevChanges, Zenon
    <3>2. /\ mm.kb = dv.kb /\ mm.ms = dv.ms /\ mm.kb_queue = dv.kb_queue
          /\ mm.ms_queue = dv.ms_queue
      BY <1>2, SMT DEF DevSet
    <3> HIDE DEF mm
    <3> QED BY <3>1, <3>2, Zenon DEF SameDevs
  <2>2. mm.rates = dv.rates /\ mm.id = nid BY <1>0, <1>2, SMT DEF DevSet
  <2>3. mm.reporting = dv.reporting /\ mm.rate_next = dv.rate_next
    BY <1>0, <1>2, SMT DEF DevSet
  <2>4. x = [mm EXCEPT !.ms_queue = @ \o bytes]
    BY <1>10, <1>1, SMT DEF P!MsCommand, P!PS2_ACK, P!Id, NewId, nid
  <2>5. says = bytes BY <1>10, <1>1, SMT DEF Says, nid
  <2>6. HeedsId(dv.ms, m, b) = nid BY <1>10, <1>1, SMT DEF HeedsId, nid
  <2>7. HeedsOn(m, b) = dv.reporting BY <1>10, <1>1, SMT DEF HeedsOn
  <2>8. HeedsNext(b) = FALSE BY <1>10, SMT DEF HeedsNext
  <2>9. new = State(m.rates, HeedsId(dv.ms, m, b), HeedsOn(m, b), HeedsNext(b))
    BY <1>10, <1>1, Zenon DEF Heeds
  <2>10. bytes \in Seq(Int) BY <1>2
  <2> HIDE DEF mm, x, says, new, bytes
  <2>11. new = State(mm.rates, mm.id, mm.reporting, mm.rate_next)
    BY <1>1, <2>0, <2>2, <2>3, <2>6, <2>7, <2>8, <2>9, Zenon
  <2>12. mm \in DevSet BY <2>1, Zenon DEF SameDevs
  <2> QED BY <2>1, <2>4, <2>5, <2>10, <2>11, <2>12, Zenon
<1>11. CASE ~dv.rate_next /\ b \notin {255, 246, 244, 243, 242}
  <2> DEFINE mm == dv
             bytes == <<254>>
  <2>0. dv.rate_next = FALSE BY <1>0, <1>11, Zenon
  <2>1. SameDevs(dv, mm)
    <3>1. mm \in DevSet BY <1>2, <1>02, DevChanges, Zenon
    <3>2. /\ mm.kb = dv.kb /\ mm.ms = dv.ms /\ mm.kb_queue = dv.kb_queue
          /\ mm.ms_queue = dv.ms_queue
      BY <1>2, SMT DEF DevSet
    <3> HIDE DEF mm
    <3> QED BY <3>1, <3>2, Zenon DEF SameDevs
  <2>2. mm.rates = dv.rates /\ mm.id = dv.id BY <1>0, <1>2, SMT DEF DevSet
  <2>3. mm.reporting = dv.reporting /\ mm.rate_next = dv.rate_next
    BY <1>0, <1>2, SMT DEF DevSet
  <2>4. x = [mm EXCEPT !.ms_queue = @ \o bytes]
    BY <1>11, <1>1, SMT DEF P!MsCommand, P!PS2_ACK
  <2>5. says = bytes BY <1>11, <1>1, SMT DEF Says
  <2>6. HeedsId(dv.ms, m, b) = dv.id BY <1>11, <1>1, SMT DEF HeedsId
  <2>7. HeedsOn(m, b) = dv.reporting
    <3>1. b \notin {255, 246} /\ b # 244 BY <1>11
    <3> QED BY <3>1, <1>1, Zenon DEF HeedsOn
  <2>8. HeedsNext(b) = FALSE BY <1>11, SMT DEF HeedsNext
  <2>9. new = State(m.rates, HeedsId(dv.ms, m, b), HeedsOn(m, b), HeedsNext(b))
    BY <1>11, <1>1, Zenon DEF Heeds
  <2>10. bytes \in Seq(Int) BY <1>2
  <2> HIDE DEF mm, x, says, new, bytes
  <2>11. new = State(mm.rates, mm.id, mm.reporting, mm.rate_next)
    BY <1>1, <2>0, <2>2, <2>3, <2>6, <2>7, <2>8, <2>9, Zenon
  <2>12. mm \in DevSet BY <2>1, Zenon DEF SameDevs
  <2> QED BY <2>1, <2>4, <2>5, <2>10, <2>11, <2>12, Zenon
<1> QED BY <1>0, <1>5, <1>6, <1>7, <1>8, <1>9, <1>10, <1>11, Zenon

LEMMA KeyboardHeeds ==
    ASSUME NEW dv \in DevSet, NEW q \in Seq(Int)
    PROVE  LET x == [dv EXCEPT !.kb_queue = q]
           IN /\ x \in DevSet
              /\ x.kb = dv.kb /\ x.ms = dv.ms
              /\ x.kb_queue = q /\ x.ms_queue = dv.ms_queue
              /\ StateOf(x) = StateOf(dv)
<1> DEFINE x == [dv EXCEPT !.kb_queue = q]
<1>1. x \in DevSet BY DEF DevSet
<1>2. x.kb = dv.kb /\ x.ms = dv.ms /\ x.kb_queue = q /\ x.ms_queue = dv.ms_queue
  BY DEF DevSet
<1>3. x.rates = dv.rates /\ x.id = dv.id /\ x.reporting = dv.reporting /\ x.rate_next = dv.rate_next
  BY DEF DevSet
<1> HIDE DEF x
<1>4. StateOf(x) = StateOf(dv) BY <1>3, Zenon DEF StateOf
<1> QED BY <1>1, <1>2, <1>4, Zenon DEF x

LEMMA MouseQueue ==
    ASSUME NEW dv \in DevSet, NEW q \in Seq(Int)
    PROVE  LET x == [dv EXCEPT !.ms_queue = q]
           IN /\ x \in DevSet
              /\ x.kb = dv.kb /\ x.ms = dv.ms
              /\ x.kb_queue = dv.kb_queue /\ x.ms_queue = q
              /\ StateOf(x) = StateOf(dv)
<1> DEFINE x == [dv EXCEPT !.ms_queue = q]
<1>1. x \in DevSet BY DEF DevSet
<1>2. x.kb = dv.kb /\ x.ms = dv.ms /\ x.kb_queue = dv.kb_queue /\ x.ms_queue = q
  BY DEF DevSet
<1>3. x.rates = dv.rates /\ x.id = dv.id /\ x.reporting = dv.reporting /\ x.rate_next = dv.rate_next
  BY DEF DevSet
<1> HIDE DEF x
<1>4. StateOf(x) = StateOf(dv) BY <1>3, Zenon DEF StateOf
<1> QED BY <1>1, <1>2, <1>4, Zenon DEF x

(* What is read first.                                                     *)
LEMMA UnreadIs ==
    ASSUME NEW q \in Seq(Int)
    PROVE  /\ Unread(<<>>, q) = q
           /\ q # <<>> => \A k : Unread(<<k, Head(q)>>, Tail(q)) = q
           /\ Then(<<>>, q) = q /\ <<>> \o q = q
           /\ q # <<>> => Tail(q) \in Seq(Int) /\ Head(q) \in Int
<1>1. Unread(<<>>, q) = q BY Zenon DEF Unread
<1>2. ASSUME q # <<>>, NEW k
      PROVE  Unread(<<k, Head(q)>>, Tail(q)) = q
  <2>1. <<k, Head(q)>> # <<>> /\ <<k, Head(q)>>[2] = Head(q) OBVIOUS
  <2>2. <<Head(q)>> \o Tail(q) = q BY <1>2
  <2> QED BY <2>1, <2>2, Zenon DEF Unread, Then
<1>3. <<>> \o q = q OBVIOUS
<1>4. q # <<>> => Tail(q) \in Seq(Int) /\ Head(q) \in Int OBVIOUS
<1> QED BY <1>1, <1>2, <1>3, <1>4, Zenon DEF Then

LEMMA ConfigBits ==
    ASSUME NEW c \in Configs
    PROVE  /\ c \in Int
           /\ ~P!HasBit(c, 1) /\ ~P!HasBit(c, 2) /\ ~P!HasBit(c, 64)
           /\ P!Without(c, 16) \in Configs /\ P!Without(c, 32) \in Configs
           /\ On12(c) \in Int /\ P!HasBit(On12(c), 1) /\ P!HasBit(On12(c), 2)
           /\ ~P!HasBit(On12(c), 64)
           /\ c % 256 = c
<1>1. c \in {4, 20, 36, 52, 140, 156, 172, 188} BY DEF Configs
<1>2. c \in Int /\ c % 256 = c BY <1>1
<1>3. ~P!HasBit(c, 1) /\ ~P!HasBit(c, 2) /\ ~P!HasBit(c, 64) BY <1>1 DEF P!HasBit
<1>4. P!Without(c, 16) \in Configs BY <1>1 DEF P!Without, P!HasBit, Configs
<1>5. P!Without(c, 32) \in Configs BY <1>1 DEF P!Without, P!HasBit, Configs
<1>6. On12(c) = c + 3 BY <1>1 DEF On12, P!With, P!HasBit
<1>7. P!HasBit(c + 3, 1) /\ P!HasBit(c + 3, 2) /\ ~P!HasBit(c + 3, 64)
  BY <1>1 DEF P!HasBit
<1> QED BY <1>2, <1>3, <1>4, <1>5, <1>6, <1>7

-----------------------------------------------------------------------------
(* Steps of the controller and of the devices keep what is settled.        *)

Base == DevTypeOK /\ config \in Configs /\ late = 0 /\ hw # "absent"
Rest == todo' = todo /\ drv' = drv /\ hw' = hw /\ late' = late

LEMMA TakesCommand ==
    ASSUME NEW c \in {168, 174, 212}, inp = <<"cmd", c>>, config \in Configs, P!ControllerTakes
    PROVE  /\ inp' = <<>> /\ answer' = answer /\ dev' = dev /\ config' \in Configs
           /\ target' = (IF c = 212 /\ hw = "dual" THEN "p2" ELSE target)
           /\ Rest
<1>1. inp # <<>> /\ inp[1] = "cmd" /\ inp[2] = c OBVIOUS
<1>2. inp' = <<>> /\ P!Command(c) /\ Rest BY <1>1, Zenon DEF P!ControllerTakes, Rest
<1>3. c # 96 /\ c # 173 /\ c # 167 /\ c # 32 /\ c # 170 /\ c # 171 /\ c # 169 OBVIOUS
<1>4. answer' = answer BY <1>2, <1>3, Zenon DEF P!Command, P!Quiet
<1>5. dev' = dev BY <1>2, Zenon DEF P!Command
<1>6. target' = (IF c = 212 /\ hw = "dual" THEN "p2" ELSE target)
  BY <1>2, <1>3, SMT DEF P!Command
<1>7. config' \in {config, P!Without(config, 16), P!Without(config, 32)}
  BY <1>2, <1>3, SMT DEF P!Command
<1>8. config' \in Configs BY <1>7, ConfigBits
<1> QED BY <1>2, <1>4, <1>5, <1>6, <1>8, Zenon

LEMMA TakesData ==
    ASSUME NEW b \in Int, inp = <<"data", b>>, target \in {"p1", "p2"}, P!ControllerTakes
    PROVE  /\ inp' = <<>> /\ answer' = answer /\ config' = config /\ target' = "p1"
           /\ Rest
           /\ dev' = CASE target = "p1" /\ dev.kb ->
                            [dev EXCEPT !.kb_queue = @ \o P!KbAnswer(b)]
                       [] target = "p2" /\ dev.ms # "none" -> P!MsCommand(dev, b)
                       [] OTHER -> dev
<1>1. inp # <<>> /\ inp[1] # "cmd" /\ inp[2] = b OBVIOUS
<1>2. target # "config" OBVIOUS
<1> QED BY <1>1, <1>2, Zenon DEF P!ControllerTakes, P!Quiet, Rest

LEMMA KbAnswerType == \A b : P!KbAnswer(b) \in Seq(Int)
  BY DEF P!KbAnswer, P!PS2_ACK

(* A device passes a byte on to the output buffer.                         *)
Passed ==
    /\ dev' \in DevSet /\ dev'.kb = dev.kb /\ dev'.ms = dev.ms
    /\ StateOf(dev') = StateOf(dev)
    /\ dev'.kb_queue = <<>> \/ dev'.ms_queue = <<>>
    /\ Unread(answer', Queued(dev')) = Unread(answer, Queued(dev))
    /\ inp' = inp /\ config' = config /\ target' = target /\ Rest

LEMMA DevicePasses ==
    ASSUME dev \in DevSet, dev.kb_queue = <<>> \/ dev.ms_queue = <<>>,
           P!KeyboardSends \/ P!MouseSends
    PROVE  Passed
<1>1. CASE P!KeyboardSends
  <2> DEFINE q == dev.kb_queue
  <2>1. /\ q # <<>> /\ answer = <<>>
        /\ answer' = <<1, Head(q)>>
        /\ dev' = [dev EXCEPT !.kb_queue = Tail(q)]
        /\ inp' = inp /\ config' = config /\ target' = target /\ Rest
    BY <1>1, Zenon DEF P!KeyboardSends, Rest
  <2>2. q \in Seq(Int) /\ dev.ms_queue \in Seq(Int) BY DEF DevSet
  <2>3. dev.ms_queue = <<>> BY <2>1, Zenon
  <2>4. Tail(q) \in Seq(Int) /\ Unread(<<1, Head(q)>>, Tail(q)) = q
    BY <2>1, <2>2, UnreadIs, Zenon
  <2>5. /\ dev' \in DevSet /\ dev'.kb = dev.kb /\ dev'.ms = dev.ms
        /\ dev'.kb_queue = Tail(q) /\ dev'.ms_queue = dev.ms_queue
        /\ StateOf(dev') = StateOf(dev)
    BY <2>1, <2>4, KeyboardHeeds, Zenon
  <2>6. Unread(answer, Queued(dev)) = q BY <2>1, <2>2, UnreadIs, Zenon DEF Queued
  <2>7. Queued(dev') = Tail(q) BY <2>3, <2>5, Zenon DEF Queued
  <2>8. Unread(answer', Queued(dev')) = q BY <2>1, <2>4, <2>7, Zenon
  <2> HIDE DEF q
  <2> QED BY <2>1, <2>3, <2>5, <2>6, <2>8, Zenon DEF Passed
<1>2. CASE P!MouseSends
  <2> DEFINE q == dev.ms_queue
  <2>1. /\ q # <<>> /\ answer = <<>>
        /\ answer' = <<2, Head(q)>>
        /\ dev' = [dev EXCEPT !.ms_queue = Tail(q)]
        /\ inp' = inp /\ config' = config /\ target' = target /\ Rest
    BY <1>2, Zenon DEF P!MouseSends, Rest
  <2>2. q \in Seq(Int) /\ dev.kb_queue \in Seq(Int) BY DEF DevSet
  <2>3. dev.kb_queue = <<>> BY <2>1, Zenon
  <2>4. Tail(q) \in Seq(Int) /\ Unread(<<2, Head(q)>>, Tail(q)) = q
    BY <2>1, <2>2, UnreadIs, Zenon
  <2>5. /\ dev' \in DevSet /\ dev'.kb = dev.kb /\ dev'.ms = dev.ms
        /\ dev'.ms_queue = Tail(q) /\ dev'.kb_queue = dev.kb_queue
        /\ StateOf(dev') = StateOf(dev)
    BY <2>1, <2>4, MouseQueue, Zenon
  <2>6. Unread(answer, Queued(dev)) = q BY <2>1, <2>2, <2>3, UnreadIs, Zenon DEF Queued
  <2>7. Queued(dev') = Tail(q) BY <2>3, <2>5, Zenon DEF Queued
  <2>8. Unread(answer', Queued(dev')) = q BY <2>1, <2>4, <2>7, Zenon
  <2> HIDE DEF q
  <2> QED BY <2>1, <2>3, <2>5, <2>6, <2>8, Zenon DEF Passed
<1> QED BY <1>1, <1>2

(* What a step of the controller or of a device leaves alone.              *)
Kept == Base' /\ dev'.kb = dev.kb /\ dev'.ms = dev.ms /\ Rest

LEMMA KeptIs ==
    ASSUME Base, dev' \in DevSet, dev'.kb = dev.kb, dev'.ms = dev.ms, config' \in Configs, Rest
    PROVE  Kept
  BY SMT DEF Base, DevTypeOK, Rest, Kept

LEMMA IdleKept ==
    ASSUME NEW m, NEW s, Base, Idle(m, s),
           P!ControllerTakes \/ P!KeyboardSends \/ P!MouseSends
    PROVE  Settled(m, s)' /\ Kept
<1>0. dev \in DevSet /\ config \in Configs BY DEF Base, DevTypeOK
<1>1. CASE P!ControllerTakes
  <2>1. inp # <<>> BY <1>1, Zenon DEF P!ControllerTakes
  <2>2. PICK c \in {168, 174, 212} : inp = <<"cmd", c>> /\ c # 212 BY <2>1 DEF Idle
  <2>3. /\ inp' = <<>> /\ answer' = answer /\ dev' = dev /\ config' \in Configs
        /\ target' = target /\ Rest
    BY <1>0, <1>1, <2>2, TakesCommand
  <2>4. Idle(m, s)' BY <2>3, SMT DEF Idle
  <2>5. Kept BY <1>0, <2>3, KeptIs, Zenon
  <2> QED BY <2>4, <2>5, Zenon DEF Settled
<1>2. CASE P!KeyboardSends \/ P!MouseSends
  <2>1. Passed BY <1>0, <1>2, DevicePasses, Zenon DEF Idle
  <2>2. Idle(m, s)' BY <2>1, Zenon DEF Idle, Passed
  <2>3. config' \in Configs BY <1>0, <2>1, Zenon DEF Passed
  <2>4. Kept BY <2>1, <2>3, KeptIs, Zenon DEF Passed
  <2> QED BY <2>2, <2>4, Zenon DEF Settled
<1> QED BY <1>1, <1>2

LEMMA SelectedKept ==
    ASSUME NEW m, NEW s, Base, hw = "dual", Selected(m, s),
           P!ControllerTakes \/ P!KeyboardSends \/ P!MouseSends
    PROVE  Selected(m, s)' /\ Kept
<1>0. dev \in DevSet /\ config \in Configs BY DEF Base, DevTypeOK
<1>1. CASE P!ControllerTakes
  <2>1. inp # <<>> BY <1>1, Zenon DEF P!ControllerTakes
  <2>2. inp = <<"cmd", 212>> BY <2>1 DEF Selected
  <2>3. /\ inp' = <<>> /\ answer' = answer /\ dev' = dev /\ config' \in Configs
        /\ target' = "p2" /\ Rest
    BY <1>0, <1>1, <2>2, TakesCommand
  <2>4. Selected(m, s)' BY <2>3, SMT DEF Selected
  <2>5. Kept BY <1>0, <2>3, KeptIs, Zenon
  <2> QED BY <2>4, <2>5
<1>2. CASE P!KeyboardSends \/ P!MouseSends
  <2>1. Passed BY <1>0, <1>2, DevicePasses, Zenon DEF Selected
  <2>2. Selected(m, s)' BY <2>1, Zenon DEF Selected, Passed
  <2>3. config' \in Configs BY <1>0, <2>1, Zenon DEF Passed
  <2>4. Kept BY <2>1, <2>3, KeptIs, Zenon DEF Passed
  <2> QED BY <2>2, <2>4
<1> QED BY <1>1, <1>2

LEMMA SaysType ==
    ASSUME NEW dv \in DevSet, NEW b
    PROVE  Says(dv.ms, StateOf(dv), b) \in Seq(Int)
<1> DEFINE nid == NewId(dv.ms, StateOf(dv).rates, StateOf(dv).id)
<1>1. StateOf(dv).id \in Int BY DEF StateOf, State, DevSet
<1>2. nid \in Int BY <1>1 DEF NewId
<1> HIDE DEF nid
<1>3. <<250, nid>> \in Seq(Int) BY <1>2
<1>4. /\ <<250, 170, 0>> \in Seq(Int) /\ <<250>> \in Seq(Int) /\ <<254>> \in Seq(Int)
      /\ <<>> \in Seq(Int) OBVIOUS
<1>5. StateOf(dv).rate_next \in BOOLEAN BY DEF StateOf, State, DevSet
<1> QED BY <1>3, <1>4, <1>5, Zenon DEF Says, nid

LEMMA ToKeyboardKept ==
    ASSUME NEW m, NEW s, Base, ToKeyboard(m, s),
           P!ControllerTakes \/ P!KeyboardSends \/ P!MouseSends
    PROVE  Settled(m, s)' /\ Kept
<1>0. dev \in DevSet /\ config \in Configs BY DEF Base, DevTypeOK
<1>1. PICK b \in Int :
        /\ inp = <<"data", b>> /\ target = "p1" /\ Nothing
        /\ m = StateOf(dev) /\ s = KbSays(dev.kb, b)
  BY DEF ToKeyboard
<1>2. P!ControllerTakes BY <1>1, Zenon DEF P!KeyboardSends, P!MouseSends, Nothing
<1>3. target \in {"p1", "p2"} /\ target # "p2" BY <1>1
<1>4. /\ inp' = <<>> /\ answer' = answer /\ config' = config /\ target' = "p1"
      /\ Rest
      /\ dev' = IF dev.kb THEN [dev EXCEPT !.kb_queue = @ \o P!KbAnswer(b)] ELSE dev
  BY <1>1, <1>2, <1>3, TakesData, Zenon
<1> DEFINE q == P!KbAnswer(b)
<1>5. q \in Seq(Int) /\ <<>> \o q = q BY KbAnswerType, UnreadIs
<1>6. /\ dev' \in DevSet /\ dev'.kb = dev.kb /\ dev'.ms = dev.ms
      /\ dev'.kb_queue = s /\ dev'.ms_queue = <<>> /\ StateOf(dev') = m
  <2>1. CASE dev.kb
    <3>1. dev' = [dev EXCEPT !.kb_queue = q]
      BY <1>1, <1>4, <1>5, <2>1, Zenon DEF Nothing
    <3>2. s = q BY <1>1, <2>1, Zenon DEF KbSays
    <3> HIDE DEF q
    <3> QED BY <1>0, <1>1, <1>5, <3>1, <3>2, KeyboardHeeds, Zenon DEF Nothing
  <2>2. CASE ~dev.kb BY <1>0, <1>1, <1>4, <2>2, Zenon DEF KbSays, Nothing
  <2> QED BY <2>1, <2>2
<1>7. s = Unread(answer', Queued(dev'))
  BY <1>1, <1>4, <1>6, Zenon DEF Unread, Queued, Nothing
<1>8. inp' \in {<<>>, <<"cmd", 168>>, <<"cmd", 174>>} BY <1>4, Zenon
<1>9. Idle(m, s)' BY <1>4, <1>6, <1>7, <1>8, Zenon DEF Idle
<1>10. config' \in Configs BY <1>0, <1>4, Zenon
<1>11. Kept BY <1>4, <1>6, <1>10, KeptIs, Zenon
<1> QED BY <1>9, <1>11, Zenon DEF Settled

LEMMA ToMouseKept ==
    ASSUME NEW m, NEW s, Base, ToMouse(m, s),
           P!ControllerTakes \/ P!KeyboardSends \/ P!MouseSends
    PROVE  Settled(m, s)' /\ Kept
<1>0. dev \in DevSet /\ config \in Configs BY DEF Base, DevTypeOK
<1>1. PICK b \in Int :
        /\ inp = <<"data", b>> /\ target = "p2" /\ Nothing
        /\ m = Heeds(dev.ms, StateOf(dev), b) /\ s = Says(dev.ms, StateOf(dev), b)
  BY DEF ToMouse
<1>2. P!ControllerTakes BY <1>1, Zenon DEF P!KeyboardSends, P!MouseSends, Nothing
<1>3. target \in {"p1", "p2"} /\ target # "p1" BY <1>1
<1>4. /\ inp' = <<>> /\ answer' = answer /\ config' = config /\ target' = "p1"
      /\ Rest
      /\ dev' = IF dev.ms # "none" THEN P!MsCommand(dev, b) ELSE dev
  BY <1>1, <1>2, <1>3, TakesData, Zenon
<1>5. s \in Seq(Int) /\ <<>> \o s = s BY <1>0, <1>1, SaysType, UnreadIs
<1>6. /\ dev' \in DevSet /\ dev'.kb = dev.kb /\ dev'.ms = dev.ms
      /\ dev'.ms_queue = s /\ dev'.kb_queue = <<>> /\ StateOf(dev') = m
  <2>1. CASE dev.ms # "none"
    <3>1. Heeded(dev, P!MsCommand(dev, b), m, s) BY <1>0, <1>1, <2>1, MouseHeeds, Zenon
    <3>2. dev' = P!MsCommand(dev, b) BY <1>4, <2>1, Zenon
    <3>3. Heeded(dev, dev', m, s) BY <3>1, <3>2, Zenon
    <3>4. dev'.ms_queue = s BY <1>1, <1>5, <3>3, Zenon DEF Heeded, Nothing
    <3> QED BY <1>1, <3>3, <3>4, Zenon DEF Heeded, Nothing
  <2>2. CASE dev.ms = "none"
    <3>1. s = <<>> /\ m = StateOf(dev) BY <1>1, <2>2, Zenon DEF Says, Heeds
    <3> QED BY <1>0, <1>1, <1>4, <2>2, <3>1, Zenon DEF Nothing
  <2> QED BY <2>1, <2>2
<1>7. s = Unread(answer', Queued(dev'))
  BY <1>1, <1>4, <1>6, Zenon DEF Unread, Queued, Nothing
<1>8. inp' \in {<<>>, <<"cmd", 168>>, <<"cmd", 174>>} BY <1>4, Zenon
<1>9. Idle(m, s)' BY <1>4, <1>6, <1>7, <1>8, Zenon DEF Idle
<1>10. config' \in Configs BY <1>0, <1>4, Zenon
<1>11. Kept BY <1>4, <1>6, <1>10, KeptIs, Zenon
<1> QED BY <1>9, <1>11, Zenon DEF Settled

LEMMA SettledKept ==
    ASSUME NEW m, NEW s, Base, Settled(m, s),
           P!ControllerTakes \/ P!KeyboardSends \/ P!MouseSends
    PROVE  Settled(m, s)' /\ Kept
  BY IdleKept, ToKeyboardKept, ToMouseKept, Zenon DEF Settled

-----------------------------------------------------------------------------
(* Steps of the driver.                                                    *)

LEMMA FirstByteOf ==
    ASSUME NEW x, NEW q \in Seq(Int)
    PROVE  Then(<<x>>, q) # <<>> /\ Head(Then(<<x>>, q)) = x /\ Tail(Then(<<x>>, q)) = q
<1> DEFINE S == Int \cup {x}
           s == <<x>> \o q
<1>1. x \in S /\ <<x>> \in Seq(S) /\ Len(<<x>>) = 1 /\ <<x>>[1] = x OBVIOUS
<1>2. q \in Seq(S) /\ Len(q) \in Nat
  <2>1. Len(q) \in Nat /\ q \in [1 .. Len(q) -> Int] BY LenProperties
  <2>2. q \in [1 .. Len(q) -> S] BY <2>1
  <2> HIDE DEF S
  <2> QED BY <2>1, <2>2
<1> HIDE DEF S
<1>3. /\ s \in Seq(S) /\ Len(s) = 1 + Len(q)
      /\ \A i \in 1 .. 1 + Len(q) : s[i] = IF i <= 1 THEN <<x>>[i] ELSE q[i - 1]
  BY <1>1, <1>2, ConcatProperties, Zenon
<1> HIDE DEF s
<1>4. s # <<>> BY <1>2, <1>3, EmptySeq
<1>5. Head(s) = x BY <1>1, <1>2, <1>3, <1>4
<1>6. /\ Tail(s) \in Seq(S)
      /\ Len(Tail(s)) = Len(s) - 1
      /\ \A i \in 1 .. Len(Tail(s)) : Tail(s)[i] = s[i + 1]
  BY <1>3, <1>4, HeadTailProperties, Zenon
<1>7. Len(Tail(s)) = Len(q) BY <1>2, <1>3, <1>6
<1>8. \A i \in 1 .. Len(Tail(s)) : Tail(s)[i] = q[i] BY <1>2, <1>3, <1>6, <1>7
<1>9. Tail(s) = q BY <1>2, <1>6, <1>7, <1>8, SeqEqual, Zenon
<1> QED BY <1>4, <1>5, <1>9, Zenon DEF s, Then

(* Nothing is unread only if all is empty.                                 *)
LEMMA NothingUnread ==
    ASSUME dev \in DevSet, Unread(answer, Queued(dev)) = <<>>
    PROVE  Nothing
<1>1. Queued(dev) \in Seq(Int) BY DEF Queued, DevSet
<1>2. answer = <<>> BY <1>1, FirstByteOf, Zenon DEF Unread
<1> QED BY <1>2, Zenon DEF Unread, Queued, Nothing

(* The driver has sent its next byte, has dropped a byte, has got byte v   *)
(* in answer to what it asked for, or has waited in vain.                  *)
SentOne(op, arg, r) ==
    /\ inp = <<>> /\ inp' = <<op, arg>> /\ todo' = r
    /\ drv' = drv /\ hw' = hw /\ answer' = answer /\ config' = config
    /\ target' = target /\ dev' = dev /\ late' = late
Dropped(r) ==
    /\ todo' = r /\ answer' = <<>>
    /\ answer = <<>> /\ P!Pending => late' = late + 1
    /\ ~(answer = <<>> /\ P!Pending) => late' = late
    /\ drv' = drv /\ hw' = hw /\ inp' = inp /\ config' = config
    /\ target' = target /\ dev' = dev
Got(tag, r, v) ==
    /\ drv' = P!Received(tag, v, drv).drv
    /\ todo' = Then(r, P!Received(tag, v, drv).more)
    /\ hw' = hw /\ inp' = inp /\ config' = config /\ target' = target /\ dev' = dev
GotByte(tag, r) ==
    /\ answer # <<>> /\ answer' = <<>>
    /\ Got(tag, r, answer[2])
    /\ late' = late
GotNothing(tag, r) ==
    /\ answer = <<>> /\ inp = <<>> /\ answer' = answer
    /\ Got(tag, r, -1)
    /\ P!Pending => late' = late + 1
    /\ ~P!Pending => late' = late

LEMMA DriverSteps ==
    ASSUME NEW op, NEW arg, NEW r, Starts(todo, op, arg, r), hw # "absent", P!Next
    PROVE  \/ P!ControllerTakes \/ P!KeyboardSends \/ P!MouseSends
           \/ P!HandlerTakes
           \/ P!SendTimeout /\ P!Stuck
           \/ op \in {"cmd", "data"} /\ SentOne(op, arg, r)
           \/ op = "inb" /\ Dropped(r)
           \/ op = "recv" /\ (GotByte(arg, r) \/ GotNothing(arg, r))
<1>0. todo # <<>> /\ Head(todo).op = op /\ Head(todo).arg = arg /\ Tail(todo) = r
  BY Zenon DEF Starts
<1>1. CASE P!Send
  <2>1. op \in {"cmd", "data"} BY <1>0, <1>1, Zenon DEF P!Send, P!Op
  <2>2. SentOne(op, arg, r) BY <1>0, <1>1, Zenon DEF P!Send, SentOne
  <2> QED BY <2>1, <2>2, Zenon
<1>2. CASE P!SendTimeout BY <1>0, <1>2, Zenon DEF P!SendTimeout, P!Op
<1>3. CASE P!DropByte
  <2>1. op = "inb" BY <1>0, <1>3, Zenon DEF P!DropByte, P!Op
  <2>2. Dropped(r) BY <1>0, <1>3, Zenon DEF P!DropByte, P!GoesOn, Dropped
  <2> QED BY <2>1, <2>2, Zenon
<1>4. CASE P!RecvByte
  <2>1. op = "recv" BY <1>0, <1>4, Zenon DEF P!RecvByte, P!Op
  <2>2. GotByte(arg, r) BY <1>0, <1>4, Zenon DEF P!RecvByte, P!Take, GotByte, Got, Then
  <2> QED BY <2>1, <2>2, Zenon
<1>5. CASE P!RecvTimeout
  <2>1. op = "recv" BY <1>0, <1>5, Zenon DEF P!RecvTimeout, P!Op
  <2>2. GotNothing(arg, r)
    BY <1>0, <1>5, Zenon DEF P!RecvTimeout, P!Take, P!GoesOn, P!machine, GotNothing, Got, Then
  <2> QED BY <2>1, <2>2, Zenon
<1> QED BY <1>1, <1>2, <1>3, <1>4, <1>5, Zenon DEF P!Next, P!Driver

LEMMA Undisturbed ==
    ASSUME NEW m, NEW s, Base, Settled(m, s) \/ Selected(m, s)
    PROVE  ~P!HandlerTakes /\ ~P!Stuck
<1>1. ~P!HandlerTakes
  <2>1. ~P!HasBit(config, 1) /\ ~P!HasBit(config, 2) BY ConfigBits, Zenon DEF Base
  <2> QED BY <2>1, Zenon DEF P!HandlerTakes
<1>2. ~P!Stuck
  <2>1. \/ inp = <<>> \/ inp = <<"cmd", 168>> \/ inp = <<"cmd", 174>> \/ inp = <<"cmd", 212>>
        \/ \E b \in Int : inp = <<"data", b>>
    BY Zenon DEF Settled, Selected, Idle, ToKeyboard, ToMouse
  <2> QED BY <2>1, SMT DEF P!Stuck
<1> QED BY <1>1, <1>2

(* What does not change during the set-up.                                 *)
Stays == Base' /\ hw' = hw /\ dev'.kb = dev.kb /\ dev'.ms = dev.ms

LEMMA StaysIs ==
    ASSUME Base, hw' = hw, dev' = dev, config' = config, late' = 0
    PROVE  Stays
  BY SMT DEF Base, DevTypeOK, Stays

LEMMA SettledSteps ==
    ASSUME NEW op, NEW arg, NEW r, NEW m, NEW s, NEW d,
           Starts(todo, op, arg, r), Base, At(todo, m, s, d), P!Next
    PROVE  \/ Stays /\ todo' = todo /\ Settled(m, s)' /\ drv' = d
           \/ op \in {"cmd", "data"} /\ SentOne(op, arg, r)
           \/ op = "inb" /\ Dropped(r)
           \/ op = "recv" /\ (GotByte(arg, r) \/ GotNothing(arg, r))
<1>0. Settled(m, s) /\ drv = d /\ hw # "absent" BY Zenon DEF At, Base
<1>1. ~P!HandlerTakes /\ ~P!Stuck BY <1>0, Undisturbed, Zenon
<1>2. CASE P!ControllerTakes \/ P!KeyboardSends \/ P!MouseSends
  <2>1. Settled(m, s)' /\ Kept BY <1>0, <1>2, SettledKept, Zenon
  <2> QED BY <1>0, <2>1, Zenon DEF Kept, Rest, Stays
<1> QED BY <1>0, <1>1, <1>2, DriverSteps, Zenon

LEMMA SelectedSteps ==
    ASSUME NEW op, NEW arg, NEW r, NEW m, NEW s, hw = "dual",
           Starts(todo, op, arg, r), Base, Selected(m, s), P!Next
    PROVE  \/ Stays /\ todo' = todo /\ Selected(m, s)' /\ drv' = drv
           \/ op \in {"cmd", "data"} /\ SentOne(op, arg, r)
           \/ op = "inb" /\ Dropped(r)
           \/ op = "recv" /\ (GotByte(arg, r) \/ GotNothing(arg, r))
<1>0. hw # "absent" BY Zenon DEF Base
<1>1. ~P!HandlerTakes /\ ~P!Stuck BY Undisturbed, Zenon
<1>2. CASE P!ControllerTakes \/ P!KeyboardSends \/ P!MouseSends
  <2>1. Selected(m, s)' /\ Kept BY <1>0, <1>2, SelectedKept, Zenon
  <2> QED BY <2>1, Zenon DEF Kept, Rest, Stays
<1> QED BY <1>0, <1>1, <1>2, DriverSteps, Zenon

LEMMA OpNames ==
    /\ "cmd" # "inb" /\ "cmd" # "recv" /\ "data" # "inb" /\ "data" # "recv"
    /\ "inb" \notin {"cmd", "data"} /\ "inb" # "recv" /\ "recv" \notin {"cmd", "data"} OBVIOUS

(* A command to enable a port.                                             *)
LEMMA FromCmd ==
    ASSUME NEW c \in {168, 174}, NEW n \in Nat, NEW r \in Seq(Access), NEW m, NEW s, NEW d,
           Base, At(Then(P!CmdOrSkip(c, n), r), m, s, d), P!Next
    PROVE  Stays /\ (At(Then(P!CmdOrSkip(c, n), r), m, s, d)' \/ At(r, m, s, d)')
<1> DEFINE t == Then(P!CmdOrSkip(c, n), r)
<1>1. todo = t /\ Settled(m, s) /\ drv = d BY Zenon DEF At
<1>2. c \in Int OBVIOUS
<1>3. Starts(todo, "cmd", c, r) BY <1>1, <1>2, CmdStarts, Zenon
<1> HIDE DEF t
<1>4. At(todo, m, s, d) BY <1>1, Zenon DEF At
<1>5. \/ Stays /\ todo' = todo /\ Settled(m, s)' /\ drv' = d
      \/ SentOne("cmd", c, r)
  BY <1>3, <1>4, SettledSteps, OpNames, Zenon
<1>6. CASE Stays /\ todo' = todo /\ Settled(m, s)' /\ drv' = d
  BY <1>1, <1>6, Zenon DEF At, t
<1>7. CASE SentOne("cmd", c, r)
  <2>1. /\ inp = <<>> /\ inp' = <<"cmd", c>> /\ todo' = r /\ drv' = drv /\ hw' = hw
        /\ answer' = answer /\ config' = config /\ target' = target /\ dev' = dev /\ late' = late
    BY <1>7, Zenon DEF SentOne
  <2>2. Idle(m, s)
    <3>1. \A b \in Int : inp # <<"data", b>> BY <2>1
    <3> QED BY <1>1, <3>1, Zenon DEF Settled, ToKeyboard, ToMouse
  <2>3. inp' \in {<<>>, <<"cmd", 168>>, <<"cmd", 174>>} BY <2>1
  <2>4. Idle(m, s)' BY <2>1, <2>2, <2>3, Zenon DEF Idle
  <2>5. late' = 0 BY <2>1, Zenon DEF Base
  <2>6. Stays BY <2>1, <2>5, StaysIs, Zenon
  <2> QED BY <1>1, <2>1, <2>4, <2>6, Zenon DEF At, Settled
<1> QED BY <1>5, <1>6, <1>7, Zenon

(* A byte for the keyboard.                                                *)
LEMMA FromData ==
    ASSUME NEW b \in Int, NEW r \in Seq(Access), NEW m, NEW d, NEW kb, dev.kb = kb,
           Base, At(Then(P!Data(b), r), m, <<>>, d), P!Next
    PROVE  Stays /\ (At(Then(P!Data(b), r), m, <<>>, d)' \/ At(r, m, KbSays(kb, b), d)')
<1> DEFINE t == Then(P!Data(b), r)
<1>1. todo = t /\ Settled(m, <<>>) /\ drv = d BY Zenon DEF At
<1>3. Starts(todo, "data", b, r) BY <1>1, DataStarts, Zenon
<1> HIDE DEF t
<1>4. At(todo, m, <<>>, d) BY <1>1, Zenon DEF At
<1>5. \/ Stays /\ todo' = todo /\ Settled(m, <<>>)' /\ drv' = d
      \/ SentOne("data", b, r)
  BY <1>3, <1>4, SettledSteps, OpNames, Zenon
<1>6. CASE Stays /\ todo' = todo /\ Settled(m, <<>>)' /\ drv' = d
  BY <1>1, <1>6, Zenon DEF At, t
<1>7. CASE SentOne("data", b, r)
  <2>1. /\ inp = <<>> /\ inp' = <<"data", b>> /\ todo' = r /\ drv' = drv /\ hw' = hw
        /\ answer' = answer /\ config' = config /\ target' = target /\ dev' = dev /\ late' = late
    BY <1>7, Zenon DEF SentOne
  <2>2. Idle(m, <<>>)
    <3>1. \A x \in Int : inp # <<"data", x>> BY <2>1
    <3> QED BY <1>1, <3>1, Zenon DEF Settled, ToKeyboard, ToMouse
  <2>3. Nothing
    <3>1. dev \in DevSet BY Zenon DEF Base, DevTypeOK
    <3> QED BY <2>2, <3>1, NothingUnread, Zenon DEF Idle
  <2>4. ToKeyboard(m, KbSays(kb, b))'
    BY <2>1, <2>2, <2>3, Zenon DEF Idle, ToKeyboard, Nothing
  <2>5. late' = 0 BY <2>1, Zenon DEF Base
  <2>6. Stays BY <2>1, <2>5, StaysIs, Zenon
  <2> QED BY <1>1, <2>1, <2>4, <2>6, Zenon DEF At, Settled
<1> QED BY <1>5, <1>6, <1>7, Zenon

(* The driver waits for a byte.                                            *)
Value(s) == IF s = <<>> THEN -1 ELSE Head(s)
Less(s) == IF s = <<>> THEN <<>> ELSE Tail(s)

LEMMA FromRecv ==
    ASSUME NEW tag \in Tags, NEW r \in Seq(Access), NEW m, NEW s, NEW d,
           Base, At(Get(tag, r), m, s, d), P!Next, late' = 0
    PROVE  /\ Stays
           /\ \/ At(Get(tag, r), m, s, d)'
              \/ At(Then(r, P!Received(tag, Value(s), d).more), m, Less(s),
                    P!Received(tag, Value(s), d).drv)'
<1> DEFINE t == Get(tag, r)
<1>1. todo = t /\ Settled(m, s) /\ drv = d BY Zenon DEF At
<1>3. Starts(todo, "recv", tag, r) BY <1>1, GetType, Zenon
<1> HIDE DEF t
<1>4. At(todo, m, s, d) BY <1>1, Zenon DEF At
<1>5. \/ Stays /\ todo' = todo /\ Settled(m, s)' /\ drv' = d
      \/ GotByte(tag, r) \/ GotNothing(tag, r)
  BY <1>3, <1>4, SettledSteps, OpNames, Zenon
<1>0. dev \in DevSet /\ late = 0 BY Zenon DEF Base, DevTypeOK
<1>2. Queued(dev) \in Seq(Int) BY <1>0 DEF Queued, DevSet
<1>6. CASE Stays /\ todo' = todo /\ Settled(m, s)' /\ drv' = d
  BY <1>1, <1>6, Zenon DEF At, t
<1>7. CASE GotByte(tag, r)
  <2>1. Idle(m, s)
    BY <1>1, <1>7, Zenon DEF GotByte, Settled, ToKeyboard, ToMouse, Nothing
  <2>2. s = Then(<<answer[2]>>, Queued(dev))
    BY <1>7, <2>1, Zenon DEF Idle, Unread, GotByte
  <2>3. s # <<>> /\ Head(s) = answer[2] /\ Tail(s) = Queued(dev)
    BY <1>2, <2>2, FirstByteOf, Zenon
  <2>4. Value(s) = answer[2] /\ Less(s) = Queued(dev) BY <2>3, Zenon DEF Value, Less
  <2>5. Unread(<<>>, Queued(dev)) = Queued(dev) BY Zenon DEF Unread
  <2>6. /\ answer' = <<>> /\ hw' = hw /\ inp' = inp /\ config' = config /\ target' = target
        /\ dev' = dev /\ late' = late
        /\ drv' = P!Received(tag, Value(s), d).drv
        /\ todo' = Then(r, P!Received(tag, Value(s), d).more)
    BY <1>1, <1>7, <2>4, Zenon DEF GotByte, Got
  <2>7. Idle(m, Less(s))' BY <2>1, <2>4, <2>5, <2>6, Zenon DEF Idle
  <2>8. Stays BY <2>6, StaysIs, Zenon
  <2> QED BY <2>6, <2>7, <2>8, Zenon DEF At, Settled
<1>8. CASE GotNothing(tag, r)
  <2>1. ~P!Pending BY <1>0, <1>8 DEF GotNothing
  <2>2. Nothing BY <1>8, <2>1, Zenon DEF GotNothing, P!Pending, Nothing
  <2>3. Idle(m, s)
    <3>1. \A x \in Int : inp # <<"data", x>> BY <1>8 DEF GotNothing
    <3> QED BY <1>1, <3>1, Zenon DEF Settled, ToKeyboard, ToMouse
  <2>4. s = <<>> BY <2>2, <2>3, Zenon DEF Idle, Nothing, Unread, Queued
  <2>5. Value(s) = -1 /\ Less(s) = <<>> BY <2>4, Zenon DEF Value, Less
  <2>6. /\ answer' = answer /\ hw' = hw /\ inp' = inp /\ config' = config /\ target' = target
        /\ dev' = dev
        /\ drv' = P!Received(tag, Value(s), d).drv
        /\ todo' = Then(r, P!Received(tag, Value(s), d).more)
    BY <1>1, <1>8, <2>5, Zenon DEF GotNothing, Got
  <2>7. Idle(m, Less(s))' BY <2>3, <2>4, <2>5, <2>6, Zenon DEF Idle
  <2>8. Stays BY <2>6, StaysIs, Zenon
  <2> QED BY <2>6, <2>7, <2>8, Zenon DEF At, Settled
<1> QED BY <1>5, <1>6, <1>7, <1>8, Zenon

(* A byte for the mouse, while at most one byte is unread.                 *)
LEMMA FromSend ==
    ASSUME NEW b \in Int, NEW r \in Seq(Access), NEW m, NEW s, NEW d, NEW ms, dev.ms = ms,
           s = <<>> \/ \E x : s = <<x>>, hw = "dual",
           Base, Sending(b, r, m, s, d), P!Next, late' = 0
    PROVE  /\ Stays
           /\ Sending(b, r, m, s, d)' \/ At(r, Heeds(ms, m, b), Says(ms, m, b), d)'
<1> DEFINE t3 == Then(P!Data(b), r)
           t2 == Then(P!Inb, t3)
           t1 == Send2(b, r)
<1>0. dev \in DevSet /\ late = 0 BY Zenon DEF Base, DevTypeOK
<1>01. Queued(dev) \in Seq(Int) BY <1>0 DEF Queued, DevSet
<1>1. t2 \in Seq(Access) /\ t3 \in Seq(Access) BY Send2Type, Zenon
<1>2. Starts(t3, "data", b, r) BY DataStarts, Zenon
<1>3. Starts(t2, "inb", 0, t3) BY <1>1, InbStarts, Zenon
<1>4. Starts(t1, "cmd", 212, t2)
  <2>1. 212 \in Int /\ 2 \in Nat OBVIOUS
  <2> HIDE DEF t2
  <2>2. Starts(Then(P!CmdOrSkip(212, 2), t2), "cmd", 212, t2)
    BY <1>1, <2>1, CmdStarts, Zenon
  <2> QED BY <2>2, Zenon DEF t2, Send2
<1>5. SUFFICES ASSUME NEW u1, NEW u2, NEW u3, u1 = t1, u2 = t2, u3 = t3
               PROVE  \/ Stays /\ At(u1, m, s, d)'
                      \/ Stays /\ todo' = u2 /\ Selected(m, s)' /\ drv' = d
                      \/ Stays /\ todo' = u3 /\ Selected(m, <<>>)' /\ drv' = d
                      \/ Stays /\ At(r, Heeds(ms, m, b), Says(ms, m, b), d)'
  BY <1>5, Zenon DEF Sending
<1>6. \/ todo = u1 /\ Settled(m, s) /\ drv = d
      \/ todo = u2 /\ Selected(m, s) /\ drv = d
      \/ todo = u3 /\ Selected(m, <<>>) /\ drv = d
  BY <1>5, Zenon DEF Sending, At
<1>7. Starts(u3, "data", b, r) /\ Starts(u2, "inb", 0, u3) /\ Starts(u1, "cmd", 212, u2)
  BY <1>2, <1>3, <1>4, <1>5, Zenon
<1> HIDE DEF t1, t2, t3
<1>8. CASE todo = u1 /\ Settled(m, s) /\ drv = d
  <2>1. At(todo, m, s, d) /\ Starts(todo, "cmd", 212, u2) BY <1>7, <1>8, Zenon DEF At
  <2>2. \/ Stays /\ todo' = todo /\ Settled(m, s)' /\ drv' = d
        \/ SentOne("cmd", 212, u2)
    BY <2>1, SettledSteps, OpNames, Zenon
  <2>3. CASE SentOne("cmd", 212, u2)
    <3>1. /\ inp = <<>> /\ inp' = <<"cmd", 212>> /\ todo' = u2 /\ drv' = drv /\ hw' = hw
          /\ answer' = answer /\ config' = config /\ target' = target /\ dev' = dev
    BY <2>3, Zenon DEF SentOne
    <3>2. Idle(m, s)
      <4>1. \A x \in Int : inp # <<"data", x>> BY <3>1
      <4> QED BY <1>8, <4>1, Zenon DEF Settled, ToKeyboard, ToMouse
    <3>3. Selected(m, s)' BY <3>1, <3>2, Zenon DEF Idle, Selected
    <3>4. Stays BY <3>1, StaysIs, Zenon
    <3> QED BY <1>8, <3>1, <3>3, <3>4, Zenon
  <2> QED BY <1>8, <2>2, <2>3, Zenon DEF At
<1>9. CASE todo = u2 /\ Selected(m, s) /\ drv = d
  <2>1. Starts(todo, "inb", 0, u3) BY <1>7, <1>9, Zenon
  <2>2. \/ Stays /\ todo' = todo /\ Selected(m, s)' /\ drv' = drv
        \/ Dropped(u3)
    BY <1>9, <2>1, SelectedSteps, OpNames, Zenon
  <2>3. CASE Dropped(u3)
    <3>1. ~(answer = <<>> /\ P!Pending) BY <1>0, <2>3 DEF Dropped
    <3>2. s = Unread(answer, Queued(dev)) BY <1>9, Zenon DEF Selected
    <3>3. Queued(dev) = <<>>
      <4>1. CASE answer = <<>> BY <3>1, <4>1, Zenon DEF P!Pending, Queued
      <4>2. CASE answer # <<>>
        <5>1. s = Then(<<answer[2]>>, Queued(dev)) BY <3>2, <4>2, Zenon DEF Unread
        <5>2. s # <<>> /\ Tail(s) = Queued(dev) BY <1>01, <5>1, FirstByteOf, Zenon
        <5>3. PICK x : s = <<x>> BY <5>2
        <5>4. Tail(<<x>>) = <<>> OBVIOUS
        <5> QED BY <5>2, <5>3, <5>4, Zenon
      <4> QED BY <4>1, <4>2
    <3>4. /\ answer' = <<>> /\ todo' = u3 /\ drv' = drv /\ hw' = hw /\ inp' = inp
          /\ config' = config /\ target' = target /\ dev' = dev
      BY <2>3, Zenon DEF Dropped
    <3>5. Unread(<<>>, <<>>) = <<>> BY Zenon DEF Unread
    <3>6. Selected(m, <<>>)' BY <1>9, <3>3, <3>4, <3>5, Zenon DEF Selected
    <3>7. Stays BY <3>4, StaysIs, Zenon
    <3> QED BY <1>9, <3>4, <3>6, <3>7, Zenon
  <2> QED BY <1>9, <2>2, <2>3, Zenon
<1>10. CASE todo = u3 /\ Selected(m, <<>>) /\ drv = d
  <2>1. Starts(todo, "data", b, r) BY <1>7, <1>10, Zenon
  <2>2. \/ Stays /\ todo' = todo /\ Selected(m, <<>>)' /\ drv' = drv
        \/ SentOne("data", b, r)
    BY <1>10, <2>1, SelectedSteps, OpNames, Zenon
  <2>3. CASE SentOne("data", b, r)
    <3>1. /\ inp = <<>> /\ inp' = <<"data", b>> /\ todo' = r /\ drv' = drv /\ hw' = hw
          /\ answer' = answer /\ config' = config /\ target' = target /\ dev' = dev
    BY <2>3, Zenon DEF SentOne
    <3>2. target = "p2" /\ Unread(answer, Queued(dev)) = <<>> /\ m = StateOf(dev)
      BY <1>10, <3>1 DEF Selected
    <3>3. Nothing BY <1>0, <3>2, NothingUnread, Zenon
    <3>4. ToMouse(Heeds(ms, m, b), Says(ms, m, b))'
      BY <3>1, <3>2, <3>3, Zenon DEF ToMouse, Nothing
    <3>5. Stays BY <3>1, StaysIs, Zenon
    <3> QED BY <1>10, <3>1, <3>4, <3>5, Zenon DEF At, Settled
  <2> QED BY <1>10, <2>2, <2>3, Zenon
<1> QED BY <1>6, <1>8, <1>9, <1>10, Zenon

-----------------------------------------------------------------------------
(* What the driver does with what it gets.                                 *)

Pair(dd, more) == [drv |-> dd, more |-> more]
Goes(tag, v, d, dd, more) ==
    P!Received(tag, v, d).drv = dd /\ P!Received(tag, v, d).more = more

LEMMA PairIs ==
    ASSUME NEW tag, NEW v, NEW d, NEW dd, NEW more,
           P!Received(tag, v, d) = Pair(dd, more)
    PROVE  Goes(tag, v, d, dd, more)
<1>1. Pair(dd, more).drv = dd /\ Pair(dd, more).more = more BY DEF Pair
<1> QED BY <1>1, Zenon DEF Goes

WithP1(d, x) == [d EXCEPT !.p1 = x]
WithP2(d, x) == [d EXCEPT !.p2 = x]
WithType(d, x) == [d EXCEPT !.type = x]
WithDual(d, x) == [d EXCEPT !.dual = x]
Clear(v) == P!Without(P!Without(P!Without(v % 256, 1), 2), 64)

(* One of the answers waited for at a time.                                *)

LEMMA OnUnused ==
    ASSUME NEW v, NEW d, NEW tag \in {"ack", "unused"}
    PROVE  P!Received(tag, v, d) = Pair(d, <<>>)
  BY SMT DEF P!Received, Pair

LEMMA OnP1Reset ==
    ASSUME NEW v, NEW d
    PROVE  /\ v = 250 => P!Received("p1_reset", v, d)
                      = Pair(d, P!Recv("p1_passed"))
           /\ v # 250 => P!Received("p1_reset", v, d)
                      = Pair(d, P!AfterPort1(d))
<1>1. P!Received("p1_reset", v, d)
        = Pair(d, IF v = 250 THEN P!Recv("p1_passed") ELSE P!AfterPort1(d))
  BY SMT DEF P!Received, Pair, P!PS2_ACK
<1> QED BY <1>1, Zenon

LEMMA OnP1Passed ==
    ASSUME NEW v, NEW d, v = 170
    PROVE  P!Received("p1_passed", v, d)
             = Pair(d, P!SendPort1(242) \o P!Recv("ack") \o P!Recv("p1_type"))
  BY SMT DEF P!Received, Pair

LEMMA OnP1Type ==
    ASSUME NEW v, NEW d, v = 171
    PROVE  P!Received("p1_type", v, d)
             = Pair(d, P!Recv("p1_type2"))
  BY SMT DEF P!Received, Pair

LEMMA OnP1Type2 ==
    ASSUME NEW v, NEW d, v = 131
    PROVE  P!Received("p1_type2", v, d)
             = Pair(WithP1(d, P!PS2_DEV_MF2_KEYBOARD), P!AfterPort1(d))
  BY SMT DEF P!Received, Pair, WithP1, P!PS2_DEV_MF2_KEYBOARD

LEMMA OnP2Reset ==
    ASSUME NEW v, NEW d
    PROVE  /\ v = 250 => P!Received("p2_reset", v, d)
                      = Pair(d, P!Recv("p2_passed"))
           /\ v # 250 => P!Received("p2_reset", v, d)
                      = Pair(d, P!Kernel(d))
<1>1. P!Received("p2_reset", v, d)
        = Pair(d, IF v = 250 THEN P!Recv("p2_passed") ELSE P!Kernel(d))
  BY SMT DEF P!Received, Pair, P!PS2_ACK
<1> QED BY <1>1, Zenon

LEMMA OnP2Passed ==
    ASSUME NEW v, NEW d, v = 170
    PROVE  P!Received("p2_passed", v, d)
             = Pair(d, P!SendPort2(242) \o P!Recv("ack") \o P!Recv("p2_type"))
  BY SMT DEF P!Received, Pair

LEMMA OnP2Type ==
    ASSUME NEW v, NEW d, v = 0
    PROVE  P!Received("p2_type", v, d)
             = Pair(WithP2(d, 0), P!Kernel(WithP2(d, 0)))
  BY SMT DEF P!Received, Pair, WithP2

LEMMA OnId ==
    ASSUME NEW v, NEW d
    PROVE  /\ v = 3 => P!Received("id", v, d)
                      = Pair(P!WithId(v, d), P!Magic(200, 200, 80, "id2"))
           /\ v # 3 => P!Received("id", v, d)
                      = Pair(P!WithId(v, d), P!EnableIrqs)
<1>1. P!Received("id", v, d)
        = Pair(P!WithId(v, d), IF v = 3 THEN P!Magic(200, 200, 80, "id2") ELSE P!EnableIrqs)
  BY SMT DEF P!Received, Pair
<1> QED BY <1>1, Zenon

LEMMA OnId2 ==
    ASSUME NEW v, NEW d
    PROVE  P!Received("id2", v, d)
             = Pair(WithType(d, v), P!EnableIrqs)
  BY SMT DEF P!Received, Pair, WithType

LEMMA OnIrqs ==
    ASSUME NEW v, NEW d
    PROVE  P!Received("irqs", v, d)
             = Pair(d, P!Cmd(96) \o P!Data(On12(v % 256)))
  BY SMT DEF P!Received, Pair, On12

LEMMA OnConfig ==
    ASSUME NEW v, NEW d
    PROVE  P!Received("config", v, d)
             = Pair(WithDual(d, P!HasBit(Clear(v), 32)),
                  P!Cmd(96) \o P!Data(Clear(v)) \o P!Cmd(170) \o P!Recv("self_test"))
  BY SMT DEF P!Received, Pair, Clear, WithDual

LEMMA OnSelfTest ==
    ASSUME NEW v, NEW d, v = 85
    PROVE  P!Received("self_test", v, d)
             = Pair(d, P!Cmd(171) \o P!Recv("p1_test"))
  BY SMT DEF P!Received, Pair

LEMMA OnP1Test ==
    ASSUME NEW v, NEW d
    PROVE  /\ d.dual => P!Received("p1_test", v, d)
                      = Pair(d, P!Cmd(169) \o P!Recv("p2_test"))
           /\ ~d.dual => P!Received("p1_test", v, d)
                      = Pair(d, P!Port1)
<1>1. P!Received("p1_test", v, d)
        = Pair(d, IF d.dual THEN P!Cmd(169) \o P!Recv("p2_test") ELSE P!Port1)
  BY SMT DEF P!Received, Pair
<1> QED BY <1>1, Zenon

LEMMA OnP2Test ==
    ASSUME NEW v, NEW d
    PROVE  P!Received("p2_test", v, d)
             = Pair(WithDual(d, v = 0), P!Port1)
  BY SMT DEF P!Received, Pair, WithDual

LEMMA FromRecvTo ==
    ASSUME NEW tag \in Tags, NEW r \in Seq(Access), NEW m, NEW s, NEW d,
           NEW t2, NEW s2, NEW d2, NEW more,
           P!Received(tag, Value(s), d) = Pair(d2, more), Then(r, more) = t2, Less(s) = s2,
           Base, At(Get(tag, r), m, s, d), P!Next, late' = 0
    PROVE  Stays /\ (At(Get(tag, r), m, s, d)' \/ At(t2, m, s2, d2)')
<1>1. Goes(tag, Value(s), d, d2, more) BY PairIs, Zenon
<1>2. P!Received(tag, Value(s), d).drv = d2 /\ P!Received(tag, Value(s), d).more = more
  BY <1>1, Zenon DEF Goes
<1>3. /\ Stays
      /\ \/ At(Get(tag, r), m, s, d)'
         \/ At(Then(r, P!Received(tag, Value(s), d).more), m, Less(s),
               P!Received(tag, Value(s), d).drv)'
  BY FromRecv, Zenon
<1> QED BY <1>2, <1>3, Zenon

(* An answer that is not looked at.                                        *)
LEMMA FromUnused ==
    ASSUME NEW tag \in {"ack", "unused"}, NEW r \in Seq(Access), NEW m, NEW s, NEW d, NEW s2,
           Less(s) = s2, Base, At(Get(tag, r), m, s, d), P!Next, late' = 0
    PROVE  Stays /\ (At(Get(tag, r), m, s, d)' \/ At(r, m, s2, d)')
<1>1. tag \in Tags BY DEF Tags
<1>2. P!Received(tag, Value(s), d) = Pair(d, <<>>) BY OnUnused, Zenon
<1>3. Then(r, <<>>) = r BY Flat, Zenon
<1> QED BY <1>1, <1>2, <1>3, FromRecvTo, Zenon

LEMMA Answers ==
    /\ Value(<<>>) = -1 /\ Less(<<>>) = <<>>
    /\ \A x : Value(<<x>>) = x /\ Less(<<x>>) = <<>>
    /\ \A x, y : Value(<<x, y>>) = x /\ Less(<<x, y>>) = <<y>>
    /\ \A x, y, z : Value(<<x, y, z>>) = x /\ Less(<<x, y, z>>) = <<y, z>>
<1>1. Value(<<>>) = -1 /\ Less(<<>>) = <<>> BY Zenon DEF Value, Less
<1>2. ASSUME NEW x
      PROVE  Value(<<x>>) = x /\ Less(<<x>>) = <<>>
  BY DEF Value, Less
<1>3. ASSUME NEW x, NEW y
      PROVE  Value(<<x, y>>) = x /\ Less(<<x, y>>) = <<y>>
  BY DEF Value, Less
<1>4. ASSUME NEW x, NEW y, NEW z
      PROVE  Value(<<x, y, z>>) = x /\ Less(<<x, y, z>>) = <<y, z>>
  BY DEF Value, Less
<1> QED BY <1>1, <1>2, <1>3, <1>4, Zenon

(* The last access before the driver decides what comes next.              *)
LEMMA Decides ==
    ASSUME NEW tag \in Tags, NEW m, NEW s, NEW d, NEW x, NEW s2, NEW d2, NEW more, NEW t2,
           Value(s) = x, Less(s) = s2,
           P!Received(tag, x, d) = Pair(d2, more), Then(<<>>, more) = t2,
           Base, At(Get(tag, <<>>), m, s, d), P!Next, late' = 0
    PROVE  Stays /\ (At(Get(tag, <<>>), m, s, d)' \/ At(t2, m, s2, d2)')
<1>1. <<>> \in Seq(Access) OBVIOUS
<1>2. P!Received(tag, Value(s), d) = Pair(d2, more) BY Zenon
<1> QED BY <1>1, <1>2, FromRecvTo, Zenon

LEMMA DecidesOn ==
    ASSUME NEW tag \in Tags, NEW m, NEW d, NEW x, NEW d2, NEW more, NEW t2,
           P!Received(tag, x, d) = Pair(d2, more), Then(<<>>, more) = t2,
           Base, P!Next, late' = 0, At(Get(tag, <<>>), m, <<x>>, d)
    PROVE  Stays /\ (At(Get(tag, <<>>), m, <<x>>, d)' \/ At(t2, m, <<>>, d2)')
<1>1. Value(<<x>>) = x /\ Less(<<x>>) = <<>> BY Answers, Zenon
<1> QED BY <1>1, Decides, Zenon

LEMMA DecidesOnFirst ==
    ASSUME NEW tag \in Tags, NEW m, NEW d, NEW x, NEW y, NEW s, s = <<x, y>>,
           NEW d2, NEW more, NEW t2,
           P!Received(tag, x, d) = Pair(d2, more), Then(<<>>, more) = t2,
           Base, P!Next, late' = 0, At(Get(tag, <<>>), m, s, d)
    PROVE  Stays /\ (At(Get(tag, <<>>), m, s, d)' \/ At(t2, m, <<y>>, d2)')
<1>1. Value(s) = x /\ Less(s) = <<y>> BY Answers, Zenon
<1> QED BY <1>1, Decides, Zenon

LEMMA TagNames == \A t \in Tags : Then(<<>>, P!Recv(t)) = Get(t, <<>>)
<1> SUFFICES ASSUME NEW t \in Tags
             PROVE  Then(<<>>, P!Recv(t)) = Get(t, <<>>) OBVIOUS
<1>1. P!Recv(t) \in Seq(Access) /\ P!Recv(t) = Get(t, <<>>)
  BY GetType, EarlyTypes, Zenon
<1> QED BY <1>1, Flat, Zenon

LEMMA VarsFields ==
    ASSUME NEW h, NEW p1, NEW p2, NEW type, NEW size
    PROVE  /\ Vars(h, p1, p2, type, size).dual <=> h = "dual"
           /\ Vars(h, p1, p2, type, size).p1 = p1 /\ Vars(h, p1, p2, type, size).p2 = p2
           /\ Vars(h, p1, p2, type, size).type = type /\ Vars(h, p1, p2, type, size).size = size
<1> DEFINE b == h = "dual"
           d == [dual |-> b, p1 |-> p1, p2 |-> p2, type |-> type, size |-> size]
<1>1. Vars(h, p1, p2, type, size) = d BY Zenon DEF Vars
<1> HIDE DEF b
<1>2. d.dual = b /\ d.p1 = p1 /\ d.p2 = p2 /\ d.type = type /\ d.size = size OBVIOUS
<1> HIDE DEF d
<1> QED BY <1>1, <1>2, Zenon DEF b

LEMMA VarsChanged ==
    ASSUME NEW h, NEW p1, NEW p2, NEW type, NEW size, NEW x
    PROVE  /\ WithP1(Vars(h, p1, p2, type, size), x) = Vars(h, x, p2, type, size)
           /\ WithP2(Vars(h, p1, p2, type, size), x) = Vars(h, p1, x, type, size)
           /\ WithType(Vars(h, p1, p2, type, size), x) = Vars(h, p1, p2, x, size)
<1> DEFINE b == h = "dual"
           d == [dual |-> b, p1 |-> p1, p2 |-> p2, type |-> type, size |-> size]
<1>1. Vars(h, p1, p2, type, size) = d BY Zenon DEF Vars
<1> HIDE DEF b
<1>2. /\ [d EXCEPT !.p1 = x]
           = [dual |-> b, p1 |-> x, p2 |-> p2, type |-> type, size |-> size]
      /\ [d EXCEPT !.p2 = x]
           = [dual |-> b, p1 |-> p1, p2 |-> x, type |-> type, size |-> size]
      /\ [d EXCEPT !.type = x]
           = [dual |-> b, p1 |-> p1, p2 |-> p2, type |-> x, size |-> size] OBVIOUS
<1> HIDE DEF d
<1> QED BY <1>1, <1>2, Zenon DEF Vars, b, WithP1, WithP2, WithType

LEMMA EnableIrqsIs ==
    /\ P!EnableIrqs = Then(P!Cmd(32), Get("irqs", <<>>))
    /\ Then(P!Cmd(32), Get("irqs", <<>>)) \in Seq(Access)
<1>1. 32 \in Int OBVIOUS
<1>2. "irqs" \in Tags BY DEF Tags
<1> QED BY <1>1, <1>2, TestIs, CmdType, KeyboardTypes, Zenon DEF P!EnableIrqs

(* kernel_enter goes on with the mouse, or with ps2_enable_irqs.           *)
LEMMA AfterPort1Is ==
    ASSUME NEW h, NEW x
    PROVE  LET d == Vars(h, x, P!PS2_DEV_NONE, 0, 3)
           IN /\ Then(<<>>, P!Kernel(d)) = Then(P!Cmd(32), Get("irqs", <<>>))
              /\ h # "dual" => Then(<<>>, P!AfterPort1(d)) = Then(P!Cmd(32), Get("irqs", <<>>))
              /\ h = "dual" => Then(<<>>, P!AfterPort1(d)) = Then(P!CmdOrSkip(168, 1), MsReset)
<1> DEFINE d == Vars(h, x, P!PS2_DEV_NONE, 0, 3)
<1>1. (d.dual <=> h = "dual") /\ d.p2 = P!PS2_DEV_NONE BY VarsFields, SMT
<1>2. d.p2 # 0
  <2> HIDE DEF d
  <2> QED BY <1>1 DEF P!PS2_DEV_NONE
<1>3. Then(<<>>, P!EnableIrqs) = Then(P!Cmd(32), Get("irqs", <<>>))
  BY EnableIrqsIs, Flat, SMT
<1>4. P!Port2 = Then(P!CmdOrSkip(168, 1), MsReset) BY Port2Is
<1>5. P!Port2 \in Seq(Access)
  <2>1. 168 \in Int /\ 1 \in Nat OBVIOUS
  <2> QED BY <2>1, <1>4, CmdStarts, KeyboardTypes, SMT DEF Starts
<1>6. Then(<<>>, P!Port2) = P!Port2 BY <1>5, Flat, Zenon
<1> HIDE DEF d
<1>7. P!Kernel(d) = P!EnableIrqs BY <1>2, Zenon DEF P!Kernel
<1>8. P!AfterPort1(d) = IF h = "dual" THEN P!Port2 ELSE P!EnableIrqs
  BY <1>1, <1>7, Zenon DEF P!AfterPort1
<1> QED BY <1>3, <1>4, <1>6, <1>7, <1>8, Zenon DEF d

-----------------------------------------------------------------------------
(* The keyboard is reset and asked what it is.                             *)

LEMMA MachineFacts ==
    ASSUME NEW h, NEW kb, NEW ms, Machine(h, kb, ms), Base
    PROVE  /\ hw = h /\ dev.kb = kb /\ dev.ms = ms /\ h \in {"single", "dual"}
           /\ ms \in {"none", "generic", "zaxis", "5btn"}
           /\ kb \in BOOLEAN
           /\ h = "single" => ms = "none"
           /\ Stays => Machine(h, kb, ms)' /\ Base'
  BY Zenon DEF Machine, Stays

(* The driver goes on to ps2_enable_irqs, in agreement with the mouse.     *)
LEMMA ToIrqs ==
    ASSUME NEW h, NEW kb, NEW ms, NEW m, NEW d,
           m \in Ends,
           Agreed(h, kb, ms, m, d),
           At(Then(P!Cmd(32), Get("irqs", <<>>)), m, <<>>, d)'
    PROVE  AskPoint(h, kb, ms)'
<1>1. drv' = d BY Zenon DEF At
<1>2. Agreed(h, kb, ms, m, drv') BY <1>1, Zenon
<1>3. At(Then(P!Cmd(32), Get("irqs", <<>>)), m, <<>>, drv)' BY <1>1, Zenon DEF At
<1> QED BY <1>2, <1>3, Zenon DEF AskPoint, Ask

(* After port 1: to port 2 if there is one.                                *)
LEMMA AfterKeyboard ==
    ASSUME NEW h, NEW kb, NEW ms, h = "dual" \/ (h = "single" /\ ms = "none"),
           NEW t, NEW d, d = Vars(h, P1(kb), P!PS2_DEV_NONE, 0, 3),
           t = Then(<<>>, P!AfterPort1(d)), At(t, Fresh, <<>>, d)'
    PROVE  ResetPoint(h, kb, ms)' \/ AskPoint(h, kb, ms)'
<1>1. CASE h = "dual"
  <2>1. t = Then(P!CmdOrSkip(168, 1), MsReset) BY <1>1, AfterPort1Is, Zenon
  <2> QED BY <1>1, <2>1, Zenon DEF ResetPoint
<1>2. CASE h = "single" /\ ms = "none"
  <2>0. h # "dual" BY <1>2
  <2>1. At(Then(P!Cmd(32), Get("irqs", <<>>)), Fresh, <<>>, d)'
    BY <2>0, AfterPort1Is, Zenon
  <2>2. Agreed(h, kb, ms, Fresh, d) BY <1>2, Zenon DEF Agreed
  <2>3. Fresh \in Ends BY Zenon DEF Ends
  <2> QED BY <2>1, <2>2, <2>3, ToIrqs, Zenon
<1> QED BY <1>1, <1>2

LEMMA KeyboardAnswers ==
    ASSUME NEW kb \in BOOLEAN
    PROVE  /\ kb => KbSays(kb, 255) = <<250, 170>> /\ KbSays(kb, 242) = <<250, 171, 131>>
           /\ ~kb => KbSays(kb, 255) = <<>>
<1>1. P!KbAnswer(255) = <<250, 170>> BY SMT DEF P!KbAnswer, P!PS2_ACK
<1>2. P!KbAnswer(242) = <<250, 171, 131>> BY SMT DEF P!KbAnswer, P!PS2_ACK
<1> QED BY <1>1, <1>2, Zenon DEF KbSays

LEMMA KeyboardStep ==
    ASSUME NEW h, NEW kb, NEW ms, Machine(h, kb, ms), Base,
           KeyboardPoint(h, kb), P!Next, late' = 0
    PROVE  Stays /\ (KeyboardPoint(h, kb)' \/ ResetPoint(h, kb, ms)' \/ AskPoint(h, kb, ms)')
<1> DEFINE d == Vars(h, P!PS2_DEV_NONE, P!PS2_DEV_NONE, 0, 3)
           dk == Vars(h, P1(kb), P!PS2_DEV_NONE, 0, 3)
           g1 == Get("p1_reset", <<>>)
           g2 == Then(P!Data(255), g1)
           a1 == Get("p1_type", <<>>)
           a2 == Get("ack", a1)
           t == Then(<<>>, P!AfterPort1(dk))
           on == ResetPoint(h, kb, ms)' \/ AskPoint(h, kb, ms)'
<1>0. /\ dev.kb = kb /\ kb \in BOOLEAN /\ h \in {"single", "dual"}
      /\ h = "single" => ms = "none"
  BY Zenon DEF Machine
<1>01. /\ "p1_reset" \in Tags /\ "p1_passed" \in Tags /\ "p1_type" \in Tags
       /\ "p1_type2" \in Tags /\ "ack" \in {"ack", "unused"}
  BY DEF Tags
<1>02. 255 \in Int OBVIOUS
<1>002. 242 \in Int OBVIOUS
<1>003. dev.kb = kb BY <1>0, Zenon
<1>03. /\ g1 \in Seq(Access) /\ g2 \in Seq(Access) /\ a1 \in Seq(Access) /\ a2 \in Seq(Access)
  BY KeyboardTypes, Zenon
<1>04. kb => KbSays(kb, 255) = <<250, 170>> /\ KbSays(kb, 242) = <<250, 171, 131>>
  BY <1>0, KeyboardAnswers, Zenon
<1>05. ~kb => KbSays(kb, 255) = <<>> BY <1>0, KeyboardAnswers, Zenon
<1>06. ~kb => d = dk BY Zenon DEF P1
<1>07. WithP1(d, P!PS2_DEV_MF2_KEYBOARD)
         = Vars(h, P!PS2_DEV_MF2_KEYBOARD, P!PS2_DEV_NONE, 0, 3)
  BY VarsChanged, SMT
<1>08. kb => WithP1(d, P!PS2_DEV_MF2_KEYBOARD) = dk BY <1>07, Zenon DEF P1
<1>09. P!AfterPort1(d) = P!AfterPort1(dk)
  <2>1. (d.dual <=> dk.dual) /\ d.p2 = dk.p2 BY VarsFields, SMT
  <2> HIDE DEF d, dk
  <2> QED BY <2>1, Zenon DEF P!AfterPort1, P!Kernel
<1>10. At(t, Fresh, <<>>, dk)' => on
  <2>1. t = Then(<<>>, P!AfterPort1(dk)) /\ dk = Vars(h, P1(kb), P!PS2_DEV_NONE, 0, 3)
    BY Zenon
  <2>2. h = "dual" \/ (h = "single" /\ ms = "none") BY <1>0, Zenon
  <2> HIDE DEF t, dk
  <2> QED BY <2>1, <2>2, AfterKeyboard, Zenon
<1>11. Then(<<>>, P!AfterPort1(dk)) = t OBVIOUS
<1>12. KbIdentify \in Seq(Access) /\ KbIdentify = Then(P!Data(242), a2)
  BY <1>002, <1>03, CmdType, ZenonT(40) DEF KbIdentify
<1>13. g2 = Then(P!Data(255), g1) /\ a2 = Get("ack", a1)
       /\ g1 = Get("p1_reset", <<>>) /\ a1 = Get("p1_type", <<>>) OBVIOUS
<1>14. KeyboardPoint(h, kb)' <=>
         (\/ At(Then(P!Cmd(174), g2), Fresh, <<>>, d)'
          \/ At(g2, Fresh, <<>>, d)'
          \/ At(g1, Fresh, KbSays(kb, 255), d)'
          \/ kb /\ At(Get("p1_passed", <<>>), Fresh, <<170>>, d)'
          \/ kb /\ At(KbIdentify, Fresh, <<>>, d)'
          \/ kb /\ At(a2, Fresh, <<250, 171, 131>>, d)'
          \/ kb /\ At(a1, Fresh, <<171, 131>>, d)'
          \/ kb /\ At(Get("p1_type2", <<>>), Fresh, <<131>>, d)')
  BY Zenon DEF KeyboardPoint
<1> HIDE DEF d, dk, g1, g2, a1, a2, t, on
<1>21. CASE At(Then(P!Cmd(174), g2), Fresh, <<>>, d)
  <2>0. 174 \in {168, 174} /\ 0 \in Nat /\ 174 \in Int OBVIOUS
  <2>1. P!Cmd(174) = P!CmdOrSkip(174, 0) BY <2>0, OpTypes, Zenon
  <2>2. At(Then(P!CmdOrSkip(174, 0), g2), Fresh, <<>>, d) BY <1>21, <2>1, Zenon
  <2>3. Stays /\ (At(Then(P!CmdOrSkip(174, 0), g2), Fresh, <<>>, d)' \/ At(g2, Fresh, <<>>, d)')
    BY <2>0, <1>03, <2>2, FromCmd, SMT
  <2> QED BY <2>1, <2>3, <1>14, Zenon
<1>22. CASE At(g2, Fresh, <<>>, d)
  <2>1. At(Then(P!Data(255), g1), Fresh, <<>>, d) BY <1>13, <1>22, Zenon
  <2>2. Stays /\ (At(Then(P!Data(255), g1), Fresh, <<>>, d)' \/ At(g1, Fresh, KbSays(kb, 255), d)')
    BY <1>003, <1>02, <1>03, <2>1, FromData, ZenonT(40)
  <2> QED BY <2>2, <1>13, <1>14, Zenon
<1>23. CASE At(g1, Fresh, KbSays(kb, 255), d) /\ kb
  <2> DEFINE x == 250
             y == 170
             s == <<x, y>>
  <2>1. P!Received("p1_reset", x, d) = Pair(d, P!Recv("p1_passed")) BY OnP1Reset, Zenon
  <2>2. Then(<<>>, P!Recv("p1_passed")) = Get("p1_passed", <<>>)
    BY <1>01, TagNames, Zenon
  <2>3. s = <<x, y>> /\ At(Get("p1_reset", <<>>), Fresh, s, d)
    BY <1>04, <1>13, <1>23, Zenon
  <2> HIDE DEF s, x, y
  <2>4. Stays /\ (At(Get("p1_reset", <<>>), Fresh, s, d)'
                   \/ At(Get("p1_passed", <<>>), Fresh, <<y>>, d)')
    BY <1>01, <2>1, <2>2, <2>3, DecidesOnFirst, Zenon
  <2> QED BY <1>04, <1>13, <1>23, <2>4, <1>14, ZenonT(40) DEF s, x, y
<1>24. CASE At(g1, Fresh, KbSays(kb, 255), d) /\ ~kb
  <2>1. P!Received("p1_reset", -1, d) = Pair(d, P!AfterPort1(d))
    <3>1. -1 # 250 OBVIOUS
    <3> QED BY <3>1, OnP1Reset, Zenon
  <2>2. d = dk /\ Then(<<>>, P!AfterPort1(d)) = t BY <1>06, <1>11, <1>24, Zenon
  <2>3. Value(<<>>) = -1 /\ Less(<<>>) = <<>> BY Answers, Zenon
  <2>4. At(g1, Fresh, <<>>, d) BY <1>05, <1>24, Zenon
  <2>5. Stays /\ (At(g1, Fresh, <<>>, d)' \/ At(t, Fresh, <<>>, d)')
    BY <1>01, <1>13, <2>4, <2>1, <2>2, <2>3, Decides, Zenon
  <2> QED BY <1>05, <1>24, <2>2, <2>5, <1>10, <1>14, Zenon DEF on
<1>25. CASE kb /\ At(Get("p1_passed", <<>>), Fresh, <<170>>, d)
  <2>1. P!Received("p1_passed", 170, d)
          = Pair(d, P!SendPort1(242) \o P!Recv("ack") \o P!Recv("p1_type"))
    BY OnP1Passed, Zenon
  <2>2. P!Received("p1_passed", 170, d) = Pair(d, KbIdentify) BY <2>1, IdentifyIs, Zenon
  <2>3. Then(<<>>, KbIdentify) = KbIdentify
    <3>1. KbIdentify \in Seq(Access) BY <1>12, Zenon
    <3> QED BY <3>1, Flat, Zenon
  <2>5. Stays /\ (At(Get("p1_passed", <<>>), Fresh, <<170>>, d)' \/ At(KbIdentify, Fresh, <<>>, d)')
    BY <1>01, <1>25, <2>2, <2>3, DecidesOn, Zenon
  <2> QED BY <1>25, <2>5, <1>14, Zenon
<1>26. CASE kb /\ At(KbIdentify, Fresh, <<>>, d)
  <2>1. Stays /\ (At(KbIdentify, Fresh, <<>>, d)' \/ At(a2, Fresh, KbSays(kb, 242), d)')
    BY <1>003, <1>002, <1>03, <1>12, <1>26, FromData, ZenonT(40)
  <2> QED BY <1>04, <1>26, <2>1, <1>14, Zenon
<1>27. CASE kb /\ At(a2, Fresh, <<250, 171, 131>>, d)
  <2>1. Less(<<250, 171, 131>>) = <<171, 131>> BY Answers, SMT
  <2>2. Stays /\ (At(a2, Fresh, <<250, 171, 131>>, d)' \/ At(a1, Fresh, <<171, 131>>, d)')
    BY <1>01, <1>03, <1>13, <1>27, <2>1, FromUnused, ZenonT(40)
  <2> QED BY <1>27, <2>2, <1>14, Zenon
<1>28. CASE kb /\ At(a1, Fresh, <<171, 131>>, d)
  <2>1. P!Received("p1_type", 171, d) = Pair(d, P!Recv("p1_type2")) BY OnP1Type, Zenon
  <2>2. Then(<<>>, P!Recv("p1_type2")) = Get("p1_type2", <<>>) BY <1>01, TagNames, Zenon
  <2> DEFINE s == <<171, 131>>
  <2>3. s = <<171, 131>> /\ At(Get("p1_type", <<>>), Fresh, s, d) BY <1>13, <1>28, Zenon
  <2> HIDE DEF s
  <2>4. Stays /\ (At(Get("p1_type", <<>>), Fresh, s, d)'
                   \/ At(Get("p1_type2", <<>>), Fresh, <<131>>, d)')
    BY <1>01, <2>1, <2>2, <2>3, DecidesOnFirst, SMT
  <2> QED BY <1>13, <1>28, <2>4, <1>14, Zenon DEF s
<1>29. CASE kb /\ At(Get("p1_type2", <<>>), Fresh, <<131>>, d)
  <2>1. P!Received("p1_type2", 131, d)
          = Pair(WithP1(d, P!PS2_DEV_MF2_KEYBOARD), P!AfterPort1(d))
    BY OnP1Type2, Zenon
  <2>2. P!Received("p1_type2", 131, d) = Pair(dk, P!AfterPort1(dk))
    BY <1>29, <2>1, <1>08, <1>09, Zenon
  <2>4. Stays /\ (At(Get("p1_type2", <<>>), Fresh, <<131>>, d)' \/ At(t, Fresh, <<>>, dk)')
    BY <1>01, <1>11, <1>29, <2>2, DecidesOn, Zenon
  <2> QED BY <1>29, <2>4, <1>10, <1>14, Zenon DEF on
<1>30. \/ At(Then(P!Cmd(174), g2), Fresh, <<>>, d)
       \/ At(g2, Fresh, <<>>, d)
       \/ At(g1, Fresh, KbSays(kb, 255), d)
       \/ kb /\ At(Get("p1_passed", <<>>), Fresh, <<170>>, d)
       \/ kb /\ At(KbIdentify, Fresh, <<>>, d)
       \/ kb /\ At(a2, Fresh, <<250, 171, 131>>, d)
       \/ kb /\ At(a1, Fresh, <<171, 131>>, d)
       \/ kb /\ At(Get("p1_type2", <<>>), Fresh, <<131>>, d)
  BY Zenon DEF KeyboardPoint, d, g1, g2, a1, a2
<1> QED BY <1>21, <1>22, <1>23, <1>24, <1>25, <1>26, <1>27, <1>28, <1>29, <1>30, Zenon

-----------------------------------------------------------------------------
(* The mouse is reset and asked what it is.                                *)

Hears(ms, m, b, m2, s2) == Heeds(ms, m, b) = m2 /\ Says(ms, m, b) = s2

(* A rate, after the command to set it.                                    *)
LEMMA HearsRate ==
    ASSUME NEW ms, ms # "none", NEW r, NEW i \in Int, NEW o \in BOOLEAN, NEW b \in Int,
           NEW m, m = State(r, i, o, TRUE)
    PROVE  Hears(ms, m, b, State(NewRates(r, b), i, o, FALSE), <<250>>)
<1>1. m.rates = r /\ m.id = i /\ m.reporting = o /\ m.rate_next BY Zenon DEF State
<1>3. Heeds(ms, m, b) = State(NewRates(m.rates, b), m.id, m.reporting, FALSE)
  BY <1>1, Zenon DEF Heeds
<1>4. Says(ms, m, b) = <<250>> BY <1>1, Zenon DEF Says
<1> QED BY <1>1, <1>3, <1>4, Zenon DEF Hears

(* The commands.                                                           *)
LEMMA HearsSetRate ==
    ASSUME NEW ms, ms # "none", NEW r, NEW i \in Int, NEW o \in BOOLEAN,
           NEW m, m = State(r, i, o, FALSE)
    PROVE  Hears(ms, m, 243, State(r, i, o, TRUE), <<250>>)
<1> DEFINE b == 243
           n == NewId(ms, r, i)
           x == NewId(ms, m.rates, m.id)
<1>1. m.rates = r /\ m.id = i /\ m.reporting = o /\ ~m.rate_next BY Zenon DEF State
<1>2. b = 243 /\ b \in Int OBVIOUS
<1>03. n \in Int BY DEF NewId
<1>3. m.id \in Int /\ m.reporting \in BOOLEAN /\ x = n /\ x \in Int
  BY <1>1, <1>03, Zenon
<1>4. HeedsId(ms, m, b) = m.id
  <2> DEFINE k == m.id
             v == HeedsId(ms, m, b)
  <2>1. v = (CASE b = 255 -> 0 [] b = 242 -> x [] OTHER -> k) /\ k \in Int /\ x \in Int
    BY <1>3, Zenon DEF HeedsId
  <2> HIDE DEF k, v, x
  <2>2. v = k BY <2>1, SMT
  <2> QED BY <2>2, Zenon DEF v, k, x
<1>5. HeedsOn(m, b) = m.reporting
  <2>1. b \notin {255, 246} /\ b # 244 BY <1>2
  <2> HIDE DEF b
  <2> QED BY <2>1, Zenon DEF HeedsOn
<1>6. HeedsNext(b) = TRUE BY <1>2, SMT DEF HeedsNext
<1>7. Says(ms, m, b) = <<250>>
  <2> SUFFICES (CASE b = 255 -> <<250, 170, 0>>
                  [] b = 242 -> <<250, n>>
                  [] b \in {246, 244, 243} -> <<250>>
                  [] OTHER -> <<254>>) = <<250>>
    BY <1>1, <1>3, ZenonT(40) DEF Says
  <2> HIDE DEF n
  <2> QED BY <1>03, SMT
<1> HIDE DEF b
<1>8. Heeds(ms, m, b) = State(m.rates, HeedsId(ms, m, b), HeedsOn(m, b), HeedsNext(b))
  BY <1>1, Zenon DEF Heeds
<1> QED BY <1>1, <1>3, <1>4, <1>5, <1>6, <1>7, <1>8, ZenonT(40) DEF b, Hears

LEMMA HearsIdentify ==
    ASSUME NEW ms, ms # "none", NEW r, NEW i \in Int, NEW o \in BOOLEAN,
           NEW m, m = State(r, i, o, FALSE)
    PROVE  Hears(ms, m, 242, State(r, NewId(ms, r, i), o, FALSE), <<250, NewId(ms, r, i)>>)
<1> DEFINE b == 242
           n == NewId(ms, r, i)
           x == NewId(ms, m.rates, m.id)
<1>1. m.rates = r /\ m.id = i /\ m.reporting = o /\ ~m.rate_next BY Zenon DEF State
<1>2. b = 242 /\ b \in Int OBVIOUS
<1>03. n \in Int BY DEF NewId
<1>3. m.id \in Int /\ m.reporting \in BOOLEAN /\ x = n /\ x \in Int
  BY <1>1, <1>03, Zenon
<1>4. HeedsId(ms, m, b) = NewId(ms, m.rates, m.id)
  <2> DEFINE k == m.id
             v == HeedsId(ms, m, b)
  <2>1. v = (CASE b = 255 -> 0 [] b = 242 -> x [] OTHER -> k) /\ k \in Int /\ x \in Int
    BY <1>3, Zenon DEF HeedsId
  <2> HIDE DEF k, v, x
  <2>2. v = x BY <2>1, SMT
  <2> QED BY <2>2, Zenon DEF v, k, x
<1>5. HeedsOn(m, b) = m.reporting
  <2>1. b \notin {255, 246} /\ b # 244 BY <1>2
  <2> HIDE DEF b
  <2> QED BY <2>1, Zenon DEF HeedsOn
<1>6. HeedsNext(b) = FALSE BY <1>2, SMT DEF HeedsNext
<1>7. Says(ms, m, b) = <<250, n>>
  <2> SUFFICES (CASE b = 255 -> <<250, 170, 0>>
                  [] b = 242 -> <<250, n>>
                  [] b \in {246, 244, 243} -> <<250>>
                  [] OTHER -> <<254>>) = <<250, n>>
    BY <1>1, <1>3, ZenonT(40) DEF Says
  <2> HIDE DEF n
  <2> QED BY <1>03, SMT
<1> HIDE DEF b
<1>8. Heeds(ms, m, b) = State(m.rates, HeedsId(ms, m, b), HeedsOn(m, b), HeedsNext(b))
  BY <1>1, Zenon DEF Heeds
<1> QED BY <1>1, <1>3, <1>4, <1>5, <1>6, <1>7, <1>8, ZenonT(40) DEF b, Hears

LEMMA HearsDefaults ==
    ASSUME NEW ms, ms # "none", NEW r, NEW i \in Int, NEW o \in BOOLEAN,
           NEW m, m = State(r, i, o, FALSE)
    PROVE  Hears(ms, m, 246, State(r, i, FALSE, FALSE), <<250>>)
<1> DEFINE b == 246
           n == NewId(ms, r, i)
           x == NewId(ms, m.rates, m.id)
<1>1. m.rates = r /\ m.id = i /\ m.reporting = o /\ ~m.rate_next BY Zenon DEF State
<1>2. b = 246 /\ b \in Int OBVIOUS
<1>03. n \in Int BY DEF NewId
<1>3. m.id \in Int /\ m.reporting \in BOOLEAN /\ x = n /\ x \in Int
  BY <1>1, <1>03, Zenon
<1>4. HeedsId(ms, m, b) = m.id
  <2> DEFINE k == m.id
             v == HeedsId(ms, m, b)
  <2>1. v = (CASE b = 255 -> 0 [] b = 242 -> x [] OTHER -> k) /\ k \in Int /\ x \in Int
    BY <1>3, Zenon DEF HeedsId
  <2> HIDE DEF k, v, x
  <2>2. v = k BY <2>1, SMT
  <2> QED BY <2>2, Zenon DEF v, k, x
<1>5. HeedsOn(m, b) = FALSE BY <1>2, SMT DEF HeedsOn
<1>6. HeedsNext(b) = FALSE BY <1>2, SMT DEF HeedsNext
<1>7. Says(ms, m, b) = <<250>>
  <2> SUFFICES (CASE b = 255 -> <<250, 170, 0>>
                  [] b = 242 -> <<250, n>>
                  [] b \in {246, 244, 243} -> <<250>>
                  [] OTHER -> <<254>>) = <<250>>
    BY <1>1, <1>3, ZenonT(40) DEF Says
  <2> HIDE DEF n
  <2> QED BY <1>03, SMT
<1> HIDE DEF b
<1>8. Heeds(ms, m, b) = State(m.rates, HeedsId(ms, m, b), HeedsOn(m, b), HeedsNext(b))
  BY <1>1, Zenon DEF Heeds
<1> QED BY <1>1, <1>3, <1>4, <1>5, <1>6, <1>7, <1>8, ZenonT(40) DEF b, Hears

LEMMA HearsEnable ==
    ASSUME NEW ms, ms # "none", NEW r, NEW i \in Int, NEW o \in BOOLEAN,
           NEW m, m = State(r, i, o, FALSE)
    PROVE  Hears(ms, m, 244, State(r, i, TRUE, FALSE), <<250>>)
<1> DEFINE b == 244
           n == NewId(ms, r, i)
           x == NewId(ms, m.rates, m.id)
<1>1. m.rates = r /\ m.id = i /\ m.reporting = o /\ ~m.rate_next BY Zenon DEF State
<1>2. b = 244 /\ b \in Int OBVIOUS
<1>03. n \in Int BY DEF NewId
<1>3. m.id \in Int /\ m.reporting \in BOOLEAN /\ x = n /\ x \in Int
  BY <1>1, <1>03, Zenon
<1>4. HeedsId(ms, m, b) = m.id
  <2> DEFINE k == m.id
             v == HeedsId(ms, m, b)
  <2>1. v = (CASE b = 255 -> 0 [] b = 242 -> x [] OTHER -> k) /\ k \in Int /\ x \in Int
    BY <1>3, Zenon DEF HeedsId
  <2> HIDE DEF k, v, x
  <2>2. v = k BY <2>1, SMT
  <2> QED BY <2>2, Zenon DEF v, k, x
<1>5. HeedsOn(m, b) = TRUE BY <1>2, SMT DEF HeedsOn
<1>6. HeedsNext(b) = FALSE BY <1>2, SMT DEF HeedsNext
<1>7. Says(ms, m, b) = <<250>>
  <2> SUFFICES (CASE b = 255 -> <<250, 170, 0>>
                  [] b = 242 -> <<250, n>>
                  [] b \in {246, 244, 243} -> <<250>>
                  [] OTHER -> <<254>>) = <<250>>
    BY <1>1, <1>3, ZenonT(40) DEF Says
  <2> HIDE DEF n
  <2> QED BY <1>03, SMT
<1> HIDE DEF b
<1>8. Heeds(ms, m, b) = State(m.rates, HeedsId(ms, m, b), HeedsOn(m, b), HeedsNext(b))
  BY <1>1, Zenon DEF Heeds
<1> QED BY <1>1, <1>3, <1>4, <1>5, <1>6, <1>7, <1>8, Zenon DEF b, Hears

LEMMA HearsReset ==
    ASSUME NEW ms, ms # "none", NEW r, NEW i \in Int, NEW o \in BOOLEAN,
           NEW m, m = State(r, i, o, FALSE)
    PROVE  Hears(ms, m, 255, State(r, 0, FALSE, FALSE), <<250, 170, 0>>)
<1> DEFINE b == 255
           n == NewId(ms, r, i)
           x == NewId(ms, m.rates, m.id)
<1>1. m.rates = r /\ m.id = i /\ m.reporting = o /\ ~m.rate_next BY Zenon DEF State
<1>2. b = 255 /\ b \in Int OBVIOUS
<1>03. n \in Int BY DEF NewId
<1>3. m.id \in Int /\ m.reporting \in BOOLEAN /\ x = n /\ x \in Int
  BY <1>1, <1>03, Zenon
<1>4. HeedsId(ms, m, b) = 0
  <2> DEFINE k == m.id
             v == HeedsId(ms, m, b)
  <2>1. v = (CASE b = 255 -> 0 [] b = 242 -> x [] OTHER -> k) /\ k \in Int /\ x \in Int
    BY <1>3, Zenon DEF HeedsId
  <2> HIDE DEF k, v, x
  <2>2. v = 0 BY <2>1, SMT
  <2> QED BY <2>2, Zenon DEF v, k, x
<1>5. HeedsOn(m, b) = FALSE BY <1>2, SMT DEF HeedsOn
<1>6. HeedsNext(b) = FALSE BY <1>2, SMT DEF HeedsNext
<1>7. Says(ms, m, b) = <<250, 170, 0>>
  <2> SUFFICES (CASE b = 255 -> <<250, 170, 0>>
                  [] b = 242 -> <<250, n>>
                  [] b \in {246, 244, 243} -> <<250>>
                  [] OTHER -> <<254>>) = <<250, 170, 0>>
    BY <1>1, <1>3, ZenonT(40) DEF Says
  <2> HIDE DEF n
  <2> QED BY <1>03, SMT
<1> HIDE DEF b
<1>8. Heeds(ms, m, b) = State(m.rates, HeedsId(ms, m, b), HeedsOn(m, b), HeedsNext(b))
  BY <1>1, Zenon DEF Heeds
<1> QED BY <1>1, <1>3, <1>4, <1>5, <1>6, <1>7, <1>8, ZenonT(40) DEF b, Hears

LEMMA NoMouse == \A m, b : Hears("none", m, b, m, <<>>)
  BY Zenon DEF Hears, Heeds, Says

Short(s) == s = <<>> \/ \E x : s = <<x>>
LEMMA Shorts == Short(<<>>) /\ \A x : Short(<<x>>)
  BY Zenon DEF Short

LEMMA FromSendTo ==
    ASSUME NEW b \in Int, NEW r \in Seq(Access), NEW m, NEW s, NEW d, NEW ms, dev.ms = ms,
           Short(s), hw = "dual", Base, Sending(b, r, m, s, d), P!Next, late' = 0,
           NEW m2, NEW s2, Hears(ms, m, b, m2, s2)
    PROVE  Stays /\ (Sending(b, r, m, s, d)' \/ At(r, m2, s2, d)')
<1>1. s = <<>> \/ \E x : s = <<x>> BY Zenon DEF Short
<1>2. Stays /\ (Sending(b, r, m, s, d)' \/ At(r, Heeds(ms, m, b), Says(ms, m, b), d)')
  BY <1>1, FromSend, Zenon
<1> QED BY <1>2, Zenon DEF Hears

LEMMA NoId == \A ms : NewId(ms, <<>>, 0) = 0
<1> SUFFICES ASSUME NEW ms PROVE NewId(ms, <<>>, 0) = 0 OBVIOUS
<1>1. <<>> # <<200, 100, 80>> /\ <<>> # <<200, 200, 80>> OBVIOUS
<1> DEFINE r == <<>>
<1>2. r # <<200, 100, 80>> /\ r # <<200, 200, 80>> BY <1>1
<1> HIDE DEF r
<1>3. NewId(ms, r, 0) = 0 BY <1>2, Zenon DEF NewId
<1> QED BY <1>3, Zenon DEF r

(* What a mouse just reset says.                                           *)
LEMMA FreshHears ==
    ASSUME NEW ms, ms # "none"
    PROVE  /\ Hears(ms, Fresh, 255, Fresh, <<250, 170, 0>>)
           /\ Hears(ms, Fresh, 242, Fresh, <<250, 0>>)
           /\ Hears(ms, Fresh, 246, Fresh, <<250>>)
           /\ Hears(ms, Fresh, 244, State(<<>>, 0, TRUE, FALSE), <<250>>)
<1> DEFINE r == <<>>
           i == 0
           o == FALSE
<1>1. i \in Int /\ o \in BOOLEAN OBVIOUS
<1>2. Fresh = State(r, i, o, FALSE) BY Zenon DEF Fresh
<1>3. NewId(ms, r, i) = 0 BY NoId, Zenon
<1> HIDE DEF r, i, o
<1>4. Hears(ms, Fresh, 255, State(r, 0, FALSE, FALSE), <<250, 170, 0>>)
  BY <1>1, <1>2, HearsReset, ZenonT(40)
<1>5. Hears(ms, Fresh, 242, State(r, NewId(ms, r, i), o, FALSE), <<250, NewId(ms, r, i)>>)
  BY <1>1, <1>2, HearsIdentify, ZenonT(40)
<1>6. Hears(ms, Fresh, 246, State(r, i, FALSE, FALSE), <<250>>)
  BY <1>1, <1>2, HearsDefaults, ZenonT(40)
<1>7. Hears(ms, Fresh, 244, State(r, i, TRUE, FALSE), <<250>>)
  BY <1>1, <1>2, HearsEnable, ZenonT(40)
<1>8. /\ State(r, 0, FALSE, FALSE) = Fresh /\ State(r, 0, o, FALSE) = Fresh
      /\ State(r, i, FALSE, FALSE) = Fresh /\ State(r, i, TRUE, FALSE) = State(<<>>, 0, TRUE, FALSE)
  BY Zenon DEF r, i, o, Fresh
<1>9. Hears(ms, Fresh, 255, Fresh, <<250, 170, 0>>) BY <1>4, <1>8, Zenon
<1>10. Hears(ms, Fresh, 242, Fresh, <<250, 0>>) BY <1>3, <1>5, <1>8, Zenon
<1>11. Hears(ms, Fresh, 246, Fresh, <<250>>) BY <1>6, <1>8, Zenon
<1>12. Hears(ms, Fresh, 244, State(<<>>, 0, TRUE, FALSE), <<250>>) BY <1>7, <1>8, Zenon
<1> QED BY <1>9, <1>10, <1>11, <1>12, Zenon

LEMMA ToMouseProgram ==
    ASSUME NEW h, NEW x
    PROVE  LET d == Vars(h, x, 0, 0, 3) IN Then(<<>>, P!Kernel(d)) = Send2(246, MouseMore)
<1> DEFINE d == Vars(h, x, 0, 0, 3)
<1>1. d.p2 = 0 BY VarsFields, SMT
<1> HIDE DEF d
<1>2. P!Kernel(d) = P!Mouse BY <1>1, Zenon DEF P!Kernel
<1>3. P!Mouse = Send2(246, MouseMore) /\ MouseMore \in Seq(Access) BY MouseIs, Zenon
<1>4. 246 \in Int OBVIOUS
<1> DEFINE u == Send2(246, MouseMore)
<1>5. u \in Seq(Access) BY <1>3, <1>4, Send2Type, Zenon
<1> HIDE DEF u
<1>6. Then(<<>>, u) = u BY <1>5, Flat, Zenon
<1> QED BY <1>2, <1>3, <1>6, Zenon DEF d, u

LEMMA ResetStep ==
    ASSUME NEW h, NEW kb, NEW ms, Machine(h, kb, ms), Base,
           ResetPoint(h, kb, ms), P!Next, late' = 0
    PROVE  Stays /\ (ResetPoint(h, kb, ms)' \/ MousePoint(h, kb, ms)' \/ AskPoint(h, kb, ms)')
<1> DEFINE d == Vars(h, P1(kb), P!PS2_DEV_NONE, 0, 3)
           dm == Vars(h, P1(kb), 0, 0, 3)
           g1 == Get("p2_reset", <<>>)
           g2 == Send2(255, g1)
           a1 == Get("p2_type", <<>>)
           t == Then(P!Cmd(32), Get("irqs", <<>>))
<1>0. dev.ms = ms /\ hw = "dual" /\ h = "dual" BY Zenon DEF Machine, ResetPoint
<1>01. /\ "p2_reset" \in Tags /\ "p2_passed" \in Tags /\ "p2_type" \in Tags
       /\ "ack" \in {"ack", "unused"}
  BY DEF Tags
<1>02. 255 \in Int OBVIOUS
<1>002. 242 \in Int OBVIOUS
<1>03. /\ g1 \in Seq(Access) /\ g2 \in Seq(Access) /\ a1 \in Seq(Access)
       /\ MsIdentify \in Seq(Access) /\ MsReset \in Seq(Access)
  BY KeyboardTypes, Zenon
<1>04. /\ MsReset = Then(P!Cmd(174), g2) /\ MsIdentify = Get("ack", a1)
       /\ g1 = Get("p2_reset", <<>>) /\ a1 = Get("p2_type", <<>>)
  BY Zenon DEF MsReset, MsIdentify
<1>05. g2 = Send2(255, g1) BY Zenon
<1>06. Then(<<>>, P!Kernel(d)) = t BY AfterPort1Is, Zenon
<1>07. WithP2(d, 0) = dm BY VarsChanged, SMT
<1>08. Then(<<>>, P!Kernel(dm)) = Send2(246, MouseMore) BY ToMouseProgram, Zenon
<1>09. ms = "none" /\ At(t, Fresh, <<>>, d)' => AskPoint(h, kb, ms)'
  <2>1. ms = "none" => Agreed(h, kb, ms, Fresh, d) BY Zenon DEF Agreed
  <2>2. Fresh \in Ends BY Zenon DEF Ends
  <2>3. t = Then(P!Cmd(32), Get("irqs", <<>>)) BY Zenon
  <2> HIDE DEF d, t
  <2> QED BY <2>1, <2>2, <2>3, ToIrqs, Zenon
<1>10. ms # "none" /\ At(Send2(246, MouseMore), Fresh, <<>>, dm)' => MousePoint(h, kb, ms)'
  BY Zenon DEF MousePoint, Sending
<1>110. ms # "none" => Hears(ms, Fresh, 255, Fresh, <<250, 170, 0>>)
  BY FreshHears, Zenon
<1>111. ms # "none" => Hears(ms, Fresh, 242, Fresh, <<250, 0>>) BY FreshHears, Zenon
<1>112. ms = "none" => Hears(ms, Fresh, 255, Fresh, <<>>) BY NoMouse, Zenon
<1>11. /\ ms # "none" => Says(ms, Fresh, 255) = <<250, 170, 0>>
       /\ ms = "none" => Says(ms, Fresh, 255) = <<>>
  BY <1>110, <1>112, Zenon DEF Hears
<1>12. /\ ResetPoint(h, kb, ms)' <=>
         (\/ At(Then(P!CmdOrSkip(168, 1), MsReset), Fresh, <<>>, d)'
          \/ At(MsReset, Fresh, <<>>, d)'
          \/ Sending(255, g1, Fresh, <<>>, d)'
          \/ At(g1, Fresh, Says(ms, Fresh, 255), d)'
          \/ ms # "none" /\ At(Get("p2_passed", <<>>), Fresh, <<170, 0>>, d)'
          \/ ms # "none" /\ Sending(242, MsIdentify, Fresh, <<0>>, d)'
          \/ ms # "none" /\ At(MsIdentify, Fresh, <<250, 0>>, d)'
          \/ ms # "none" /\ At(a1, Fresh, <<0>>, d)')
  BY <1>0, Zenon DEF ResetPoint
<1>13. \/ At(Then(P!CmdOrSkip(168, 1), MsReset), Fresh, <<>>, d)
       \/ At(MsReset, Fresh, <<>>, d)
       \/ Sending(255, g1, Fresh, <<>>, d)
       \/ At(g1, Fresh, Says(ms, Fresh, 255), d)
       \/ ms # "none" /\ At(Get("p2_passed", <<>>), Fresh, <<170, 0>>, d)
       \/ ms # "none" /\ Sending(242, MsIdentify, Fresh, <<0>>, d)
       \/ ms # "none" /\ At(MsIdentify, Fresh, <<250, 0>>, d)
       \/ ms # "none" /\ At(a1, Fresh, <<0>>, d)
  BY Zenon DEF ResetPoint
<1>14. Hears(ms, Fresh, 255, Fresh, Says(ms, Fresh, 255))
  BY <1>110, <1>112, Zenon DEF Hears
<1> HIDE DEF d, dm, g1, g2, a1, t
<1>21. CASE At(Then(P!CmdOrSkip(168, 1), MsReset), Fresh, <<>>, d)
  <2>0. 168 \in {168, 174} /\ 1 \in Nat OBVIOUS
  <2>1. Stays /\ (At(Then(P!CmdOrSkip(168, 1), MsReset), Fresh, <<>>, d)' \/ At(MsReset, Fresh, <<>>, d)')
    BY <2>0, <1>03, <1>21, FromCmd, Zenon
  <2> QED BY <2>1, <1>12, Zenon
<1>22. CASE At(MsReset, Fresh, <<>>, d)
  <2>0. 174 \in {168, 174} /\ 0 \in Nat /\ 174 \in Int OBVIOUS
  <2>1. P!Cmd(174) = P!CmdOrSkip(174, 0) BY <2>0, OpTypes, Zenon
  <2>2. At(Then(P!CmdOrSkip(174, 0), g2), Fresh, <<>>, d) BY <1>04, <1>22, <2>1, Zenon
  <2>3. Stays /\ (At(Then(P!CmdOrSkip(174, 0), g2), Fresh, <<>>, d)' \/ At(g2, Fresh, <<>>, d)')
    BY <2>0, <1>03, <2>2, FromCmd, SMT
  <2>4. At(g2, Fresh, <<>>, d)' => Sending(255, g1, Fresh, <<>>, d)'
    BY <1>05, Zenon DEF Sending
  <2> QED BY <1>04, <2>1, <2>3, <2>4, <1>12, Zenon
<1>23. CASE Sending(255, g1, Fresh, <<>>, d)
  <2> DEFINE b == 255
             s == Says(ms, Fresh, b)
  <2>1. Hears(ms, Fresh, b, Fresh, s) /\ Sending(b, g1, Fresh, <<>>, d)
        /\ b \in Int
    BY <1>14, <1>23, <1>02, Zenon
  <2> HIDE DEF b, s
  <2>2. Stays /\ (Sending(b, g1, Fresh, <<>>, d)' \/ At(g1, Fresh, s, d)')
    BY <1>0, <1>03, <2>1, Shorts, FromSendTo, Zenon
  <2> QED BY <2>2, <1>12, Zenon DEF b, s
<1>24. CASE At(g1, Fresh, Says(ms, Fresh, 255), d) /\ ms # "none"
  <2> DEFINE x == 250
             s == <<250, 170, 0>>
             s2 == <<170, 0>>
  <2>1. P!Received("p2_reset", x, d) = Pair(d, P!Recv("p2_passed")) BY OnP2Reset, Zenon
  <2>2. Then(<<>>, P!Recv("p2_passed")) = Get("p2_passed", <<>>)
    BY <1>01, TagNames, Zenon
  <2>3. Value(s) = x /\ Less(s) = s2 BY Answers, SMT
  <2>4. At(Get("p2_reset", <<>>), Fresh, s, d) BY <1>04, <1>11, <1>24, Zenon
  <2> HIDE DEF x, s, s2
  <2>5. Stays /\ (At(Get("p2_reset", <<>>), Fresh, s, d)' \/ At(Get("p2_passed", <<>>), Fresh, s2, d)')
    BY <1>01, <2>1, <2>2, <2>3, <2>4, Decides, Zenon
  <2>6. s = Says(ms, Fresh, 255) BY <1>11, <1>24, Zenon DEF s
  <2>7. At(g1, Fresh, Says(ms, Fresh, 255), d)' \/ At(Get("p2_passed", <<>>), Fresh, <<170, 0>>, d)'
    BY <1>04, <2>5, <2>6, Zenon DEF s2
  <2> QED BY <1>24, <2>5, <2>7, <1>12, Zenon
<1>25. CASE At(g1, Fresh, Says(ms, Fresh, 255), d) /\ ms = "none"
  <2>1. P!Received("p2_reset", -1, d) = Pair(d, P!Kernel(d))
    <3>1. -1 # 250 OBVIOUS
    <3> QED BY <3>1, OnP2Reset, Zenon
  <2>2. Value(<<>>) = -1 /\ Less(<<>>) = <<>> BY Answers, Zenon
  <2>3. At(Get("p2_reset", <<>>), Fresh, <<>>, d) BY <1>04, <1>11, <1>25, Zenon
  <2>4. Stays /\ (At(Get("p2_reset", <<>>), Fresh, <<>>, d)' \/ At(t, Fresh, <<>>, d)')
    BY <1>01, <1>06, <2>1, <2>2, <2>3, Decides, Zenon
  <2>5. At(g1, Fresh, Says(ms, Fresh, 255), d)' \/ At(t, Fresh, <<>>, d)'
    BY <1>04, <1>11, <1>25, <2>4, Zenon
  <2> QED BY <1>25, <2>4, <2>5, <1>09, <1>12, Zenon
<1>26. CASE ms # "none" /\ At(Get("p2_passed", <<>>), Fresh, <<170, 0>>, d)
  <2> DEFINE x == 170
             y == 0
             s == <<x, y>>
             u == Send2(242, MsIdentify)
  <2>1. P!Received("p2_passed", x, d)
          = Pair(d, P!SendPort2(242) \o P!Recv("ack") \o P!Recv("p2_type"))
    BY OnP2Passed, Zenon
  <2>2. P!Received("p2_passed", x, d) = Pair(d, u) BY <2>1, IdentifyIs, Zenon
  <2>3. u \in Seq(Access) BY <1>03, <1>002, Send2Type, Zenon
  <2>4. s = <<x, y>> /\ At(Get("p2_passed", <<>>), Fresh, s, d) BY <1>26, Zenon
  <2> HIDE DEF x, y, s, u
  <2>5. Then(<<>>, u) = u BY <2>3, Flat, Zenon
  <2>6. Stays /\ (At(Get("p2_passed", <<>>), Fresh, s, d)' \/ At(u, Fresh, <<y>>, d)')
    BY <1>01, <2>2, <2>4, <2>5, DecidesOnFirst, Zenon
  <2>7. At(u, Fresh, <<y>>, d)' => Sending(242, MsIdentify, Fresh, <<0>>, d)'
    BY Zenon DEF Sending, u, y
  <2>8. At(Get("p2_passed", <<>>), Fresh, s, d)' => At(Get("p2_passed", <<>>), Fresh, <<170, 0>>, d)'
    BY Zenon DEF s, x, y
  <2> QED BY <1>26, <2>6, <2>7, <2>8, <1>12, Zenon
<1>27. CASE ms # "none" /\ Sending(242, MsIdentify, Fresh, <<0>>, d)
  <2> DEFINE b == 242
             s == <<0>>
             s2 == <<250, 0>>
  <2>1. Hears(ms, Fresh, b, Fresh, s2)
        /\ Sending(b, MsIdentify, Fresh, s, d) /\ b \in Int
    BY <1>111, <1>27, <1>002, Zenon
  <2>2. Short(s) BY Shorts, Zenon
  <2> HIDE DEF b, s, s2
  <2>3. Stays /\ (Sending(b, MsIdentify, Fresh, s, d)' \/ At(MsIdentify, Fresh, s2, d)')
    BY <1>0, <1>03, <2>1, <2>2, FromSendTo, Zenon
  <2> QED BY <1>27, <2>3, <1>12, Zenon DEF b, s, s2
<1>28. CASE ms # "none" /\ At(MsIdentify, Fresh, <<250, 0>>, d)
  <2> DEFINE s == <<250, 0>>
             s2 == <<0>>
  <2>1. Less(s) = s2 BY Answers, SMT
  <2>2. At(Get("ack", a1), Fresh, s, d) BY <1>04, <1>28, Zenon
  <2> HIDE DEF s, s2
  <2>3. Stays /\ (At(Get("ack", a1), Fresh, s, d)' \/ At(a1, Fresh, s2, d)')
    BY <1>01, <1>03, <2>1, <2>2, FromUnused, Zenon
  <2> QED BY <1>04, <1>28, <2>3, <1>12, Zenon DEF s, s2
<1>29. CASE ms # "none" /\ At(a1, Fresh, <<0>>, d)
  <2>1. P!Received("p2_type", 0, d) = Pair(WithP2(d, 0), P!Kernel(WithP2(d, 0)))
    BY OnP2Type, Zenon
  <2>2. P!Received("p2_type", 0, d) = Pair(dm, P!Kernel(dm)) BY <2>1, <1>07, Zenon
  <2>3. At(Get("p2_type", <<>>), Fresh, <<0>>, d) BY <1>04, <1>29, Zenon
  <2>4. Stays /\ (At(Get("p2_type", <<>>), Fresh, <<0>>, d)' \/ At(Send2(246, MouseMore), Fresh, <<>>, dm)')
    BY <1>01, <1>08, <2>2, <2>3, DecidesOn, ZenonT(40)
  <2> QED BY <1>04, <1>29, <2>4, <1>10, <1>12, Zenon
<1> QED BY <1>13, <1>21, <1>22, <1>23, <1>24, <1>25, <1>26, <1>27, <1>28, <1>29, ZenonT(40)

-----------------------------------------------------------------------------
(* The mouse is set up.                                                    *)

LEMMA RateStep ==
    ASSUME NEW ms, ms # "none", NEW b \in Int, NEW r \in Seq(Access), NEW w, NEW id \in Int,
           NEW s, Short(s), NEW d, dev.ms = ms, hw = "dual",
           Base, RatePoint(b, r, w, id, s, d), P!Next, late' = 0
    PROVE  /\ Stays
           /\ RatePoint(b, r, w, id, s, d)' \/ At(r, On(NewRates(w, b), id), <<250>>, d)'
<1> DEFINE n == 243
           o == TRUE
           m1 == On(w, id)
           m2 == NextIsRate(w, id)
           m3 == On(NewRates(w, b), id)
           u2 == Send2(b, r)
           u1 == Get("unused", u2)
           ack == <<250>>
<1>0. n \in Int /\ o \in BOOLEAN OBVIOUS
<1>1. "unused" \in {"ack", "unused"} /\ "unused" \in Tags BY DEF Tags
<1>2. u2 \in Seq(Access) BY Send2Type, Zenon
<1>3. u1 \in Seq(Access) BY <1>1, <1>2, GetType, Zenon
<1>4. m1 = State(w, id, o, FALSE) /\ m2 = State(w, id, o, TRUE)
      /\ m3 = State(NewRates(w, b), id, o, FALSE)
  BY Zenon DEF On, NextIsRate
<1>5. Hears(ms, m1, n, m2, ack)
  <2> HIDE DEF m1, m2, o
  <2>1. Hears(ms, m1, 243, State(w, id, o, TRUE), <<250>>)
    BY <1>0, <1>4, HearsSetRate, ZenonT(40)
  <2> QED BY <1>4, <2>1, Zenon
<1>6. Hears(ms, m2, b, m3, ack)
  <2> HIDE DEF m1, m2, m3, o
  <2>1. Hears(ms, m2, b, State(NewRates(w, b), id, o, FALSE), <<250>>)
    BY <1>0, <1>4, HearsRate, ZenonT(40)
  <2> QED BY <1>4, <2>1, Zenon
<1>7. Less(ack) = <<>> BY Answers, Zenon
<1>8. RatePoint(b, r, w, id, s, d)' <=>
        (Sending(n, u1, m1, s, d)' \/ At(u1, m2, ack, d)' \/ Sending(b, r, m2, <<>>, d)')
  BY Zenon DEF RatePoint
<1>9. Sending(n, u1, m1, s, d) \/ At(u1, m2, ack, d) \/ Sending(b, r, m2, <<>>, d)
  BY Zenon DEF RatePoint
<1>10. u1 = Get("unused", u2) /\ (At(u2, m2, <<>>, d)' => Sending(b, r, m2, <<>>, d)')
  BY Zenon DEF Sending
<1>11. Short(<<>>) BY Shorts, Zenon
<1> HIDE DEF n, o, m1, m2, m3, u1, u2, ack
<1>21. CASE Sending(n, u1, m1, s, d)
  <2>1. Stays /\ (Sending(n, u1, m1, s, d)' \/ At(u1, m2, ack, d)')
    BY <1>0, <1>3, <1>5, <1>21, FromSendTo, Zenon
  <2> QED BY <2>1, <1>8, Zenon
<1>22. CASE At(u1, m2, ack, d)
  <2>1. At(Get("unused", u2), m2, ack, d) BY <1>10, <1>22, Zenon
  <2>2. Stays /\ (At(Get("unused", u2), m2, ack, d)' \/ At(u2, m2, <<>>, d)')
    BY <1>1, <1>2, <1>7, <2>1, FromUnused, Zenon
  <2> QED BY <1>10, <2>2, <1>8, Zenon
<1>23. CASE Sending(b, r, m2, <<>>, d)
  <2>1. Stays /\ (Sending(b, r, m2, <<>>, d)' \/ At(r, m3, ack, d)')
    BY <1>11, <1>6, <1>23, FromSendTo, Zenon
  <2> QED BY <2>1, <1>8, Zenon DEF m3, ack
<1> QED BY <1>9, <1>21, <1>22, <1>23, Zenon

LEMMA IdentifyHeard ==
    ASSUME NEW ms, ms # "none", NEW w, NEW id \in Int
    PROVE  Hears(ms, On(w, id), 242, On(w, NewId(ms, w, id)), <<250, NewId(ms, w, id)>>)
<1> DEFINE m == On(w, id)
           o == TRUE
<1>1. m = State(w, id, o, FALSE) BY Zenon DEF On
<1>2. o \in BOOLEAN OBVIOUS
<1> HIDE DEF m, o
<1>3. Hears(ms, m, 242, State(w, NewId(ms, w, id), o, FALSE), <<250, NewId(ms, w, id)>>)
  BY <1>1, <1>2, HearsIdentify, ZenonT(40)
<1> QED BY <1>3, Zenon DEF m, o, On

LEMMA MagicParts ==
    ASSUME NEW b \in Int, NEW c \in Int, NEW tag \in Tags
    PROVE  /\ M4(b, c, tag) \in Seq(Access) /\ M7(c, tag) \in Seq(Access)
           /\ Send2(242, M11(tag)) \in Seq(Access) /\ M11(tag) \in Seq(Access)
           /\ Get(tag, <<>>) \in Seq(Access)
<1>1. M4(b, c, tag) \in Seq(Access) /\ M7(c, tag) \in Seq(Access)
  BY MagicTypes, ZenonT(40)
<1>2. Send2(242, M11(tag)) \in Seq(Access) BY MagicTypes, SMT
<1>3. M11(tag) \in Seq(Access) BY MagicTypes, ZenonT(40)
<1>4. <<>> \in Seq(Access) OBVIOUS
<1>5. Get(tag, <<>>) \in Seq(Access) BY <1>4, GetType, Zenon
<1> QED BY <1>1, <1>2, <1>3, <1>5, Zenon

Leads(ms, rates, a, b, c, id, w, new) ==
    w = Window(rates, a, b, c) /\ new \in Int /\ NewId(ms, w, id) = new
Decided(tag, v, d, d2, t2) ==
    \E more : P!Received(tag, v, d) = Pair(d2, more) /\ Then(<<>>, more) = t2

LEMMA MagicStepTo ==
    ASSUME NEW ms, ms # "none", NEW a \in Int, NEW b \in Int, NEW c \in Int, NEW tag \in Tags,
           NEW rates, NEW id \in Int, NEW d, dev.ms = ms, hw = "dual",
           Base, MagicPoint(a, b, c, tag, ms, rates, id, d), P!Next, late' = 0,
           NEW w, NEW new, Leads(ms, rates, a, b, c, id, w, new),
           NEW d2, NEW t2, Decided(tag, new, d, d2, t2)
    PROVE  /\ Stays
           /\ \/ MagicPoint(a, b, c, tag, ms, rates, id, d)'
              \/ At(t2, On(w, new), <<>>, d2)'
<1>01. w = Window(rates, a, b, c) /\ new \in Int /\ NewId(ms, w, id) = new
  BY Zenon DEF Leads
<1>02. PICK more : P!Received(tag, new, d) = Pair(d2, more) /\ Then(<<>>, more) = t2
  BY Zenon DEF Decided
<1> DEFINE w1 == NewRates(rates, a)
           w2 == NewRates(w1, b)
           m4 == M4(b, c, tag)
           m7 == M7(c, tag)
           m11 == M11(tag)
           m10 == Send2(242, m11)
           g == Get(tag, <<>>)
           ack == <<250>>
           n == 242
           s2 == <<250, new>>
           o == TRUE
<1>0. /\ m4 \in Seq(Access) /\ m7 \in Seq(Access) /\ m10 \in Seq(Access)
      /\ m11 \in Seq(Access) /\ g \in Seq(Access)
  BY MagicParts, SMT
<1>1. n \in Int /\ o \in BOOLEAN OBVIOUS
<1>2. "unused" \in {"ack", "unused"} OBVIOUS
<1>3. Short(<<>>) /\ Short(ack) BY Shorts, Zenon
<1>4. w = NewRates(w2, c) BY <1>01, Zenon DEF Window
<1>5. MagicPoint(a, b, c, tag, ms, rates, id, d)' <=>
        (\/ RatePoint(a, m4, rates, id, <<>>, d)'
         \/ RatePoint(b, m7, w1, id, ack, d)'
         \/ RatePoint(c, m10, w2, id, ack, d)'
         \/ Sending(n, m11, On(w, id), ack, d)'
         \/ At(m11, On(w, new), s2, d)'
         \/ At(g, On(w, new), <<new>>, d)')
  BY <1>01, SMT DEF MagicPoint
<1>6. \/ RatePoint(a, m4, rates, id, <<>>, d)
      \/ RatePoint(b, m7, w1, id, ack, d)
      \/ RatePoint(c, m10, w2, id, ack, d)
      \/ Sending(n, m11, On(w, id), ack, d)
      \/ At(m11, On(w, new), s2, d)
      \/ At(g, On(w, new), <<new>>, d)
  BY <1>01, Zenon DEF MagicPoint
<1>7. At(m4, On(w1, id), ack, d)' => RatePoint(b, m7, w1, id, ack, d)'
  BY Zenon DEF M4, M6, RatePoint, Sending
<1>8. At(m7, On(w2, id), ack, d)' => RatePoint(c, m10, w2, id, ack, d)'
  BY Zenon DEF M7, M9, RatePoint, Sending
<1>9. At(m10, On(w, id), ack, d)' => Sending(n, m11, On(w, id), ack, d)'
  BY Zenon DEF Sending
<1>10. m11 = Get("unused", g) /\ g = Get(tag, <<>>) BY Zenon DEF M11
<1>11. Hears(ms, On(w, id), n, On(w, new), s2)
  <2> DEFINE k == NewId(ms, w, id)
  <2>1. Hears(ms, On(w, id), 242, On(w, k), <<250, k>>) BY IdentifyHeard, SMT
  <2>2. k = new BY <1>01, Zenon
  <2> HIDE DEF k
  <2> QED BY <2>1, <2>2, Zenon
<1>12. Less(s2) = <<new>> BY Answers, SMT
<1>13. ack = <<250>> /\ w2 = NewRates(w1, b) /\ w1 = NewRates(rates, a) BY Zenon
<1> HIDE DEF w1, w2, m4, m7, m11, m10, g, ack, n, s2, o
<1>21. CASE RatePoint(a, m4, rates, id, <<>>, d)
  <2>1. Stays /\ (RatePoint(a, m4, rates, id, <<>>, d)' \/ At(m4, On(NewRates(rates, a), id), <<250>>, d)')
    BY <1>0, <1>3, <1>21, RateStep, ZenonT(40)
  <2> QED BY <2>1, <1>13, <1>5, <1>7, Zenon
<1>22. CASE RatePoint(b, m7, w1, id, ack, d)
  <2>1. Stays /\ (RatePoint(b, m7, w1, id, ack, d)' \/ At(m7, On(NewRates(w1, b), id), <<250>>, d)')
    BY <1>0, <1>3, <1>22, RateStep, ZenonT(40)
  <2> QED BY <2>1, <1>13, <1>5, <1>8, Zenon
<1>23. CASE RatePoint(c, m10, w2, id, ack, d)
  <2>1. Stays /\ (RatePoint(c, m10, w2, id, ack, d)' \/ At(m10, On(NewRates(w2, c), id), <<250>>, d)')
    BY <1>0, <1>3, <1>23, RateStep, ZenonT(40)
  <2> QED BY <2>1, <1>4, <1>13, <1>5, <1>9, Zenon
<1>24. CASE Sending(n, m11, On(w, id), ack, d)
  <2>1. Stays /\ (Sending(n, m11, On(w, id), ack, d)' \/ At(m11, On(w, new), s2, d)')
    BY <1>0, <1>1, <1>3, <1>11, <1>24, FromSendTo, Zenon
  <2> QED BY <2>1, <1>5, Zenon
<1>25. CASE At(m11, On(w, new), s2, d)
  <2>1. At(Get("unused", g), On(w, new), s2, d) BY <1>10, <1>25, Zenon
  <2>2. Stays /\ (At(Get("unused", g), On(w, new), s2, d)' \/ At(g, On(w, new), <<new>>, d)')
    BY <1>0, <1>2, <1>12, <2>1, FromUnused, Zenon
  <2> QED BY <1>10, <2>2, <1>5, Zenon
<1>26. CASE At(g, On(w, new), <<new>>, d)
  <2>1. At(Get(tag, <<>>), On(w, new), <<new>>, d) BY <1>10, <1>26, Zenon
  <2>2. Stays /\ (At(Get(tag, <<>>), On(w, new), <<new>>, d)' \/ At(t2, On(w, new), <<>>, d2)')
    BY <1>02, <2>1, DecidesOn, Zenon
  <2> QED BY <1>10, <2>2, <1>5, Zenon
<1> QED BY <1>6, <1>21, <1>22, <1>23, <1>24, <1>25, <1>26, Zenon

(* The last three rates given.                                             *)
LEMMA NewRatesIs ==
    ASSUME NEW s \in Seq(Int), NEW b \in Int, NEW t \in Seq(Int), NEW k \in {1, 2},
           k = IF Len(s) = 3 THEN 2 ELSE 1, Len(t) = Len(s) + 2 - k,
           \A i \in 1 .. Len(t) : t[i] = IF k + i - 1 = Len(s) + 1 THEN b ELSE s[k + i - 1]
    PROVE  NewRates(s, b) = t
<1> DEFINE a == Append(s, b)
           n == Len(s) + 1
           q == SubSeq(a, k, n)
<1>1. Len(s) \in Nat /\ a \in Seq(Int) /\ Len(a) = n /\ n \in Int OBVIOUS
<1>2. \A i \in 1 .. n : a[i] = IF i = n THEN b ELSE s[i] OBVIOUS
<1>3. NewRates(s, b) = q BY Zenon DEF NewRates
<1> HIDE DEF a
<1>4. \A i \in k .. n : a[i] \in Int BY <1>1
<1>5. q \in Seq(Int) /\ Len(q) = (IF k <= n THEN n - k + 1 ELSE 0)
      /\ \A i \in 1 .. n - k + 1 : q[i] = a[k + i - 1]
  <2> HIDE DEF n
  <2>1. k \in Int OBVIOUS
  <2> QED BY <1>1, <1>4, <2>1, SubSeqProperties
<1> HIDE DEF q
<1>60. Len(s) \in Nat /\ n = Len(s) + 1 /\ Len(t) = n + 1 - k /\ k <= n BY <1>1
<1>6. Len(q) = Len(t)
  <2> HIDE DEF n
  <2> QED BY <1>1, <1>5, <1>60
<1>7. \A i \in 1 .. Len(t) : q[i] = t[i]
  <2> SUFFICES ASSUME NEW i \in 1 .. Len(t)
               PROVE  q[i] = t[i] OBVIOUS
  <2> HIDE DEF n
  <2>1. i \in 1 .. n - k + 1 /\ k + i - 1 \in 1 .. n BY <1>1, <1>60
  <2>2. q[i] = a[k + i - 1] BY <1>5, <2>1
  <2>3. a[k + i - 1] = IF k + i - 1 = n THEN b ELSE s[k + i - 1] BY <1>2, <2>1, Zenon
  <2>4. t[i] = IF k + i - 1 = n THEN b ELSE s[k + i - 1] BY <1>60
  <2> QED BY <2>2, <2>3, <2>4, Zenon
<1>8. q = t BY <1>5, <1>6, <1>7, SeqEqual
<1> QED BY <1>3, <1>8

Gives(s, b, t) == NewRates(s, b) = t
LEMMA RatesAre ==
    ASSUME NEW x \in Int, NEW y \in Int, NEW z \in Int, NEW u \in Int
    PROVE  /\ Gives(<<>>, x, <<x>>) /\ Gives(<<x>>, y, <<x, y>>)
           /\ Gives(<<x, y>>, z, <<x, y, z>>) /\ Gives(<<x, y, z>>, u, <<y, z, u>>)
<1>1. NewRates(<<>>, x) = <<x>>
  <2> DEFINE s == <<>>
             t == <<x>>
             k == 1
  <2>1. /\ s \in Seq(Int) /\ t \in Seq(Int) /\ k \in {1, 2}
        /\ k = IF Len(s) = 3 THEN 2 ELSE 1
        /\ Len(t) = Len(s) + 2 - k OBVIOUS
  <2>2. \A i \in 1 .. Len(t) : t[i] = IF k + i - 1 = Len(s) + 1 THEN x ELSE s[k + i - 1] OBVIOUS
  <2> HIDE DEF s, t, k
  <2>3. NewRates(s, x) = t BY <2>1, <2>2, NewRatesIs, ZenonT(40)
  <2> QED BY <2>3, Zenon DEF s, t
<1>2. NewRates(<<x>>, y) = <<x, y>>
  <2> DEFINE s == <<x>>
             t == <<x, y>>
             k == 1
  <2>1. /\ s \in Seq(Int) /\ t \in Seq(Int) /\ k \in {1, 2}
        /\ k = IF Len(s) = 3 THEN 2 ELSE 1
        /\ Len(t) = Len(s) + 2 - k OBVIOUS
  <2>2. \A i \in 1 .. Len(t) : t[i] = IF k + i - 1 = Len(s) + 1 THEN y ELSE s[k + i - 1] OBVIOUS
  <2> HIDE DEF s, t, k
  <2>3. NewRates(s, y) = t BY <2>1, <2>2, NewRatesIs, ZenonT(40)
  <2> QED BY <2>3, Zenon DEF s, t
<1>3. NewRates(<<x, y>>, z) = <<x, y, z>>
  <2> DEFINE s == <<x, y>>
             t == <<x, y, z>>
             k == 1
  <2>1. /\ s \in Seq(Int) /\ t \in Seq(Int) /\ k \in {1, 2}
        /\ k = IF Len(s) = 3 THEN 2 ELSE 1
        /\ Len(t) = Len(s) + 2 - k OBVIOUS
  <2>2. \A i \in 1 .. Len(t) : t[i] = IF k + i - 1 = Len(s) + 1 THEN z ELSE s[k + i - 1] OBVIOUS
  <2> HIDE DEF s, t, k
  <2>3. NewRates(s, z) = t BY <2>1, <2>2, NewRatesIs, ZenonT(40)
  <2> QED BY <2>3, Zenon DEF s, t
<1>4. NewRates(<<x, y, z>>, u) = <<y, z, u>>
  <2> DEFINE s == <<x, y, z>>
             t == <<y, z, u>>
             k == 2
  <2>1. /\ s \in Seq(Int) /\ t \in Seq(Int) /\ k \in {1, 2}
        /\ k = IF Len(s) = 3 THEN 2 ELSE 1
        /\ Len(t) = Len(s) + 2 - k OBVIOUS
  <2>2. \A i \in 1 .. Len(t) : t[i] = IF k + i - 1 = Len(s) + 1 THEN u ELSE s[k + i - 1] OBVIOUS
  <2> HIDE DEF s, t, k
  <2>3. NewRates(s, u) = t BY <2>1, <2>2, NewRatesIs, ZenonT(40)
  <2> QED BY <2>3, Zenon DEF s, t
<1> QED BY <1>1, <1>2, <1>3, <1>4, Zenon DEF Gives

LEMMA Windows ==
    ASSUME NEW x \in Int, NEW y \in Int, NEW z \in Int,
           NEW a \in Int, NEW b \in Int, NEW c \in Int
    PROVE  /\ Window(<<>>, a, b, c) = <<a, b, c>>
           /\ Window(<<x, y, z>>, a, b, c) = <<a, b, c>>
<1>1. /\ Gives(<<>>, a, <<a>>) /\ Gives(<<a>>, b, <<a, b>>) /\ Gives(<<a, b>>, c, <<a, b, c>>)
  BY RatesAre, Zenon
<1>2. Gives(<<x, y, z>>, a, <<y, z, a>>) BY RatesAre, Zenon
<1>3. Gives(<<y, z, a>>, b, <<z, a, b>>) BY RatesAre, Zenon
<1>4. Gives(<<z, a, b>>, c, <<a, b, c>>) BY RatesAre, Zenon
<1>5. Window(<<>>, a, b, c) = <<a, b, c>> BY <1>1, Zenon DEF Window, Gives
<1>6. Window(<<x, y, z>>, a, b, c) = <<a, b, c>>
  BY <1>2, <1>3, <1>4, Zenon DEF Window, Gives
<1> QED BY <1>5, <1>6, Zenon

LEMMA MouseWindows ==
    /\ Window(<<>>, 200, 100, 80) = Rates1 /\ Window(Rates1, 200, 200, 80) = Rates2
  BY Windows, SMT DEF Rates1, Rates2

LEMMA MouseIds ==
    /\ NewId("generic", Rates1, 0) = 0
    /\ NewId("zaxis", Rates1, 0) = 3 /\ NewId("5btn", Rates1, 0) = 3
    /\ NewId("zaxis", Rates2, 3) = 3 /\ NewId("5btn", Rates2, 3) = 4
<1>1. Rates2 # <<200, 100, 80>> BY DEF Rates2
<1>2. Rates1 = <<200, 100, 80>> /\ Rates2 = <<200, 200, 80>> BY DEF Rates1, Rates2
<1>3. "zaxis" # "generic" /\ "5btn" # "generic" /\ "zaxis" # "5btn" /\ "generic" # "5btn" OBVIOUS
<1>4. NewId("generic", Rates1, 0) = 0 BY <1>3, Zenon DEF NewId
<1>5. NewId("zaxis", Rates1, 0) = 3
  <2> DEFINE r == <<200, 100, 80>>
  <2>1. Rates1 = r BY <1>2
  <2>2. (CASE "zaxis" # "generic" /\ Rates1 = r -> 3
           [] "zaxis" = "5btn" /\ 0 = 3 /\ Rates1 = <<200, 200, 80>> -> 4
           [] OTHER -> 0) = 3
    BY <1>3, <2>1 
  <2> QED BY <2>2, Zenon DEF NewId
<1>6. NewId("5btn", Rates1, 0) = 3
  <2>1. ~(0 = 3) OBVIOUS
  <2> QED BY <1>2, <1>3, <2>1, SMT DEF NewId
<1>7. NewId("zaxis", Rates2, 3) = 3 BY <1>1, <1>3, Zenon DEF NewId
<1>8. NewId("5btn", Rates2, 3) = 4 BY <1>1, <1>2, <1>3, SMT DEF NewId
<1> QED BY <1>4, <1>5, <1>6, <1>7, <1>8, Zenon

LEMMA VarsWithId ==
    ASSUME NEW h, NEW p1, NEW p2
    PROVE  /\ P!WithId(0, Vars(h, p1, p2, 0, 3)) = Vars(h, p1, p2, 0, 3)
           /\ P!WithId(3, Vars(h, p1, p2, 0, 3)) = Vars(h, p1, p2, 3, 4)
<1> DEFINE b == h = "dual"
           d == Vars(h, p1, p2, 0, 3)
           Changed(v, k) == [d EXCEPT !.type = v, !.size = k]
<1>1. ASSUME NEW v, NEW k
      PROVE  Changed(v, k) = Vars(h, p1, p2, v, k)
  <2> DEFINE y == 0
             z == 3
  <2> HIDE DEF b, y, z
  <2>1. [[dual |-> b, p1 |-> p1, p2 |-> p2, type |-> y, size |-> z]
            EXCEPT !.type = v, !.size = k]
          = [dual |-> b, p1 |-> p1, p2 |-> p2, type |-> v, size |-> k]
    <3>1. [[dual |-> b, p1 |-> p1, p2 |-> p2, type |-> y, size |-> z] EXCEPT !.type = v]
            = [dual |-> b, p1 |-> p1, p2 |-> p2, type |-> v, size |-> z] OBVIOUS
    <3>2. [[dual |-> b, p1 |-> p1, p2 |-> p2, type |-> v, size |-> z] EXCEPT !.size = k]
            = [dual |-> b, p1 |-> p1, p2 |-> p2, type |-> v, size |-> k] OBVIOUS
    <3>3. [[dual |-> b, p1 |-> p1, p2 |-> p2, type |-> y, size |-> z]
             EXCEPT !.type = v, !.size = k]
            = [[[dual |-> b, p1 |-> p1, p2 |-> p2, type |-> y, size |-> z] EXCEPT !.type = v]
                EXCEPT !.size = k]
      BY Zenon
    <3> QED BY <3>1, <3>2, <3>3, Zenon
  <2> QED BY <2>1, Zenon DEF Vars, b, y, z
<1>2. d.size = 3 BY VarsFields, SMT
<1>3. 0 \in Int /\ 3 \in Int /\ 4 \in Int /\ 0 # 3 OBVIOUS
<1>4. P!WithId(0, d) = Changed(0, d.size)
  <2> HIDE DEF d
  <2> QED BY <1>3, Zenon DEF P!WithId
<1>5. P!WithId(3, d) = Changed(3, 4)
  <2> HIDE DEF d
  <2> QED BY Zenon DEF P!WithId
<1>6. Changed(0, 3) = Vars(h, p1, p2, 0, 3) /\ Changed(3, 4) = Vars(h, p1, p2, 3, 4)
  <2> HIDE DEF Changed
  <2> QED BY <1>1, <1>3, Zenon
<1> HIDE DEF Changed
<1> QED BY <1>2, <1>4, <1>5, <1>6, Zenon

(* The driver's variables when it knows the mouse.                         *)
LEMMA IdIs ==
    ASSUME NEW h, NEW x
    PROVE  LET d == Vars(h, x, 0, 0, 3)
               d4 == Vars(h, x, 0, 3, 4)
           IN /\ P!Received("id", 0, d) = Pair(d, P!EnableIrqs)
              /\ P!Received("id", 3, d) = Pair(d4, P!Magic(200, 200, 80, "id2"))
              /\ P!Received("id2", 3, d4) = Pair(d4, P!EnableIrqs)
              /\ P!Received("id2", 4, d4) = Pair(Vars(h, x, 0, 4, 4), P!EnableIrqs)
<1> DEFINE d == Vars(h, x, 0, 0, 3)
           d4 == Vars(h, x, 0, 3, 4)
           d5 == Vars(h, x, 0, 4, 4)
<1>1. P!WithId(0, d) = d /\ P!WithId(3, d) = d4 BY VarsWithId, SMT
<1>2. WithType(d4, 3) = d4 /\ WithType(d4, 4) = d5 BY VarsChanged, SMT
<1>3. 0 # 3 OBVIOUS
<1> HIDE DEF d, d4, d5
<1>4. P!Received("id", 0, d) = Pair(P!WithId(0, d), P!EnableIrqs)
  BY <1>3, OnId, ZenonT(40)
<1>5. P!Received("id", 3, d) = Pair(P!WithId(3, d), P!Magic(200, 200, 80, "id2"))
  BY OnId, SMT
<1>6. P!Received("id2", 3, d4) = Pair(WithType(d4, 3), P!EnableIrqs) BY OnId2, SMT
<1>7. P!Received("id2", 4, d4) = Pair(WithType(d4, 4), P!EnableIrqs) BY OnId2, SMT
<1> QED BY <1>1, <1>2, <1>4, <1>5, <1>6, <1>7, Zenon DEF d, d4, d5

LEMMA MouseStep ==
    ASSUME NEW h, NEW kb, NEW ms, Machine(h, kb, ms), Base,
           MousePoint(h, kb, ms), P!Next, late' = 0
    PROVE  Stays /\ (MousePoint(h, kb, ms)' \/ AskPoint(h, kb, ms)')
<1> DEFINE d == Vars(h, P1(kb), 0, 0, 3)
           d4 == Vars(h, P1(kb), 0, 3, 4)
           d5 == Vars(h, P1(kb), 0, 4, 4)
           u4 == Send2(244, MouseRest)
           on == On(<<>>, 0)
           ack == <<250>>
           t == Then(P!Cmd(32), Get("irqs", <<>>))
           Magic1 == MagicPoint(200, 100, 80, "id", ms, <<>>, 0, d)
           Magic2 == MagicPoint(200, 200, 80, "id2", ms, Rates1, 3, d4)
           t2 == M1(200, 200, 80, "id2")
<1>0. ms # "none" /\ dev.ms = ms /\ hw = "dual"
      /\ (ms = "generic" \/ ms = "zaxis" \/ ms = "5btn")
  <2>1. ms # "none" /\ dev.ms = ms /\ hw = h /\ h \in {"single", "dual"}
        /\ (h = "single" => ms = "none") /\ ms \in {"none", "generic", "zaxis", "5btn"}
    BY Zenon DEF Machine, MousePoint
  <2> QED BY <2>1, Zenon
<1>1. MouseMore \in Seq(Access) /\ MouseRest \in Seq(Access) /\ MouseProgram \in Seq(Access)
      /\ u4 \in Seq(Access)
  BY MouseIs, Zenon
<1>2. "unused" \in {"ack", "unused"} /\ "id" \in Tags /\ "id2" \in Tags BY DEF Tags
<1>3. MouseMore = Get("unused", u4) /\ MouseRest = Get("unused", MouseProgram)
  BY Zenon DEF MouseMore, MouseRest
<1>4. Hears(ms, Fresh, 246, Fresh, ack) /\ Hears(ms, Fresh, 244, on, ack)
  BY <1>0, FreshHears, ZenonT(40) DEF On
<1>5. Short(<<>>) BY Shorts, Zenon
<1>6. Less(ack) = <<>> BY Answers, Zenon
<1>7. MousePoint(h, kb, ms)' <=>
        (\/ Sending(246, MouseMore, Fresh, <<>>, d)'
         \/ At(MouseMore, Fresh, ack, d)'
         \/ Sending(244, MouseRest, Fresh, <<>>, d)'
         \/ At(MouseRest, on, ack, d)'
         \/ Magic1'
         \/ ms # "generic" /\ Magic2')
  BY <1>0, Zenon DEF MousePoint
<1>8. \/ Sending(246, MouseMore, Fresh, <<>>, d)
      \/ At(MouseMore, Fresh, ack, d)
      \/ Sending(244, MouseRest, Fresh, <<>>, d)
      \/ At(MouseRest, on, ack, d)
      \/ Magic1
      \/ ms # "generic" /\ Magic2
  BY Zenon DEF MousePoint
<1>9. At(u4, Fresh, <<>>, d)' => Sending(244, MouseRest, Fresh, <<>>, d)'
  BY Zenon DEF Sending
<1>10. At(MouseProgram, on, <<>>, d)' => Magic1'
  BY SMT DEF MouseProgram, M1, M3, MagicPoint, RatePoint, Sending
<1>11. At(t2, On(Rates1, 3), <<>>, d4)' => Magic2'
  BY SMT DEF M1, M3, MagicPoint, RatePoint, Sending
<1>12. 200 \in Int /\ 100 \in Int /\ 80 \in Int OBVIOUS
<1>13. Then(<<>>, P!Magic(200, 200, 80, "id2")) = t2
  <2> DEFINE u == P!Magic(200, 200, 80, "id2")
  <2>1. u = t2 /\ t2 \in Seq(Access) BY <1>2, <1>12, MagicIs, SMT
  <2> HIDE DEF t2, u
  <2>2. Then(<<>>, u) = t2 BY <2>1, Flat, Zenon
  <2> QED BY <2>2, Zenon DEF u
<1>14. Then(<<>>, P!EnableIrqs) = t
  <2>1. P!EnableIrqs = t /\ t \in Seq(Access) BY EnableIrqsIs, Zenon
  <2> HIDE DEF t
  <2> QED BY <2>1, Flat, Zenon
<1>15. /\ P!Received("id", 0, d) = Pair(d, P!EnableIrqs)
       /\ P!Received("id", 3, d) = Pair(d4, P!Magic(200, 200, 80, "id2"))
       /\ P!Received("id2", 3, d4) = Pair(d4, P!EnableIrqs)
       /\ P!Received("id2", 4, d4) = Pair(d5, P!EnableIrqs)
  BY IdIs, Zenon
<1>16. /\ At(t, On(Rates1, 0), <<>>, d)' /\ ms = "generic" => AskPoint(h, kb, ms)'
       /\ At(t, On(Rates2, 3), <<>>, d4)' /\ ms = "zaxis" => AskPoint(h, kb, ms)'
       /\ At(t, On(Rates2, 4), <<>>, d5)' /\ ms = "5btn" => AskPoint(h, kb, ms)'
  <2>1. /\ ms = "generic" => Agreed(h, kb, ms, On(Rates1, 0), d)
        /\ ms = "zaxis" => Agreed(h, kb, ms, On(Rates2, 3), d4)
        /\ ms = "5btn" => Agreed(h, kb, ms, On(Rates2, 4), d5)
    BY Zenon DEF Agreed
  <2>2. On(Rates1, 0) \in Ends /\ On(Rates2, 3) \in Ends /\ On(Rates2, 4) \in Ends
    BY Zenon DEF Ends
  <2>3. t = Then(P!Cmd(32), Get("irqs", <<>>)) BY Zenon
  <2> HIDE DEF d, d4, d5, t
  <2>4. At(t, On(Rates1, 0), <<>>, d)' /\ ms = "generic" => AskPoint(h, kb, ms)'
    BY <2>1, <2>2, <2>3, ToIrqs, Zenon
  <2>5. At(t, On(Rates2, 3), <<>>, d4)' /\ ms = "zaxis" => AskPoint(h, kb, ms)'
    BY <2>1, <2>2, <2>3, ToIrqs, Zenon
  <2>6. At(t, On(Rates2, 4), <<>>, d5)' /\ ms = "5btn" => AskPoint(h, kb, ms)'
    BY <2>1, <2>2, <2>3, ToIrqs, Zenon
  <2> QED BY <2>4, <2>5, <2>6, Zenon
<1>17. 0 \in Int /\ 3 \in Int /\ 4 \in Int OBVIOUS
<1> HIDE DEF d, d4, d5, u4, on, ack, t, t2
<1>21. CASE Sending(246, MouseMore, Fresh, <<>>, d)
  <2> DEFINE b == 246
  <2>1. b \in Int OBVIOUS
  <2>2. Sending(b, MouseMore, Fresh, <<>>, d) /\ Hears(ms, Fresh, b, Fresh, ack)
    BY <1>4, <1>21, Zenon
  <2> HIDE DEF b, Magic1, Magic2
  <2>3. Stays /\ (Sending(b, MouseMore, Fresh, <<>>, d)' \/ At(MouseMore, Fresh, ack, d)')
    BY <1>0, <1>1, <1>5, <2>1, <2>2, FromSendTo, Zenon
  <2> QED BY <2>3, <1>7, Zenon DEF b
<1>22. CASE At(MouseMore, Fresh, ack, d)
  <2>1. At(Get("unused", u4), Fresh, ack, d) BY <1>3, <1>22, Zenon
  <2> HIDE DEF Magic1, Magic2
  <2>2. Stays /\ (At(Get("unused", u4), Fresh, ack, d)' \/ At(u4, Fresh, <<>>, d)')
    BY <1>1, <1>2, <1>6, <2>1, FromUnused, Zenon
  <2> QED BY <1>3, <2>2, <1>7, <1>9, Zenon
<1>23. CASE Sending(244, MouseRest, Fresh, <<>>, d)
  <2> DEFINE b == 244
  <2>1. b \in Int OBVIOUS
  <2>2. Sending(b, MouseRest, Fresh, <<>>, d) /\ Hears(ms, Fresh, b, on, ack)
    BY <1>4, <1>23, Zenon
  <2> HIDE DEF b, Magic1, Magic2
  <2>3. Stays /\ (Sending(b, MouseRest, Fresh, <<>>, d)' \/ At(MouseRest, on, ack, d)')
    BY <1>0, <1>1, <1>5, <2>1, <2>2, FromSendTo, Zenon
  <2> QED BY <2>3, <1>7, Zenon DEF b
<1>24. CASE At(MouseRest, on, ack, d)
  <2>1. At(Get("unused", MouseProgram), on, ack, d) BY <1>3, <1>24, Zenon
  <2> HIDE DEF Magic1, Magic2
  <2>2. Stays /\ (At(Get("unused", MouseProgram), on, ack, d)' \/ At(MouseProgram, on, <<>>, d)')
    BY <1>1, <1>2, <1>6, <2>1, FromUnused, Zenon
  <2> QED BY <1>3, <2>2, <1>7, <1>10, Zenon
<1>25. CASE Magic1
  <2> DEFINE a == 200
             b == 100
             c == 80
             w == Rates1
             z == 0
             new == NewId(ms, w, z)
             r == <<>>
  <2>0. a \in Int /\ b \in Int /\ c \in Int /\ z \in Int BY <1>12
  <2>1. w = Window(r, a, b, c) BY MouseWindows, Zenon
  <2>2. MagicPoint(a, b, c, "id", ms, r, z, d) BY <1>25, Zenon
  <2>3. ms = "generic" => new = 0 BY MouseIds, Zenon
  <2>4. ms # "generic" => new = 3 BY <1>0, MouseIds, Zenon
  <2>5. Leads(ms, r, a, b, c, z, w, new) BY <2>1, <2>3, <2>4, <1>17, Zenon DEF Leads
  <2>6. Magic1' <=> MagicPoint(a, b, c, "id", ms, r, z, d)' BY Zenon
  <2> HIDE DEF a, b, c, w, new, r, z, Magic1, Magic2
  <2>7. CASE ms = "generic"
    <3>1. Decided("id", new, d, d, t) BY <2>3, <2>7, <1>14, <1>15, Zenon DEF Decided
    <3>2. Stays /\ (MagicPoint(a, b, c, "id", ms, r, z, d)' \/ At(t, On(w, new), <<>>, d)')
      BY <1>0, <1>2, <2>0, <2>2, <2>5, <3>1, MagicStepTo, Zenon
    <3>3. On(w, new) = On(Rates1, 0) BY <2>3, <2>7, Zenon DEF w
    <3> QED BY <2>6, <2>7, <3>2, <3>3, <1>7, <1>16, Zenon
  <2>8. CASE ms # "generic"
    <3>1. Decided("id", new, d, d4, t2) BY <2>4, <2>8, <1>13, <1>15, Zenon DEF Decided
    <3>2. Stays /\ (MagicPoint(a, b, c, "id", ms, r, z, d)' \/ At(t2, On(w, new), <<>>, d4)')
      BY <1>0, <1>2, <2>0, <2>2, <2>5, <3>1, MagicStepTo, Zenon
    <3>3. On(w, new) = On(Rates1, 3) BY <2>4, <2>8, Zenon DEF w
    <3> QED BY <2>6, <2>8, <3>2, <3>3, <1>7, <1>11, Zenon
  <2> QED BY <2>7, <2>8, Zenon
<1>26. CASE ms # "generic" /\ Magic2
  <2> DEFINE a == 200
             b == 200
             c == 80
             w == Rates2
             z == 3
             new == NewId(ms, w, z)
             r == Rates1
  <2>0. a \in Int /\ b \in Int /\ c \in Int /\ z \in Int BY <1>12
  <2>1. w = Window(r, a, b, c) BY MouseWindows, Zenon
  <2>2. MagicPoint(a, b, c, "id2", ms, r, z, d4) BY <1>26, Zenon
  <2>3. ms = "zaxis" => new = 3 BY MouseIds, Zenon
  <2>4. ms = "5btn" => new = 4 BY MouseIds, Zenon
  <2>05. ms = "zaxis" \/ ms = "5btn" BY <1>0, <1>26, Zenon
  <2>5. Leads(ms, r, a, b, c, z, w, new)
    BY <2>1, <2>3, <2>4, <2>05, <1>17, Zenon DEF Leads
  <2>6. Magic2' <=> MagicPoint(a, b, c, "id2", ms, r, z, d4)' BY Zenon
  <2> HIDE DEF a, b, c, w, new, r, z, Magic1, Magic2
  <2>7. CASE ms = "zaxis"
    <3>1. Decided("id2", new, d4, d4, t) BY <2>3, <2>7, <1>14, <1>15, Zenon DEF Decided
    <3>2. Stays /\ (MagicPoint(a, b, c, "id2", ms, r, z, d4)' \/ At(t, On(w, new), <<>>, d4)')
      BY <1>0, <1>2, <2>0, <2>2, <2>5, <3>1, MagicStepTo, Zenon
    <3>3. On(w, new) = On(Rates2, 3) BY <2>3, <2>7, Zenon DEF w
    <3> QED BY <1>26, <2>6, <2>7, <3>2, <3>3, <1>7, <1>16, Zenon
  <2>8. CASE ms = "5btn"
    <3>1. Decided("id2", new, d4, d5, t) BY <2>4, <2>8, <1>14, <1>15, Zenon DEF Decided
    <3>2. Stays /\ (MagicPoint(a, b, c, "id2", ms, r, z, d4)' \/ At(t, On(w, new), <<>>, d5)')
      BY <1>0, <1>2, <2>0, <2>2, <2>5, <3>1, MagicStepTo, Zenon
    <3>3. On(w, new) = On(Rates2, 4) BY <2>4, <2>8, Zenon DEF w
    <3> QED BY <1>26, <2>6, <2>8, <3>2, <3>3, <1>7, <1>16, Zenon
  <2> QED BY <2>05, <2>7, <2>8, Zenon
<1> QED BY <1>8, <1>21, <1>22, <1>23, <1>24, <1>25, <1>26, Zenon

-----------------------------------------------------------------------------
(* Driver and controller alone: a step leaves the devices as they are.     *)

Calm == dev.kb_queue = <<>> /\ dev.ms_queue = <<>> /\ hw # "absent" /\ late = 0
Unmoved == dev' = dev /\ hw' = hw /\ late' = 0

LEMMA CalmSteps ==
    ASSUME NEW op, NEW arg, NEW r, Starts(todo, op, arg, r), Calm, P!Next
    PROVE  \/ P!ControllerTakes
           \/ P!HandlerTakes
           \/ op \in {"cmd", "data"} /\ P!Stuck
           \/ op \in {"cmd", "data"} /\ SentOne(op, arg, r)
           \/ op = "inb" /\ Dropped(r) /\ late' = late
           \/ op = "recv" /\ (GotByte(arg, r) \/ GotNothing(arg, r)) /\ late' = late
<1>1. dev.kb_queue = <<>> /\ dev.ms_queue = <<>> /\ hw # "absent" BY Zenon DEF Calm
<1>2. ~P!KeyboardSends /\ ~P!MouseSends /\ ~P!Pending
  BY <1>1, Zenon DEF P!KeyboardSends, P!MouseSends, P!Pending
<1>3. /\ Dropped(r) => late' = late
      /\ GotByte(arg, r) => late' = late
      /\ GotNothing(arg, r) => late' = late
  BY <1>2, Zenon DEF Dropped, GotByte, GotNothing
<1>4. P!SendTimeout => op \in {"cmd", "data"} BY Zenon DEF P!SendTimeout, P!Op, Starts
<1> QED BY <1>1, <1>2, <1>3, <1>4, DriverSteps, Zenon

(* The handlers may take what is in the output buffer if that makes no     *)
(* difference.                                                             *)
LEMMA HandlerAlone ==
    ASSUME NEW t, NEW i, NEW g, NEW x, NEW A, NEW d, Alone(t, i, g, x, A, d),
           Calm, P!HandlerTakes
    PROVE  Unmoved /\ Alone(t, i, g, x, {<<>>}, d)' /\ answer # <<>>
  BY Zenon DEF P!HandlerTakes, Alone, Calm, Unmoved

LEMMA SentAlone ==
    ASSUME NEW t, NEW g, NEW x, NEW A, NEW d, NEW op \in {"cmd", "data"}, NEW arg, NEW r,
           Starts(t, op, arg, r), Alone(t, <<>>, g, x, A, d),
           <<>> \in A, Calm, P!Next
    PROVE  Unmoved /\ (Alone(t, <<>>, g, x, A, d)' \/ Alone(r, <<op, arg>>, g, x, A, d)')
<1>1. todo = t /\ inp = <<>> BY Zenon DEF Alone
<1>2. op # "inb" /\ op # "recv" OBVIOUS
<1>3. ~P!ControllerTakes /\ ~P!Stuck BY <1>1, Zenon DEF P!ControllerTakes, P!Stuck
<1>4. P!HandlerTakes \/ SentOne(op, arg, r) BY <1>1, <1>2, <1>3, CalmSteps, Zenon
<1>5. CASE P!HandlerTakes
  <2>1. Unmoved /\ Alone(t, <<>>, g, x, {<<>>}, d)' BY <1>5, HandlerAlone, Zenon
  <2> QED BY <2>1, Zenon DEF Alone
<1>6. CASE SentOne(op, arg, r) BY <1>6, Zenon DEF SentOne, Alone, Unmoved, Calm
<1> QED BY <1>4, <1>5, <1>6

(* While a byte is in the input buffer the driver waits for the controller *)
(* to take it.                                                             *)
Quietly(i) == \A c \in {32, 169, 170, 171} : i # <<"cmd", c>>

LEMMA WaitsAlone ==
    ASSUME NEW t, NEW i, NEW g, NEW x, NEW A, NEW d, NEW op, NEW arg, NEW r,
           Starts(t, op, arg, r), Alone(t, i, g, x, A, d), i # <<>>, <<>> \in A,
           op # "inb", op = "recv" => A = {<<>>}, Quietly(i) \/ A = {<<>>},
           \E k, b : i = <<k, b>>,
           Calm, P!Next
    PROVE  (Unmoved /\ Alone(t, i, g, x, A, d)') \/ P!ControllerTakes
<1>1. todo = t /\ inp = i /\ answer \in A BY Zenon DEF Alone
<1>2. ~P!Stuck
  <2>1. CASE A = {<<>>} BY <1>1, <2>1, Zenon DEF P!Stuck
  <2>2. CASE Quietly(i)
    <3>1. PICK k, b : i = <<k, b>> OBVIOUS
    <3>2. i[1] = k /\ i[2] = b BY <3>1
    <3> QED BY <1>1, <2>2, <3>1, <3>2, SMT DEF P!Stuck, Quietly
  <2> QED BY <2>1, <2>2
<1>3. ~SentOne(op, arg, r) /\ ~GotNothing(arg, r) BY <1>1, Zenon DEF SentOne, GotNothing
<1>4. op = "recv" => ~GotByte(arg, r) BY <1>1, Zenon DEF GotByte
<1>5. P!HandlerTakes \/ P!ControllerTakes BY <1>1, <1>2, <1>3, <1>4, CalmSteps, Zenon
<1>6. CASE P!HandlerTakes
  <2>1. Unmoved /\ Alone(t, i, g, x, {<<>>}, d)' BY <1>6, HandlerAlone, Zenon
  <2> QED BY <2>1, Zenon DEF Alone
<1> QED BY <1>5, <1>6

LEMMA InbAlone ==
    ASSUME NEW r \in Seq(Access), NEW i, NEW g, NEW x, NEW A, NEW d, <<>> \in A,
           Alone(Then(P!Inb, r), i, g, x, A, d), Calm, P!Next
    PROVE  \/ Unmoved /\ (\/ Alone(Then(P!Inb, r), i, g, x, A, d)'
                          \/ Alone(r, i, g, x, {<<>>}, d)')
           \/ P!ControllerTakes
<1> DEFINE t == Then(P!Inb, r)
<1>1. Starts(t, "inb", 0, r) BY InbStarts, Zenon
<1>3. Alone(t, i, g, x, A, d) BY Zenon
<1> HIDE DEF t
<1>4. todo = t BY <1>3, Zenon DEF Alone
<1>5. P!HandlerTakes \/ P!ControllerTakes \/ (Dropped(r) /\ late' = late)
  BY <1>1, <1>4, CalmSteps, OpNames, Zenon
<1>6. CASE P!HandlerTakes
  <2>1. Unmoved /\ Alone(t, i, g, x, {<<>>}, d)' BY <1>3, <1>6, HandlerAlone, Zenon
  <2> QED BY <2>1, Zenon DEF Alone, t
<1>7. CASE Dropped(r) /\ late' = late
  BY <1>3, <1>7, Zenon DEF Dropped, Alone, Unmoved, Calm
<1> QED BY <1>5, <1>6, <1>7

(* The driver gets the controller's answer, or waits in vain.              *)
Reads(a, v) == (a = <<>> /\ v = -1) \/ (\E k : a = <<k, v>>)

LEMMA RecvAlone ==
    ASSUME NEW tag \in Tags, NEW g, NEW x, NEW a, NEW v, NEW d, NEW d2, NEW t2, NEW more,
           P!Received(tag, v, d) = Pair(d2, more), Then(<<>>, more) = t2, Reads(a, v),
           Alone(Get(tag, <<>>), <<>>, g, x, {a}, d), Calm, P!Next
    PROVE  Unmoved /\ (\/ P!HandlerTakes /\ Alone(Get(tag, <<>>), <<>>, g, x, {<<>>}, d)'
                       \/ Alone(t2, <<>>, g, x, {<<>>}, d2)')
<1> DEFINE t == Get(tag, <<>>)
<1>1. Starts(t, "recv", tag, <<>>)
  <2>1. <<>> \in Seq(Access) OBVIOUS
  <2> QED BY <2>1, GetType, Zenon
<1>2. Goes(tag, v, d, d2, more) BY PairIs, Zenon
<1>3. Alone(t, <<>>, g, x, {a}, d) BY Zenon
<1> HIDE DEF t
<1>4. todo = t /\ inp = <<>> /\ answer = a /\ drv = d BY <1>3, Zenon DEF Alone
<1>5. ~P!ControllerTakes BY <1>4, Zenon DEF P!ControllerTakes
<1>6. P!HandlerTakes \/ ((GotByte(tag, <<>>) \/ GotNothing(tag, <<>>)) /\ late' = late)
  BY <1>1, <1>4, <1>5, CalmSteps, OpNames, Zenon
<1>7. CASE P!HandlerTakes BY <1>3, <1>7, HandlerAlone, Zenon DEF t
<1>8. CASE (GotByte(tag, <<>>) \/ GotNothing(tag, <<>>)) /\ late' = late
  <2>1. answer' = <<>> /\ Got(tag, <<>>, v)
    <3>1. CASE GotByte(tag, <<>>)
      <4>1. PICK k : a = <<k, v>> BY <1>4, <3>1, Zenon DEF GotByte, Reads
      <4>2. a[2] = v BY <4>1
      <4> QED BY <1>4, <3>1, <4>2, Zenon DEF GotByte
    <3>2. CASE GotNothing(tag, <<>>)
      <4>1. a = <<>> BY <1>4, <3>2, Zenon DEF GotNothing
      <4>2. \A k : a # <<k, v>> BY <4>1
      <4>3. v = -1 BY <4>2, Zenon DEF Reads
      <4> QED BY <1>4, <3>2, <4>1, <4>3, Zenon DEF GotNothing
    <3> QED BY <1>8, <3>1, <3>2
  <2>2. drv' = d2 /\ todo' = t2 BY <1>2, <1>4, <2>1, Zenon DEF Got, Goes
  <2>3. /\ hw' = hw /\ inp' = inp /\ config' = config /\ target' = target /\ dev' = dev
    BY <2>1, Zenon DEF Got
  <2>4. config = x /\ target = g /\ late = 0 BY <1>3, Zenon DEF Alone, Calm
  <2> QED BY <1>4, <1>8, <2>1, <2>2, <2>3, <2>4, Zenon DEF Alone, Unmoved
<1> QED BY <1>6, <1>7, <1>8, Zenon

(* What the controller does with a command of its own.                     *)
Obeys(g, x, a) ==
    /\ inp' = <<>> /\ target' = g /\ config' = x /\ answer' = a
    /\ dev' = dev /\ Rest

LEMMA CommandTaken ==
    ASSUME NEW c \in Int, inp = <<"cmd", c>>, P!ControllerTakes
    PROVE  P!Command(c) /\ inp' = <<>> /\ dev' = dev /\ Rest
<1>1. inp # <<>> /\ inp[1] = "cmd" /\ inp[2] = c OBVIOUS
<1>2. P!Command(c) /\ inp' = <<>> /\ Rest BY <1>1, Zenon DEF P!ControllerTakes, Rest
<1>3. dev' = dev BY <1>2, Zenon DEF P!Command
<1> QED BY <1>2, <1>3

Own == {173, 167, 32, 96, 170, 171, 169}
Commanded(c) ==
    /\ c = 173 => Obeys(target, P!With(config, 16), answer)
    /\ c = 167 => Obeys(target, IF hw = "dual" THEN P!With(config, 32) ELSE config, answer)
    /\ c = 32 => Obeys(target, config, <<0, config>>)
    /\ c = 96 => Obeys("config", config, answer)
    /\ c = 170 => Obeys(target, config, <<0, 85>>)
    /\ c = 171 => Obeys(target, config, <<0, 0>>)
    /\ c = 169 /\ hw = "dual" => Obeys(target, config, <<0, 0>>)
    /\ c = 169 /\ hw # "dual" => Obeys(target, config, answer)

LEMMA Commands ==
    ASSUME NEW c \in Own, inp = <<"cmd", c>>, P!ControllerTakes
    PROVE  Commanded(c)
<1>0. c \in {173, 167, 32, 96, 170, 171, 169} BY DEF Own
<1>1. c \in Int BY <1>0
<1>2. P!Command(c) /\ inp' = <<>> /\ dev' = dev /\ Rest BY <1>1, CommandTaken, Zenon
<1>3. target' = (IF c = 96 THEN "config" ELSE target) BY <1>0, <1>2, SMT DEF P!Command
<1>4. /\ c = 173 => config' = P!With(config, 16)
      /\ c = 167 => config' = IF hw = "dual" THEN P!With(config, 32) ELSE config
      /\ c \notin {173, 167} => config' = config
  BY <1>0, <1>2, SMT DEF P!Command
<1>5. /\ c \in {173, 167, 96} => answer' = answer
      /\ c = 32 => answer' = <<0, config>>
      /\ c = 170 => answer' = <<0, 85>>
      /\ c = 171 => answer' = <<0, 0>>
      /\ c = 169 /\ hw = "dual" => answer' = <<0, 0>>
      /\ c = 169 /\ hw # "dual" => answer' = answer
  BY <1>0, <1>2, SMT DEF P!Command, P!Answer, P!Quiet
<1> QED BY <1>0, <1>2, <1>3, <1>4, <1>5, SMT DEF Obeys, Commanded

(* The byte that is its configuration.                                     *)
LEMMA ConfigWritten ==
    ASSUME NEW b \in Int, inp = <<"data", b>>, target = "config", P!ControllerTakes
    PROVE  Obeys("p1", b, answer)
<1>1. inp # <<>> /\ inp[1] # "cmd" /\ inp[2] = b OBVIOUS
<1>2. target # "p1" /\ target # "p2" OBVIOUS
<1> QED BY <1>1, <1>2, Zenon DEF P!ControllerTakes, P!Quiet, Rest, Obeys

LEMMA ObeysAlone ==
    ASSUME NEW t, NEW i, NEW g, NEW x, NEW A, NEW d, NEW g2, NEW x2, NEW a2, NEW A2,
           Alone(t, i, g, x, A, d), Calm, Obeys(g2, x2, a2), a2 \in A2
    PROVE  Unmoved /\ Alone(t, <<>>, g2, x2, A2, d)'
  BY Zenon DEF Alone, Obeys, Rest, Unmoved, Calm

(* No handler takes a byte.                                                *)
LEMMA NoHandler ==
    ASSUME config \in Configs
    PROVE  ~P!HandlerTakes
<1>1. ~P!HasBit(config, 1) /\ ~P!HasBit(config, 2) BY ConfigBits, Zenon
<1> QED BY <1>1, Zenon DEF P!HandlerTakes

LEMMA UnmovedBase ==
    ASSUME Unmoved, DevTypeOK, hw # "absent"
    PROVE  /\ DevTypeOK' /\ late' = 0 /\ hw' # "absent"
           /\ config' \in Configs => Base'
           /\ \A h, kb, ms : Machine(h, kb, ms) => Machine(h, kb, ms)'
<1>1. DevTypeOK' BY SMT DEF Unmoved, DevTypeOK
<1> QED BY <1>1, Zenon DEF Unmoved, Base, Machine

-----------------------------------------------------------------------------
(* ps2_enable_irqs.                                                        *)

LEMMA IrqsTypes ==
    /\ Get("irqs", <<>>) \in Seq(Access) /\ "irqs" \in Tags /\ Ask \in Seq(Access)
    /\ Starts(Ask, "cmd", 32, Get("irqs", <<>>))
    /\ Starts(Get("irqs", <<>>), "recv", "irqs", <<>>)
    /\ \A v \in Configs :
         /\ Write(v) \in Seq(Access) /\ Starts(Write(v), "data", On12(v), <<>>)
         /\ On12(v) \in Int /\ v \in Int
         /\ \A d : P!Received("irqs", v, d) = Pair(d, Then(P!Cmd(96), Write(v)))
         /\ Then(<<>>, Then(P!Cmd(96), Write(v))) = Then(P!Cmd(96), Write(v))
<1>1. "irqs" \in Tags BY DEF Tags
<1>2. <<>> \in Seq(Access) OBVIOUS
<1>3. 32 \in Int OBVIOUS
<1>4. 96 \in Int OBVIOUS
<1>5. Get("irqs", <<>>) \in Seq(Access) /\ Starts(Get("irqs", <<>>), "recv", "irqs", <<>>)
  BY <1>1, <1>2, GetType, Zenon
<1>6. Ask \in Seq(Access) /\ Starts(Ask, "cmd", 32, Get("irqs", <<>>))
  BY <1>3, <1>5, CmdType, Zenon DEF Ask
<1>7. ASSUME NEW v \in Configs
      PROVE  /\ Write(v) \in Seq(Access) /\ Starts(Write(v), "data", On12(v), <<>>)
             /\ On12(v) \in Int /\ v \in Int
             /\ \A d : P!Received("irqs", v, d) = Pair(d, Then(P!Cmd(96), Write(v)))
             /\ Then(<<>>, Then(P!Cmd(96), Write(v))) = Then(P!Cmd(96), Write(v))
  <2>1. On12(v) \in Int /\ v \in Int /\ v % 256 = v BY ConfigBits, Zenon
  <2>2. Write(v) \in Seq(Access) /\ Starts(Write(v), "data", On12(v), <<>>)
    BY <1>2, <2>1, CmdType, DataStarts, Zenon DEF Write
  <2>3. P!Data(On12(v)) \in Seq(Access) BY <2>1, OpTypes, Zenon
  <2>4. Write(v) = P!Data(On12(v)) BY <2>3, Flat, Zenon DEF Write
  <2>5. \A d : P!Received("irqs", v, d) = Pair(d, P!Cmd(96) \o P!Data(On12(v % 256)))
    BY OnIrqs, Zenon
  <2>6. \A d : P!Received("irqs", v, d) = Pair(d, Then(P!Cmd(96), Write(v)))
    BY <2>1, <2>4, <2>5, Zenon DEF Then
  <2>7. Then(P!Cmd(96), Write(v)) \in Seq(Access) BY <1>4, <2>2, CmdType, Zenon
  <2> QED BY <2>1, <2>2, <2>6, <2>7, Flat, Zenon
<1> QED BY <1>1, <1>5, <1>6, <1>7, Zenon

LEMMA AskStep ==
    ASSUME NEW h, NEW kb, NEW ms, Machine(h, kb, ms), Base, AskPoint(h, kb, ms),
           P!Next, late' = 0
    PROVE  Stays /\ (AskPoint(h, kb, ms)' \/ IrqsPoint(h, kb, ms)')
<1>1. PICK m \in Ends : Agreed(h, kb, ms, m, drv) /\ At(Ask, m, <<>>, drv)
  BY Zenon DEF AskPoint
<1>2. todo = Ask /\ Settled(m, <<>>) BY <1>1, Zenon DEF At
<1>3. Starts(todo, "cmd", 32, Get("irqs", <<>>)) /\ At(todo, m, <<>>, drv)
  BY <1>1, <1>2, IrqsTypes, Zenon
<1>4. \/ Stays /\ todo' = todo /\ Settled(m, <<>>)' /\ drv' = drv
      \/ SentOne("cmd", 32, Get("irqs", <<>>))
  BY <1>3, SettledSteps, OpNames, Zenon
<1>5. CASE Stays /\ todo' = todo /\ Settled(m, <<>>)' /\ drv' = drv
  <2>1. At(Ask, m, <<>>, drv)' /\ Agreed(h, kb, ms, m, drv)'
    BY <1>1, <1>2, <1>5, Zenon DEF At, Agreed
  <2> QED BY <1>5, <2>1, Zenon DEF AskPoint
<1>6. CASE SentOne("cmd", 32, Get("irqs", <<>>))
  <2>1. /\ inp = <<>> /\ inp' = <<"cmd", 32>> /\ todo' = Get("irqs", <<>>)
        /\ drv' = drv /\ hw' = hw /\ answer' = answer /\ config' = config /\ target' = target
        /\ dev' = dev
    BY <1>6, Zenon DEF SentOne
  <2>2. Idle(m, <<>>)
    <3>1. \A b \in Int : inp # <<"data", b>> BY <2>1
    <3> QED BY <1>2, <3>1, Zenon DEF Settled, ToKeyboard, ToMouse
  <2>3. Nothing BY <2>2, NothingUnread, Zenon DEF Idle, Base, DevTypeOK
  <2>4. m = StateOf(dev) /\ target = "p1" BY <2>2, Zenon DEF Idle
  <2>5. Agreed(h, kb, ms, m, drv)' BY <1>1, <2>1, Zenon DEF Agreed
  <2>6. m = StateOf(dev') /\ dev'.kb_queue = <<>> /\ dev'.ms_queue = <<>>
    BY <2>1, <2>3, <2>4, Zenon DEF Nothing
  <2>7. Alone(Get("irqs", <<>>), <<"cmd", 32>>, "p1", config, {<<>>}, drv)'
    BY <2>1, <2>3, <2>4, Zenon DEF Alone, Nothing
  <2>8. config \in Configs /\ config' = config BY <2>1, Zenon DEF Base
  <2>9. IrqsPoint(h, kb, ms)' BY <2>5, <2>6, <2>7, <2>8, Zenon DEF IrqsPoint
  <2>10. Stays BY <2>1, StaysIs, Zenon
  <2> QED BY <2>9, <2>10
<1> QED BY <1>4, <1>5, <1>6, Zenon

LEMMA IrqsStep ==
    ASSUME NEW h, NEW kb, NEW ms, IrqsPoint(h, kb, ms), hw # "absent", late = 0, P!Next
    PROVE  Unmoved /\ IrqsPoint(h, kb, ms)'
<1>0. PICK d : d = drv OBVIOUS
<1>1. PICK m \in Ends, v \in Configs :
      /\ Agreed(h, kb, ms, m, d)
      /\ m = StateOf(dev) /\ dev.kb_queue = <<>> /\ dev.ms_queue = <<>>
      /\ \/ Alone(Get("irqs", <<>>), <<"cmd", 32>>, "p1", v, {<<>>}, d)
         \/ Alone(Get("irqs", <<>>), <<>>, "p1", v, {<<0, v>>}, d)
         \/ Alone(Then(P!Cmd(96), Write(v)), <<>>, "p1", v, {<<>>}, d)
         \/ Alone(Write(v), <<"cmd", 96>>, "p1", v, {<<>>}, d)
         \/ Alone(Write(v), <<>>, "config", v, {<<>>}, d)
         \/ Alone(<<>>, <<"data", On12(v)>>, "config", v, {<<>>}, d)
         \/ Alone(<<>>, <<>>, "p1", On12(v), {<<>>}, d)
  BY <1>0, ZenonT(40) DEF IrqsPoint
<1>2. Calm BY <1>1, Zenon DEF Calm
<1> DEFINE Goal ==
      /\ Unmoved
      /\ \/ Alone(Get("irqs", <<>>), <<"cmd", 32>>, "p1", v, {<<>>}, d)'
         \/ Alone(Get("irqs", <<>>), <<>>, "p1", v, {<<0, v>>}, d)'
         \/ Alone(Then(P!Cmd(96), Write(v)), <<>>, "p1", v, {<<>>}, d)'
         \/ Alone(Write(v), <<"cmd", 96>>, "p1", v, {<<>>}, d)'
         \/ Alone(Write(v), <<>>, "config", v, {<<>>}, d)'
         \/ Alone(<<>>, <<"data", On12(v)>>, "config", v, {<<>>}, d)'
         \/ Alone(<<>>, <<>>, "p1", On12(v), {<<>>}, d)'
<1>3. SUFFICES Goal
  <2>1. ASSUME Goal
        PROVE  Unmoved /\ IrqsPoint(h, kb, ms)'
    <3>1. drv' = d BY <2>1, Zenon DEF Alone
    <3>2. Agreed(h, kb, ms, m, drv') BY <1>1, <3>1, Zenon
    <3>3. m = StateOf(dev') /\ dev'.kb_queue = <<>> /\ dev'.ms_queue = <<>>
      BY <1>1, <2>1, Zenon DEF Unmoved
    <3>4. \/ Alone(Get("irqs", <<>>), <<"cmd", 32>>, "p1", v, {<<>>}, drv)'
          \/ Alone(Get("irqs", <<>>), <<>>, "p1", v, {<<0, v>>}, drv)'
          \/ Alone(Then(P!Cmd(96), Write(v)), <<>>, "p1", v, {<<>>}, drv)'
          \/ Alone(Write(v), <<"cmd", 96>>, "p1", v, {<<>>}, drv)'
          \/ Alone(Write(v), <<>>, "config", v, {<<>>}, drv)'
          \/ Alone(<<>>, <<"data", On12(v)>>, "config", v, {<<>>}, drv)'
          \/ Alone(<<>>, <<>>, "p1", On12(v), {<<>>}, drv)'
      BY <2>1, <3>1, Zenon
    <3> QED BY <2>1, <3>2, <3>3, <3>4, Zenon DEF IrqsPoint
  <2> QED BY <2>1
<1>4. /\ On12(v) \in Int /\ v \in Int /\ Write(v) \in Seq(Access)
      /\ Starts(Write(v), "data", On12(v), <<>>)
      /\ P!Received("irqs", v, d) = Pair(d, Then(P!Cmd(96), Write(v)))
      /\ Then(<<>>, Then(P!Cmd(96), Write(v))) = Then(P!Cmd(96), Write(v))
      /\ "irqs" \in Tags
  BY IrqsTypes, Zenon
<1>5. <<>> \in {<<>>} /\ <<0, v>> \in {<<0, v>>} /\ <<>> \in Seq(Access) OBVIOUS
<1>6. CASE Alone(Get("irqs", <<>>), <<"cmd", 32>>, "p1", v, {<<>>}, d)
  <2>0. <<"cmd", 32>> # <<>> /\ "recv" # "inb" OBVIOUS
  <2>1. \/ Unmoved /\ Alone(Get("irqs", <<>>), <<"cmd", 32>>, "p1", v, {<<>>}, d)'
        \/ P!ControllerTakes
    <3>1. Starts(Get("irqs", <<>>), "recv", "irqs", <<>>) BY IrqsTypes, Zenon
    <3>2. <<>> \in {<<>>} OBVIOUS
    <3> QED BY <1>2, <1>6, <2>0, <3>1, <3>2, WaitsAlone, Zenon
  <2>2. CASE P!ControllerTakes
    <3>1. inp = <<"cmd", 32>> /\ target = "p1" /\ config = v BY <1>6, Zenon DEF Alone
    <3>2. 32 \in Own BY DEF Own
    <3>4. Commanded(32) BY <2>2, <3>1, <3>2, Commands, Zenon
    <3>3. Obeys("p1", v, <<0, v>>) BY <3>1, <3>4, Zenon DEF Commanded
    <3> QED BY <1>2, <1>5, <1>6, <3>3, ObeysAlone, Zenon
  <2> QED BY <2>1, <2>2, Zenon
<1>7. CASE Alone(Get("irqs", <<>>), <<>>, "p1", v, {<<0, v>>}, d)
  <2>1. Reads(<<0, v>>, v) BY Zenon DEF Reads
  <2>2. config \in Configs BY <1>7, Zenon DEF Alone
  <2>3. ~P!HandlerTakes BY <2>2, NoHandler, Zenon
  <2> DEFINE a == <<0, v>>
             t == Then(P!Cmd(96), Write(v))
  <2>4. Reads(a, v) /\ Alone(Get("irqs", <<>>), <<>>, "p1", v, {a}, d)
    BY <1>7, <2>1, Zenon
  <2> HIDE DEF a
  <2>5. Unmoved /\ Alone(t, <<>>, "p1", v, {<<>>}, d)'
    BY <1>2, <1>4, <2>3, <2>4, RecvAlone, Zenon
  <2> QED BY <2>5, Zenon
<1>8. CASE Alone(Then(P!Cmd(96), Write(v)), <<>>, "p1", v, {<<>>}, d)
  <2>1. 96 \in Int OBVIOUS
  <2>2. Unmoved /\ (\/ Alone(Then(P!Cmd(96), Write(v)), <<>>, "p1", v, {<<>>}, d)'
                    \/ Alone(Write(v), <<"cmd", 96>>, "p1", v, {<<>>}, d)')
    <3>1. Starts(Then(P!Cmd(96), Write(v)), "cmd", 96, Write(v))
      BY <1>4, <2>1, CmdType, Zenon
    <3>2. "cmd" \in {"cmd", "data"} /\ <<>> \in {<<>>} OBVIOUS
    <3> QED BY <1>2, <1>8, <3>1, <3>2, SentAlone, Zenon
  <2> QED BY <2>2, Zenon
<1>9. CASE Alone(Write(v), <<"cmd", 96>>, "p1", v, {<<>>}, d)
  <2>0. <<"cmd", 96>> # <<>> /\ "data" # "inb" OBVIOUS
  <2>1. \/ Unmoved /\ Alone(Write(v), <<"cmd", 96>>, "p1", v, {<<>>}, d)'
        \/ P!ControllerTakes
    BY <1>2, <1>4, <1>5, <1>9, <2>0, WaitsAlone, Zenon
  <2>2. CASE P!ControllerTakes
    <3>1. inp = <<"cmd", 96>> /\ config = v /\ answer = <<>> BY <1>9, Zenon DEF Alone
    <3>2. 96 \in Own BY DEF Own
    <3>4. Commanded(96) BY <2>2, <3>1, <3>2, Commands, Zenon
    <3>3. Obeys("config", v, <<>>) BY <3>1, <3>4, Zenon DEF Commanded
    <3> QED BY <1>2, <1>5, <1>9, <3>3, ObeysAlone, Zenon
  <2> QED BY <2>1, <2>2, Zenon
<1>10. CASE Alone(Write(v), <<>>, "config", v, {<<>>}, d)
  <2>2. Unmoved /\ (\/ Alone(Write(v), <<>>, "config", v, {<<>>}, d)'
                    \/ Alone(<<>>, <<"data", On12(v)>>, "config", v, {<<>>}, d)')
    <3>1. Starts(Write(v), "data", On12(v), <<>>) BY <1>4, Zenon
    <3>2. "data" \in {"cmd", "data"} /\ <<>> \in {<<>>} OBVIOUS
    <3> QED BY <1>2, <1>10, <3>1, <3>2, SentAlone, Zenon
  <2> QED BY <2>2, Zenon
<1>11. CASE \/ Alone(<<>>, <<"data", On12(v)>>, "config", v, {<<>>}, d)
            \/ Alone(<<>>, <<>>, "p1", On12(v), {<<>>}, d)
  <2>1. todo = <<>> /\ answer = <<>> BY <1>11, Zenon DEF Alone
  <2>2. P!ControllerTakes
    BY <1>1, <2>1, Zenon DEF P!Next, P!Driver, P!Send, P!SendTimeout, P!DropByte, P!RecvByte,
      P!RecvTimeout, P!Op, P!HandlerTakes, P!KeyboardSends, P!MouseSends
  <2>3. Alone(<<>>, <<"data", On12(v)>>, "config", v, {<<>>}, d)
    BY <1>11, <2>2, Zenon DEF Alone, P!ControllerTakes
  <2>4. inp = <<"data", On12(v)>> /\ target = "config" BY <2>3, Zenon DEF Alone
  <2>5. Obeys("p1", On12(v), <<>>) BY <1>4, <2>1, <2>2, <2>4, ConfigWritten, Zenon
  <2> QED BY <1>2, <1>5, <2>3, <2>5, ObeysAlone, Zenon
<1> QED BY <1>1, <1>6, <1>7, <1>8, <1>9, <1>10, <1>11, Zenon

(* The controller takes a command, and answers some.                       *)
After(c, h, x) ==
    CASE c = 173 -> P!With(x, 16)
      [] c = 167 -> IF h = "dual" THEN P!With(x, 32) ELSE x
      [] OTHER -> x
Goal(c, g) == IF c = 96 THEN "config" ELSE g
Reply(c, h, x) ==
    CASE c = 32 -> <<0, x>>
      [] c = 170 -> <<0, 85>>
      [] c = 171 -> <<0, 0>>
      [] OTHER -> IF h = "dual" THEN <<0, 0>> ELSE <<>>

(* Commands without an answer, and the others.                              *)
Mute == {173, 167, 96}
Asking == {32, 169, 170, 171}

LEMMA Taken ==
    ASSUME NEW c \in Mute, NEW t, NEW g, NEW x, NEW A, NEW d, NEW h, hw = h,
           Alone(t, <<"cmd", c>>, g, x, A, d), Calm, P!ControllerTakes
    PROVE  Unmoved /\ Alone(t, <<>>, Goal(c, g), After(c, h, x), A, d)'
<1>1. inp = <<"cmd", c>> /\ target = g /\ config = x /\ answer \in A BY Zenon DEF Alone
<1>0. c \in {173, 167, 96} BY DEF Mute
<1>2. c \in Own BY <1>0 DEF Own
<1>3. Commanded(c) BY <1>1, <1>2, Commands, Zenon
<1>4. Obeys(Goal(c, g), After(c, h, x), answer)
  <2>1. CASE c = 173
    <3>1. Goal(c, g) = g /\ After(c, h, x) = P!With(x, 16) BY <2>1, SMT DEF Goal, After
    <3> QED BY <1>1, <1>3, <2>1, <3>1, Zenon DEF Commanded
  <2>2. CASE c = 167
    <3>1. Goal(c, g) = g /\ After(c, h, x) = IF h = "dual" THEN P!With(x, 32) ELSE x
      BY <2>2, SMT DEF Goal, After
    <3> QED BY <1>1, <1>3, <2>2, <3>1, Zenon DEF Commanded
  <2>3. CASE c = 96
    <3>1. Goal(c, g) = "config" /\ After(c, h, x) = x BY <2>3, SMT DEF Goal, After
    <3> QED BY <1>1, <1>3, <2>3, <3>1, Zenon DEF Commanded
  <2> QED BY <1>0, <2>1, <2>2, <2>3
<1> QED BY <1>1, <1>4, ObeysAlone, Zenon

LEMMA TakenAlone ==
    ASSUME NEW c \in Mute, NEW t, NEW g, NEW x, NEW A, NEW d, NEW h, hw = h,
           NEW op \in {"cmd", "data"}, NEW arg, NEW r, Starts(t, op, arg, r), <<>> \in A,
           Alone(t, <<"cmd", c>>, g, x, A, d), Calm, P!Next
    PROVE  Unmoved /\ (\/ Alone(t, <<"cmd", c>>, g, x, A, d)'
                       \/ Alone(t, <<>>, Goal(c, g), After(c, h, x), A, d)')
<1> DEFINE i == <<"cmd", c>>
<1>1. Quietly(i) /\ i # <<>> /\ \E k, b : i = <<k, b>> BY DEF Quietly, Mute
<1>2. op # "inb" /\ op # "recv" OBVIOUS
<1>3. Alone(t, i, g, x, A, d) BY Zenon
<1> HIDE DEF i
<1>4. (Unmoved /\ Alone(t, i, g, x, A, d)') \/ P!ControllerTakes
  BY <1>1, <1>2, <1>3, WaitsAlone, Zenon
<1>5. ASSUME P!ControllerTakes
      PROVE  Unmoved /\ Alone(t, <<>>, Goal(c, g), After(c, h, x), A, d)'
  BY <1>5, Taken, SMT
<1> QED BY <1>4, <1>5, Zenon DEF i

LEMMA AnsweredAlone ==
    ASSUME NEW c \in Asking, NEW t, NEW g, NEW x, NEW d, NEW h, hw = h,
           NEW arg, NEW r, Starts(t, "recv", arg, r),
           Alone(t, <<"cmd", c>>, g, x, {<<>>}, d), Calm, P!Next
    PROVE  Unmoved /\ (\/ Alone(t, <<"cmd", c>>, g, x, {<<>>}, d)'
                       \/ Alone(t, <<>>, g, x, {Reply(c, h, x)}, d)')
<1> DEFINE i == <<"cmd", c>>
<1>0. PICK a : a = Reply(c, h, x) OBVIOUS
<1>1. i # <<>> /\ \E k, b : i = <<k, b>> OBVIOUS
<1>2. "recv" # "inb" /\ <<>> \in {<<>>} OBVIOUS
<1>3. Alone(t, i, g, x, {<<>>}, d) BY Zenon
<1> HIDE DEF i
<1>4. (Unmoved /\ Alone(t, i, g, x, {<<>>}, d)') \/ P!ControllerTakes
  BY <1>1, <1>2, <1>3, WaitsAlone, Zenon
<1>5. CASE P!ControllerTakes
  <2>1. inp = <<"cmd", c>> /\ target = g /\ config = x /\ answer = <<>>
    BY Zenon DEF Alone
  <2>0. c \in {32, 169, 170, 171} BY DEF Asking
  <2>2. c \in Own BY <2>0 DEF Own
  <2>3. Commanded(c) BY <1>5, <2>1, <2>2, Commands, Zenon
  <2>4. Obeys(g, x, a)
    <3>1. CASE c = 32
      <4>1. a = <<0, x>> BY <1>0, <3>1 DEF Reply
      <4> QED BY <2>1, <2>3, <3>1, <4>1, Zenon DEF Commanded
    <3>2. CASE c = 170
      <4>1. a = <<0, 85>> BY <1>0, <3>2 DEF Reply
      <4> QED BY <2>1, <2>3, <3>2, <4>1, Zenon DEF Commanded
    <3>3. CASE c = 171
      <4>1. a = <<0, 0>> BY <1>0, <3>3 DEF Reply
      <4> QED BY <2>1, <2>3, <3>3, <4>1, Zenon DEF Commanded
    <3>4. CASE c = 169
      <4>1. CASE hw = "dual"
        <5>1. a = <<0, 0>> BY <1>0, <3>4, <4>1 DEF Reply
        <5> QED BY <2>1, <2>3, <3>4, <4>1, <5>1, Zenon DEF Commanded
      <4>2. CASE hw # "dual"
        <5>1. a = <<>> BY <1>0, <3>4, <4>2 DEF Reply
        <5>2. Obeys(target, config, answer) BY <2>3, <3>4, <4>2, Zenon DEF Commanded
        <5> QED BY <2>1, <5>1, <5>2, Zenon
      <4> QED BY <4>1, <4>2
    <3> QED BY <2>0, <3>1, <3>2, <3>3, <3>4
  <2>5. a \in {a} OBVIOUS
  <2>6. Unmoved /\ Alone(t, <<>>, g, x, {a}, d)' BY <2>4, <2>5, ObeysAlone, Zenon
  <2> QED BY <1>0, <2>6, Zenon
<1> QED BY <1>0, <1>4, <1>5, Zenon DEF i

-----------------------------------------------------------------------------
(* ps2_initialize up to the enabling of port 1.                            *)

LEMMA EarlyStarts ==
    /\ Starts(E1, "cmd", 173, E2) /\ Starts(E2, "cmd", 167, E3)
    /\ Starts(E3, "cmd", 173, E4) /\ E4 = Then(P!Inb, E5) /\ E5 \in Seq(Access)
    /\ Starts(E5, "cmd", 32, E6) /\ Starts(E6, "recv", "config", <<>>)
    /\ \A c \in Int : Starts(E7(c), "cmd", 96, E8(c)) /\ Starts(E8(c), "data", c, E9)
    /\ Starts(E9, "cmd", 170, E10) /\ Starts(E10, "recv", "self_test", <<>>)
    /\ Starts(E11, "cmd", 171, E12) /\ Starts(E12, "recv", "p1_test", <<>>)
    /\ Starts(E13, "cmd", 169, E14) /\ Starts(E14, "recv", "p2_test", <<>>)
<1>1. /\ "config" \in Tags /\ "self_test" \in Tags /\ "p1_test" \in Tags /\ "p2_test" \in Tags
  BY DEF Tags
<1>2. <<>> \in Seq(Access) OBVIOUS
<1>3. /\ Starts(E6, "recv", "config", <<>>) /\ Starts(E10, "recv", "self_test", <<>>)
      /\ Starts(E12, "recv", "p1_test", <<>>) /\ Starts(E14, "recv", "p2_test", <<>>)
  BY <1>1, <1>2, GetType, Zenon DEF E6, E10, E12, E14
<1>4. Starts(E1, "cmd", 173, E2) /\ Starts(E3, "cmd", 173, E4)
  <2>1. 173 \in Int OBVIOUS
  <2> QED BY <2>1, EarlyTypes, CmdType, Zenon DEF E1, E3
<1>5. Starts(E2, "cmd", 167, E3)
  <2>1. 167 \in Int /\ 1 \in Nat OBVIOUS
  <2> QED BY <2>1, EarlyTypes, CmdStarts, Zenon DEF E2
<1>6. Starts(E5, "cmd", 32, E6)
  <2>1. 32 \in Int OBVIOUS
  <2> QED BY <2>1, EarlyTypes, CmdType, Zenon DEF E5
<1>7. \A c \in Int : Starts(E7(c), "cmd", 96, E8(c))
  <2>1. 96 \in Int OBVIOUS
  <2> QED BY <2>1, EarlyTypes, CmdType, Zenon DEF E7
<1>8. \A c \in Int : Starts(E8(c), "data", c, E9)
  BY EarlyTypes, DataStarts, Zenon DEF E8
<1>9. Starts(E9, "cmd", 170, E10)
  <2>1. 170 \in Int OBVIOUS
  <2> QED BY <2>1, EarlyTypes, CmdType, Zenon DEF E9
<1>10. Starts(E11, "cmd", 171, E12)
  <2>1. 171 \in Int OBVIOUS
  <2> QED BY <2>1, EarlyTypes, CmdType, Zenon DEF E11
<1>11. Starts(E13, "cmd", 169, E14)
  <2>1. 169 \in Int OBVIOUS
  <2> QED BY <2>1, EarlyTypes, CmdType, Zenon DEF E13
<1> QED BY <1>3, <1>4, <1>5, <1>6, <1>7, <1>8, <1>9, <1>10, <1>11, EarlyTypes, Zenon DEF E4

(* The configuration byte while the ports are being disabled.              *)
LEMMA FirstConfigs ==
    ASSUME NEW h \in {"single", "dual"}
    PROVE  /\ After(173, h, 71) = 87 /\ After(167, h, 87) = Config1(h)
           /\ After(173, h, Config1(h)) = Config1(h)
           /\ \A x : After(96, h, x) = x
           /\ \A g : Goal(173, g) = g /\ Goal(167, g) = g /\ Goal(96, g) = "config"
           /\ Config1(h) \in Int
<1>1. After(173, h, 71) = 87 BY DEF After, P!With, P!HasBit
<1>2. After(167, h, 87) = Config1(h) BY DEF After, P!With, P!HasBit, Config1
<1>3. After(173, h, Config1(h)) = Config1(h) BY DEF After, P!With, P!HasBit, Config1
<1>4. \A x : After(96, h, x) = x BY DEF After
<1>5. \A g : Goal(173, g) = g /\ Goal(167, g) = g /\ Goal(96, g) = "config" BY DEF Goal
<1> QED BY <1>1, <1>2, <1>3, <1>4, <1>5 DEF Config1

(* What the driver makes of the configuration byte; it has read -1 if a    *)
(* handler was quicker.                                                    *)
LEMMA ConfigRead ==
    ASSUME NEW h \in {"single", "dual"}, NEW v \in {-1, Config1(h)}
    PROVE  \E c \in Cleared(h) :
             /\ P!Received("config", v, Start(TRUE)) = Pair(Start(c # 20), E7(c))
             /\ Then(<<>>, E7(c)) = E7(c)
<1> DEFINE c == Clear(v)
<1>0. v \in {-1, 119, 87} /\ (h = "dual" => v # 87) /\ (h # "dual" => v # 119)
  BY DEF Config1
<1>1. /\ v = -1 => c = 188
      /\ v = 119 => c = 52
      /\ v = 87 => c = 20
  BY DEF Clear, P!Without, P!HasBit
<1>2. c \in {20, 52, 188} /\ c \in Int /\ c \in Cleared(h) BY <1>0, <1>1 DEF Cleared
<1>3. P!HasBit(c, 32) <=> c # 20
  <2> HIDE DEF c
  <2> QED BY <1>2 DEF P!HasBit
<1>4. P!Received("config", v, Start(TRUE))
        = Pair(WithDual(Start(TRUE), P!HasBit(c, 32)),
               P!Cmd(96) \o P!Data(c) \o P!Cmd(170) \o P!Recv("self_test"))
  BY OnConfig, Zenon
<1>5. P!Cmd(96) \o P!Data(c) \o P!Cmd(170) \o P!Recv("self_test") = E7(c)
  BY <1>2, SelfTestIs, Zenon
<1>6. Then(<<>>, E7(c)) = E7(c)
  <2>1. E7(c) \in Seq(Access) BY <1>2, EarlyStarts, Zenon DEF Starts
  <2> QED BY <2>1, Flat, Zenon
<1> HIDE DEF c
<1>7. WithDual(Start(TRUE), P!HasBit(c, 32)) = Start(c # 20)
  <2>1. P!HasBit(c, 32) = (c # 20) BY <1>3, Zenon DEF P!HasBit
  <2>2. PICK b : b = (c # 20) OBVIOUS
  <2>3. WithDual(Start(TRUE), b) = Start(b) BY DEF WithDual, Start
  <2> QED BY <2>1, <2>2, <2>3, Zenon
<1> QED BY <1>2, <1>4, <1>5, <1>6, <1>7, Zenon

LEMMA BeforeStep ==
    ASSUME NEW h \in {"single", "dual"}, hw = h, Calm, BeforeConfig(h), P!Next
    PROVE  Unmoved /\ (BeforeConfig(h)' \/ \E c \in Cleared(h) : AfterConfig(h, c)')
<1> DEFINE d == Start(TRUE)
           x == Config1(h)
           y == 71
           z == 87
           after == \E c \in Cleared(h) : AfterConfig(h, c)'
<1>01. <<>> \in Seq(Access) OBVIOUS
<1>02. "cmd" \in {"cmd", "data"} /\ hw = h /\ Calm /\ P!Next OBVIOUS
<1>03. <<>> \in Stale /\ <<>> \in {<<>>} BY DEF Stale
<1>04. /\ After(173, h, y) = z /\ After(167, h, z) = x /\ After(173, h, x) = x
       /\ Goal(173, "p1") = "p1" /\ Goal(167, "p1") = "p1"
  BY FirstConfigs, SMT
<1>05. \A v \in {-1, x} : \E c \in Cleared(h) :
             /\ P!Received("config", v, d) = Pair(Start(c # 20), E7(c))
             /\ Then(<<>>, E7(c)) = E7(c)
  BY ConfigRead, Zenon
<1>06. \A c \in Cleared(h) : Alone(E7(c), <<>>, "p1", x, {<<>>}, Start(c # 20))' => after
  BY Zenon DEF AfterConfig
<1>10. BeforeConfig(h)' <=>
         (\/ Alone(E1, <<>>, "p1", y, Stale, d)'
          \/ Alone(E2, <<"cmd", 173>>, "p1", y, Stale, d)'
          \/ Alone(E2, <<>>, "p1", z, Stale, d)'
          \/ Alone(E3, <<"cmd", 167>>, "p1", z, Stale, d)'
          \/ Alone(E3, <<>>, "p1", x, Stale, d)'
          \/ Alone(E4, <<"cmd", 173>>, "p1", x, Stale, d)'
          \/ Alone(E4, <<>>, "p1", x, Stale, d)'
          \/ Alone(E5, <<"cmd", 173>>, "p1", x, {<<>>}, d)'
          \/ Alone(E5, <<>>, "p1", x, {<<>>}, d)'
          \/ Alone(E6, <<"cmd", 32>>, "p1", x, {<<>>}, d)'
          \/ Alone(E6, <<>>, "p1", x, {<<>>, <<0, x>>}, d)')
  BY Zenon DEF BeforeConfig
<1>11. \/ Alone(E1, <<>>, "p1", y, Stale, d)
       \/ Alone(E2, <<"cmd", 173>>, "p1", y, Stale, d)
       \/ Alone(E2, <<>>, "p1", z, Stale, d)
       \/ Alone(E3, <<"cmd", 167>>, "p1", z, Stale, d)
       \/ Alone(E3, <<>>, "p1", x, Stale, d)
       \/ Alone(E4, <<"cmd", 173>>, "p1", x, Stale, d)
       \/ Alone(E4, <<>>, "p1", x, Stale, d)
       \/ Alone(E5, <<"cmd", 173>>, "p1", x, {<<>>}, d)
       \/ Alone(E5, <<>>, "p1", x, {<<>>}, d)
       \/ Alone(E6, <<"cmd", 32>>, "p1", x, {<<>>}, d)
       \/ Alone(E6, <<>>, "p1", x, {<<>>, <<0, x>>}, d)
  BY Zenon DEF BeforeConfig
<1> HIDE DEF d, x, y, z, after
<1>21. CASE Alone(E1, <<>>, "p1", y, Stale, d)
  <2>1. Starts(E1, "cmd", 173, E2) BY <1>01, EarlyStarts, Zenon
  <2>2. Unmoved /\ (\/ Alone(E1, <<>>, "p1", y, Stale, d)'
                    \/ Alone(E2, <<"cmd", 173>>, "p1", y, Stale, d)')
    BY <1>02, <1>03, <1>21, <2>1, SentAlone, Zenon
  <2> QED BY <1>21, <2>2, <1>10, Zenon
<1>22. CASE Alone(E2, <<"cmd", 173>>, "p1", y, Stale, d)
  <2>1. Starts(E2, "cmd", 167, E3) BY <1>01, EarlyStarts, Zenon
  <2>2. Goal(173, "p1") = "p1" /\ After(173, h, y) = z BY <1>04, Zenon
  <2>3. 173 \in Mute BY DEF Mute
  <2>4. Unmoved /\ (\/ Alone(E2, <<"cmd", 173>>, "p1", y, Stale, d)'
                    \/ Alone(E2, <<>>, Goal(173, "p1"), After(173, h, y), Stale, d)')
    BY <1>02, <1>03, <1>22, <2>1, <2>3, TakenAlone, SMT
  <2> QED BY <2>2, <2>4, <1>10, Zenon
<1>23. CASE Alone(E2, <<>>, "p1", z, Stale, d)
  <2>1. Starts(E2, "cmd", 167, E3) BY <1>01, EarlyStarts, Zenon
  <2>2. Unmoved /\ (\/ Alone(E2, <<>>, "p1", z, Stale, d)'
                    \/ Alone(E3, <<"cmd", 167>>, "p1", z, Stale, d)')
    BY <1>02, <1>03, <1>23, <2>1, SentAlone, ZenonT(40)
  <2> QED BY <1>23, <2>2, <1>10, Zenon
<1>24. CASE Alone(E3, <<"cmd", 167>>, "p1", z, Stale, d)
  <2>1. Starts(E3, "cmd", 173, E4) BY <1>01, EarlyStarts, Zenon
  <2>2. Goal(167, "p1") = "p1" /\ After(167, h, z) = x BY <1>04, Zenon
  <2>3. 167 \in Mute BY DEF Mute
  <2>4. Unmoved /\ (\/ Alone(E3, <<"cmd", 167>>, "p1", z, Stale, d)'
                    \/ Alone(E3, <<>>, Goal(167, "p1"), After(167, h, z), Stale, d)')
    BY <1>02, <1>03, <1>24, <2>1, <2>3, TakenAlone, SMT
  <2> QED BY <2>2, <2>4, <1>10, Zenon
<1>25. CASE Alone(E3, <<>>, "p1", x, Stale, d)
  <2>1. Starts(E3, "cmd", 173, E4) BY <1>01, EarlyStarts, Zenon
  <2>2. Unmoved /\ (\/ Alone(E3, <<>>, "p1", x, Stale, d)'
                    \/ Alone(E4, <<"cmd", 173>>, "p1", x, Stale, d)')
    BY <1>02, <1>03, <1>25, <2>1, SentAlone, Zenon
  <2> QED BY <1>25, <2>2, <1>10, Zenon
<1>26. CASE Alone(E4, <<"cmd", 173>>, "p1", x, Stale, d)
  <2>1. E4 = Then(P!Inb, E5) /\ E5 \in Seq(Access) BY EarlyStarts, Zenon
  <2> DEFINE i == <<"cmd", 173>>
  <2>2. Alone(Then(P!Inb, E5), i, "p1", x, Stale, d) BY <1>26, <2>1, Zenon
  <2> HIDE DEF i
  <2>3. \/ Unmoved /\ (\/ Alone(Then(P!Inb, E5), i, "p1", x, Stale, d)'
                       \/ Alone(E5, i, "p1", x, {<<>>}, d)')
        \/ P!ControllerTakes
    BY <1>03, <2>1, <2>2, InbAlone, Zenon
  <2>4. CASE P!ControllerTakes
    <3>1. 173 \in Mute BY DEF Mute
    <3>2. Unmoved /\ Alone(E4, <<>>, Goal(173, "p1"), After(173, h, x), Stale, d)'
      BY <1>02, <1>26, <2>4, <3>1, Taken, ZenonT(40)
    <3> QED BY <1>04, <3>2, <1>10, SMT
  <2> QED BY <2>1, <2>3, <2>4, <1>10, Zenon DEF i
<1>27. CASE Alone(E4, <<>>, "p1", x, Stale, d)
  <2>1. E4 = Then(P!Inb, E5) /\ E5 \in Seq(Access) BY EarlyStarts, Zenon
  <2>2. Alone(Then(P!Inb, E5), <<>>, "p1", x, Stale, d) BY <1>27, <2>1, Zenon
  <2>3. ~P!ControllerTakes BY <1>27, Zenon DEF Alone, P!ControllerTakes
  <2>4. Unmoved /\ (\/ Alone(Then(P!Inb, E5), <<>>, "p1", x, Stale, d)'
                    \/ Alone(E5, <<>>, "p1", x, {<<>>}, d)')
    BY <1>03, <2>1, <2>2, <2>3, InbAlone, Zenon
  <2> QED BY <2>1, <2>4, <1>10, Zenon
<1>28. CASE Alone(E5, <<"cmd", 173>>, "p1", x, {<<>>}, d)
  <2>1. Starts(E5, "cmd", 32, E6) BY <1>01, EarlyStarts, Zenon
  <2>2. Goal(173, "p1") = "p1" /\ After(173, h, x) = x BY <1>04, Zenon
  <2>3. 173 \in Mute BY DEF Mute
  <2>4. Unmoved /\ (\/ Alone(E5, <<"cmd", 173>>, "p1", x, {<<>>}, d)'
                    \/ Alone(E5, <<>>, Goal(173, "p1"), After(173, h, x), {<<>>}, d)')
    BY <1>02, <1>03, <1>28, <2>1, <2>3, TakenAlone, SMT
  <2> QED BY <2>2, <2>4, <1>10, Zenon
<1>29. CASE Alone(E5, <<>>, "p1", x, {<<>>}, d)
  <2>1. Starts(E5, "cmd", 32, E6) BY <1>01, EarlyStarts, Zenon
  <2>2. Unmoved /\ (\/ Alone(E5, <<>>, "p1", x, {<<>>}, d)'
                    \/ Alone(E6, <<"cmd", 32>>, "p1", x, {<<>>}, d)')
    BY <1>02, <1>03, <1>29, <2>1, SentAlone, Zenon
  <2> QED BY <1>29, <2>2, <1>10, Zenon
<1>30. CASE Alone(E6, <<"cmd", 32>>, "p1", x, {<<>>}, d)
  <2>1. Starts(E6, "recv", "config", <<>>) BY EarlyStarts, Zenon
  <2>2. Reply(32, h, x) = <<0, x>> BY DEF Reply
  <2>3. 32 \in Asking BY DEF Asking
  <2>4. Unmoved /\ (\/ Alone(E6, <<"cmd", 32>>, "p1", x, {<<>>}, d)'
                    \/ Alone(E6, <<>>, "p1", x, {Reply(32, h, x)}, d)')
    BY <1>02, <1>30, <2>1, <2>3, AnsweredAlone, Zenon
  <2>5. Alone(E6, <<>>, "p1", x, {<<0, x>>}, d)' => Alone(E6, <<>>, "p1", x, {<<>>, <<0, x>>}, d)'
    BY Zenon DEF Alone
  <2> QED BY <1>30, <2>2, <2>4, <2>5, <1>10, Zenon
<1>31. CASE Alone(E6, <<>>, "p1", x, {<<>>, <<0, x>>}, d)
  <2>1. PICK a : Alone(E6, <<>>, "p1", x, {a}, d) /\ a \in {<<>>, <<0, x>>}
    BY <1>31, Zenon DEF Alone
  <2>2. PICK v \in {-1, x} : Reads(a, v) BY <2>1, Zenon DEF Reads
  <2>3. PICK c \in Cleared(h) :
          /\ P!Received("config", v, d) = Pair(Start(c # 20), E7(c))
          /\ Then(<<>>, E7(c)) = E7(c)
    BY <1>05, Zenon
  <2>4. "config" \in Tags BY DEF Tags
  <2>5. Alone(Get("config", <<>>), <<>>, "p1", x, {a}, d) BY <2>1, Zenon DEF E6
  <2> DEFINE d2 == Start(c # 20)
             t2 == E7(c)
  <2>6. P!Received("config", v, d) = Pair(d2, t2) /\ Then(<<>>, t2) = t2 BY <2>3, Zenon
  <2> HIDE DEF d2, t2
  <2>7. Unmoved /\ (\/ Alone(Get("config", <<>>), <<>>, "p1", x, {<<>>}, d)'
                    \/ Alone(t2, <<>>, "p1", x, {<<>>}, d2)')
    BY <1>02, <2>2, <2>4, <2>5, <2>6, RecvAlone, Zenon
  <2>8. CASE Alone(Get("config", <<>>), <<>>, "p1", x, {<<>>}, d)'
    <3>1. Alone(E6, <<>>, "p1", x, {<<>>, <<0, x>>}, d)' BY <2>8, Zenon DEF Alone, E6
    <3> QED BY <2>7, <3>1, <1>10, Zenon
  <2>9. CASE Alone(t2, <<>>, "p1", x, {<<>>}, d2)'
    BY <1>06, <2>7, <2>9, Zenon DEF t2, d2, after
  <2> QED BY <2>7, <2>8, <2>9
<1> QED BY <1>11, <1>21, <1>22, <1>23, <1>24, <1>25, <1>26, <1>27, <1>28, <1>29, <1>30, <1>31, Zenon

(* The driver goes on to port 1.                                           *)
Port1Program == Then(P!Cmd(174), Then(P!Data(255), Get("p1_reset", <<>>)))

(* The tests are over, port 1 comes next.                                  *)
Enters(h) ==
    \E c \in Configs : Alone(Port1Program, <<>>, "p1", c, {<<>>}, Start(h = "dual"))

LEMMA ToKeyboardPoint ==
    ASSUME NEW h, NEW kb, StateOf(dev) = Fresh, Calm, Unmoved, Enters(h)'
    PROVE  config' \in Configs /\ KeyboardPoint(h, kb)'
<1>0. PICK c \in Configs : Alone(Port1Program, <<>>, "p1", c, {<<>>}, Start(h = "dual"))'
  BY Zenon DEF Enters, Configs
<1>1. /\ todo' = Port1Program /\ inp' = <<>> /\ target' = "p1" /\ config' = c /\ answer' = <<>>
      /\ drv' = Vars(h, P!PS2_DEV_NONE, P!PS2_DEV_NONE, 0, 3)
  BY <1>0, Zenon DEF Alone, Start, Vars
<1>2. /\ StateOf(dev') = Fresh /\ dev'.kb_queue = <<>> /\ dev'.ms_queue = <<>>
  BY Zenon DEF Unmoved, Calm
<1>3. <<>> = Unread(answer', Queued(dev')) BY <1>1, <1>2, Zenon DEF Unread, Queued
<1>4. inp' \in {<<>>, <<"cmd", 168>>, <<"cmd", 174>>} BY <1>1, Zenon
<1>5. Idle(Fresh, <<>>)' BY <1>1, <1>2, <1>3, <1>4, Zenon DEF Idle
<1>6. At(Port1Program, Fresh, <<>>, Vars(h, P!PS2_DEV_NONE, P!PS2_DEV_NONE, 0, 3))'
  BY <1>1, <1>5, Zenon DEF At, Settled
<1>7. KeyboardPoint(h, kb)' BY <1>6, Zenon DEF KeyboardPoint, Port1Program
<1> QED BY <1>1, <1>7, Zenon

LEMMA ClearedIs ==
    ASSUME NEW h \in {"single", "dual"}, NEW c \in Cleared(h)
    PROVE  /\ c \in Configs /\ c \in Int
           /\ c = 20 => h # "dual"
           /\ \A b, e : WithDual(Start(b), e) = Start(e)
           /\ \A b : Start(b).dual = b
<1>1. c \in {20, 52, 188} /\ (c = 20 => h # "dual") BY DEF Cleared
<1>2. c \in Configs /\ c \in Int BY <1>1 DEF Configs
<1>3. ASSUME NEW b, NEW e
      PROVE  WithDual(Start(b), e) = Start(e)
  <2>1. PICK p : p = P!PS2_DEV_NONE OBVIOUS
  <2>2. [[dual |-> b, p1 |-> p, p2 |-> p, type |-> 0, size |-> 3] EXCEPT !.dual = e]
          = [dual |-> e, p1 |-> p, p2 |-> p, type |-> 0, size |-> 3] OBVIOUS
  <2> QED BY <2>1, <2>2, Zenon DEF WithDual, Start
<1>4. ASSUME NEW b
      PROVE  Start(b).dual = b
  BY DEF Start
<1> QED BY <1>1, <1>2, <1>3, <1>4, Zenon

(* What the driver makes of the controller's tests.                        *)
Tests(h, more, d, y) ==
    /\ P!Received("self_test", 85, d) = Pair(d, E11) /\ Then(<<>>, E11) = E11
    /\ more => P!Received("p1_test", 0, d) = Pair(d, E13)
    /\ Then(<<>>, E13) = E13
    /\ ~more => P!Received("p1_test", 0, d) = Pair(y, Port1Program)
    /\ \A v : (v = 0 <=> h = "dual") => P!Received("p2_test", v, d) = Pair(y, Port1Program)
    /\ Then(<<>>, Port1Program) = Port1Program

LEMMA TestsRead ==
    ASSUME NEW h \in {"single", "dual"}, NEW c \in Cleared(h)
    PROVE  Tests(h, c # 20, Start(c # 20), Start(h = "dual"))
<1> DEFINE d == Start(c # 20)
<1>1. d.dual = (c # 20) BY ClearedIs, Zenon
<1>2. P!Cmd(171) \o P!Recv("p1_test") = E11 /\ Then(<<>>, E11) = E11
  <2>1. 171 \in Int /\ "p1_test" \in Tags BY DEF Tags
  <2>2. E11 \in Seq(Access) BY EarlyStarts, Zenon DEF Starts
  <2>3. P!Cmd(171) \o P!Recv("p1_test") = E11
    <3>1. P!Cmd(171) \o P!Recv("p1_test") = Then(P!Cmd(171), Get("p1_test", <<>>))
      BY <2>1, TestIs, Zenon
    <3> QED BY <3>1, Zenon DEF E11, E12
  <2>4. Then(<<>>, E11) = E11 BY <2>2, Flat, Zenon
  <2> QED BY <2>3, <2>4, Zenon
<1>3. P!Cmd(169) \o P!Recv("p2_test") = E13 /\ Then(<<>>, E13) = E13
  <2>1. 169 \in Int /\ "p2_test" \in Tags BY DEF Tags
  <2>2. E13 \in Seq(Access) BY EarlyStarts, Zenon DEF Starts
  <2>3. P!Cmd(169) \o P!Recv("p2_test") = E13
    <3>1. P!Cmd(169) \o P!Recv("p2_test") = Then(P!Cmd(169), Get("p2_test", <<>>))
      BY <2>1, TestIs, Zenon
    <3> QED BY <3>1, Zenon DEF E13, E14
  <2>4. Then(<<>>, E13) = E13 BY <2>2, Flat, Zenon
  <2> QED BY <2>3, <2>4, Zenon
<1>4. P!Port1 = Port1Program /\ Then(<<>>, Port1Program) = Port1Program
  <2>1. 174 \in Int OBVIOUS
  <2>2. Port1Program \in Seq(Access)
    BY <2>1, KeyboardTypes, CmdType, SMT DEF Port1Program
  <2>3. Then(<<>>, Port1Program) = Port1Program BY <2>2, Flat, Zenon
  <2>4. P!Port1 = Port1Program BY Port1Is, Zenon DEF Port1Program
  <2> QED BY <2>3, <2>4, Zenon
<1>5. \A v : WithDual(d, v = 0) = Start(v = 0) BY ClearedIs, Zenon
<1>6. c = 20 => d = Start(h = "dual")
  <2>1. c = 20 => ((c # 20) = (h = "dual")) BY ClearedIs, Zenon
  <2> QED BY <2>1, Zenon
<1> HIDE DEF d
<1>7. P!Received("self_test", 85, d) = Pair(d, E11) BY <1>2, OnSelfTest, Zenon
<1>8. c # 20 => P!Received("p1_test", 0, d) = Pair(d, E13)
  BY <1>1, <1>3, OnP1Test, Zenon
<1>9. c = 20 => P!Received("p1_test", 0, d) = Pair(Start(h = "dual"), Port1Program)
  <2>1. ~d.dual => P!Received("p1_test", 0, d) = Pair(d, P!Port1) BY OnP1Test, Zenon
  <2>2. P!Port1 = Port1Program BY <1>4, Zenon
  <2>3. ~d.dual => P!Received("p1_test", 0, d) = Pair(d, Port1Program)
    BY <2>1, <2>2, Zenon
  <2>4. c = 20 => ~d.dual BY <1>1, Zenon
  <2> QED BY <1>6, <2>3, <2>4, Zenon
<1>10. ASSUME NEW v, v = 0 <=> h = "dual"
       PROVE  P!Received("p2_test", v, d) = Pair(Start(h = "dual"), Port1Program)
  <2>1. P!Received("p2_test", v, d) = Pair(Start(v = 0), Port1Program)
    <3>1. P!Received("p2_test", v, d) = Pair(WithDual(d, v = 0), P!Port1)
      BY OnP2Test, Zenon
    <3>2. WithDual(d, v = 0) = Start(v = 0) BY <1>5, Zenon
    <3>3. P!Port1 = Port1Program BY <1>4, Zenon
    <3> QED BY <3>1, <3>2, <3>3, Zenon
  <2>2. (v = 0) = (h = "dual") BY <1>10, Zenon
  <2> QED BY <2>1, <2>2, Zenon
<1> QED BY <1>2, <1>3, <1>4, <1>7, <1>8, <1>9, <1>10, Zenon DEF d, Tests

LEMMA AfterStep ==
    ASSUME NEW h \in {"single", "dual"}, hw = h, Calm, NEW c \in Cleared(h), AfterConfig(h, c),
           StateOf(dev) = Fresh, P!Next
    PROVE  Unmoved /\ (AfterConfig(h, c)' \/ Enters(h)')
<1>00. PICK d, x, more, y :
         d = Start(c # 20) /\ x = Config1(h) /\ more = (c # 20) /\ y = Start(h = "dual") OBVIOUS
<1> DEFINE next == Enters(h)'
           answers == IF h = "dual" THEN {<<0, 0>>} ELSE {<<>>}
<1>01. c \in Int /\ c \in Configs BY ClearedIs, Zenon
<1>02. "cmd" \in {"cmd", "data"} /\ "data" \in {"cmd", "data"} /\ hw = h /\ Calm /\ P!Next OBVIOUS
<1>03. <<>> \in {<<>>} OBVIOUS
<1>040. Goal(96, "p1") = "config" BY FirstConfigs, Zenon
<1>041. After(96, h, x) = x BY DEF After
<1>04. Goal(96, "p1") = "config" /\ After(96, h, x) = x BY <1>040, <1>041, Zenon
<1>05. /\ P!Received("self_test", 85, d) = Pair(d, E11) /\ Then(<<>>, E11) = E11
       /\ more => P!Received("p1_test", 0, d) = Pair(d, E13)
       /\ Then(<<>>, E13) = E13
       /\ ~more => P!Received("p1_test", 0, d) = Pair(y, Port1Program)
       /\ \A v : (v = 0 <=> h = "dual") => P!Received("p2_test", v, d) = Pair(y, Port1Program)
       /\ Then(<<>>, Port1Program) = Port1Program
  <2>1. Tests(h, c # 20, Start(c # 20), Start(h = "dual")) BY TestsRead, Zenon
  <2>2. Tests(h, more, d, y) BY <1>00, <2>1, Zenon
  <2> QED BY <2>2, Zenon DEF Tests
<1>06. Unmoved /\ Alone(Port1Program, <<>>, "p1", c, {<<>>}, y)' => next
  BY <1>00, <1>01, Zenon DEF Enters, Configs
<1>07. "self_test" \in Tags /\ "p1_test" \in Tags /\ "p2_test" \in Tags BY DEF Tags
<1>08. config = c => ~P!HandlerTakes BY <1>01, NoHandler, Zenon
<1>09. answers = {Reply(169, h, c)} BY DEF Reply
<1>101. Alone(E7(c), <<>>, "p1", x, {<<>>}, d)' => AfterConfig(h, c)'
  BY <1>00, Zenon DEF AfterConfig
<1>102. Alone(E8(c), <<"cmd", 96>>, "p1", x, {<<>>}, d)' => AfterConfig(h, c)'
  BY <1>00, Zenon DEF AfterConfig
<1>103. Alone(E8(c), <<>>, "config", x, {<<>>}, d)' => AfterConfig(h, c)'
  BY <1>00, Zenon DEF AfterConfig
<1>104. Alone(E9, <<"data", c>>, "config", x, {<<>>}, d)' => AfterConfig(h, c)'
  BY <1>00, Zenon DEF AfterConfig
<1>105. Alone(E9, <<>>, "p1", c, {<<>>}, d)' => AfterConfig(h, c)'
  BY <1>00, Zenon DEF AfterConfig
<1>106. Alone(E10, <<"cmd", 170>>, "p1", c, {<<>>}, d)' => AfterConfig(h, c)'
  BY <1>00, Zenon DEF AfterConfig
<1>107. Alone(E10, <<>>, "p1", c, {<<0, 85>>}, d)' => AfterConfig(h, c)'
  BY <1>00, Zenon DEF AfterConfig
<1>108. Alone(E11, <<>>, "p1", c, {<<>>}, d)' => AfterConfig(h, c)'
  BY <1>00, Zenon DEF AfterConfig
<1>109. Alone(E12, <<"cmd", 171>>, "p1", c, {<<>>}, d)' => AfterConfig(h, c)'
  BY <1>00, Zenon DEF AfterConfig
<1>110. Alone(E12, <<>>, "p1", c, {<<0, 0>>}, d)' => AfterConfig(h, c)'
  BY <1>00, Zenon DEF AfterConfig
<1>111. more /\ Alone(E13, <<>>, "p1", c, {<<>>}, d)' => AfterConfig(h, c)'
  BY <1>00, Zenon DEF AfterConfig
<1>112. more /\ Alone(E14, <<"cmd", 169>>, "p1", c, {<<>>}, d)' => AfterConfig(h, c)'
  BY <1>00, Zenon DEF AfterConfig
<1>113. more /\ Alone(E14, <<>>, "p1", c, answers, d)' => AfterConfig(h, c)'
  BY <1>00, Zenon DEF AfterConfig
<1>11. \/ Alone(E7(c), <<>>, "p1", x, {<<>>}, d)
       \/ Alone(E8(c), <<"cmd", 96>>, "p1", x, {<<>>}, d)
       \/ Alone(E8(c), <<>>, "config", x, {<<>>}, d)
       \/ Alone(E9, <<"data", c>>, "config", x, {<<>>}, d)
       \/ Alone(E9, <<>>, "p1", c, {<<>>}, d)
       \/ Alone(E10, <<"cmd", 170>>, "p1", c, {<<>>}, d)
       \/ Alone(E10, <<>>, "p1", c, {<<0, 85>>}, d)
       \/ Alone(E11, <<>>, "p1", c, {<<>>}, d)
       \/ Alone(E12, <<"cmd", 171>>, "p1", c, {<<>>}, d)
       \/ Alone(E12, <<>>, "p1", c, {<<0, 0>>}, d)
       \/ more /\ Alone(E13, <<>>, "p1", c, {<<>>}, d)
       \/ more /\ Alone(E14, <<"cmd", 169>>, "p1", c, {<<>>}, d)
       \/ more /\ Alone(E14, <<>>, "p1", c, answers, d)
  BY <1>00, ZenonT(40) DEF AfterConfig
<1> HIDE DEF next, answers
<1>21. CASE Alone(E7(c), <<>>, "p1", x, {<<>>}, d)
  <2>1. Starts(E7(c), "cmd", 96, E8(c)) BY <1>01, EarlyStarts, Zenon
  <2>2. Unmoved /\ (\/ Alone(E7(c), <<>>, "p1", x, {<<>>}, d)'
                    \/ Alone(E8(c), <<"cmd", 96>>, "p1", x, {<<>>}, d)')
    BY <1>02, <1>03, <1>21, <2>1, SentAlone, Zenon
  <2> QED BY <1>21, <2>2, <1>101, <1>102, Zenon
<1>22. CASE Alone(E8(c), <<"cmd", 96>>, "p1", x, {<<>>}, d)
  <2>1. Starts(E8(c), "data", c, E9) BY <1>01, EarlyStarts, Zenon
  <2>2. Goal(96, "p1") = "config" /\ After(96, h, x) = x BY <1>04, Zenon
  <2>3. 96 \in Mute BY DEF Mute
  <2>4. Unmoved /\ (\/ Alone(E8(c), <<"cmd", 96>>, "p1", x, {<<>>}, d)'
                    \/ Alone(E8(c), <<>>, Goal(96, "p1"), After(96, h, x), {<<>>}, d)')
    BY <1>02, <1>03, <1>22, <2>1, <2>3, TakenAlone, Zenon
  <2> QED BY <2>2, <2>4, <1>102, <1>103, Zenon
<1>23. CASE Alone(E8(c), <<>>, "config", x, {<<>>}, d)
  <2>1. Starts(E8(c), "data", c, E9) BY <1>01, EarlyStarts, Zenon
  <2>2. Unmoved /\ (\/ Alone(E8(c), <<>>, "config", x, {<<>>}, d)'
                    \/ Alone(E9, <<"data", c>>, "config", x, {<<>>}, d)')
    BY <1>02, <1>03, <1>23, <2>1, SentAlone, Zenon
  <2> QED BY <1>23, <2>2, <1>103, <1>104, Zenon
<1>24. CASE Alone(E9, <<"data", c>>, "config", x, {<<>>}, d)
  <2>1. Starts(E9, "cmd", 170, E10) BY EarlyStarts, Zenon
  <2>2. <<"data", c>> # <<>> /\ "cmd" # "inb" OBVIOUS
  <2>3. \/ Unmoved /\ Alone(E9, <<"data", c>>, "config", x, {<<>>}, d)'
        \/ P!ControllerTakes
    BY <1>02, <1>03, <1>24, <2>1, <2>2, WaitsAlone, Zenon
  <2>4. CASE P!ControllerTakes
    <3>1. inp = <<"data", c>> /\ target = "config" /\ answer = <<>>
      BY <1>24, Zenon DEF Alone
    <3>2. Obeys("p1", c, <<>>) BY <1>01, <2>4, <3>1, ConfigWritten, Zenon
    <3>3. Unmoved /\ Alone(E9, <<>>, "p1", c, {<<>>}, d)'
      BY <1>02, <1>03, <1>24, <3>2, ObeysAlone, Zenon
    <3> QED BY <3>3, <1>104, <1>105, Zenon
  <2> QED BY <2>3, <2>4, <1>104, <1>105, Zenon
<1>25. CASE Alone(E9, <<>>, "p1", c, {<<>>}, d)
  <2>1. Starts(E9, "cmd", 170, E10) BY <1>01, EarlyStarts, Zenon
  <2>2. Unmoved /\ (\/ Alone(E9, <<>>, "p1", c, {<<>>}, d)'
                    \/ Alone(E10, <<"cmd", 170>>, "p1", c, {<<>>}, d)')
    BY <1>02, <1>03, <1>25, <2>1, SentAlone, SMT
  <2> QED BY <1>25, <2>2, <1>105, <1>106, Zenon
<1>26. CASE Alone(E10, <<"cmd", 170>>, "p1", c, {<<>>}, d)
  <2>1. Starts(E10, "recv", "self_test", <<>>) BY EarlyStarts, Zenon
  <2>2. Reply(170, h, c) = <<0, 85>> BY DEF Reply
  <2>3. 170 \in Asking BY DEF Asking
  <2>4. Unmoved /\ (\/ Alone(E10, <<"cmd", 170>>, "p1", c, {<<>>}, d)'
                    \/ Alone(E10, <<>>, "p1", c, {Reply(170, h, c)}, d)')
    BY <1>02, <1>26, <2>1, <2>3, AnsweredAlone, ZenonT(40)
  <2> QED BY <1>26, <2>2, <2>4, <1>106, <1>107, Zenon
<1>27. CASE Alone(E10, <<>>, "p1", c, {<<0, 85>>}, d)
  <2>0. PICK a, v : a = <<0, 85>> /\ v = 85 OBVIOUS
  <2>1. Reads(a, v) BY <2>0, Zenon DEF Reads
  <2>2. P!Received("self_test", v, d) = Pair(d, E11) /\ Then(<<>>, E11) = E11
    BY <1>05, <1>27, <2>0, Zenon
  <2>3. Alone(Get("self_test", <<>>), <<>>, "p1", c, {a}, d)
    BY <1>27, <2>0, Zenon DEF E10
  <2>4. ~P!HandlerTakes BY <1>08, <1>27, Zenon DEF Alone
  <2>5. Unmoved /\ Alone(E11, <<>>, "p1", c, {<<>>}, d)'
    BY <1>02, <1>07, <2>1, <2>2, <2>3, <2>4, RecvAlone, Zenon
  <2> QED BY <2>5, <1>108, Zenon DEF next
<1>28. CASE Alone(E11, <<>>, "p1", c, {<<>>}, d)
  <2>1. Starts(E11, "cmd", 171, E12) BY <1>01, EarlyStarts, Zenon
  <2>2. Unmoved /\ (\/ Alone(E11, <<>>, "p1", c, {<<>>}, d)'
                    \/ Alone(E12, <<"cmd", 171>>, "p1", c, {<<>>}, d)')
    BY <1>02, <1>03, <1>28, <2>1, SentAlone, SMT
  <2> QED BY <1>28, <2>2, <1>108, <1>109, Zenon
<1>29. CASE Alone(E12, <<"cmd", 171>>, "p1", c, {<<>>}, d)
  <2>1. Starts(E12, "recv", "p1_test", <<>>) BY EarlyStarts, Zenon
  <2>2. Reply(171, h, c) = <<0, 0>> BY DEF Reply
  <2>3. 171 \in Asking BY DEF Asking
  <2>4. Unmoved /\ (\/ Alone(E12, <<"cmd", 171>>, "p1", c, {<<>>}, d)'
                    \/ Alone(E12, <<>>, "p1", c, {Reply(171, h, c)}, d)')
    BY <1>02, <1>29, <2>1, <2>3, AnsweredAlone, ZenonT(40)
  <2> QED BY <1>29, <2>2, <2>4, <1>109, <1>110, Zenon
<1>30. CASE more /\ Alone(E12, <<>>, "p1", c, {<<0, 0>>}, d)
  <2>0. PICK a, v : a = <<0, 0>> /\ v = 0 OBVIOUS
  <2>1. Reads(a, v) BY <2>0, Zenon DEF Reads
  <2>2. P!Received("p1_test", v, d) = Pair(d, E13) /\ Then(<<>>, E13) = E13
    BY <1>05, <1>30, <2>0, Zenon
  <2>3. Alone(Get("p1_test", <<>>), <<>>, "p1", c, {a}, d) BY <1>30, <2>0, Zenon DEF E12
  <2>4. ~P!HandlerTakes BY <1>08, <1>30, Zenon DEF Alone
  <2>5. Unmoved /\ Alone(E13, <<>>, "p1", c, {<<>>}, d)'
    BY <1>02, <1>07, <2>1, <2>2, <2>3, <2>4, RecvAlone, Zenon
  <2> QED BY <1>30, <2>5, <1>111, Zenon DEF next
<1>31. CASE ~more /\ Alone(E12, <<>>, "p1", c, {<<0, 0>>}, d)
  <2>0. PICK a, v : a = <<0, 0>> /\ v = 0 OBVIOUS
  <2>1. Reads(a, v) BY <2>0, Zenon DEF Reads
  <2>2. P!Received("p1_test", v, d) = Pair(y, Port1Program) /\ Then(<<>>, Port1Program) = Port1Program
    BY <1>05, <1>31, <2>0, Zenon
  <2>3. Alone(Get("p1_test", <<>>), <<>>, "p1", c, {a}, d) BY <1>31, <2>0, Zenon DEF E12
  <2>4. ~P!HandlerTakes BY <1>08, <1>31, Zenon DEF Alone
  <2>5. Unmoved /\ Alone(Port1Program, <<>>, "p1", c, {<<>>}, y)'
    BY <1>02, <1>07, <2>1, <2>2, <2>3, <2>4, RecvAlone, Zenon
  <2> QED BY <1>31, <2>5, <1>06, Zenon DEF next
<1>32. CASE more /\ Alone(E13, <<>>, "p1", c, {<<>>}, d)
  <2>1. Starts(E13, "cmd", 169, E14) BY <1>01, EarlyStarts, Zenon
  <2>2. Unmoved /\ (\/ Alone(E13, <<>>, "p1", c, {<<>>}, d)'
                    \/ Alone(E14, <<"cmd", 169>>, "p1", c, {<<>>}, d)')
    BY <1>02, <1>03, <1>32, <2>1, SentAlone, SMT
  <2> QED BY <1>32, <2>2, <1>111, <1>112, Zenon
<1>33. CASE more /\ Alone(E14, <<"cmd", 169>>, "p1", c, {<<>>}, d)
  <2>1. Starts(E14, "recv", "p2_test", <<>>) BY EarlyStarts, Zenon
  <2>2. answers = {Reply(169, h, c)} BY <1>09
  <2>3. 169 \in Asking BY DEF Asking
  <2>4. Unmoved /\ (\/ Alone(E14, <<"cmd", 169>>, "p1", c, {<<>>}, d)'
                    \/ Alone(E14, <<>>, "p1", c, {Reply(169, h, c)}, d)')
    BY <1>02, <1>33, <2>1, <2>3, AnsweredAlone, ZenonT(40)
  <2> QED BY <1>33, <2>2, <2>4, <1>09, <1>112, <1>113, Zenon
<1>34. CASE more /\ Alone(E14, <<>>, "p1", c, answers, d)
  <2>0. PICK a, v : a = (IF h = "dual" THEN <<0, 0>> ELSE <<>>) /\ v = (IF h = "dual" THEN 0 ELSE -1) OBVIOUS
  <2>9. answers = {a} /\ (v = 0 <=> h = "dual") /\ Reads(a, v)
    <3>1. CASE h = "dual" BY <2>0, <3>1, Zenon DEF answers, Reads
    <3>2. CASE h # "dual"
      <4>1. -1 # 0 OBVIOUS
      <4> QED BY <2>0, <3>2, <4>1, Zenon DEF answers, Reads
    <3> QED BY <3>1, <3>2
  <2>1. Reads(a, v) BY <2>9
  <2>2. P!Received("p2_test", v, d) = Pair(y, Port1Program) /\ Then(<<>>, Port1Program) = Port1Program
    BY <1>05, <1>34, <2>0, <2>9, Zenon
  <2>3. Alone(Get("p2_test", <<>>), <<>>, "p1", c, {a}, d)
    BY <1>34, <2>0, <2>9, Zenon DEF E14
  <2>4. ~P!HandlerTakes BY <1>08, <1>34, Zenon DEF Alone
  <2>5. Unmoved /\ Alone(Port1Program, <<>>, "p1", c, {<<>>}, y)'
    BY <1>02, <1>07, <2>1, <2>2, <2>3, <2>4, RecvAlone, Zenon
  <2> QED BY <1>34, <2>5, <1>06, Zenon DEF next
<1> QED BY <1>11, <1>21, <1>22, <1>23, <1>24, <1>25, <1>26, <1>27, <1>28, <1>29, <1>30, <1>31, <1>32, <1>33, <1>34, Zenon

-----------------------------------------------------------------------------
(* Until ps2_enable_irqs there is always something left to do.             *)

LEMMA Busy ==
    ASSUME NEW t, NEW op, NEW arg, NEW r, Starts(t, op, arg, r)
    PROVE  t # <<>>
  BY Zenon DEF Starts

LEMMA GetBusy ==
    ASSUME NEW tag \in Tags, NEW r \in Seq(Access), NEW m, NEW s, NEW d,
           At(Get(tag, r), m, s, d)
    PROVE  todo # <<>>
  BY GetType, Zenon DEF At, Starts

LEMMA LastBusy ==
    ASSUME NEW tag \in Tags, NEW m, NEW s, NEW d, At(Get(tag, <<>>), m, s, d)
    PROVE  todo # <<>>
<1>1. <<>> \in Seq(Access) OBVIOUS
<1> QED BY <1>1, GetBusy, Zenon

LEMMA SendBusy ==
    ASSUME NEW b \in Int, NEW r \in Seq(Access), NEW m, NEW s, NEW d,
           Sending(b, r, m, s, d)
    PROVE  todo # <<>>
<1> DEFINE t3 == Then(P!Data(b), r)
           t2 == Then(P!Inb, t3)
<1>1. t3 \in Seq(Access) /\ t2 \in Seq(Access) BY Send2Type, Zenon
<1>2. t3 # <<>> BY DataStarts, Zenon DEF Starts
<1>3. t2 # <<>>
  <2> HIDE DEF t3
  <2> QED BY <1>1, InbStarts, Zenon DEF Starts
<1>4. Send2(b, r) # <<>>
  <2>1. 212 \in Int /\ 2 \in Nat OBVIOUS
  <2>2. Send2(b, r) = Then(P!CmdOrSkip(212, 2), t2) BY Zenon DEF Send2
  <2> HIDE DEF t2
  <2>3. Starts(Then(P!CmdOrSkip(212, 2), t2), "cmd", 212, t2)
    BY <1>1, <2>1, CmdStarts, Zenon
  <2> QED BY <2>2, <2>3, Busy, Zenon
<1> QED BY <1>2, <1>3, <1>4, Zenon DEF Sending, At

LEMMA RateBusy ==
    ASSUME NEW b \in Int, NEW r \in Seq(Access), NEW w, NEW id, NEW s, NEW d,
           RatePoint(b, r, w, id, s, d)
    PROVE  todo # <<>>
<1>1. Send2(b, r) \in Seq(Access) BY Send2Type, Zenon
<1>2. "unused" \in Tags BY DEF Tags
<1>3. Get("unused", Send2(b, r)) \in Seq(Access) BY <1>1, <1>2, GetType, Zenon
<1>4. CASE Sending(243, Get("unused", Send2(b, r)), On(w, id), s, d)
  <2>1. 243 \in Int OBVIOUS
  <2> QED BY <1>3, <1>4, <2>1, SendBusy, Zenon
<1>5. CASE At(Get("unused", Send2(b, r)), NextIsRate(w, id), <<250>>, d)
  BY <1>1, <1>2, <1>5, GetBusy, Zenon
<1>6. CASE Sending(b, r, NextIsRate(w, id), <<>>, d) BY <1>6, SendBusy, Zenon
<1> QED BY <1>4, <1>5, <1>6, Zenon DEF RatePoint

LEMMA MagicBusy ==
    ASSUME NEW a \in Int, NEW b \in Int, NEW c \in Int, NEW tag \in Tags, NEW ms, NEW rates,
           NEW id, NEW d, MagicPoint(a, b, c, tag, ms, rates, id, d)
    PROVE  todo # <<>>
<1>01. /\ M11(tag) \in Seq(Access) /\ M7(c, tag) \in Seq(Access) /\ M4(b, c, tag) \in Seq(Access)
       /\ M1(a, b, c, tag) \in Seq(Access)
  BY MagicTypes, SMT
<1>02. Send2(242, M11(tag)) \in Seq(Access)
  <2>1. 242 \in Int OBVIOUS
  <2> QED BY <1>01, <2>1, Send2Type, Zenon
<1>03. Get(tag, <<>>) \in Seq(Access)
  <2>1. <<>> \in Seq(Access) OBVIOUS
  <2> QED BY <2>1, GetType, Zenon
<1>1. /\ M11(tag) \in Seq(Access) /\ M7(c, tag) \in Seq(Access) /\ M4(b, c, tag) \in Seq(Access)
      /\ Send2(242, M11(tag)) \in Seq(Access) /\ Get(tag, <<>>) \in Seq(Access)
  BY <1>01, <1>02, <1>03, Zenon
<1>2. PICK w1, w2, w3, new :
        \/ RatePoint(a, M4(b, c, tag), rates, id, <<>>, d)
        \/ RatePoint(b, M7(c, tag), w1, id, <<250>>, d)
        \/ RatePoint(c, Send2(242, M11(tag)), w2, id, <<250>>, d)
        \/ Sending(242, M11(tag), On(w3, id), <<250>>, d)
        \/ At(M11(tag), On(w3, new), <<250, new>>, d)
        \/ At(Get(tag, <<>>), On(w3, new), <<new>>, d)
  BY SMT DEF MagicPoint
<1>3. CASE \/ RatePoint(a, M4(b, c, tag), rates, id, <<>>, d)
           \/ RatePoint(b, M7(c, tag), w1, id, <<250>>, d)
  BY <1>1, <1>3, RateBusy, Zenon
<1>4. CASE RatePoint(c, Send2(242, M11(tag)), w2, id, <<250>>, d)
  BY <1>1, <1>4, RateBusy, Zenon
<1>5. CASE Sending(242, M11(tag), On(w3, id), <<250>>, d)
  <2>1. 242 \in Int OBVIOUS
  <2> QED BY <1>1, <1>5, <2>1, SendBusy, Zenon
<1>6. CASE At(M11(tag), On(w3, new), <<250, new>>, d)
  <2>1. "unused" \in Tags BY DEF Tags
  <2>2. At(Get("unused", Get(tag, <<>>)), On(w3, new), <<250, new>>, d)
    BY <1>6, Zenon DEF M11
  <2> QED BY <1>1, <2>1, <2>2, GetBusy, Zenon
<1>7. CASE At(Get(tag, <<>>), On(w3, new), <<new>>, d) BY <1>7, LastBusy, Zenon
<1> QED BY <1>2, <1>3, <1>4, <1>5, <1>6, <1>7, Zenon

LEMMA MouseBusy ==
    ASSUME NEW h, NEW kb, NEW ms, MousePoint(h, kb, ms)
    PROVE  todo # <<>>
<1>1. "unused" \in Tags /\ "id" \in Tags /\ "id2" \in Tags BY DEF Tags
<1>2. /\ MouseProgram \in Seq(Access) /\ MouseRest \in Seq(Access) /\ MouseMore \in Seq(Access)
      /\ Send2(244, MouseRest) \in Seq(Access)
  BY MouseIs, Zenon
<1> DEFINE d == Vars(h, P1(kb), 0, 0, 3)
           d2 == Vars(h, P1(kb), 0, 3, 4)
<1>3.   \/ Sending(246, MouseMore, Fresh, <<>>, d)
        \/ At(MouseMore, Fresh, <<250>>, d)
        \/ Sending(244, MouseRest, Fresh, <<>>, d)
        \/ At(MouseRest, On(<<>>, 0), <<250>>, d)
        \/ MagicPoint(200, 100, 80, "id", ms, <<>>, 0, d)
        \/ MagicPoint(200, 200, 80, "id2", ms, Rates1, 3, d2)
  BY Zenon DEF MousePoint
<1> HIDE DEF d, d2
<1>4. CASE Sending(246, MouseMore, Fresh, <<>>, d)
  <2>1. 246 \in Int OBVIOUS
  <2> QED BY <1>2, <1>4, <2>1, SendBusy, Zenon
<1>5. CASE At(MouseMore, Fresh, <<250>>, d)
  BY <1>1, <1>2, <1>5, GetBusy, SMT DEF MouseMore
<1>6. CASE Sending(244, MouseRest, Fresh, <<>>, d)
  <2>1. 244 \in Int OBVIOUS
  <2> QED BY <1>2, <1>6, <2>1, SendBusy, Zenon
<1>7. CASE At(MouseRest, On(<<>>, 0), <<250>>, d)
  BY <1>1, <1>2, <1>7, GetBusy, Zenon DEF MouseRest
<1>8. 200 \in Int /\ 100 \in Int /\ 80 \in Int OBVIOUS
<1>9. CASE MagicPoint(200, 100, 80, "id", ms, <<>>, 0, d)
  BY <1>1, <1>8, <1>9, MagicBusy, Zenon
<1>10. CASE MagicPoint(200, 200, 80, "id2", ms, Rates1, 3, d2)
  BY <1>1, <1>8, <1>10, MagicBusy, Zenon
<1> QED BY <1>3, <1>4, <1>5, <1>6, <1>7, <1>9, <1>10, SMT

LEMMA ResetBusy ==
    ASSUME NEW h, NEW kb, NEW ms, ResetPoint(h, kb, ms)
    PROVE  todo # <<>>
<1>1. "p2_reset" \in Tags /\ "p2_passed" \in Tags /\ "ack" \in Tags /\ "p2_type" \in Tags
  BY DEF Tags
<1>2. /\ MsReset \in Seq(Access) /\ MsIdentify \in Seq(Access)
      /\ Get("p2_reset", <<>>) \in Seq(Access) /\ Get("p2_type", <<>>) \in Seq(Access)
      /\ Send2(255, Get("p2_reset", <<>>)) \in Seq(Access)
  BY KeyboardTypes, Zenon
<1> DEFINE d == Vars(h, P1(kb), P!PS2_DEV_NONE, 0, 3)
           s == Says(ms, Fresh, 255)
<1>3.   \/ At(Then(P!CmdOrSkip(168, 1), MsReset), Fresh, <<>>, d)
        \/ At(MsReset, Fresh, <<>>, d)
        \/ Sending(255, Get("p2_reset", <<>>), Fresh, <<>>, d)
        \/ At(Get("p2_reset", <<>>), Fresh, s, d)
        \/ At(Get("p2_passed", <<>>), Fresh, <<170, 0>>, d)
        \/ Sending(242, MsIdentify, Fresh, <<0>>, d)
        \/ At(MsIdentify, Fresh, <<250, 0>>, d)
        \/ At(Get("p2_type", <<>>), Fresh, <<0>>, d)
  BY Zenon DEF ResetPoint
<1> HIDE DEF d, s
<1>4. CASE At(Then(P!CmdOrSkip(168, 1), MsReset), Fresh, <<>>, d)
  <2>1. 168 \in Int /\ 1 \in Nat OBVIOUS
  <2>2. Starts(Then(P!CmdOrSkip(168, 1), MsReset), "cmd", 168, MsReset)
    BY <1>2, <2>1, CmdStarts, Zenon
  <2> QED BY <1>4, <2>2, Busy, Zenon DEF At
<1>5. CASE At(MsReset, Fresh, <<>>, d)
  <2>1. 174 \in Int OBVIOUS
  <2>2. Starts(MsReset, "cmd", 174, Send2(255, Get("p2_reset", <<>>)))
    BY <1>2, <2>1, CmdType, ZenonT(40) DEF MsReset
  <2> QED BY <1>5, <2>2, Busy, Zenon DEF At
<1>6. CASE Sending(255, Get("p2_reset", <<>>), Fresh, <<>>, d)
  <2>1. 255 \in Int OBVIOUS
  <2> QED BY <1>2, <1>6, <2>1, SendBusy, Zenon
<1>7. CASE \/ At(Get("p2_reset", <<>>), Fresh, s, d)
           \/ At(Get("p2_passed", <<>>), Fresh, <<170, 0>>, d)
           \/ At(Get("p2_type", <<>>), Fresh, <<0>>, d)
  BY <1>1, <1>7, LastBusy, Zenon
<1>8. CASE Sending(242, MsIdentify, Fresh, <<0>>, d)
  <2>1. 242 \in Int OBVIOUS
  <2> QED BY <1>2, <1>8, <2>1, SendBusy, Zenon
<1>9. CASE At(MsIdentify, Fresh, <<250, 0>>, d)
  BY <1>1, <1>2, <1>9, GetBusy, Zenon DEF MsIdentify
<1> QED BY <1>3, <1>4, <1>5, <1>6, <1>7, <1>8, <1>9, Zenon

LEMMA KeyboardBusy ==
    ASSUME NEW h, NEW kb, KeyboardPoint(h, kb)
    PROVE  todo # <<>>
<1>1. /\ "p1_reset" \in Tags /\ "p1_passed" \in Tags /\ "ack" \in Tags /\ "p1_type" \in Tags
      /\ "p1_type2" \in Tags
  BY DEF Tags
<1>2. /\ Get("p1_reset", <<>>) \in Seq(Access) /\ Get("p1_type", <<>>) \in Seq(Access)
      /\ Then(P!Data(255), Get("p1_reset", <<>>)) \in Seq(Access)
      /\ Get("ack", Get("p1_type", <<>>)) \in Seq(Access)
  BY KeyboardTypes, Zenon
<1> DEFINE d == Vars(h, P!PS2_DEV_NONE, P!PS2_DEV_NONE, 0, 3)
           s == KbSays(kb, 255)
<1>3.   \/ At(Then(P!Cmd(174), Then(P!Data(255), Get("p1_reset", <<>>))), Fresh, <<>>, d)
        \/ At(Then(P!Data(255), Get("p1_reset", <<>>)), Fresh, <<>>, d)
        \/ At(Get("p1_reset", <<>>), Fresh, s, d)
        \/ At(Get("p1_passed", <<>>), Fresh, <<170>>, d)
        \/ At(KbIdentify, Fresh, <<>>, d)
        \/ At(Get("ack", Get("p1_type", <<>>)), Fresh, <<250, 171, 131>>, d)
        \/ At(Get("p1_type", <<>>), Fresh, <<171, 131>>, d)
        \/ At(Get("p1_type2", <<>>), Fresh, <<131>>, d)
  BY Zenon DEF KeyboardPoint
<1> HIDE DEF d, s
<1>4. CASE At(Then(P!Cmd(174), Then(P!Data(255), Get("p1_reset", <<>>))), Fresh, <<>>, d)
  <2>1. 174 \in Int OBVIOUS
  <2> DEFINE g == Then(P!Data(255), Get("p1_reset", <<>>))
  <2>2. Starts(Then(P!Cmd(174), g), "cmd", 174, g) BY <1>2, <2>1, CmdType, SMT
  <2>3. At(Then(P!Cmd(174), g), Fresh, <<>>, d) BY <1>4, Zenon
  <2> HIDE DEF g
  <2> QED BY <2>2, <2>3, Busy, Zenon DEF At
<1>5. CASE At(Then(P!Data(255), Get("p1_reset", <<>>)), Fresh, <<>>, d)
  <2>1. 255 \in Int OBVIOUS
  <2> QED BY <1>2, <1>5, <2>1, DataStarts, SMT DEF Starts, At
<1>6. CASE At(KbIdentify, Fresh, <<>>, d)
  <2>1. 242 \in Int OBVIOUS
  <2> QED BY <1>2, <1>6, <2>1, DataStarts, SMT DEF Starts, At, KbIdentify
<1>7. CASE At(Get("ack", Get("p1_type", <<>>)), Fresh, <<250, 171, 131>>, d)
  BY <1>1, <1>2, <1>7, GetBusy, Zenon
<1>8. CASE \/ At(Get("p1_reset", <<>>), Fresh, s, d)
           \/ At(Get("p1_passed", <<>>), Fresh, <<170>>, d)
  BY <1>1, <1>8, LastBusy, Zenon
<1>9. CASE \/ At(Get("p1_type", <<>>), Fresh, <<171, 131>>, d)
           \/ At(Get("p1_type2", <<>>), Fresh, <<131>>, d)
  BY <1>1, <1>9, LastBusy, Zenon
<1> QED BY <1>3, <1>4, <1>5, <1>6, <1>7, <1>8, <1>9, SMT

LEMMA EarlyBusy ==
    ASSUME NEW h \in {"single", "dual"}, Early(h)
    PROVE  todo # <<>>
<1>1. /\ E1 # <<>> /\ E2 # <<>> /\ E3 # <<>> /\ E4 # <<>> /\ E5 # <<>> /\ E6 # <<>>
      /\ \A c \in Int : E7(c) # <<>> /\ E8(c) # <<>>
      /\ E9 # <<>> /\ E10 # <<>> /\ E11 # <<>> /\ E12 # <<>> /\ E13 # <<>> /\ E14 # <<>>
  <2>1. E1 # <<>> /\ E2 # <<>> /\ E3 # <<>> /\ E5 # <<>> /\ E6 # <<>>
    BY EarlyStarts, Busy, Zenon
  <2>2. E4 # <<>> BY EarlyTypes, InbStarts, Busy, Zenon DEF E4
  <2>3. \A c \in Int : E7(c) # <<>> /\ E8(c) # <<>> BY EarlyStarts, Busy, Zenon
  <2>4. E9 # <<>> /\ E10 # <<>> /\ E11 # <<>> /\ E12 # <<>> /\ E13 # <<>> /\ E14 # <<>>
    BY EarlyStarts, Busy, Zenon
  <2> QED BY <2>1, <2>2, <2>3, <2>4, Zenon
<1>2. CASE BeforeConfig(h)
  <2>1. todo \in {E1, E2, E3, E4, E5, E6} BY <1>2, Zenon DEF BeforeConfig, Alone
  <2> QED BY <1>1, <2>1, Zenon
<1>3. ASSUME NEW c \in Cleared(h), AfterConfig(h, c)
      PROVE  todo # <<>>
  <2>1. todo \in {E7(c), E8(c), E9, E10, E11, E12, E13, E14}
    BY <1>3, Zenon DEF AfterConfig, Alone
  <2>2. c \in Int BY ClearedIs, Zenon
  <2> QED BY <1>1, <2>1, <2>2, Zenon
<1> QED BY <1>2, <1>3, Zenon DEF Early

-----------------------------------------------------------------------------
(* The steps together.                                                     *)

LEMMA LateSteps ==
    ASSUME late \in Nat, P!Next
    PROVE  late' \in Nat /\ (late' = 0 => late = 0) /\ hw' = hw
<1>1. hw' = hw
  BY Zenon DEF P!Next, P!Driver, P!Send, P!SendTimeout, P!DropByte, P!RecvByte, P!RecvTimeout,
     P!HandlerTakes, P!ControllerTakes, P!KeyboardSends, P!MouseSends, P!machine
<1>2. late' = late \/ late' = late + 1
  BY Zenon DEF P!Next, P!Driver, P!Send, P!SendTimeout, P!DropByte, P!RecvByte, P!RecvTimeout,
     P!HandlerTakes, P!ControllerTakes, P!KeyboardSends, P!MouseSends, P!GoesOn
<1> QED BY <1>1, <1>2

LEMMA EarlyStep ==
    ASSUME NEW h \in {"single", "dual"}, hw = h, hw # "absent", late = 0, Early(h), P!Next
    PROVE  /\ Unmoved /\ Calm /\ StateOf(dev) = Fresh
           /\ Early(h)' \/ Enters(h)'
<1>1. Calm /\ StateOf(dev) = Fresh BY Zenon DEF Early, Calm
<1>2. Unmoved /\ ((BeforeConfig(h)' \/ \E c \in Cleared(h) : AfterConfig(h, c)')
                  \/ Enters(h)')
  <2>1. CASE BeforeConfig(h) BY <1>1, <2>1, BeforeStep, Zenon
  <2>2. CASE \E c \in Cleared(h) : AfterConfig(h, c)
    <3>1. PICK c \in Cleared(h) : AfterConfig(h, c) BY <2>2, Zenon
    <3> QED BY <1>1, <3>1, AfterStep, Zenon
  <2> QED BY <2>1, <2>2, Zenon DEF Early
<1>3. dev' = dev BY <1>2, Zenon DEF Unmoved
<1>4. /\ dev'.kb_queue = <<>> /\ dev'.ms_queue = <<>>
      /\ StateOf(dev') = Fresh
  BY <1>1, <1>3, Zenon DEF Calm
<1>5. (BeforeConfig(h)' \/ \E c \in Cleared(h) : AfterConfig(h, c)') => Early(h)'
  <2>1. Cleared(h)' = Cleared(h) BY Zenon DEF Cleared
  <2> QED BY <1>4, <2>1, Zenon DEF Early
<1> QED BY <1>1, <1>2, <1>5, Zenon

LEMMA InTimeStep ==
    ASSUME NEW h, NEW kb, NEW ms, Machine(h, kb, ms), DevTypeOK, hw # "absent", late = 0,
           InTime(h, kb, ms), P!Next, late' = 0
    PROVE  DevTypeOK' /\ Machine(h, kb, ms)' /\ InTime(h, kb, ms)'
<1>1. h \in {"single", "dual"} /\ hw = h BY Zenon DEF Machine
<1>2. CASE Early(h)
  <2>0. Unmoved /\ Calm /\ StateOf(dev) = Fresh /\ (Early(h)' \/ Enters(h)')
    BY <1>1, <1>2, EarlyStep, Zenon
  <2>1. Unmoved /\ (Early(h)' \/ (config' \in Configs /\ KeyboardPoint(h, kb)'))
    BY <2>0, ToKeyboardPoint, Zenon
  <2>2. DevTypeOK' /\ Machine(h, kb, ms)' BY <2>1, UnmovedBase, Zenon
  <2> QED BY <2>1, <2>2, Zenon DEF InTime
<1>3. CASE IrqsPoint(h, kb, ms)
  <2>1. Unmoved /\ IrqsPoint(h, kb, ms)' BY <1>3, IrqsStep, Zenon
  <2>2. DevTypeOK' /\ Machine(h, kb, ms)' BY <2>1, UnmovedBase, Zenon
  <2> QED BY <2>1, <2>2, Zenon DEF InTime
<1>4. CASE config \in Configs
           /\ (KeyboardPoint(h, kb) \/ ResetPoint(h, kb, ms) \/ MousePoint(h, kb, ms)
               \/ AskPoint(h, kb, ms))
  <2>1. Base BY <1>4, Zenon DEF Base
  <2>2. Stays /\ (\/ KeyboardPoint(h, kb)' \/ ResetPoint(h, kb, ms)' \/ MousePoint(h, kb, ms)'
                  \/ AskPoint(h, kb, ms)' \/ IrqsPoint(h, kb, ms)')
    <3>1. CASE KeyboardPoint(h, kb) BY <2>1, <3>1, KeyboardStep, Zenon
    <3>2. CASE ResetPoint(h, kb, ms) BY <2>1, <3>2, ResetStep, Zenon
    <3>3. CASE MousePoint(h, kb, ms) BY <2>1, <3>3, MouseStep, Zenon
    <3>4. CASE AskPoint(h, kb, ms) BY <2>1, <3>4, AskStep, Zenon
    <3> QED BY <1>4, <3>1, <3>2, <3>3, <3>4, Zenon
  <2>3. Machine(h, kb, ms)' /\ Base' BY <2>1, <2>2, MachineFacts, Zenon
  <2>4. config' \in Configs /\ DevTypeOK' BY <2>3, Zenon DEF Base
  <2> QED BY <2>2, <2>3, <2>4, Zenon DEF InTime
<1> QED BY <1>2, <1>3, <1>4, Zenon DEF InTime

LEMMA SetUpStep ==
    ASSUME HandshakeInv, P!Next
    PROVE  HandshakeInv'
<1>1. late \in Nat /\ late' \in Nat /\ (late' = 0 => late = 0) /\ hw' = hw
  BY LateSteps, Zenon DEF HandshakeInv
<1>2. SUFFICES ASSUME hw # "absent", late' = 0, late = 0
               PROVE  DevTypeOK' /\ InTime(hw, dev.kb, dev.ms)'
  BY <1>1, Zenon DEF HandshakeInv
<1>3. PICK h, kb, ms : h = hw /\ kb = dev.kb /\ ms = dev.ms OBVIOUS
<1>4. DevTypeOK /\ InTime(h, kb, ms) BY <1>2, <1>3, Zenon DEF HandshakeInv
<1>5. dev \in DevSet /\ hw \in {"absent", "single", "dual"} /\ (hw # "dual" => dev.ms = "none")
  BY <1>4, Zenon DEF DevTypeOK
<1>6. dev.kb \in BOOLEAN /\ dev.ms \in {"none", "generic", "zaxis", "5btn"}
  BY <1>5, Zenon DEF DevSet
<1>7. Machine(h, kb, ms) BY <1>2, <1>3, <1>5, <1>6, Zenon DEF Machine
<1>8. DevTypeOK' /\ Machine(h, kb, ms)' /\ InTime(h, kb, ms)'
  BY <1>2, <1>4, <1>7, InTimeStep, Zenon
<1>9. hw' = h /\ dev'.kb = kb /\ dev'.ms = ms BY <1>8, Zenon DEF Machine
<1> QED BY <1>8, <1>9, Zenon

-----------------------------------------------------------------------------
(* The beginning and the end.                                              *)

LEMMA SetUpStarts ==
    ASSUME InputInit
    PROVE  DevTypeOK /\ late = 0 /\ Early(hw)
<1>1. P!Init BY Zenon DEF InputInit
<1>2. late = 0 /\ hw \in {"absent", "single", "dual"} BY <1>1, Zenon DEF P!Init
<1>3. PICK kb \in BOOLEAN, ms \in Mice :
         /\ hw # "dual" => ms = "none"
         /\ dev = [kb |-> kb, ms |-> ms, kb_queue |-> <<>>, ms_queue |-> <<>>,
                   rates |-> <<>>, id |-> 0, reporting |-> FALSE, rate_next |-> FALSE]
  BY <1>1, Zenon DEF P!Init
<1>4. ms \in {"none", "generic", "zaxis", "5btn"}
  BY InputAssumption, Zenon DEF P!Ps2Assumption
<1>5. /\ dev.kb_queue = <<>> /\ dev.ms_queue = <<>>
      /\ dev.rates = <<>> /\ dev.id = 0 /\ dev.reporting = FALSE /\ dev.rate_next = FALSE
      /\ dev.ms = ms
  BY <1>3
<1>6. dev \in DevSet BY <1>3, <1>4, SMT DEF DevSet
<1>7. DevTypeOK
  <2>1. late \in Nat BY <1>2
  <2> QED BY <1>2, <1>3, <1>5, <1>6, <2>1, Zenon DEF DevTypeOK
<1>8. StateOf(dev) = Fresh BY <1>5, Zenon DEF StateOf, Fresh
<1>9. Alone(E1, <<>>, "p1", 71, Stale, Start(TRUE))
  BY <1>1, InitializeIs, Zenon DEF Alone, P!Init, Stale, Start
<1>10. Early(hw) BY <1>5, <1>8, <1>9, Zenon DEF Early, BeforeConfig
<1> QED BY <1>2, <1>7, <1>10, Zenon

LEMMA HandshakeStarts == InputInit => HandshakeInv
<1> SUFFICES ASSUME InputInit
             PROVE  HandshakeInv OBVIOUS
<1>1. DevTypeOK /\ Early(hw) BY SetUpStarts, Zenon
<1>2. late \in Nat BY <1>1, Zenon DEF DevTypeOK
<1> QED BY <1>1, <1>2, Zenon DEF HandshakeInv, InTime

LEMMA HandshakeStep == HandshakeInv /\ [InputNext]_inputvars => HandshakeInv'
<1> SUFFICES ASSUME HandshakeInv, [InputNext]_inputvars
             PROVE  HandshakeInv' OBVIOUS
<1>1. P!Next \/ UNCHANGED pvars BY Zenon DEF InputNext, SetUpDone, inputvars
<1>2. CASE P!Next BY <1>2, SetUpStep, Zenon
<1>3. CASE UNCHANGED pvars
  <2>1. /\ todo' = todo /\ drv' = drv /\ hw' = hw /\ inp' = inp /\ answer' = answer
        /\ config' = config /\ target' = target /\ dev' = dev /\ late' = late
    BY <1>3, Zenon DEF pvars
  <2>2. \A m, s : (Settled(m, s) => Settled(m, s)') /\ (Selected(m, s) => Selected(m, s)')
    BY <2>1, SMT DEF Settled, Selected, Idle, ToKeyboard, ToMouse, Nothing
  <2>3. \A t, m, s, d : At(t, m, s, d) => At(t, m, s, d)' BY <2>1, <2>2, Zenon DEF At
  <2>4. \A b, r, m, s, d : Sending(b, r, m, s, d) => Sending(b, r, m, s, d)'
    BY <2>1, <2>2, <2>3, SMT DEF Sending
  <2>5. \A b, r, w, id, s, d : RatePoint(b, r, w, id, s, d) => RatePoint(b, r, w, id, s, d)'
    BY <2>3, <2>4, SMT DEF RatePoint
  <2>6. \A a, b, c, tag, ms, rates, id, d :
           MagicPoint(a, b, c, tag, ms, rates, id, d) => MagicPoint(a, b, c, tag, ms, rates, id, d)'
    BY <2>3, <2>4, <2>5, SMT DEF MagicPoint
  <2>7. \A h, kb, ms : MousePoint(h, kb, ms) => MousePoint(h, kb, ms)'
    BY <2>3, <2>4, <2>6, SMT DEF MousePoint
  <2>8. ASSUME NEW h, NEW kb, NEW ms, ResetPoint(h, kb, ms)
        PROVE  ResetPoint(h, kb, ms)'
    <3> DEFINE d == Vars(h, P1(kb), P!PS2_DEV_NONE, 0, 3)
               s == Says(ms, Fresh, 255)
    <3>1. At(Then(P!CmdOrSkip(168, 1), MsReset), Fresh, <<>>, d)
          => At(Then(P!CmdOrSkip(168, 1), MsReset), Fresh, <<>>, d)'
      BY <2>3, Zenon
    <3>2. At(MsReset, Fresh, <<>>, d)
          => At(MsReset, Fresh, <<>>, d)'
      BY <2>3, Zenon
    <3>3. Sending(255, Get("p2_reset", <<>>), Fresh, <<>>, d)
          => Sending(255, Get("p2_reset", <<>>), Fresh, <<>>, d)'
      BY <2>4, Zenon
    <3>4. At(Get("p2_reset", <<>>), Fresh, s, d)
          => At(Get("p2_reset", <<>>), Fresh, s, d)'
      BY <2>3, Zenon
    <3>5. At(Get("p2_passed", <<>>), Fresh, <<170, 0>>, d)
          => At(Get("p2_passed", <<>>), Fresh, <<170, 0>>, d)'
      BY <2>3, Zenon
    <3>6. Sending(242, MsIdentify, Fresh, <<0>>, d)
          => Sending(242, MsIdentify, Fresh, <<0>>, d)'
      BY <2>4, Zenon
    <3>7. At(MsIdentify, Fresh, <<250, 0>>, d)
          => At(MsIdentify, Fresh, <<250, 0>>, d)'
      BY <2>3, Zenon
    <3>8. At(Get("p2_type", <<>>), Fresh, <<0>>, d)
          => At(Get("p2_type", <<>>), Fresh, <<0>>, d)'
      BY <2>3, Zenon
    <3>9.  /\ h = "dual"
           /\ \/ At(Then(P!CmdOrSkip(168, 1), MsReset), Fresh, <<>>, d)
              \/ At(MsReset, Fresh, <<>>, d)
              \/ Sending(255, Get("p2_reset", <<>>), Fresh, <<>>, d)
              \/ At(Get("p2_reset", <<>>), Fresh, s, d)
              \/ ms # "none" /\ At(Get("p2_passed", <<>>), Fresh, <<170, 0>>, d)
              \/ ms # "none" /\ Sending(242, MsIdentify, Fresh, <<0>>, d)
              \/ ms # "none" /\ At(MsIdentify, Fresh, <<250, 0>>, d)
              \/ ms # "none" /\ At(Get("p2_type", <<>>), Fresh, <<0>>, d)
      BY <2>8, Zenon DEF ResetPoint
    <3>10.  /\ h = "dual"
            /\ \/ At(Then(P!CmdOrSkip(168, 1), MsReset), Fresh, <<>>, d)'
               \/ At(MsReset, Fresh, <<>>, d)'
               \/ Sending(255, Get("p2_reset", <<>>), Fresh, <<>>, d)'
               \/ At(Get("p2_reset", <<>>), Fresh, s, d)'
               \/ ms # "none" /\ At(Get("p2_passed", <<>>), Fresh, <<170, 0>>, d)'
               \/ ms # "none" /\ Sending(242, MsIdentify, Fresh, <<0>>, d)'
               \/ ms # "none" /\ At(MsIdentify, Fresh, <<250, 0>>, d)'
               \/ ms # "none" /\ At(Get("p2_type", <<>>), Fresh, <<0>>, d)'
      BY <3>1, <3>2, <3>3, <3>4, <3>5, <3>6, <3>7, <3>8, <3>9, SMT
    <3> QED BY <3>10, Zenon DEF ResetPoint
  <2>9. ASSUME NEW h, NEW kb, KeyboardPoint(h, kb)
        PROVE  KeyboardPoint(h, kb)'
    <3> DEFINE d == Vars(h, P!PS2_DEV_NONE, P!PS2_DEV_NONE, 0, 3)
               s == KbSays(kb, 255)
    <3>1. At(Then(P!Cmd(174), Then(P!Data(255), Get("p1_reset", <<>>))), Fresh, <<>>, d)
          => At(Then(P!Cmd(174), Then(P!Data(255), Get("p1_reset", <<>>))), Fresh, <<>>, d)'
      BY <2>3, Zenon
    <3>2. At(Then(P!Data(255), Get("p1_reset", <<>>)), Fresh, <<>>, d)
          => At(Then(P!Data(255), Get("p1_reset", <<>>)), Fresh, <<>>, d)'
      BY <2>3, Zenon
    <3>3. At(Get("p1_reset", <<>>), Fresh, s, d)
          => At(Get("p1_reset", <<>>), Fresh, s, d)'
      BY <2>3, Zenon
    <3>4. At(Get("p1_passed", <<>>), Fresh, <<170>>, d)
          => At(Get("p1_passed", <<>>), Fresh, <<170>>, d)'
      BY <2>3, Zenon
    <3>5. At(KbIdentify, Fresh, <<>>, d)
          => At(KbIdentify, Fresh, <<>>, d)'
      BY <2>3, Zenon
    <3>6. At(Get("ack", Get("p1_type", <<>>)), Fresh, <<250, 171, 131>>, d)
          => At(Get("ack", Get("p1_type", <<>>)), Fresh, <<250, 171, 131>>, d)'
      BY <2>3, Zenon
    <3>7. At(Get("p1_type", <<>>), Fresh, <<171, 131>>, d)
          => At(Get("p1_type", <<>>), Fresh, <<171, 131>>, d)'
      BY <2>3, Zenon
    <3>8. At(Get("p1_type2", <<>>), Fresh, <<131>>, d)
          => At(Get("p1_type2", <<>>), Fresh, <<131>>, d)'
      BY <2>3, Zenon
    <3> QED BY <2>9, <3>1, <3>2, <3>3, <3>4, <3>5, <3>6, <3>7, <3>8, SMT DEF KeyboardPoint
  <2>10. \A h, kb, ms : AskPoint(h, kb, ms) => AskPoint(h, kb, ms)'
    BY <2>1, <2>3, SMT DEF AskPoint
  <2>11. \A t, i, g, c, a, d : Alone(t, i, g, c, a, d) => Alone(t, i, g, c, a, d)'
    BY <2>1, SMT DEF Alone
  <2>12. ASSUME NEW h, NEW kb, NEW ms, IrqsPoint(h, kb, ms)
         PROVE  IrqsPoint(h, kb, ms)'
    <3>1. PICK m \in Ends, v \in Configs :
            /\ Agreed(h, kb, ms, m, drv)
            /\ m = StateOf(dev) /\ dev.kb_queue = <<>> /\ dev.ms_queue = <<>>
            /\ \/ Alone(Get("irqs", <<>>), <<"cmd", 32>>, "p1", v, {<<>>}, drv)
               \/ Alone(Get("irqs", <<>>), <<>>, "p1", v, {<<0, v>>}, drv)
               \/ Alone(Then(P!Cmd(96), Write(v)), <<>>, "p1", v, {<<>>}, drv)
               \/ Alone(Write(v), <<"cmd", 96>>, "p1", v, {<<>>}, drv)
               \/ Alone(Write(v), <<>>, "config", v, {<<>>}, drv)
               \/ Alone(<<>>, <<"data", On12(v)>>, "config", v, {<<>>}, drv)
               \/ Alone(<<>>, <<>>, "p1", On12(v), {<<>>}, drv)
      BY <2>12, Zenon DEF IrqsPoint
    <3>2. Agreed(h, kb, ms, m, drv) => Agreed(h, kb, ms, m, drv)'
      BY <2>1, Zenon DEF Agreed
    <3>3. \A t, i, g, c, a : Alone(t, i, g, c, a, drv) => Alone(t, i, g, c, a, drv)'
      BY <2>1, Zenon DEF Alone
    <3>4. m = StateOf(dev') /\ dev'.kb_queue = <<>> /\ dev'.ms_queue = <<>>
      BY <2>1, <3>1, Zenon
    <3>5.   \/ Alone(Get("irqs", <<>>), <<"cmd", 32>>, "p1", v, {<<>>}, drv)'
            \/ Alone(Get("irqs", <<>>), <<>>, "p1", v, {<<0, v>>}, drv)'
            \/ Alone(Then(P!Cmd(96), Write(v)), <<>>, "p1", v, {<<>>}, drv)'
            \/ Alone(Write(v), <<"cmd", 96>>, "p1", v, {<<>>}, drv)'
            \/ Alone(Write(v), <<>>, "config", v, {<<>>}, drv)'
            \/ Alone(<<>>, <<"data", On12(v)>>, "config", v, {<<>>}, drv)'
            \/ Alone(<<>>, <<>>, "p1", On12(v), {<<>>}, drv)'
      BY <3>1, <3>3, SMT
    <3> QED BY <3>1, <3>2, <3>4, <3>5, Zenon DEF IrqsPoint
  <2>13. \A h : BeforeConfig(h) => BeforeConfig(h)'
    BY <2>1, Zenon DEF BeforeConfig, Alone
  <2>14. \A h, c : AfterConfig(h, c) => AfterConfig(h, c)' BY <2>11, SMT DEF AfterConfig
  <2>15. \A h : Early(h) => Early(h)' BY <2>1, <2>13, <2>14, Zenon DEF Early
  <2>16. \A h, kb, ms : InTime(h, kb, ms) => InTime(h, kb, ms)'
    BY <2>1, <2>7, <2>8, <2>9, <2>10, <2>12, <2>15, Zenon DEF InTime
  <2>17. DevTypeOK => DevTypeOK' BY <2>1, Zenon DEF DevTypeOK
  <2> QED BY <2>1, <2>16, <2>17, Zenon DEF HandshakeInv
<1> QED BY <1>1, <1>2, <1>3, Zenon

(* When nothing is left to do, the last byte written has arrived.          *)
LEMMA Finished ==
    ASSUME NEW h, NEW kb, NEW ms, h \in {"single", "dual"}, InTime(h, kb, ms),
           todo = <<>>, inp = <<>>
    PROVE  \E m \in Ends, v \in Configs :
             Agreed(h, kb, ms, m, drv) /\ m = StateOf(dev) /\ config = On12(v)
<1>1. ~Early(h) BY EarlyBusy, Zenon
<1>2. ~KeyboardPoint(h, kb) /\ ~ResetPoint(h, kb, ms) /\ ~MousePoint(h, kb, ms)
  BY KeyboardBusy, ResetBusy, MouseBusy, Zenon
<1>3. Ask # <<>> /\ Get("irqs", <<>>) # <<>> BY IrqsTypes, Busy, Zenon
<1>4. ~AskPoint(h, kb, ms) BY <1>3, Zenon DEF AskPoint, At
<1>5. IrqsPoint(h, kb, ms) BY <1>1, <1>2, <1>4, Zenon DEF InTime
<1>6. PICK m \in Ends, v \in Configs :
      /\ Agreed(h, kb, ms, m, drv)
      /\ m = StateOf(dev) /\ dev.kb_queue = <<>> /\ dev.ms_queue = <<>>
      /\ \/ Alone(Get("irqs", <<>>), <<"cmd", 32>>, "p1", v, {<<>>}, drv)
         \/ Alone(Get("irqs", <<>>), <<>>, "p1", v, {<<0, v>>}, drv)
         \/ Alone(Then(P!Cmd(96), Write(v)), <<>>, "p1", v, {<<>>}, drv)
         \/ Alone(Write(v), <<"cmd", 96>>, "p1", v, {<<>>}, drv)
         \/ Alone(Write(v), <<>>, "config", v, {<<>>}, drv)
         \/ Alone(<<>>, <<"data", On12(v)>>, "config", v, {<<>>}, drv)
         \/ Alone(<<>>, <<>>, "p1", On12(v), {<<>>}, drv)
  BY <1>5, Zenon DEF IrqsPoint
<1>7. Write(v) # <<>> /\ Write(v) \in Seq(Access) BY IrqsTypes, Busy, Zenon
<1>8. Then(P!Cmd(96), Write(v)) # <<>>
  <2>1. 96 \in Int OBVIOUS
  <2> QED BY <1>7, <2>1, CmdType, Busy, Zenon
<1>9. <<"data", On12(v)>> # <<>> OBVIOUS
<1>10. Alone(<<>>, <<>>, "p1", On12(v), {<<>>}, drv)
  BY <1>3, <1>6, <1>7, <1>8, <1>9, Zenon DEF Alone
<1>11. config = On12(v) BY <1>10, Zenon DEF Alone
<1> QED BY <1>6, <1>11, Zenon

LEMMA AgreedMeans ==
    ASSUME NEW h, NEW kb, NEW ms, NEW d, NEW dv, Agreed(h, kb, ms, StateOf(dv), d)
    PROVE  /\ d.p1 = P1(kb)
           /\ d.p2 = IF ms # "none" THEN 0 ELSE P!PS2_DEV_NONE
           /\ ms # "none" => dv.reporting /\ d.type = dv.id /\ d.size = IF dv.id = 0 THEN 3 ELSE 4
<1>1. ASSUME NEW w, NEW id, StateOf(dv) = On(w, id)
      PROVE  dv.reporting = TRUE /\ dv.id = id
  <2>1. [rates |-> dv.rates, id |-> dv.id, reporting |-> dv.reporting, rate_next |-> dv.rate_next]
          = [rates |-> w, id |-> id, reporting |-> TRUE, rate_next |-> FALSE]
    BY <1>1, Zenon DEF StateOf, State, On
  <2> QED BY <2>1, SMT
<1>2. CASE ms = "none" /\ d = Vars(h, P1(kb), P!PS2_DEV_NONE, 0, 3)
  BY <1>2, VarsFields, SMT
<1>3. CASE ms = "generic" /\ d = Vars(h, P1(kb), 0, 0, 3) /\ StateOf(dv) = On(Rates1, 0)
  <2>1. dv.reporting = TRUE /\ dv.id = 0 BY <1>1, <1>3, Zenon
  <2>2. d.p1 = P1(kb) /\ d.p2 = 0 /\ d.type = 0 /\ d.size = 3 BY <1>3, VarsFields, SMT
  <2> QED BY <1>3, <2>1, <2>2, Zenon
<1>4. CASE ms = "zaxis" /\ d = Vars(h, P1(kb), 0, 3, 4) /\ StateOf(dv) = On(Rates2, 3)
  <2>1. dv.reporting = TRUE /\ dv.id = 3 BY <1>1, <1>4, Zenon
  <2>2. d.p1 = P1(kb) /\ d.p2 = 0 /\ d.type = 3 /\ d.size = 4 BY <1>4, VarsFields, SMT
  <2>3. 3 # 0 OBVIOUS
  <2> QED BY <1>4, <2>1, <2>2, <2>3, Zenon
<1>5. CASE ms = "5btn" /\ d = Vars(h, P1(kb), 0, 4, 4) /\ StateOf(dv) = On(Rates2, 4)
  <2>1. dv.reporting = TRUE /\ dv.id = 4 BY <1>1, <1>5, Zenon
  <2>2. d.p1 = P1(kb) /\ d.p2 = 0 /\ d.type = 4 /\ d.size = 4 BY <1>5, VarsFields, SMT
  <2>3. 4 # 0 OBVIOUS
  <2> QED BY <1>5, <2>1, <2>2, <2>3, Zenon
<1> QED BY <1>2, <1>3, <1>4, <1>5, Zenon DEF Agreed

LEMMA HandshakeMeans == HandshakeInv => HandshakeAgrees
<1> SUFFICES ASSUME HandshakeInv, todo = <<>>, inp = <<>>, hw # "absent", late = 0
             PROVE  /\ drv.p1 = IF dev.kb THEN P!PS2_DEV_MF2_KEYBOARD ELSE P!PS2_DEV_NONE
                    /\ drv.p2 = IF dev.ms # "none" THEN 0 ELSE P!PS2_DEV_NONE
                    /\ dev.ms # "none" => /\ dev.reporting
                                          /\ drv.type = dev.id
                                          /\ drv.size = IF dev.id = 0 THEN 3 ELSE 4
                    /\ P!HasBit(config, 1) /\ P!HasBit(config, 2) /\ ~P!HasBit(config, 64)
  BY Zenon DEF HandshakeAgrees, P!HandshakeAgrees, P!Done
<1>1. DevTypeOK /\ InTime(hw, dev.kb, dev.ms) BY Zenon DEF HandshakeInv
<1>2. hw \in {"single", "dual"} BY <1>1, Zenon DEF DevTypeOK
<1>20. PICK h, kb, ms, d : h = hw /\ kb = dev.kb /\ ms = dev.ms /\ d = drv OBVIOUS
<1>21. InTime(h, kb, ms) /\ h \in {"single", "dual"} BY <1>1, <1>2, <1>20, Zenon
<1>3. PICK m \in Ends, v \in Configs :
         Agreed(h, kb, ms, m, drv) /\ m = StateOf(dev) /\ config = On12(v)
  BY <1>21, Finished
<1>4. P!HasBit(config, 1) /\ P!HasBit(config, 2) /\ ~P!HasBit(config, 64)
  BY <1>3, ConfigBits, Zenon
<1>5. Agreed(h, kb, ms, StateOf(dev), d) BY <1>20, <1>3, Zenon
<1>6. /\ d.p1 = P1(kb)
      /\ d.p2 = IF ms # "none" THEN 0 ELSE P!PS2_DEV_NONE
      /\ ms # "none" => dev.reporting /\ d.type = dev.id /\ d.size = IF dev.id = 0 THEN 3 ELSE 4
  BY <1>5, AgreedMeans, Zenon
<1> QED BY <1>20, <1>4, <1>6, Zenon DEF P1

(* Whatever controller, keyboard and mouse there are and whatever the      *)
(* handlers take before they are switched off: if answers come in time,    *)
(* then ps2_initialize, mouse_initialize and ps2_enable_irqs end with the  *)
(* driver knowing what is on each port and which packets the mouse sends,  *)
(* the mouse reporting, interrupts on and translation off.                 *)
THEOREM HandshakeAlwaysAgrees == InputSpec => []HandshakeAgrees
<1>1. InputInit => HandshakeInv BY HandshakeStarts
<1>2. HandshakeInv /\ [InputNext]_inputvars => HandshakeInv' BY HandshakeStep
<1>3. HandshakeInv => HandshakeAgrees BY HandshakeMeans
<1> QED BY <1>1, <1>2, <1>3, PTL DEF InputSpec

-----------------------------------------------------------------------------
(* The mouse after the set-up.                                             *)

(* The type and the packet size the handler is left with.                  *)
LEMMA SizesAgree ==
    ASSUME NEW h, NEW kb, NEW ms, NEW m, NEW d, Agreed(h, kb, ms, m, d)
    PROVE  TypeOf(d.type) \in {"generic", "zaxis", "5btn"} /\ d.size = PacketSize(TypeOf(d.type))
<1>1. (d.type = 0 /\ d.size = 3) \/ (d.type = 3 /\ d.size = 4) \/ (d.type = 4 /\ d.size = 4)
  <2>1. CASE d = Vars(h, P1(kb), P!PS2_DEV_NONE, 0, 3) BY <2>1, VarsFields, SMT
  <2>2. CASE d = Vars(h, P1(kb), 0, 0, 3) BY <2>2, VarsFields, SMT
  <2>3. CASE d = Vars(h, P1(kb), 0, 3, 4) BY <2>3, VarsFields, SMT
  <2>4. CASE d = Vars(h, P1(kb), 0, 4, 4) BY <2>4, VarsFields, SMT
  <2> QED BY <2>1, <2>2, <2>3, <2>4, Zenon DEF Agreed
<1> QED BY <1>1, SMT DEF TypeOf, PacketSize

(* The handler is ready before the set-up has ended, and when it ends.     *)
Ready == stage = "set-up" => MouseReady

LEMMA SetUpLeavesReady ==
    ASSUME HandshakeInv, Ready, SetUpDone
    PROVE  MouseReady'
<1>1. PICK h, kb, ms, d : h = hw /\ kb = dev.kb /\ ms = dev.ms /\ d = drv OBVIOUS
<1>2. todo = <<>> /\ inp = <<>> /\ hw = "dual" /\ late = 0
  BY Zenon DEF SetUpDone, P!Done
<1>3. InTime(h, kb, ms) /\ h \in {"single", "dual"}
  BY <1>1, <1>2, Zenon DEF HandshakeInv
<1>4. PICK m \in Ends, v \in Configs :
         Agreed(h, kb, ms, m, drv) /\ m = StateOf(dev) /\ config = On12(v)
  BY <1>2, <1>3, Finished
<1>5. Agreed(h, kb, ms, m, d) BY <1>1, <1>4, Zenon
<1>6. TypeOf(drv.type) \in {"generic", "zaxis", "5btn"} /\ drv.size = PacketSize(TypeOf(drv.type))
  BY <1>1, <1>5, SizesAgree, Zenon
<1>7. mouse_type' = TypeOf(drv.type) /\ mouse_packet_size' = drv.size
  BY Zenon DEF SetUpDone
<1>8. mouse_type' \in {"generic", "zaxis", "5btn"} /\ mouse_packet_size' = PacketSize(mouse_type')
  BY <1>6, <1>7, Zenon
<1>9. MouseReady BY Zenon DEF Ready, SetUpDone
<1>10. /\ packet_byte' = packet_byte /\ packet' = packet /\ out' = out /\ to_send' = to_send
       /\ moved' = moved /\ mouse_x' = mouse_x /\ mouse_y' = mouse_y /\ mouse_z' = mouse_z
       /\ mouse_button_states' = mouse_button_states
  BY Zenon DEF SetUpDone, position
<1> QED BY <1>8, <1>9, <1>10, Zenon DEF MouseReady

(* Cursor, wheel and buttons follow the mouse (mouse_handle_interrupt)     *)
(* with the type and the packet size that mouse_initialize has found, for  *)
(* every machine and every course of the set-up, whenever nothing is under *)
(* way.                                                                    *)
THEOREM CursorTracksFoundMouse == SlowMotions => (InputSpec => []MouseTracked)
<1> SUFFICES ASSUME SlowMotions PROVE InputSpec => []MouseTracked OBVIOUS
<1>1. InputInit => HandshakeInv /\ Ready /\ MouseInv
  <2>1. InputInit => MouseReady BY Zenon DEF InputInit, Init, MouseReady
  <2> QED BY <2>1, HandshakeStarts, ReadyInv, Zenon DEF Ready
<1>2. MouseReady' => MouseInv' BY ReadyInv, PTL
<1>3. HandshakeInv /\ Ready /\ MouseInv /\ [InputNext]_inputvars
        => HandshakeInv' /\ Ready' /\ MouseInv'
  <2> SUFFICES ASSUME HandshakeInv, Ready, MouseInv, [InputNext]_inputvars
               PROVE  Ready' /\ MouseInv'
    BY HandshakeStep, Zenon
  <2>1. CASE SetUpDone
    <3>1. MouseReady' BY <2>1, SetUpLeavesReady, Zenon
    <3> QED BY <1>2, <3>1, Zenon DEF Ready
  <2>2. CASE UNCHANGED <<stage, vars>>
    <3>1. MouseInv' BY <2>2, MouseStepInv, Zenon
    <3>2. stage' = stage /\ (MouseReady => MouseReady')
      BY <2>2, Zenon DEF vars, MouseReady
    <3> QED BY <3>1, <3>2, Zenon DEF Ready
  <2>3. CASE stage = "mouse" /\ Next /\ UNCHANGED <<stage, pvars, kvars>>
    <3>1. MouseInv' BY <2>3, MouseStepInv, Zenon
    <3>2. stage' = "mouse" BY <2>3, Zenon
    <3>3. stage' # "set-up" BY <3>2
    <3> QED BY <3>1, <3>3, Zenon DEF Ready
  <2> QED BY <2>1, <2>2, <2>3, Zenon DEF InputNext, inputvars
<1>4. MouseInv => MouseTracked
  BY Zenon DEF MouseInv, MouseTracked, PositionTracks, WheelAndButtonsTrack, Tracked
<1> QED BY <1>1, <1>3, <1>4, PTL DEF InputSpec

-----------------------------------------------------------------------------
(* What the driver finds, however late answers come (FoundInv).            *)

(* Proper accesses: the first and the others, and one more before them.    *)

LEMMA ProperParts ==
    ASSUME NEW t, NEW bytes, NEW tags, Proper(t, bytes, tags)
    PROVE  /\ t # <<>> /\ Head(t) \in Access /\ Tail(t) \in Seq(Access)
           /\ \/ Tail(t) = <<>> /\ Head(t).op = "recv" /\ Head(t).arg \in tags
              \/ Proper(Tail(t), bytes, tags) /\ Fit(Head(t), Head(Tail(t)), bytes)
<1> DEFINE r == Tail(t)
           n == Len(t)
<1>1. /\ t \in Seq(Access) /\ t # <<>>
      /\ t[n].op = "recv" /\ t[n].arg \in tags
      /\ \A i \in 1 .. n - 1 : Fit(t[i], t[i + 1], bytes)
  BY Zenon DEF Proper
<1>2. n \in Nat /\ n >= 1 /\ Head(t) = t[1] /\ Head(t) \in Access BY <1>1
<1>3. /\ r \in Seq(Access) /\ Len(r) = n - 1
      /\ \A i \in 1 .. Len(r) : r[i] = t[i + 1]
  BY <1>1, HeadTailProperties, Zenon
<1>4. CASE n = 1
  <2> HIDE DEF r, n
  <2>1. r = <<>> BY <1>2, <1>3, <1>4, EmptySeq
  <2>2. Head(t) = t[n] BY <1>2, <1>4
  <2>3. r = <<>> /\ Head(t).op = "recv" /\ Head(t).arg \in tags
    BY <1>1, <2>1, <2>2, Zenon
  <2> QED BY <1>1, <1>2, <1>3, <2>3, Zenon DEF r
<1>5. CASE n # 1
  <2> HIDE DEF r, n
  <2>1. r # <<>> /\ Head(r) = r[1] BY <1>2, <1>3, <1>5
  <2>2. Head(r) = t[2] /\ r[Len(r)] = t[n] BY <1>2, <1>3, <1>5, <2>1
  <2>3. Fit(Head(t), Head(r), bytes)
    <3>1. 1 \in 1 .. n - 1 /\ 1 + 1 = 2 BY <1>2, <1>5
    <3>2. Fit(t[1], t[1 + 1], bytes) BY <1>1, <3>1, Zenon
    <3> QED BY <1>2, <2>2, <3>1, <3>2, Zenon
  <2>4. ASSUME NEW i \in 1 .. Len(r) - 1
        PROVE  Fit(r[i], r[i + 1], bytes)
    <3>1. i + 1 \in 1 .. n - 1 /\ i \in 1 .. Len(r) /\ i + 1 \in 1 .. Len(r)
      BY <1>2, <1>3
    <3>2. r[i] = t[i + 1] /\ r[i + 1] = t[(i + 1) + 1] BY <1>3, <3>1, Zenon
    <3>3. Fit(t[i + 1], t[(i + 1) + 1], bytes) BY <1>1, <3>1, Zenon
    <3> QED BY <3>2, <3>3, Zenon
  <2>5. Proper(r, bytes, tags) BY <1>1, <1>3, <2>1, <2>2, <2>4, Zenon DEF Proper
  <2> QED BY <1>1, <1>2, <1>3, <2>3, <2>5, Zenon DEF r
<1> QED BY <1>4, <1>5, Zenon

LEMMA ProperLonger ==
    ASSUME NEW t, NEW op, NEW arg, NEW r, NEW bytes, NEW tags,
           Starts(t, op, arg, r), Proper(r, bytes, tags), Fit(Head(t), Head(r), bytes)
    PROVE  Proper(t, bytes, tags)
<1> DEFINE n == Len(t)
<1>1. t # <<>> /\ t \in Seq(Access) /\ Tail(t) = r BY Zenon DEF Starts
<1>2. /\ r \in Seq(Access) /\ r # <<>>
      /\ r[Len(r)].op = "recv" /\ r[Len(r)].arg \in tags
      /\ \A i \in 1 .. Len(r) - 1 : Fit(r[i], r[i + 1], bytes)
  BY Zenon DEF Proper
<1>3. Len(r) = n - 1 /\ \A i \in 1 .. Len(r) : r[i] = t[i + 1]
  BY <1>1, HeadTailProperties, Zenon
<1>4. n \in Nat /\ Len(r) \in Nat /\ Len(r) >= 1 /\ Head(t) = t[1] /\ Head(r) = r[1]
  BY <1>1, <1>2
<1> HIDE DEF n
<1>5. t[n] = r[Len(r)] /\ Head(r) = t[2] BY <1>3, <1>4
<1>6. ASSUME NEW i \in 1 .. n - 1
      PROVE  Fit(t[i], t[i + 1], bytes)
  <2>1. CASE i = 1
    <3>1. i + 1 = 2 BY <2>1
    <3> QED BY <1>4, <1>5, <2>1, <3>1, Zenon
  <2>2. CASE i # 1
    <3> DEFINE j == i - 1
    <3>1. j \in 1 .. Len(r) - 1 /\ j \in 1 .. Len(r) /\ j + 1 \in 1 .. Len(r) /\ j + 1 = i
      BY <1>3, <1>4, <2>2
    <3> HIDE DEF j
    <3>2. r[j] = t[j + 1] /\ r[j + 1] = t[(j + 1) + 1] /\ Fit(r[j], r[j + 1], bytes)
      BY <1>2, <1>3, <3>1, Zenon
    <3> QED BY <3>1, <3>2, Zenon
  <2> QED BY <2>1, <2>2, Zenon
<1> QED BY <1>1, <1>2, <1>5, <1>6, Zenon DEF Proper, n

LEMMA ProperLast ==
    ASSUME NEW t, NEW arg, NEW bytes, NEW tags, arg \in tags, Starts(t, "recv", arg, <<>>)
    PROVE  Proper(t, bytes, tags)
<1>1. t # <<>> /\ t \in Seq(Access) /\ Head(t).op = "recv" /\ Head(t).arg = arg /\ Tail(t) = <<>>
  BY Zenon DEF Starts
<1>2. Len(<<>>) = Len(t) - 1 BY <1>1, HeadTailProperties, Zenon
<1>3. Len(t) = 1 /\ t[Len(t)] = Head(t) BY <1>1, <1>2
<1>4. 1 .. Len(t) - 1 = {} BY <1>3
<1> QED BY <1>1, <1>3, <1>4, Zenon DEF Proper

-----------------------------------------------------------------------------
(* What the devices say.                                                   *)

LEMMA Joined ==
    ASSUME NEW S, NEW T, S \subseteq T, NEW p \in Seq(S)
    PROVE  p \in Seq(T) /\ \A q \in Seq(T) : p \o q \in Seq(T)
<1>1. p \in Seq(T) OBVIOUS
<1> QED BY <1>1

LEMMA ByteSets ==
    /\ KbBytes \subseteq Int
    /\ \A id : MsBytes(id) \subseteq Int /\ {250, 170, 0, 254} \subseteq MsBytes(id)
    /\ \A id : id \in Marks => MsBytes(id) = {250, 170, 0, 254, 3, 4}
    /\ \A id, new : (id \in Marks => new \in Marks) => MsBytes(id) \subseteq MsBytes(new)
<1>1. KbBytes \subseteq Int BY DEF KbBytes
<1>2. \A id : MsBytes(id) \subseteq Int /\ {250, 170, 0, 254} \subseteq MsBytes(id)
  BY SMT DEF MsBytes
<1>3. \A id : id \in Marks => MsBytes(id) = {250, 170, 0, 254, 3, 4} BY SMT DEF MsBytes
<1>4. \A id, new : (id \in Marks => new \in Marks) => MsBytes(id) \subseteq MsBytes(new)
  BY SMT DEF MsBytes
<1> QED BY <1>1, <1>2, <1>3, <1>4, Zenon

LEMMA ShortSeqs ==
    ASSUME NEW S, NEW a \in S, NEW b \in S, NEW c \in S
    PROVE  <<a>> \in Seq(S) /\ <<a, b>> \in Seq(S) /\ <<a, b, c>> \in Seq(S) OBVIOUS

LEMMA KbAnswers == \A b : P!KbAnswer(b) \in Seq(KbBytes)
<1>1. 250 \in KbBytes /\ 170 \in KbBytes /\ 171 \in KbBytes /\ 131 \in KbBytes /\ 254 \in KbBytes
  BY DEF KbBytes
<1>2. /\ <<250, 170>> \in Seq(KbBytes) /\ <<250, 171, 131>> \in Seq(KbBytes)
      /\ <<254>> \in Seq(KbBytes)
  BY <1>1, ShortSeqs, SMT
<1>3. \A b : \/ P!KbAnswer(b) = <<250, 170>> \/ P!KbAnswer(b) = <<250, 171, 131>>
             \/ P!KbAnswer(b) = <<254>>
  BY SMT DEF P!KbAnswer, P!PS2_ACK
<1> QED BY <1>2, <1>3, Zenon

LEMMA StateFields ==
    ASSUME NEW x, NEW rates, NEW id, NEW on, NEW next, StateOf(x) = State(rates, id, on, next)
    PROVE  x.rates = rates /\ x.id = id /\ x.rate_next = next
<1>1. [rates |-> x.rates, id |-> x.id, reporting |-> x.reporting, rate_next |-> x.rate_next]
        = [rates |-> rates, id |-> id, reporting |-> on, rate_next |-> next]
  BY Zenon DEF StateOf, State
<1> QED BY <1>1, SMT

LEMMA SameState ==
    ASSUME NEW x, NEW y, StateOf(x) = StateOf(y)
    PROVE  x.rates = y.rates /\ x.id = y.id /\ x.rate_next = y.rate_next
<1>1. StateOf(x) = State(y.rates, y.id, y.reporting, y.rate_next) BY Zenon DEF StateOf
<1> QED BY <1>1, StateFields, Zenon

(* The mouse's id after a byte, and what it answers with.                  *)
Replies(dv, x, says, b) ==
    /\ dv.id \in {0, 3, 4} /\ (b = 255 => dv.id = 0) =>
         /\ x.id \in {0, 3, 4}
         /\ says \in Seq(MsBytes(x.id))
    /\ b # 255 \/ dv.rate_next => (dv.id \in Marks => x.id \in Marks)
    /\ Bare(dv) /\ b \in FindBytes => Bare(x)

LEMMA MouseReplies ==
    ASSUME NEW dv \in DevSet, NEW b \in Int, dv.ms # "none"
    PROVE  Replies(dv, P!MsCommand(dv, b), Says(dv.ms, StateOf(dv), b), b)
<1>0. PICK x, m, says, ms, id, rates, next, nid :
        /\ x = P!MsCommand(dv, b) /\ m = StateOf(dv) /\ says = Says(dv.ms, StateOf(dv), b)
        /\ ms = dv.ms /\ id = dv.id /\ rates = dv.rates /\ next = dv.rate_next
        /\ nid = NewId(ms, rates, id) OBVIOUS
<1> SUFFICES Replies(dv, x, says, b)
  BY <1>0, Zenon
<1>1. Heeded(dv, x, Heeds(ms, m, b), says) BY <1>0, MouseHeeds, Zenon
<1>2. StateOf(x) = Heeds(ms, m, b) BY <1>1, Zenon DEF Heeded
<1>3. m.rates = rates /\ m.id = id /\ m.rate_next = next BY <1>0 DEF StateOf, State
<1>4. next \in BOOLEAN /\ id \in Int /\ ms # "none" BY <1>0 DEF DevSet
<1>5. /\ id \in {0, 3, 4} => nid \in {0, 3, 4}
      /\ id \in Marks => nid \in Marks
      /\ rates = <<>> => nid = id
  <2>1. nid = 3 \/ nid = 4 \/ nid = id BY <1>0, SMT DEF NewId
  <2>2. rates = <<>> => nid = id BY <1>0, SMT DEF NewId
  <2> QED BY <2>1, <2>2, SMT DEF Marks
<1>6. \A i : <<250>> \in Seq(MsBytes(i)) /\ <<254>> \in Seq(MsBytes(i)) /\ <<250, 170, 0>> \in Seq(MsBytes(i))
  <2> SUFFICES ASSUME NEW i
               PROVE  /\ <<250>> \in Seq(MsBytes(i)) /\ <<254>> \in Seq(MsBytes(i))
                      /\ <<250, 170, 0>> \in Seq(MsBytes(i)) OBVIOUS
  <2>1. 250 \in MsBytes(i) /\ 254 \in MsBytes(i) /\ 170 \in MsBytes(i) /\ 0 \in MsBytes(i)
    BY SMT DEF MsBytes
  <2> QED BY <2>1, ShortSeqs, SMT
<1>7. \A i \in {0, 3, 4} : <<250, i>> \in Seq(MsBytes(i))
  <2> SUFFICES ASSUME NEW i \in {0, 3, 4}
               PROVE  <<250, i>> \in Seq(MsBytes(i)) OBVIOUS
  <2>1. 250 \in MsBytes(i) /\ i \in MsBytes(i) BY SMT DEF MsBytes, Marks
  <2> QED BY <2>1, ShortSeqs, SMT
<1>8. CASE next
  <2>1. Heeds(ms, m, b) = State(NewRates(rates, b), id, m.reporting, FALSE)
    BY <1>3, <1>4, <1>8, Zenon DEF Heeds
  <2>2. x.id = id BY <1>2, <2>1, StateFields, Zenon
  <2>3. says = <<250>> BY <1>0, <1>3, <1>4, <1>8, Zenon DEF Says
  <2>4. ~Bare(dv) BY <1>0, <1>8, Zenon DEF Bare
  <2> QED BY <1>0, <1>6, <2>2, <2>3, <2>4, SMT DEF Replies
<1>9. CASE ~next
  <2>1. Heeds(ms, m, b) = State(rates, HeedsId(ms, m, b), HeedsOn(m, b), HeedsNext(b))
    BY <1>3, <1>4, <1>9, Zenon DEF Heeds
  <2>2. x.rates = rates /\ x.id = HeedsId(ms, m, b) /\ x.rate_next = HeedsNext(b)
    BY <1>2, <2>1, StateFields, Zenon
  <2>3. HeedsId(ms, m, b) = CASE b = 255 -> 0 [] b = 242 -> nid [] OTHER -> id
    BY <1>0, <1>3, Zenon DEF HeedsId
  <2>4. says = CASE b = 255 -> <<250, 170, 0>>
                 [] b = 242 -> <<250, nid>>
                 [] b \in {246, 244, 243} -> <<250>>
                 [] OTHER -> <<254>>
    BY <1>0, <1>3, <1>4, <1>9, SMT DEF Says
  <2>5. CASE b = 255
    <3>1. x.id = 0 /\ says = <<250, 170, 0>> /\ x.rate_next = FALSE
      BY <2>2, <2>3, <2>4, <2>5, SMT DEF HeedsNext
    <3>2. 0 \in {0, 3, 4} OBVIOUS
    <3> QED
      <4>1. x.id \in {0, 3, 4} /\ says \in Seq(MsBytes(x.id)) BY <1>6, <3>1, <3>2, SMT
      <4>2. ~(b # 255 \/ dv.rate_next) BY <1>0, <1>9, <2>5
      <4>3. Bare(dv) => Bare(x) BY <1>0, <2>2, <3>1, Zenon DEF Bare
      <4> QED BY <4>1, <4>2, <4>3, Zenon DEF Replies
  <2>6. CASE b = 242
    <3>1. x.id = nid /\ says = <<250, nid>> /\ x.rate_next = FALSE
      BY <2>2, <2>3, <2>4, <2>6, SMT DEF HeedsNext
    <3>2. 242 # 255 OBVIOUS
    <3> QED
      <4>1. dv.id \in {0, 3, 4} => x.id \in {0, 3, 4} /\ says \in Seq(MsBytes(x.id))
        BY <1>0, <1>5, <1>7, <3>1, SMT
      <4>2. dv.id \in Marks => x.id \in Marks BY <1>0, <1>5, <3>1, Zenon
      <4>3. Bare(dv) => Bare(x) BY <1>0, <1>5, <2>2, <3>1, Zenon DEF Bare
      <4> QED BY <4>1, <4>2, <4>3, Zenon DEF Replies
  <2>7. CASE b # 255 /\ b # 242
    <3>1. x.id = id BY <2>2, <2>3, <2>7, Zenon
    <3>2. says = <<250>> \/ says = <<254>> BY <2>4, <2>7, SMT
    <3>3. b \notin FindBytes BY <2>7, Zenon DEF FindBytes
    <3> QED
      <4>1. says \in Seq(MsBytes(x.id))
        <5>1. PICK y, z : y = <<250>> /\ z = <<254>> OBVIOUS
        <5>2. \A i : y \in Seq(MsBytes(i)) /\ z \in Seq(MsBytes(i)) BY <1>6, <5>1, SMT
        <5>3. says = y \/ says = z BY <3>2, <5>1, SMT
        <5> QED BY <5>2, <5>3, Zenon
      <4> QED BY <1>0, <3>1, <3>3, <4>1, Zenon DEF Replies
  <2> QED BY <2>5, <2>6, <2>7, Zenon
<1> QED BY <1>4, <1>8, <1>9

(* What changes of the devices when they are sent a byte or send one.      *)
Remains(dv, x) ==
    /\ Talks(x) /\ x.kb = dv.kb /\ x.ms = dv.ms
    /\ dv.id \in Marks => x.id \in Marks

LEMMA StillHeard ==
    ASSUME NEW a, NEW dv, NEW x, Remains(dv, x), Heard(a, dv)
    PROVE  Heard(a, x)
<1>1. MsBytes(dv.id) \subseteq MsBytes(x.id) BY ByteSets, Zenon DEF Remains
<1> QED BY <1>1, SMT DEF Remains, Heard

LEMMA KeyboardTold ==
    ASSUME NEW dv, Talks(dv), dv.kb, NEW b
    PROVE  LET x == [dv EXCEPT !.kb_queue = @ \o P!KbAnswer(b)]
           IN  Remains(dv, x) /\ (Bare(dv) => Bare(x))
<1> DEFINE q == dv.kb_queue \o P!KbAnswer(b)
           x == [dv EXCEPT !.kb_queue = q]
<1>1. /\ dv \in DevSet /\ dv.id \in {0, 3, 4} /\ dv.kb_queue \in Seq(KbBytes)
      /\ dv.ms_queue \in Seq(MsBytes(dv.id)) /\ (dv.ms_queue # <<>> => dv.ms # "none")
  BY Zenon DEF Talks
<1>2. q \in Seq(KbBytes) BY <1>1, KbAnswers, Joined, Zenon
<1> HIDE DEF q
<1>3. q \in Seq(Int) BY <1>2, ByteSets, Joined, Zenon
<1>4. /\ x \in DevSet /\ x.kb = dv.kb /\ x.ms = dv.ms /\ x.kb_queue = q /\ x.ms_queue = dv.ms_queue
      /\ StateOf(x) = StateOf(dv)
  BY <1>1, <1>3, KeyboardHeeds, Zenon
<1>5. x.id = dv.id /\ x.rates = dv.rates /\ x.rate_next = dv.rate_next
  BY <1>4, SameState, Zenon
<1> HIDE DEF x
<1>6. Talks(x) BY <1>1, <1>2, <1>4, <1>5, Zenon DEF Talks
<1>7. Remains(dv, x) /\ (Bare(dv) => Bare(x))
  BY <1>4, <1>5, <1>6, Zenon DEF Remains, Bare
<1> QED BY <1>7, Zenon DEF x, q

LEMMA MouseTold ==
    ASSUME NEW dv, Talks(dv), dv.ms # "none", NEW b \in Int, b = 255 => dv.id = 0
    PROVE  LET x == P!MsCommand(dv, b)
           IN  Remains(dv, x) /\ (Bare(dv) /\ b \in FindBytes => Bare(x))
<1>0. PICK x, says : x = P!MsCommand(dv, b) /\ says = Says(dv.ms, StateOf(dv), b) OBVIOUS
<1>1. /\ dv \in DevSet /\ dv.id \in {0, 3, 4}
      /\ dv.kb_queue \in Seq(KbBytes) /\ (dv.kb_queue # <<>> => dv.kb)
      /\ dv.ms_queue \in Seq(MsBytes(dv.id))
  BY Zenon DEF Talks
<1>2. Heeded(dv, x, Heeds(dv.ms, StateOf(dv), b), says) BY <1>0, <1>1, MouseHeeds, Zenon
<1>3. /\ x \in DevSet /\ x.kb = dv.kb /\ x.ms = dv.ms /\ x.kb_queue = dv.kb_queue
      /\ x.ms_queue = dv.ms_queue \o says
  BY <1>2, Zenon DEF Heeded
<1>4. Replies(dv, x, says, b) BY <1>0, <1>1, MouseReplies, Zenon
<1>5. x.id \in {0, 3, 4} /\ says \in Seq(MsBytes(x.id)) BY <1>1, <1>4, Zenon DEF Replies
<1>6. dv.id \in Marks => x.id \in Marks
  <2>1. 0 \notin Marks BY DEF Marks
  <2> QED BY <1>4, <2>1, Zenon DEF Replies
<1>7. MsBytes(dv.id) \subseteq MsBytes(x.id) BY <1>6, ByteSets, Zenon
<1>8. x.ms_queue \in Seq(MsBytes(x.id))
  <2>1. \A s \in Seq(MsBytes(x.id)) : dv.ms_queue \o s \in Seq(MsBytes(x.id))
    BY <1>1, <1>7, Joined, Zenon
  <2> QED BY <1>3, <1>5, <2>1, Zenon
<1>9. Remains(dv, x) BY <1>1, <1>3, <1>5, <1>6, <1>8, Zenon DEF Remains, Talks
<1>10. Bare(dv) /\ b \in FindBytes => Bare(x) BY <1>4, Zenon DEF Replies
<1> QED BY <1>0, <1>9, <1>10, Zenon

(* A device passes on a byte.                                              *)
LEMMA DeviceSends ==
    ASSUME Talks(dev), P!KeyboardSends \/ P!MouseSends
    PROVE  /\ Remains(dev, dev') /\ Heard(answer', dev') /\ (Bare(dev) => Bare(dev'))
           /\ inp' = inp /\ target' = target /\ Rest
<1>0. /\ dev \in DevSet /\ dev.id \in {0, 3, 4}
      /\ dev.kb_queue \in Seq(KbBytes) /\ (dev.kb_queue # <<>> => dev.kb)
      /\ dev.ms_queue \in Seq(MsBytes(dev.id)) /\ (dev.ms_queue # <<>> => dev.ms # "none")
  BY Zenon DEF Talks
<1>1. CASE P!KeyboardSends
  <2>0. PICK q : q = dev.kb_queue OBVIOUS
  <2>1. /\ q # <<>> /\ answer' = <<1, Head(q)>> /\ dev' = [dev EXCEPT !.kb_queue = Tail(q)]
        /\ inp' = inp /\ target' = target /\ Rest
    BY <1>1, <2>0, Zenon DEF P!KeyboardSends, Rest
  <2>2. q \in Seq(KbBytes) /\ Tail(q) \in Seq(KbBytes) /\ Head(q) \in KbBytes
    BY <1>0, <2>0, <2>1
  <2>3. Tail(q) \in Seq(Int) BY <2>2, ByteSets, Joined, Zenon
  <2>4. /\ dev' \in DevSet /\ dev'.kb = dev.kb /\ dev'.ms = dev.ms
        /\ dev'.kb_queue = Tail(q) /\ dev'.ms_queue = dev.ms_queue /\ StateOf(dev') = StateOf(dev)
    BY <1>0, <2>1, <2>3, KeyboardHeeds, Zenon
  <2>5. dev'.id = dev.id /\ dev'.rates = dev.rates /\ dev'.rate_next = dev.rate_next
    BY <2>4, SameState, Zenon
  <2>6. Talks(dev') BY <1>0, <2>0, <2>1, <2>2, <2>4, <2>5, Zenon DEF Talks
  <2>7. Heard(answer', dev') BY <1>0, <2>0, <2>1, <2>2, <2>4, Zenon DEF Heard
  <2> QED BY <2>1, <2>4, <2>5, <2>6, <2>7, Zenon DEF Remains, Bare
<1>2. CASE P!MouseSends
  <2>0. PICK q : q = dev.ms_queue OBVIOUS
  <2>1. /\ q # <<>> /\ answer' = <<2, Head(q)>> /\ dev' = [dev EXCEPT !.ms_queue = Tail(q)]
        /\ inp' = inp /\ target' = target /\ Rest
    BY <1>2, <2>0, Zenon DEF P!MouseSends, Rest
  <2>2. q \in Seq(MsBytes(dev.id)) /\ Tail(q) \in Seq(MsBytes(dev.id)) /\ Head(q) \in MsBytes(dev.id)
    <3>1. PICK S : S = MsBytes(dev.id) OBVIOUS
    <3>2. q \in Seq(S) /\ q # <<>> BY <1>0, <2>0, <2>1, <3>1, Zenon
    <3>3. Tail(q) \in Seq(S) /\ Head(q) \in S BY <3>2
    <3> QED BY <3>1, <3>2, <3>3, Zenon
  <2>3. Tail(q) \in Seq(Int) BY <2>2, ByteSets, Joined, Zenon
  <2>4. /\ dev' \in DevSet /\ dev'.kb = dev.kb /\ dev'.ms = dev.ms
        /\ dev'.ms_queue = Tail(q) /\ dev'.kb_queue = dev.kb_queue /\ StateOf(dev') = StateOf(dev)
    BY <1>0, <2>1, <2>3, MouseQueue, Zenon
  <2>5. dev'.id = dev.id /\ dev'.rates = dev.rates /\ dev'.rate_next = dev.rate_next
    BY <2>4, SameState, Zenon
  <2>6. Talks(dev') BY <1>0, <2>0, <2>1, <2>2, <2>4, <2>5, Zenon DEF Talks
  <2>7. Heard(answer', dev') BY <1>0, <2>0, <2>1, <2>2, <2>4, <2>5, Zenon DEF Heard
  <2> QED BY <2>1, <2>4, <2>5, <2>6, <2>7, Zenon DEF Remains, Bare
<1> QED BY <1>1, <1>2, Zenon

-----------------------------------------------------------------------------
(* Steps while the devices are spoken to.                                  *)

(* What the driver can be told in answer.                                  *)
Told(v, dv) ==
    /\ v \in {-1, 250, 170, 171, 131, 254, 0, 3, 4}
    /\ v = 131 => dv.kb
    /\ v = 0 => dv.ms # "none"
    /\ v = 3 => dv.id \in Marks

LEMMA HeardTold ==
    ASSUME NEW a, NEW dv, Heard(a, dv)
    PROVE  Told(-1, dv) /\ (a # <<>> => Told(a[2], dv))
<1>1. Told(-1, dv) BY SMT DEF Told
<1>2. ASSUME NEW b \in KbBytes, a = <<1, b>>, dv.kb
      PROVE  Told(a[2], dv)
  <2>1. a[2] = b BY <1>2
  <2>2. Told(b, dv) BY <1>2, SMT DEF Told, KbBytes
  <2> QED BY <2>1, <2>2, Zenon
<1>3. ASSUME NEW b \in MsBytes(dv.id), a = <<2, b>>, dv.ms # "none"
      PROVE  Told(a[2], dv)
  <2>1. a[2] = b BY <1>3
  <2>2. Told(b, dv) BY <1>3, SMT DEF Told, MsBytes, Marks
  <2> QED BY <2>1, <2>2, Zenon
<1> QED BY <1>1, <1>2, <1>3, Zenon DEF Heard

LEMMA TakesCode ==
    ASSUME NEW c \in Codes, inp = <<"cmd", c>>, P!ControllerTakes
    PROVE  /\ inp' = <<>> /\ answer' = answer /\ dev' = dev
           /\ target' = target \/ (c = 212 /\ target' = "p2")
           /\ Rest
<1>1. inp # <<>> /\ inp[1] = "cmd" /\ inp[2] = c OBVIOUS
<1>2. inp' = <<>> /\ P!Command(c) /\ Rest BY <1>1, Zenon DEF P!ControllerTakes, Rest
<1>3. c # 96 /\ c # 173 /\ c # 167 /\ c # 32 /\ c # 170 /\ c # 171 /\ c # 169
  BY DEF Codes
<1>4. answer' = answer /\ dev' = dev BY <1>2, <1>3, Zenon DEF P!Command, P!Quiet
<1>5. target' = target \/ (c = 212 /\ target' = "p2") BY <1>2, <1>3, Zenon DEF P!Command
<1> QED BY <1>2, <1>4, <1>5, Zenon

(* The controller takes a byte.                                            *)
LEMMA PhaseTakes ==
    ASSUME NEW bytes \in {FindBytes, StartBytes}, NEW tags, Phase(bytes, tags),
           bytes = FindBytes => Bare(dev), P!ControllerTakes
    PROVE  /\ Remains(dev, dev') /\ (bytes = FindBytes => Bare(dev')) /\ Rest
           /\ Given(bytes)' /\ answer' = answer
<1>0. Given(bytes) /\ Talks(dev) BY Zenon DEF Phase
<1>00. Remains(dev, dev) BY <1>0, Zenon DEF Remains
<1>01. "p1" # "p2" /\ "p1" \in {"p1", "p2"} /\ "p2" \in {"p1", "p2"} /\ bytes \subseteq Int
  BY DEF FindBytes, StartBytes
<1>02. \A x, y : <<x, y>> # <<>> OBVIOUS
<1>1. inp # <<>> BY Zenon DEF P!ControllerTakes
<1>2. ASSUME NEW c \in Codes, inp = <<"cmd", c>>
      PROVE  /\ Remains(dev, dev') /\ (bytes = FindBytes => Bare(dev')) /\ Rest
             /\ Given(bytes)' /\ answer' = answer
  <2>1. /\ inp' = <<>> /\ answer' = answer /\ dev' = dev
        /\ target' = target \/ (c = 212 /\ target' = "p2")
        /\ Rest
    BY <1>2, TakesCode, Zenon
  <2>2. \A b : inp # <<"data", b>> BY <1>2
  <2>3. target = "p1" BY <1>0, <1>1, <2>2, Zenon DEF Given
  <2>4. todo' = todo /\ (c = 212 => Waits(todo))
    BY <1>0, <1>2, <2>1, Zenon DEF Given, Rest
  <2>5. Given(bytes)' BY <1>01, <1>02, <2>1, <2>3, <2>4, Zenon DEF Given
  <2> QED BY <1>00, <2>1, <2>5, Zenon
<1>3. ASSUME NEW b \in bytes, inp = <<"data", b>>
      PROVE  /\ Remains(dev, dev') /\ (bytes = FindBytes => Bare(dev')) /\ Rest
             /\ Given(bytes)' /\ answer' = answer
  <2>0. target \in {"p1", "p2"} /\ b \in Int BY <1>0, <1>01, Zenon DEF Given
  <2>1. /\ inp' = <<>> /\ answer' = answer /\ target' = "p1"
        /\ Rest
        /\ dev' = CASE target = "p1" /\ dev.kb ->
                         [dev EXCEPT !.kb_queue = @ \o P!KbAnswer(b)]
                    [] target = "p2" /\ dev.ms # "none" -> P!MsCommand(dev, b)
                    [] OTHER -> dev
    BY <1>3, <2>0, TakesData, Zenon
  <2>2. Given(bytes)' BY <1>01, <1>02, <2>1, Zenon DEF Given
  <2>3. CASE target = "p1" /\ dev.kb
    <3>1. dev' = [dev EXCEPT !.kb_queue = @ \o P!KbAnswer(b)] BY <2>1, <2>3, Zenon
    <3>2. Remains(dev, dev') /\ (Bare(dev) => Bare(dev'))
      BY <1>0, <2>3, <3>1, KeyboardTold, Zenon
    <3> QED BY <2>1, <2>2, <3>2, Zenon
  <2>4. CASE target = "p2" /\ dev.ms # "none"
    <3>1. dev' = P!MsCommand(dev, b) BY <1>01, <2>1, <2>4, Zenon
    <3>2. b = 255 => dev.id = 0
      <4>1. 255 \notin StartBytes BY DEF StartBytes
      <4> QED BY <4>1, SMT DEF Bare
    <3>3. Remains(dev, dev') /\ (Bare(dev) /\ b \in FindBytes => Bare(dev'))
      BY <1>0, <2>0, <2>4, <3>1, <3>2, MouseTold, Zenon
    <3> QED BY <2>1, <2>2, <3>3, Zenon
  <2>5. CASE ~(target = "p1" /\ dev.kb) /\ ~(target = "p2" /\ dev.ms # "none")
    <3>1. dev' = dev BY <2>1, <2>5, Zenon
    <3> QED BY <1>00, <2>1, <2>2, <3>1, Zenon
  <2> QED BY <2>3, <2>4, <2>5, Zenon
<1> QED BY <1>0, <1>1, <1>2, <1>3, Zenon DEF Given

(* The driver has got the answer v to the last access, that for tag.       *)
Learns(tag, v, bytes) ==
    /\ Told(v, dev) /\ Got(tag, <<>>, v) /\ answer' = <<>>
    /\ \/ inp = <<>>
       \/ \E c \in Codes \ {212} : inp = <<"cmd", c>>
       \/ \E b \in bytes : inp = <<"data", b>>
    /\ target \in {"p1", "p2"}
    /\ target = "p2" => \E b \in bytes : inp = <<"data", b>>
    /\ inp = <<"data", 255>> => tag \in ResetTags

(* Any step: the phase goes on, or the driver gets its last answer.        *)
LEMMA PhaseStep ==
    ASSUME NEW bytes \in {FindBytes, StartBytes}, NEW tags, Phase(bytes, tags),
           tags \cap Plain = {}, tags \subseteq Tags,
           bytes = FindBytes => Bare(dev), hw # "absent", P!Next
    PROVE  /\ Remains(dev, dev') /\ (bytes = FindBytes => Bare(dev'))
           /\ \/ Phase(bytes, tags)' /\ drv' = drv
              \/ \E tag \in tags : \E v : Learns(tag, v, bytes)
<1>0. Proper(todo, bytes, tags) /\ Given(bytes) /\ Talks(dev) /\ Heard(answer, dev)
  BY Zenon DEF Phase
<1>1. PICK op, arg, r : op = Head(todo).op /\ arg = Head(todo).arg /\ r = Tail(todo) OBVIOUS
<1>2. /\ todo # <<>> /\ todo \in Seq(Access) /\ r \in Seq(Access) /\ Head(todo) \in Access
      /\ \/ r = <<>> /\ op = "recv" /\ arg \in tags
         \/ Proper(r, bytes, tags) /\ Fit(Head(todo), Head(r), bytes)
  BY <1>0, <1>1, ProperParts, Zenon DEF Proper
<1>3. Starts(todo, op, arg, r) BY <1>1, <1>2, Zenon DEF Starts
<1>4. Remains(dev, dev) /\ "recv" \notin {"inb", "data"} /\ "recv" \notin {"cmd", "data"}
  BY <1>0, Zenon DEF Remains
<1>5. ASSUME dev' = dev, drv' = drv, Proper(r, bytes, tags), todo' = r, Given(bytes)',
             answer' = answer \/ answer' = <<>>
      PROVE  /\ Remains(dev, dev') /\ (bytes = FindBytes => Bare(dev'))
             /\ Phase(bytes, tags)' /\ drv' = drv
  <2>1. Heard(answer', dev') BY <1>0, <1>5, Zenon DEF Heard
  <2>2. Proper(todo', bytes, tags) BY <1>5, Zenon
  <2> QED BY <1>0, <1>4, <1>5, <2>1, <2>2, Zenon DEF Phase
<1>6. ASSUME Remains(dev, dev'), Rest, Given(bytes)', Heard(answer', dev')
      PROVE  Phase(bytes, tags)' /\ drv' = drv
  BY <1>0, <1>6, Zenon DEF Phase, Rest, Remains
<1>7. CASE P!ControllerTakes
  <2>1. /\ Remains(dev, dev') /\ (bytes = FindBytes => Bare(dev')) /\ Rest
        /\ Given(bytes)' /\ answer' = answer
    BY <1>7, PhaseTakes, Zenon
  <2>2. Heard(answer', dev') BY <1>0, <2>1, StillHeard, Zenon
  <2> QED BY <1>6, <2>1, <2>2, Zenon
<1>8. CASE P!KeyboardSends \/ P!MouseSends
  <2>1. /\ Remains(dev, dev') /\ Heard(answer', dev') /\ (Bare(dev) => Bare(dev'))
        /\ inp' = inp /\ target' = target /\ Rest
    BY <1>0, <1>8, DeviceSends, Zenon
  <2>2. Given(bytes)' BY <1>0, <2>1, Zenon DEF Given, Rest
  <2> QED BY <1>6, <2>1, <2>2, Zenon
<1>9. CASE P!HandlerTakes
  <2>1. answer' = <<>> /\ dev' = dev /\ inp' = inp /\ target' = target /\ Rest
    BY <1>9, Zenon DEF P!HandlerTakes, Rest
  <2>2. Given(bytes)' BY <1>0, <2>1, Zenon DEF Given, Rest
  <2>3. Heard(answer', dev') BY <2>1, Zenon DEF Heard
  <2> QED BY <1>4, <1>6, <2>1, <2>2, <2>3, Zenon
<1>10. ~P!Stuck
  <2>1. \/ inp = <<>> \/ inp = <<"cmd", 168>> \/ inp = <<"cmd", 174>> \/ inp = <<"cmd", 212>>
        \/ \E b : inp = <<"data", b>>
    BY <1>0, Zenon DEF Given, Codes
  <2> QED BY <2>1, SMT DEF P!Stuck
<1>11. CASE op \in {"cmd", "data"} /\ SentOne(op, arg, r)
  <2>1. /\ inp = <<>> /\ inp' = <<op, arg>> /\ todo' = r /\ drv' = drv
        /\ answer' = answer /\ target' = target /\ dev' = dev
    BY <1>11, Zenon DEF SentOne
  <2>2. Proper(r, bytes, tags) /\ Fit(Head(todo), Head(r), bytes)
    BY <1>2, <1>4, <1>11, Zenon
  <2>3. target \in {"p1", "p2"} /\ (target = "p2" => Waits(todo))
    BY <1>0, <2>1, SMT DEF Given
  <2>4. CASE op = "cmd"
    <3>1. arg \in Codes /\ (arg = 212 => Waits(r))
      BY <1>1, <2>2, <2>4, Zenon DEF Fit, Waits
    <3>2. target = "p1" BY <1>1, <2>3, <2>4, SMT DEF Waits
    <3>3. inp' # <<>> /\ (inp' = <<"cmd", 212>> => arg = 212) /\ inp' # <<"data", 255>>
      BY <2>1, <2>4
    <3>4. Given(bytes)' BY <2>1, <2>4, <3>1, <3>2, <3>3, SMT DEF Given
    <3> QED BY <1>5, <2>1, <2>2, <3>4, Zenon
  <2>5. CASE op = "data"
    <3>1. arg \in bytes /\ (arg = 255 => AwaitsReset(Head(r)))
      BY <1>1, <2>2, <2>5, Zenon DEF Fit
    <3>2. inp' # <<"cmd", 212>> /\ (inp' = <<"data", 255>> => arg = 255) /\ inp' # <<>>
      BY <2>1, <2>5
    <3>3. Given(bytes)'
      <4>1. \E b \in bytes : inp' = <<"data", b>> BY <2>1, <2>5, <3>1, Zenon
      <4>2. inp' = <<"data", 255>> => Resets(todo')
        BY <2>1, <3>1, <3>2, Zenon DEF Resets
      <4> QED BY <2>1, <2>3, <3>2, <4>1, <4>2, Zenon DEF Given
    <3> QED BY <1>5, <2>1, <2>2, <3>3, Zenon
  <2> QED BY <1>11, <2>4, <2>5, Zenon
<1>12. CASE op = "inb" /\ Dropped(r)
  <2>1. /\ todo' = r /\ answer' = <<>> /\ drv' = drv /\ inp' = inp
        /\ target' = target /\ dev' = dev
    BY <1>12, Zenon DEF Dropped
  <2>2. Proper(r, bytes, tags) /\ Fit(Head(todo), Head(r), bytes)
    BY <1>2, <1>12, OpNames, Zenon
  <2>3. Waits(r) BY <1>1, <1>12, <2>2, Zenon DEF Fit, Waits
  <2>4. ~Resets(todo) BY <1>1, <1>12, OpNames, Zenon DEF Resets, AwaitsReset
  <2>5. Given(bytes)' BY <1>0, <2>1, <2>3, <2>4, Zenon DEF Given
  <2> QED BY <1>5, <2>1, <2>2, <2>5, Zenon
<1>13. CASE op = "recv" /\ (GotByte(arg, r) \/ GotNothing(arg, r))
  <2>1. PICK v : Got(arg, r, v) /\ Told(v, dev) /\ answer' = <<>>
    BY <1>0, <1>13, HeardTold, Zenon DEF GotByte, GotNothing
  <2>2. ~Waits(todo) /\ inp # <<"cmd", 212>>
    BY <1>0, <1>1, <1>4, <1>13, Zenon DEF Given, Waits
  <2>3. /\ inp = <<"data", 255>> => arg \in ResetTags
        /\ target = "p2" => \E b \in bytes : inp = <<"data", b>>
    BY <1>0, <1>1, <1>4, <1>13, <2>2, Zenon DEF Given, Resets, AwaitsReset
  <2>4. inp' = inp /\ target' = target /\ dev' = dev BY <2>1, Zenon DEF Got
  <2>5. CASE r = <<>> /\ arg \in tags
    <3>1. Got(arg, <<>>, v) BY <2>1, <2>5, Zenon
    <3>2. \/ inp = <<>>
          \/ \E c \in Codes \ {212} : inp = <<"cmd", c>>
          \/ \E b \in bytes : inp = <<"data", b>>
      <4>1. ASSUME NEW c \in Codes, inp = <<"cmd", c>>
            PROVE  c \in Codes \ {212}
        BY <2>2, <4>1, Zenon
      <4> QED BY <1>0, <4>1, Zenon DEF Given
    <3>3. target \in {"p1", "p2"} BY <1>0, Zenon DEF Given
    <3>4. Learns(arg, v, bytes) BY <2>1, <2>3, <3>1, <3>2, <3>3, Zenon DEF Learns
    <3> QED BY <1>4, <2>4, <2>5, <3>4, Zenon
  <2>6. CASE Proper(r, bytes, tags) /\ Fit(Head(todo), Head(r), bytes)
    <3>1. arg \in Plain BY <1>1, <1>13, <2>6, Zenon DEF Fit
    <3>2. P!Received(arg, v, drv) = Pair(drv, <<>>) BY <3>1, OnUnused, Zenon DEF Plain
    <3>3. Goes(arg, v, drv, drv, <<>>) BY <3>2, PairIs, Zenon
    <3>4. drv' = drv /\ todo' = Then(r, <<>>) BY <2>1, <3>3, Zenon DEF Got, Goes
    <3>5. todo' = r BY <1>2, <3>4, Flat, Zenon
    <3>6. inp # <<"data", 255>>
      <4>1. Plain \cap ResetTags = {} BY DEF Plain, ResetTags
      <4> QED BY <2>3, <3>1, <4>1, Zenon
    <3>7. Given(bytes)' BY <1>0, <2>2, <2>3, <2>4, <3>6, Zenon DEF Given
    <3> QED BY <1>5, <2>1, <2>4, <2>6, <3>4, <3>5, <3>7, Zenon
  <2> QED BY <1>2, <2>5, <2>6, Zenon
<1> QED BY <1>3, <1>7, <1>8, <1>9, <1>10, <1>11, <1>12, <1>13, DriverSteps, Zenon

-----------------------------------------------------------------------------
(* The programs are proper.                                                *)

LEMMA ProperGet ==
    ASSUME NEW tag \in Plain, NEW r, NEW bytes, NEW tags, Proper(r, bytes, tags)
    PROVE  Proper(Get(tag, r), bytes, tags)
<1>1. tag \in Tags BY DEF Plain, Tags
<1>2. r \in Seq(Access) BY Zenon DEF Proper
<1>3. Starts(Get(tag, r), "recv", tag, r) BY <1>1, <1>2, GetType, Zenon
<1>4. Head(Get(tag, r)).op = "recv" /\ Head(Get(tag, r)).arg = tag
  BY <1>3, Zenon DEF Starts
<1>5. Fit(Head(Get(tag, r)), Head(r), bytes) BY <1>4, OpNames, Zenon DEF Fit
<1> QED BY <1>3, <1>5, ProperLonger, Zenon

LEMMA ProperOnly ==
    ASSUME NEW tags, NEW tag \in tags, tag \in Tags, NEW bytes
    PROVE  /\ Proper(Get(tag, <<>>), bytes, tags)
           /\ Head(Get(tag, <<>>)).op = "recv" /\ Head(Get(tag, <<>>)).arg = tag
<1>1. Starts(Get(tag, <<>>), "recv", tag, <<>>) BY GetType, EarlyTypes, Zenon
<1> QED BY <1>1, ProperLast, Zenon DEF Starts

LEMMA ProperData ==
    ASSUME NEW r, NEW bytes, NEW tags, Proper(r, bytes, tags), NEW b \in bytes, b \in Int,
           b = 255 => AwaitsReset(Head(r))
    PROVE  /\ Proper(Then(P!Data(b), r), bytes, tags)
           /\ Head(Then(P!Data(b), r)).op = "data"
<1>1. r \in Seq(Access) BY Zenon DEF Proper
<1>2. Starts(Then(P!Data(b), r), "data", b, r) BY <1>1, DataStarts, Zenon
<1>3. Head(Then(P!Data(b), r)).op = "data" /\ Head(Then(P!Data(b), r)).arg = b
  BY <1>2, Zenon DEF Starts
<1>4. "data" # "cmd" /\ "data" # "inb" /\ "data" # "recv" OBVIOUS
<1>5. Fit(Head(Then(P!Data(b), r)), Head(r), bytes) BY <1>3, <1>4, Zenon DEF Fit
<1> QED BY <1>2, <1>3, <1>5, ProperLonger, Zenon

LEMMA ProperCmd ==
    ASSUME NEW r, NEW bytes, NEW tags, Proper(r, bytes, tags), NEW c \in Codes, NEW n \in Nat,
           c = 212 => Head(r).op = "inb"
    PROVE  /\ Proper(Then(P!CmdOrSkip(c, n), r), bytes, tags)
           /\ Head(Then(P!CmdOrSkip(c, n), r)).op = "cmd"
<1>1. r \in Seq(Access) BY Zenon DEF Proper
<1>2. c \in Int BY DEF Codes
<1>3. Starts(Then(P!CmdOrSkip(c, n), r), "cmd", c, r) BY <1>1, <1>2, CmdStarts, Zenon
<1>4. Head(Then(P!CmdOrSkip(c, n), r)).op = "cmd" /\ Head(Then(P!CmdOrSkip(c, n), r)).arg = c
  BY <1>3, Zenon DEF Starts
<1>5. "data" # "cmd" /\ "cmd" # "inb" /\ "cmd" # "recv" OBVIOUS
<1>6. Fit(Head(Then(P!CmdOrSkip(c, n), r)), Head(r), bytes) BY <1>4, <1>5, Zenon DEF Fit
<1> QED BY <1>3, <1>4, <1>6, ProperLonger, Zenon

LEMMA ProperSend2 ==
    ASSUME NEW r, NEW bytes, NEW tags, Proper(r, bytes, tags), NEW b \in bytes, b \in Int,
           b = 255 => AwaitsReset(Head(r))
    PROVE  /\ Proper(Send2(b, r), bytes, tags)
           /\ Head(Send2(b, r)).op = "cmd"
<1> DEFINE s == Then(P!Data(b), r)
           t == Then(P!Inb, s)
<1>1. Proper(s, bytes, tags) /\ Head(s).op = "data" BY ProperData, Zenon
<1> HIDE DEF s
<1>2. s \in Seq(Access) BY <1>1, Zenon DEF Proper
<1>3. Starts(t, "inb", 0, s) BY <1>2, InbStarts, Zenon
<1>4. Head(t).op = "inb" BY <1>3, Zenon DEF Starts
<1>5. Fit(Head(t), Head(s), bytes) BY <1>1, <1>4, OpNames, Zenon DEF Fit
<1>6. Proper(t, bytes, tags) BY <1>1, <1>3, <1>5, ProperLonger, Zenon
<1>7. 212 \in Codes /\ 2 \in Nat BY DEF Codes
<1> HIDE DEF t
<1>8. /\ Proper(Then(P!CmdOrSkip(212, 2), t), bytes, tags)
      /\ Head(Then(P!CmdOrSkip(212, 2), t)).op = "cmd"
  BY <1>4, <1>6, <1>7, ProperCmd, SMT
<1> QED BY <1>8, Zenon DEF Send2, s, t

LEMMA FindPrograms ==
    /\ Proper(Port1Program, FindBytes, FindTags)
    /\ Proper(KbIdentify, FindBytes, FindTags) /\ Resets(KbIdentify)
    /\ Proper(P!Port2, FindBytes, FindTags) /\ Resets(P!Port2)
    /\ Proper(Send2(242, MsIdentify), FindBytes, FindTags) /\ Resets(Send2(242, MsIdentify))
    /\ \A tag \in FindTags : Proper(Get(tag, <<>>), FindBytes, FindTags)
    /\ \A tag \in ResetTags : Resets(Get(tag, <<>>))
<1>1. /\ 255 \in FindBytes /\ 242 \in FindBytes /\ 255 \in Int /\ 242 \in Int /\ 242 # 255
      /\ 174 \in Codes /\ 168 \in Codes /\ 174 # 212 /\ 168 # 212 /\ 0 \in Nat /\ 1 \in Nat
  BY DEF FindBytes, Codes
<1>2. /\ FindTags \subseteq Tags /\ ResetTags \subseteq FindTags /\ "ack" \in Plain
      /\ "p1_type" \in FindTags /\ "p2_type" \in FindTags
      /\ "p1_reset" \in ResetTags /\ "p2_reset" \in ResetTags
  BY SMT DEF FindTags, ResetTags, Tags, Plain
<1>3. ASSUME NEW tag \in FindTags
      PROVE  /\ Proper(Get(tag, <<>>), FindBytes, FindTags)
             /\ tag \in ResetTags => AwaitsReset(Head(Get(tag, <<>>)))
  BY <1>2, ProperOnly, Zenon DEF AwaitsReset
<1>4. \A tag \in ResetTags : Resets(Get(tag, <<>>)) BY <1>2, <1>3, Zenon DEF Resets
<1>5. Proper(Port1Program, FindBytes, FindTags)
  <2>1. Proper(Then(P!Data(255), Get("p1_reset", <<>>)), FindBytes, FindTags)
    BY <1>1, <1>2, <1>3, ProperData, SMT
  <2>2. P!Cmd(174) = P!CmdOrSkip(174, 0) BY Zenon DEF P!Cmd, P!CmdOrSkip
  <2> QED BY <1>1, <2>1, <2>2, ProperCmd, SMT DEF Port1Program
<1>6. Proper(KbIdentify, FindBytes, FindTags) /\ Resets(KbIdentify)
  <2>1. Proper(Get("ack", Get("p1_type", <<>>)), FindBytes, FindTags)
    BY <1>2, <1>3, ProperGet, Zenon
  <2>2. Proper(KbIdentify, FindBytes, FindTags) /\ Head(KbIdentify).op = "data"
    BY <1>1, <2>1, ProperData, SMT DEF KbIdentify
  <2> QED BY <2>2, Zenon DEF Resets
<1>7. Proper(P!Port2, FindBytes, FindTags) /\ Resets(P!Port2)
  <2>1. Proper(Send2(255, Get("p2_reset", <<>>)), FindBytes, FindTags)
    BY <1>1, <1>2, <1>3, ProperSend2, SMT
  <2>2. P!Cmd(174) = P!CmdOrSkip(174, 0) BY Zenon DEF P!Cmd, P!CmdOrSkip
  <2>3. Proper(MsReset, FindBytes, FindTags)
    BY <1>1, <2>1, <2>2, ProperCmd, SMT DEF MsReset
  <2>4. Proper(P!Port2, FindBytes, FindTags) /\ Head(P!Port2).op = "cmd"
    <3>1. /\ Proper(Then(P!CmdOrSkip(168, 1), MsReset), FindBytes, FindTags)
          /\ Head(Then(P!CmdOrSkip(168, 1), MsReset)).op = "cmd"
      BY <1>1, <2>3, ProperCmd, SMT
    <3> QED BY <3>1, Port2Is, Zenon
  <2> QED BY <2>4, Zenon DEF Resets
<1>8. Proper(Send2(242, MsIdentify), FindBytes, FindTags) /\ Resets(Send2(242, MsIdentify))
  <2>1. Proper(MsIdentify, FindBytes, FindTags)
    BY <1>2, <1>3, ProperGet, Zenon DEF MsIdentify
  <2>2. /\ Proper(Send2(242, MsIdentify), FindBytes, FindTags)
        /\ Head(Send2(242, MsIdentify)).op = "cmd"
    BY <1>1, <2>1, ProperSend2, SMT
  <2> QED BY <2>2, Zenon DEF Resets
<1> QED BY <1>3, <1>4, <1>5, <1>6, <1>7, <1>8, Zenon

LEMMA StartPrograms ==
    /\ Proper(P!Mouse, StartBytes, StartTags)
    /\ Proper(P!Magic(200, 200, 80, "id2"), StartBytes, StartTags)
<1>0. PICK B, T : B = StartBytes /\ T = StartTags OBVIOUS
<1>1. /\ "unused" \in Plain /\ "id" \in T /\ "id2" \in T /\ T \subseteq Tags
  BY <1>0, SMT DEF StartTags, Plain, Tags
<1>2. \A b \in B : b \in Int /\ b # 255 BY <1>0, SMT DEF StartBytes
<1>3. 246 \in B /\ 244 \in B /\ 243 \in B /\ 200 \in B /\ 100 \in B /\ 80 \in B /\ 242 \in B
  BY <1>0, SMT DEF StartBytes
<1>4. ASSUME NEW b \in B, NEW r, Proper(r, B, T)
      PROVE  Proper(Send2(b, r), B, T)
  BY <1>2, <1>4, ProperSend2, Zenon
<1>5. ASSUME NEW r, Proper(r, B, T)
      PROVE  Proper(Get("unused", r), B, T)
  BY <1>1, <1>5, ProperGet, Zenon
<1>6. ASSUME NEW a \in B, NEW b \in B, NEW c \in B, NEW x \in B, NEW y \in B, NEW tag \in T,
             x = 243, y = 242
      PROVE  Proper(M1(a, b, c, tag), B, T)
  <2>1. Proper(M11(tag), B, T) BY <1>1, <1>5, ProperOnly, Zenon DEF M11
  <2>2. Proper(M9(c, tag), B, T) BY <1>4, <1>6, <2>1, Zenon DEF M9
  <2>3. Proper(M7(c, tag), B, T) BY <1>4, <1>5, <1>6, <2>2, Zenon DEF M7
  <2>4. Proper(M6(b, c, tag), B, T) BY <1>4, <2>3, Zenon DEF M6
  <2>5. Proper(M4(b, c, tag), B, T) BY <1>4, <1>5, <1>6, <2>4, Zenon DEF M4
  <2>6. Proper(M3(a, b, c, tag), B, T) BY <1>4, <2>5, Zenon DEF M3
  <2> QED BY <1>4, <1>5, <1>6, <2>6, Zenon DEF M1
<1>7. Proper(MouseProgram, B, T) /\ Proper(M1(200, 200, 80, "id2"), B, T)
  BY <1>1, <1>3, <1>6, SMT DEF MouseProgram
<1>8. Proper(MouseRest, B, T) BY <1>5, <1>7, Zenon DEF MouseRest
<1>9. Proper(MouseMore, B, T) BY <1>3, <1>4, <1>5, <1>8, SMT DEF MouseMore
<1>10. Proper(P!Mouse, B, T) BY <1>3, <1>4, <1>9, MouseIs, SMT
<1>11. P!Magic(200, 200, 80, "id2") = M1(200, 200, 80, "id2")
  <2>1. "id2" \in Tags /\ 200 \in Int /\ 80 \in Int BY <1>1, SMT
  <2> QED BY <2>1, MagicIs, SMT
<1> QED BY <1>0, <1>7, <1>10, <1>11, SMT

-----------------------------------------------------------------------------
(* What the driver does with what it learns.                               *)

LEMMA DrvChanged ==
    ASSUME NEW d \in DrvSet, NEW x \in Int
    PROVE  /\ WithP1(d, x) \in DrvSet /\ WithP1(d, x).p1 = x
           /\ WithP1(d, x).p2 = d.p2 /\ WithP1(d, x).size = d.size
           /\ WithP2(d, x) \in DrvSet /\ WithP2(d, x).p2 = x
           /\ WithP2(d, x).p1 = d.p1 /\ WithP2(d, x).size = d.size
           /\ WithType(d, x) \in DrvSet /\ WithType(d, x).p1 = d.p1
           /\ WithType(d, x).p2 = d.p2 /\ WithType(d, x).size = d.size
           /\ P!WithId(x, d) \in DrvSet /\ P!WithId(x, d).p1 = d.p1
           /\ P!WithId(x, d).p2 = d.p2
           /\ P!WithId(x, d).size = IF x = 3 THEN 4 ELSE d.size
<1>1. /\ WithP1(d, x) \in DrvSet /\ WithP1(d, x).p1 = x
      /\ WithP1(d, x).p2 = d.p2 /\ WithP1(d, x).size = d.size
  BY DEF WithP1, DrvSet
<1>2. /\ WithP2(d, x) \in DrvSet /\ WithP2(d, x).p2 = x
      /\ WithP2(d, x).p1 = d.p1 /\ WithP2(d, x).size = d.size
  BY DEF WithP2, DrvSet
<1>3. /\ WithType(d, x) \in DrvSet /\ WithType(d, x).p1 = d.p1
      /\ WithType(d, x).p2 = d.p2 /\ WithType(d, x).size = d.size
  BY DEF WithType, DrvSet
<1>4. /\ P!WithId(x, d) \in DrvSet /\ P!WithId(x, d).p1 = d.p1
      /\ P!WithId(x, d).p2 = d.p2
      /\ P!WithId(x, d).size = IF x = 3 THEN 4 ELSE d.size
  <2>1. PICK n \in Int : n = IF x = 3 THEN 4 ELSE d.size BY SMT DEF DrvSet
  <2>2. P!WithId(x, d) = [d EXCEPT !.type = x, !.size = n] BY <2>1, Zenon DEF P!WithId
  <2>3. PICK e : e = [d EXCEPT !.type = x, !.size = n] OBVIOUS
  <2>4. e \in DrvSet /\ e.p1 = d.p1 /\ e.p2 = d.p2 /\ e.size = n BY <2>3 DEF DrvSet
  <2> QED BY <2>1, <2>2, <2>3, <2>4, Zenon
<1> QED BY <1>1, <1>2, <1>3, <1>4, Zenon

(* The answers while the ports are identified, whatever they are.          *)
LEMMA FindReceived ==
    ASSUME NEW v, NEW d
    PROVE  /\ P!Received("p1_passed", v, d)
                = Pair(d, IF v = 170 THEN P!SendPort1(242) \o P!Recv("ack") \o P!Recv("p1_type")
                          ELSE P!AfterPort1(d))
           /\ v # 171 => P!Received("p1_type", v, d)
                           = Pair(WithP1(d, v % 65536), P!AfterPort1(d))
           /\ P!Received("p1_type2", v, d)
                = Pair(WithP1(d, IF v = -1 THEN 65535 ELSE 171 * 256 + v), P!AfterPort1(d))
           /\ P!Received("p2_passed", v, d)
                = Pair(d, IF v = 170 THEN P!SendPort2(242) \o P!Recv("ack") \o P!Recv("p2_type")
                          ELSE P!Kernel(d))
           /\ v = 171 => P!Received("p2_type", v, d) = Pair(d, P!Recv("p2_type2"))
           /\ v # 171 => P!Received("p2_type", v, d)
                           = Pair(WithP2(d, v % 65536), P!Kernel(WithP2(d, v % 65536)))
           /\ P!Received("p2_type2", v, d)
                = Pair(WithP2(d, IF v = -1 THEN 65535 ELSE 171 * 256 + v),
                       P!Kernel(WithP2(d, IF v = -1 THEN 65535 ELSE 171 * 256 + v)))
<1>1. P!Received("p1_passed", v, d)
        = Pair(d, IF v = 170 THEN P!SendPort1(242) \o P!Recv("ack") \o P!Recv("p1_type")
                  ELSE P!AfterPort1(d))
  BY SMT DEF P!Received, Pair
<1>2. v # 171 => P!Received("p1_type", v, d) = Pair(WithP1(d, v % 65536), P!AfterPort1(d))
  BY SMT DEF P!Received, Pair, WithP1
<1>3. P!Received("p1_type2", v, d)
        = Pair(WithP1(d, IF v = -1 THEN 65535 ELSE 171 * 256 + v), P!AfterPort1(d))
  BY SMT DEF P!Received, Pair, WithP1
<1>4. P!Received("p2_passed", v, d)
        = Pair(d, IF v = 170 THEN P!SendPort2(242) \o P!Recv("ack") \o P!Recv("p2_type")
                  ELSE P!Kernel(d))
  BY SMT DEF P!Received, Pair
<1>5. v = 171 => P!Received("p2_type", v, d) = Pair(d, P!Recv("p2_type2"))
  BY SMT DEF P!Received, Pair
<1>6. v # 171 => P!Received("p2_type", v, d)
                   = Pair(WithP2(d, v % 65536), P!Kernel(WithP2(d, v % 65536)))
  BY SMT DEF P!Received, Pair, WithP2
<1>7. P!Received("p2_type2", v, d)
        = Pair(WithP2(d, IF v = -1 THEN 65535 ELSE 171 * 256 + v),
               P!Kernel(WithP2(d, IF v = -1 THEN 65535 ELSE 171 * 256 + v)))
  BY SMT DEF P!Received, Pair, WithP2
<1> QED BY <1>1, <1>2, <1>3, <1>4, <1>5, <1>6, <1>7, SMT

(* The driver goes on with the ports, with ps2_enable_irqs or, from        *)
(* identifying port 2, with the mouse.                                     *)
Continues(tag, v, d, dv) ==
    \E dd, more :
      /\ P!Received(tag, v, d) = Pair(dd, more) /\ There(dd, dv)
      /\ \/ NoMouseYet(dd) /\ Proper(more, FindBytes, FindTags) /\ (Resets(more) \/ tag \notin ResetTags)
         \/ more = Ask
         \/ more = P!Mouse /\ tag \notin ResetTags

LEMMA FindingLearns ==
    ASSUME NEW d, NEW dv, There(d, dv), NoMouseYet(d), NEW v, Told(v, dv), NEW tag \in FindTags
    PROVE  Continues(tag, v, d, dv)
<1>0. d \in DrvSet /\ d.p2 # 0 /\ d.size = 3 BY Zenon DEF There, NoMouseYet
<1>1. P!EnableIrqs = Ask BY EnableIrqsIs, Zenon DEF Ask
<1>2. \A x : P!Kernel(x) = IF x.p2 = 0 THEN P!Mouse ELSE Ask BY <1>1, Zenon DEF P!Kernel
<1>3. P!AfterPort1(d) = P!Port2 \/ P!AfterPort1(d) = Ask
  BY <1>0, <1>2, Zenon DEF P!AfterPort1
<1>4. P!Kernel(d) = Ask BY <1>0, <1>2, Zenon
<1>5. ASSUME NEW dd, NEW more, P!Received(tag, v, d) = Pair(dd, more), There(dd, dv), NoMouseYet(dd),
             Proper(more, FindBytes, FindTags), Resets(more) \/ tag \notin ResetTags
      PROVE  Continues(tag, v, d, dv)
  BY <1>5, Zenon DEF Continues
<1>6. ASSUME NEW dd, NEW more, P!Received(tag, v, d) = Pair(dd, more), There(dd, dv), more = Ask
      PROVE  Continues(tag, v, d, dv)
  BY <1>6, Zenon DEF Continues
<1>7. ASSUME NEW dd, P!Received(tag, v, d) = Pair(dd, P!AfterPort1(d)), There(dd, dv), NoMouseYet(dd)
      PROVE  Continues(tag, v, d, dv)
  BY <1>3, <1>5, <1>6, <1>7, FindPrograms, Zenon
<1>8. \A t \in FindTags : t \in Tags /\ P!Recv(t) = Get(t, <<>>)
  <2>1. FindTags \subseteq Tags BY SMT DEF FindTags, Tags
  <2> QED BY <2>1, GetType, EarlyTypes, Zenon
<1>9. /\ "p1_passed" \in ResetTags /\ "p2_passed" \in ResetTags
      /\ "p1_passed" \in FindTags /\ "p2_passed" \in FindTags
      /\ "p1_type2" \in FindTags /\ "p2_type2" \in FindTags
      /\ "p1_type" \notin ResetTags /\ "p2_type" \notin ResetTags
  BY SMT DEF ResetTags, FindTags
<1>10. /\ v \in Int /\ v % 65536 \in Int /\ v % 65536 # P!PS2_DEV_MF2_KEYBOARD
       /\ v % 65536 = 0 => v = 0
  BY SMT DEF Told, P!PS2_DEV_MF2_KEYBOARD
<1>11. PICK x : x = IF v = -1 THEN 65535 ELSE 171 * 256 + v OBVIOUS
<1>12. x \in Int /\ x # 0 /\ (x = P!PS2_DEV_MF2_KEYBOARD => v = 131)
  BY <1>11, SMT DEF Told, P!PS2_DEV_MF2_KEYBOARD
<1>13. ASSUME NEW y \in Int, y = P!PS2_DEV_MF2_KEYBOARD => dv.kb
       PROVE  There(WithP1(d, y), dv) /\ NoMouseYet(WithP1(d, y))
  <2>1. PICK dd : dd = WithP1(d, y) OBVIOUS
  <2>2. dd \in DrvSet /\ dd.p1 = y /\ dd.p2 = d.p2 /\ dd.size = d.size
    BY <1>0, <2>1, DrvChanged, Zenon
  <2> QED BY <1>13, <2>1, <2>2, Zenon DEF There, NoMouseYet
<1>14. ASSUME NEW y \in Int, y = 0 => dv.ms # "none"
       PROVE  There(WithP2(d, y), dv) /\ WithP2(d, y).p2 = y
  <2>1. PICK dd : dd = WithP2(d, y) OBVIOUS
  <2>2. dd \in DrvSet /\ dd.p2 = y /\ dd.p1 = d.p1 /\ dd.size = d.size
    BY <1>0, <2>1, DrvChanged, Zenon
  <2> QED BY <1>14, <2>1, <2>2, Zenon DEF There
<1>21. CASE tag = "p1_reset"
  <2>1. CASE v = 250
    <3>1. P!Received(tag, v, d) = Pair(d, Get("p1_passed", <<>>))
      BY <1>8, <1>9, <1>21, <2>1, OnP1Reset, Zenon
    <3> QED BY <1>5, <1>9, <3>1, FindPrograms, Zenon
  <2>2. CASE v # 250 BY <1>7, <1>21, <2>2, OnP1Reset, Zenon
  <2> QED BY <2>1, <2>2
<1>22. CASE tag = "p1_passed"
  <2>1. CASE v = 170
    <3>1. P!Received(tag, v, d) = Pair(d, KbIdentify)
      BY <1>22, <2>1, OnP1Passed, IdentifyIs, Zenon
    <3> QED BY <1>5, <3>1, FindPrograms, Zenon
  <2>2. CASE v # 170
    <3>1. P!Received(tag, v, d) = Pair(d, P!AfterPort1(d))
      BY <1>22, <2>2, FindReceived, SMT
    <3> QED BY <1>7, <3>1, Zenon
  <2> QED BY <2>1, <2>2
<1>23. CASE tag = "p1_type"
  <2>1. CASE v = 171
    <3>1. P!Received(tag, v, d) = Pair(d, Get("p1_type2", <<>>))
      BY <1>8, <1>9, <1>23, <2>1, OnP1Type, SMT
    <3> QED BY <1>5, <1>9, <1>23, <3>1, FindPrograms, Zenon
  <2>2. CASE v # 171
    <3>0. PICK y : y = v % 65536 OBVIOUS
    <3>1. P!Received(tag, v, d) = Pair(WithP1(d, y), P!AfterPort1(d))
      BY <1>23, <2>2, <3>0, FindReceived, SMT
    <3>2. y \in Int /\ y # P!PS2_DEV_MF2_KEYBOARD BY <1>10, <3>0, SMT
    <3> QED BY <1>7, <1>13, <3>1, <3>2, Zenon
  <2> QED BY <2>1, <2>2
<1>24. CASE tag = "p1_type2"
  <2>1. P!Received(tag, v, d) = Pair(WithP1(d, x), P!AfterPort1(d))
    BY <1>11, <1>24, FindReceived, SMT
  <2>2. x = P!PS2_DEV_MF2_KEYBOARD => dv.kb BY <1>12, Zenon DEF Told
  <2> QED BY <1>7, <1>12, <1>13, <2>1, <2>2, Zenon
<1>25. CASE tag = "p2_reset"
  <2>1. CASE v = 250
    <3>1. P!Received(tag, v, d) = Pair(d, Get("p2_passed", <<>>))
      BY <1>8, <1>9, <1>25, <2>1, OnP2Reset, Zenon
    <3> QED BY <1>5, <1>9, <3>1, FindPrograms, Zenon
  <2>2. CASE v # 250 BY <1>4, <1>6, <1>25, <2>2, OnP2Reset, Zenon
  <2> QED BY <2>1, <2>2
<1>26. CASE tag = "p2_passed"
  <2>1. CASE v = 170
    <3>1. P!Received(tag, v, d) = Pair(d, Send2(242, MsIdentify))
      BY <1>26, <2>1, OnP2Passed, IdentifyIs, Zenon
    <3> QED BY <1>5, <3>1, FindPrograms, Zenon
  <2>2. CASE v # 170
    <3>1. P!Received(tag, v, d) = Pair(d, P!Kernel(d)) BY <1>26, <2>2, FindReceived, SMT
    <3> QED BY <1>4, <1>6, <3>1, Zenon
  <2> QED BY <2>1, <2>2
<1>27. CASE tag = "p2_type"
  <2>1. CASE v = 171
    <3>1. P!Received(tag, v, d) = Pair(d, Get("p2_type2", <<>>))
      BY <1>8, <1>9, <1>27, <2>1, FindReceived, SMT
    <3> QED BY <1>5, <1>9, <1>27, <3>1, FindPrograms, Zenon
  <2>2. CASE v # 171
    <3>0. PICK y : y = v % 65536 OBVIOUS
    <3>1. P!Received(tag, v, d) = Pair(WithP2(d, y), P!Kernel(WithP2(d, y)))
      BY <1>27, <2>2, <3>0, FindReceived, SMT
    <3>2. y \in Int /\ (y = 0 => dv.ms # "none") BY <1>10, <3>0, SMT DEF Told
    <3>21. There(WithP2(d, y), dv) /\ WithP2(d, y).p2 = y BY <1>14, <3>2, Zenon
    <3>3. P!Kernel(WithP2(d, y)) = Ask \/ P!Kernel(WithP2(d, y)) = P!Mouse
      BY <1>2, Zenon
    <3> QED BY <1>9, <1>27, <3>1, <3>21, <3>3, Zenon DEF Continues
  <2> QED BY <2>1, <2>2
<1>28. CASE tag = "p2_type2"
  <2>1. P!Received(tag, v, d) = Pair(WithP2(d, x), P!Kernel(WithP2(d, x)))
    BY <1>11, <1>28, FindReceived, SMT
  <2>2. There(WithP2(d, x), dv) /\ WithP2(d, x).p2 = x BY <1>12, <1>14, Zenon
  <2>3. P!Kernel(WithP2(d, x)) = Ask BY <1>2, <1>12, <2>2, Zenon
  <2> QED BY <1>6, <2>1, <2>2, <2>3, Zenon
<1> QED BY <1>21, <1>22, <1>23, <1>24, <1>25, <1>26, <1>27, <1>28, Zenon DEF FindTags

-----------------------------------------------------------------------------
(* From one part of the set-up to the next.                                *)

LEMMA LearnsGoes ==
    ASSUME NEW tag, NEW v, NEW bytes, Learns(tag, v, bytes), NEW dd, NEW more,
           P!Received(tag, v, drv) = Pair(dd, more), more \in Seq(Access)
    PROVE  /\ drv' = dd /\ todo' = more
           /\ inp' = inp /\ target' = target /\ dev' = dev /\ answer' = <<>>
<1>1. Got(tag, <<>>, v) /\ answer' = <<>> BY Zenon DEF Learns
<1>2. Goes(tag, v, drv, dd, more) BY PairIs, Zenon
<1>3. drv' = dd /\ todo' = Then(<<>>, more) BY <1>1, <1>2, Zenon DEF Got, Goes
<1>4. todo' = more BY <1>3, Flat, Zenon
<1> QED BY <1>1, <1>3, <1>4, Zenon DEF Got

LEMMA EnterPhase ==
    ASSUME NEW tag, NEW v, NEW bytes, NEW new, NEW tags, Learns(tag, v, bytes),
           \A b \in bytes : inp = <<"data", b>> => b \in new,
           Proper(todo', new, tags), inp = <<"data", 255>> => Resets(todo'),
           Talks(dev), dev' = dev, inp' = inp, target' = target, answer' = <<>>
    PROVE  Phase(new, tags)'
<1>1. /\ inp # <<"cmd", 212>>
      /\ \/ inp = <<>>
         \/ \E c \in Codes : inp = <<"cmd", c>>
         \/ \E b \in new : inp = <<"data", b>>
      /\ target \in {"p1", "p2"}
      /\ target = "p2" => \E b \in new : inp = <<"data", b>>
  <2>1. ASSUME NEW c \in Codes \ {212}, inp = <<"cmd", c>>
        PROVE  inp # <<"cmd", 212>> /\ c \in Codes
    BY <2>1
  <2>2. ASSUME NEW b \in bytes, inp = <<"data", b>>
        PROVE  inp # <<"cmd", 212>> /\ b \in new
    BY <2>2
  <2>3. <<>> # <<"cmd", 212>> OBVIOUS
  <2> QED BY <2>1, <2>2, <2>3, Zenon DEF Learns
<1>2. Given(new)' BY <1>1, Zenon DEF Given
<1>3. Heard(answer', dev') BY Zenon DEF Heard
<1> QED BY <1>2, <1>3, Zenon DEF Phase

LEMMA AskEnds == Ask \in Seq(EndAccess)
<1>1. PICK a, b : /\ a = [op |-> "cmd", arg |-> 32, skip |-> 0]
                  /\ b = [op |-> "recv", arg |-> "irqs", skip |-> 0] OBVIOUS
<1>2. a \in EndAccess /\ b \in EndAccess BY <1>1, SMT DEF EndAccess, Access, Tags
<1>3. P!Cmd(32) = <<a>> /\ P!Recv("irqs") = <<b>> BY <1>1, Zenon DEF P!Cmd, P!Recv
<1>4. <<a>> \in Seq(EndAccess) /\ <<b>> \in Seq(EndAccess) /\ <<>> \in Seq(EndAccess)
  BY <1>2
<1>5. Get("irqs", <<>>) \in Seq(EndAccess)
  <2>1. \A p \in Seq(EndAccess), q \in Seq(EndAccess) : p \o q \in Seq(EndAccess) OBVIOUS
  <2> QED BY <1>3, <1>4, <2>1, Zenon DEF Get, Then
<1>6. \A p \in Seq(EndAccess), q \in Seq(EndAccess) : p \o q \in Seq(EndAccess) OBVIOUS
<1> QED BY <1>3, <1>4, <1>5, <1>6, Zenon DEF Ask, Then

LEMMA EnterEnding ==
    ASSUME NEW tag, NEW v, NEW bytes \in {FindBytes, StartBytes}, Learns(tag, v, bytes),
           bytes = FindBytes => Bare(dev), todo' = Ask,
           Talks(dev), dev' = dev, inp' = inp, target' = target
    PROVE  Ending'
<1>1. \A b \in bytes : b \in Int /\ (dev.id \in Marks => b # 255)
  BY SMT DEF FindBytes, StartBytes, Bare, Marks
<1>2. \A c \in Codes \ {212} : c \in Int \ {212} BY SMT DEF Codes
<1>3. /\ \/ inp = <<>>
         \/ \E c \in Int \ {212} : inp = <<"cmd", c>>
         \/ \E b \in Int : inp = <<"data", b>>
      /\ target = "p2" => \E b \in Int : inp = <<"data", b>> /\ (dev.id \in Marks => b # 255)
  <2>1. /\ \/ inp = <<>>
           \/ \E c \in Codes \ {212} : inp = <<"cmd", c>>
           \/ \E b \in bytes : inp = <<"data", b>>
        /\ target = "p2" => \E b \in bytes : inp = <<"data", b>>
    BY Zenon DEF Learns
  <2> QED BY <1>1, <1>2, <2>1, SMT
<1>4. dev \in DevSet BY Zenon DEF Talks
<1>5. todo' \in Seq(EndAccess) BY AskEnds, Zenon
<1> QED BY <1>3, <1>4, <1>5, Zenon DEF Ending

LEMMA Remember ==
    ASSUME NEW dv, NEW x, Remains(dv, x), NEW d, There(d, dv)
    PROVE  There(d, x)
  BY Zenon DEF There, Remains

LEMMA FindingStep ==
    ASSUME Finding, There(drv, dev), hw # "absent", P!Next
    PROVE  There(drv, dev)' /\ (Finding \/ Starting \/ Ending)'
<1>0. /\ FindBytes \in {FindBytes, StartBytes} /\ FindTags \cap Plain = {} /\ FindTags \subseteq Tags
      /\ 242 \in StartBytes
  BY SMT DEF FindTags, Plain, Tags, StartBytes
<1>1. Phase(FindBytes, FindTags) /\ Bare(dev) /\ NoMouseYet(drv) /\ Talks(dev)
  BY Zenon DEF Finding, Phase
<1>2. /\ Remains(dev, dev') /\ Bare(dev')
      /\ \/ Phase(FindBytes, FindTags)' /\ drv' = drv
         \/ \E tag \in FindTags : \E v : Learns(tag, v, FindBytes)
  BY <1>0, <1>1, PhaseStep, Zenon
<1>3. CASE Phase(FindBytes, FindTags)' /\ drv' = drv
  <2>1. There(drv', dev') BY <1>2, <1>3, Remember, Zenon
  <2>2. Finding' BY <1>1, <1>2, <1>3, Zenon DEF Finding
  <2> QED BY <2>1, <2>2, Zenon
<1>4. CASE \E tag \in FindTags : \E v : Learns(tag, v, FindBytes)
  <2>0. PICK tag \in FindTags : \E v : Learns(tag, v, FindBytes) BY <1>4, Zenon
  <2>1. PICK v : Learns(tag, v, FindBytes) BY <2>0, Zenon
  <2>2. Told(v, dev) /\ (inp = <<"data", 255>> => tag \in ResetTags)
    BY <2>1, Zenon DEF Learns
  <2>3. Continues(tag, v, drv, dev) BY <1>1, <2>2, FindingLearns, Zenon
  <2>4. PICK dd, more :
          /\ P!Received(tag, v, drv) = Pair(dd, more) /\ There(dd, dev)
          /\ \/ NoMouseYet(dd) /\ Proper(more, FindBytes, FindTags)
                /\ (Resets(more) \/ tag \notin ResetTags)
             \/ more = Ask
             \/ more = P!Mouse /\ tag \notin ResetTags
    BY <2>3, Zenon DEF Continues
  <2>5. more \in Seq(Access) BY <2>4, StartPrograms, EnableIrqsIs, Zenon DEF Proper, Ask
  <2>6. /\ drv' = dd /\ todo' = more
        /\ inp' = inp /\ target' = target /\ dev' = dev /\ answer' = <<>>
    BY <2>1, <2>4, <2>5, LearnsGoes, Zenon
  <2>7. There(drv', dev') BY <2>4, <2>6, Zenon
  <2>8. CASE NoMouseYet(dd) /\ Proper(more, FindBytes, FindTags)
             /\ (Resets(more) \/ tag \notin ResetTags)
    <3>1. Phase(FindBytes, FindTags)'
      <4>1. Proper(todo', FindBytes, FindTags) /\ (inp = <<"data", 255>> => Resets(todo'))
        BY <2>2, <2>6, <2>8, Zenon
      <4> QED BY <1>1, <2>1, <2>6, <4>1, EnterPhase, Zenon
    <3>2. NoMouseYet(drv') BY <2>6, <2>8, Zenon
    <3> QED BY <1>2, <2>7, <3>1, <3>2, Zenon DEF Finding
  <2>9. CASE more = Ask
    <3>1. todo' = Ask BY <2>6, <2>9, Zenon
    <3>2. Ending' BY <1>0, <1>1, <2>1, <2>6, <3>1, EnterEnding, Zenon
    <3> QED BY <2>7, <3>2, Zenon
  <2>10. CASE more = P!Mouse /\ tag \notin ResetTags
    <3>1. inp # <<"data", 255>> BY <2>2, <2>10, Zenon
    <3>2. \A b \in FindBytes : inp = <<"data", b>> => b \in StartBytes
      BY <1>0, <3>1, SMT DEF FindBytes
    <3>3. Proper(todo', StartBytes, StartTags) BY <2>6, <2>10, StartPrograms, Zenon
    <3>4. Phase(StartBytes, StartTags)'
      BY <1>1, <2>1, <2>6, <3>1, <3>2, <3>3, EnterPhase, Zenon
    <3> QED BY <2>7, <3>4, Zenon DEF Starting
  <2> QED BY <2>4, <2>8, <2>9, <2>10, Zenon
<1> QED BY <1>2, <1>3, <1>4, Zenon

(* The second question for the id.                                         *)
Second == P!Magic(200, 200, 80, "id2")

LEMMA StartingLearns ==
    ASSUME NEW d, NEW dv, There(d, dv), NEW v, Told(v, dv), NEW tag \in StartTags
    PROVE  \E dd, more :
             /\ P!Received(tag, v, d) = Pair(dd, more) /\ There(dd, dv)
             /\ more = Ask \/ more = Second
<1>0. d \in DrvSet /\ v \in Int BY SMT DEF There, Told
<1>1. P!EnableIrqs = Ask BY EnableIrqsIs, Zenon DEF Ask
<1>2. CASE tag = "id"
  <2>0. PICK dd : dd = P!WithId(v, d) OBVIOUS
  <2>1. dd \in DrvSet /\ dd.p1 = d.p1 /\ dd.p2 = d.p2 /\ dd.size = (IF v = 3 THEN 4 ELSE d.size)
    BY <1>0, <2>0, DrvChanged, Zenon
  <2>2. dd.size = 4 => dv.id \in Marks BY <2>1, Zenon DEF There, Told
  <2>3. There(dd, dv) BY <2>1, <2>2, Zenon DEF There
  <2>4. \/ P!Received(tag, v, d) = Pair(dd, Second)
        \/ P!Received(tag, v, d) = Pair(dd, P!EnableIrqs)
    <3>1. \/ P!Received("id", v, d) = Pair(P!WithId(v, d), Second)
          \/ P!Received("id", v, d) = Pair(P!WithId(v, d), P!EnableIrqs)
      BY OnId, SMT DEF Second
    <3> QED BY <1>2, <2>0, <3>1, Zenon
  <2> QED BY <1>1, <2>3, <2>4, Zenon
<1>3. CASE tag = "id2"
  <2>0. PICK dd : dd = WithType(d, v) OBVIOUS
  <2>1. dd \in DrvSet /\ dd.p1 = d.p1 /\ dd.p2 = d.p2 /\ dd.size = d.size
    BY <1>0, <2>0, DrvChanged, Zenon
  <2>2. There(dd, dv) BY <2>1, Zenon DEF There
  <2>3. P!Received(tag, v, d) = Pair(dd, P!EnableIrqs) BY <1>3, <2>0, OnId2, Zenon
  <2> QED BY <1>1, <2>2, <2>3, Zenon
<1> QED BY <1>2, <1>3, Zenon DEF StartTags

LEMMA StartingStep ==
    ASSUME Starting, There(drv, dev), hw # "absent", P!Next
    PROVE  There(drv, dev)' /\ (Starting \/ Ending)'
<1>0. /\ StartBytes \in {FindBytes, StartBytes} /\ StartTags \cap Plain = {} /\ StartTags \subseteq Tags
      /\ StartTags \cap ResetTags = {} /\ StartBytes # FindBytes
  <2>1. StartTags \cap Plain = {} /\ StartTags \subseteq Tags /\ StartTags \cap ResetTags = {}
    BY SMT DEF StartTags, Plain, Tags, ResetTags
  <2>2. StartBytes # FindBytes
    <3>1. 255 \in FindBytes /\ 255 \notin StartBytes BY SMT DEF FindBytes, StartBytes
    <3> QED BY <3>1, Zenon
  <2> QED BY <2>1, <2>2, Zenon
<1>1. Phase(StartBytes, StartTags) /\ Talks(dev) BY Zenon DEF Starting, Phase
<1>2. /\ Remains(dev, dev')
      /\ \/ Phase(StartBytes, StartTags)' /\ drv' = drv
         \/ \E tag \in StartTags : \E v : Learns(tag, v, StartBytes)
  BY <1>0, <1>1, PhaseStep, Zenon
<1>3. CASE Phase(StartBytes, StartTags)' /\ drv' = drv
  <2>1. There(drv', dev') BY <1>2, <1>3, Remember, Zenon
  <2> QED BY <1>3, <2>1, Zenon DEF Starting
<1>4. CASE \E tag \in StartTags : \E v : Learns(tag, v, StartBytes)
  <2>0. PICK tag \in StartTags : \E v : Learns(tag, v, StartBytes) BY <1>4, Zenon
  <2>1. PICK v : Learns(tag, v, StartBytes) BY <2>0, Zenon
  <2>2. Told(v, dev) /\ inp # <<"data", 255>> BY <1>0, <2>1, Zenon DEF Learns
  <2>4. PICK dd, more :
             /\ P!Received(tag, v, drv) = Pair(dd, more) /\ There(dd, dev)
             /\ more = Ask \/ more = Second
    BY <2>2, StartingLearns, Zenon
  <2>5. more \in Seq(Access)
    BY <2>4, StartPrograms, EnableIrqsIs, Zenon DEF Proper, Ask, Second
  <2>6. /\ drv' = dd /\ todo' = more
        /\ inp' = inp /\ target' = target /\ dev' = dev /\ answer' = <<>>
    BY <2>1, <2>4, <2>5, LearnsGoes, Zenon
  <2>7. There(drv', dev') BY <2>4, <2>6, Zenon
  <2>8. CASE more = Ask
    <3>1. todo' = Ask BY <2>6, <2>8, Zenon
    <3>2. Ending' BY <1>0, <1>1, <2>1, <2>6, <3>1, EnterEnding, Zenon
    <3> QED BY <2>7, <3>2, Zenon
  <2>9. CASE more = Second
    <3>1. Proper(todo', StartBytes, StartTags)
      BY <2>6, <2>9, StartPrograms, Zenon DEF Second
    <3>2. Phase(StartBytes, StartTags)'
      BY <1>1, <2>1, <2>2, <2>6, <3>1, EnterPhase, Zenon
    <3> QED BY <2>7, <3>2, Zenon DEF Starting
  <2> QED BY <2>4, <2>8, <2>9, Zenon
<1> QED BY <1>2, <1>3, <1>4, Zenon

(* The bytes the controller holds.                                         *)
LEMMA BytesStep ==
    ASSUME BytesOK, dev \in DevSet, inp # <<>> => inp[2] \in Int, P!Next
    PROVE  BytesOK'
<1>0. PICK c, a : c = config /\ a = answer OBVIOUS
<1>1. c \in Int /\ (a # <<>> => a[2] \in Int) BY <1>0, Zenon DEF BytesOK
<1>2. ASSUME config' = config, answer' = answer \/ answer' = <<>>
      PROVE  BytesOK'
  BY <1>2, SMT DEF BytesOK
<1>3. CASE P!ControllerTakes
  <2>1. inp # <<>> BY <1>3, Zenon DEF P!ControllerTakes
  <2>2. CASE inp[1] = "cmd"
    <3>0. PICK b : b = inp[2] OBVIOUS
    <3>1. P!Command(b) BY <1>3, <2>2, <3>0, Zenon DEF P!ControllerTakes
    <3>2. P!With(c, 16) \in Int /\ P!Without(c, 16) \in Int /\ P!With(c, 32) \in Int /\ P!Without(c, 32) \in Int
      BY <1>1, SMT DEF P!With, P!Without
    <3>3. config' = c \/ config' = P!With(c, 16) \/ config' = P!Without(c, 16)
          \/ config' = P!With(c, 32) \/ config' = P!Without(c, 32)
      BY <1>0, <3>1, SMT DEF P!Command
    <3>4. answer' = a \/ answer' = <<0, c>> \/ answer' = <<0, 85>> \/ answer' = <<0, 0>>
      BY <1>0, <3>1, SMT DEF P!Command, P!Answer, P!Quiet
    <3>5. answer' # <<>> => answer'[2] \in Int BY <1>1, <3>4
    <3> QED BY <1>1, <3>2, <3>3, <3>5, Zenon DEF BytesOK
  <2>3. CASE inp[1] # "cmd"
    <3>1. answer' = answer /\ (config' = inp[2] \/ config' = config)
      BY <1>3, <2>3, Zenon DEF P!ControllerTakes, P!Quiet
    <3> QED BY <2>1, <3>1, Zenon DEF BytesOK
  <2> QED BY <2>2, <2>3
<1>4. CASE P!KeyboardSends \/ P!MouseSends
  <2>1. PICK q : /\ q \in Seq(Int) /\ q # <<>> /\ config' = config
                 /\ answer' = <<1, Head(q)>> \/ answer' = <<2, Head(q)>>
    <3>1. dev.kb_queue \in Seq(Int) /\ dev.ms_queue \in Seq(Int) BY DEF DevSet
    <3> QED BY <1>4, <3>1, Zenon DEF P!KeyboardSends, P!MouseSends
  <2>2. Head(q) \in Int BY <2>1
  <2>3. answer'[2] \in Int BY <2>1, <2>2
  <2> QED BY <2>1, <2>3, Zenon DEF BytesOK
<1>5. CASE P!Driver \/ P!HandlerTakes
  <2>1. config' = config /\ (answer' = answer \/ answer' = <<>>)
    BY <1>5, Zenon DEF P!Driver, P!HandlerTakes, P!Send, P!SendTimeout, P!DropByte, P!RecvByte,
                       P!RecvTimeout, P!machine
  <2> QED BY <1>2, <2>1, Zenon
<1> QED BY <1>3, <1>4, <1>5, Zenon DEF P!Next

LEMMA GivenBytes ==
    ASSUME Finding \/ Starting \/ Ending
    PROVE  dev \in DevSet /\ (inp # <<>> => inp[2] \in Int)
<1>1. ASSUME NEW bytes \in {FindBytes, StartBytes}, NEW tags, Phase(bytes, tags)
      PROVE  dev \in DevSet /\ (inp # <<>> => inp[2] \in Int)
  <2>1. bytes \subseteq Int /\ Codes \subseteq Int
    BY SMT DEF FindBytes, StartBytes, Codes
  <2>2. \/ inp = <<>>
        \/ \E c \in Codes : inp = <<"cmd", c>>
        \/ \E b \in bytes : inp = <<"data", b>>
    BY <1>1, Zenon DEF Phase, Given
  <2>3. dev \in DevSet BY <1>1, Zenon DEF Phase, Talks
  <2> QED BY <2>1, <2>2, <2>3, SMT
<1>2. CASE Ending
  <2>1. dev \in DevSet BY <1>2, Zenon DEF Ending
  <2>2. \/ inp = <<>>
        \/ \E c \in Int \ {212} : inp = <<"cmd", c>>
        \/ \E b \in Int : inp = <<"data", b>>
    BY <1>2, Zenon DEF Ending
  <2> QED BY <2>1, <2>2, SMT
<1> QED BY <1>1, <1>2, Zenon DEF Finding, Starting

-----------------------------------------------------------------------------
(* ps2_enable_irqs.                                                        *)

Alike(dv, x) ==
    /\ x \in DevSet /\ x.kb = dv.kb /\ x.ms = dv.ms
    /\ dv.id \in Marks => x.id \in Marks

LEMMA StaysThere ==
    ASSUME NEW dv, NEW x, Alike(dv, x), NEW d, There(d, dv)
    PROVE  There(d, x)
  BY Zenon DEF There, Alike

LEMMA DeviceKeeps ==
    ASSUME dev \in DevSet, P!KeyboardSends \/ P!MouseSends
    PROVE  Alike(dev, dev') /\ dev'.id = dev.id /\ inp' = inp /\ target' = target /\ Rest
<1>0. dev.kb_queue \in Seq(Int) /\ dev.ms_queue \in Seq(Int) BY DEF DevSet
<1>1. CASE P!KeyboardSends
  <2>0. PICK q : q = Tail(dev.kb_queue) OBVIOUS
  <2>1. /\ dev.kb_queue # <<>> /\ dev' = [dev EXCEPT !.kb_queue = q]
        /\ inp' = inp /\ target' = target /\ Rest
    BY <1>1, <2>0, Zenon DEF P!KeyboardSends, Rest
  <2>2. q \in Seq(Int) BY <1>0, <2>0, <2>1
  <2>3. dev' \in DevSet /\ dev'.kb = dev.kb /\ dev'.ms = dev.ms /\ StateOf(dev') = StateOf(dev)
    BY <2>1, <2>2, KeyboardHeeds, Zenon
  <2> QED BY <2>1, <2>3, SameState, Zenon DEF Alike
<1>2. CASE P!MouseSends
  <2>0. PICK q : q = Tail(dev.ms_queue) OBVIOUS
  <2>1. /\ dev.ms_queue # <<>> /\ dev' = [dev EXCEPT !.ms_queue = q]
        /\ inp' = inp /\ target' = target /\ Rest
    BY <1>2, <2>0, Zenon DEF P!MouseSends, Rest
  <2>2. q \in Seq(Int) BY <1>0, <2>0, <2>1
  <2>3. dev' \in DevSet /\ dev'.kb = dev.kb /\ dev'.ms = dev.ms /\ StateOf(dev') = StateOf(dev)
    BY <2>1, <2>2, MouseQueue, Zenon
  <2> QED BY <2>1, <2>3, SameState, Zenon DEF Alike
<1> QED BY <1>1, <1>2, Zenon

LEMMA EndingTakes ==
    ASSUME Ending, P!ControllerTakes
    PROVE  Alike(dev, dev') /\ inp' = <<>> /\ target' # "p2" /\ Rest
<1>0. dev \in DevSet /\ inp # <<>> /\ inp' = <<>> /\ Rest /\ Alike(dev, dev)
  BY Zenon DEF Ending, P!ControllerTakes, Rest, Alike
<1>1. ASSUME NEW c \in Int \ {212}, inp = <<"cmd", c>>
      PROVE  Alike(dev, dev') /\ target' # "p2"
  <2>1. inp[1] = "cmd" /\ inp[2] = c /\ \A b : inp # <<"data", b>> BY <1>1
  <2>2. P!Command(c) BY <2>1, Zenon DEF P!ControllerTakes
  <2>3. target # "p2" BY <2>1, Zenon DEF Ending
  <2>4. target' = "config" \/ target' = target BY <2>2, SMT DEF P!Command
  <2>5. "config" # "p2" OBVIOUS
  <2>6. dev' = dev BY <2>2, Zenon DEF P!Command
  <2> QED BY <1>0, <2>3, <2>4, <2>5, <2>6, Zenon
<1>2. ASSUME NEW b \in Int, inp = <<"data", b>>
      PROVE  Alike(dev, dev') /\ target' # "p2"
  <2>1. inp[1] # "cmd" /\ inp[2] = b /\ \A e : inp = <<"data", e>> => e = b BY <1>2
  <2>2. /\ target' = "p1"
        /\ dev' = CASE target = "p1" /\ dev.kb -> [dev EXCEPT !.kb_queue = @ \o P!KbAnswer(b)]
                    [] target = "p2" /\ dev.ms # "none" -> P!MsCommand(dev, b)
                    [] OTHER -> dev
    BY <2>1, Zenon DEF P!ControllerTakes
  <2>3. "p1" # "p2" OBVIOUS
  <2>4. CASE target = "p1" /\ dev.kb
    <3>0. PICK q : q = dev.kb_queue \o P!KbAnswer(b) OBVIOUS
    <3>1. dev' = [dev EXCEPT !.kb_queue = q] BY <2>2, <2>4, <3>0, Zenon
    <3>2. q \in Seq(Int)
      <4>1. dev.kb_queue \in Seq(Int) /\ P!KbAnswer(b) \in Seq(Int)
        BY <1>0, KbAnswerType DEF DevSet
      <4> QED BY <3>0, <4>1
    <3>3. dev' \in DevSet /\ dev'.kb = dev.kb /\ dev'.ms = dev.ms /\ StateOf(dev') = StateOf(dev)
      BY <1>0, <3>1, <3>2, KeyboardHeeds, Zenon
    <3> QED BY <2>2, <2>3, <3>3, SameState, Zenon DEF Alike
  <2>5. CASE target = "p2" /\ dev.ms # "none"
    <3>1. dev' = P!MsCommand(dev, b) BY <2>2, <2>3, <2>5, Zenon
    <3>2. dev.id \in Marks => b # 255 BY <2>1, <2>5, Zenon DEF Ending
    <3>3. PICK x, says : x = P!MsCommand(dev, b) /\ says = Says(dev.ms, StateOf(dev), b) OBVIOUS
    <3>4. Heeded(dev, x, Heeds(dev.ms, StateOf(dev), b), says)
      BY <1>0, <2>5, <3>3, MouseHeeds, Zenon
    <3>5. x \in DevSet /\ x.kb = dev.kb /\ x.ms = dev.ms BY <3>4, Zenon DEF Heeded
    <3>6. Replies(dev, x, says, b) BY <1>0, <2>5, <3>3, MouseReplies, Zenon
    <3>7. dev.id \in Marks => x.id \in Marks BY <3>2, <3>6, Zenon DEF Replies
    <3> QED BY <2>2, <2>3, <3>1, <3>3, <3>5, <3>7, Zenon DEF Alike
  <2>6. CASE ~(target = "p1" /\ dev.kb) /\ ~(target = "p2" /\ dev.ms # "none")
    <3>1. dev' = dev BY <2>2, <2>6, Zenon
    <3> QED BY <1>0, <2>2, <2>3, <3>1, Zenon
  <2> QED BY <2>4, <2>5, <2>6, Zenon
<1> QED BY <1>0, <1>1, <1>2, Zenon DEF Ending

LEMMA EndParts ==
    ASSUME NEW t \in Seq(EndAccess), t # <<>>
    PROVE  /\ Tail(t) \in Seq(EndAccess) /\ t \in Seq(Access)
           /\ Head(t).op \in {"cmd", "data", "recv"}
           /\ Head(t).op \in {"cmd", "data"} => Head(t).arg \in Int /\ Head(t).skip \in Nat
           /\ Head(t).op = "cmd" => Head(t).arg # 212
           /\ Head(t).op = "recv" => Head(t).arg = "irqs"
<1>1. Head(t) \in EndAccess /\ Tail(t) \in Seq(EndAccess) OBVIOUS
<1>2. t \in Seq(Access)
  <2>1. EndAccess \subseteq Access BY DEF EndAccess
  <2> QED BY <2>1, Joined, Zenon
<1>3. PICK a : a = Head(t) OBVIOUS
<1>4. /\ a \in Access /\ a.op # "inb"
      /\ a.op = "cmd" => a.arg # 212
      /\ a.op = "recv" => a.arg = "irqs"
  BY <1>1, <1>3, Zenon DEF EndAccess
<1>5. /\ a.op \in {"cmd", "data", "recv"}
      /\ a.op \in {"cmd", "data"} => a.arg \in Int /\ a.skip \in Nat
  BY <1>4, SMT DEF Access
<1> QED BY <1>1, <1>2, <1>3, <1>4, <1>5, Zenon

LEMMA WriteEnds ==
    ASSUME NEW v \in Int
    PROVE  P!Cmd(96) \o P!Data(On12(v % 256)) \in Seq(EndAccess)
<1>1. PICK n \in Int : n = On12(v % 256) BY SMT DEF On12, P!With
<1>2. PICK a, b : /\ a = [op |-> "cmd", arg |-> 96, skip |-> 0]
                  /\ b = [op |-> "data", arg |-> n, skip |-> 0] OBVIOUS
<1>3. a \in EndAccess /\ b \in EndAccess BY <1>2, SMT DEF EndAccess, Access
<1>4. P!Cmd(96) = <<a>> /\ P!Data(n) = <<b>> BY <1>2, Zenon DEF P!Cmd, P!Data
<1>5. <<a>> \o <<b>> \in Seq(EndAccess) BY <1>3
<1> QED BY <1>1, <1>4, <1>5, Zenon

LEMMA EndingStep ==
    ASSUME Ending, BytesOK, There(drv, dev), hw # "absent", P!Next
    PROVE  There(drv, dev)' /\ Ending'
<1>0. todo \in Seq(EndAccess) /\ dev \in DevSet /\ Alike(dev, dev)
  BY Zenon DEF Ending, Alike
<1>1. CASE P!ControllerTakes
  <2>1. Alike(dev, dev') /\ inp' = <<>> /\ target' # "p2" /\ Rest
    BY <1>1, EndingTakes, Zenon
  <2>2. There(drv', dev') BY <2>1, StaysThere, Zenon DEF Rest
  <2>3. Ending' BY <1>0, <2>1, Zenon DEF Ending, Rest, Alike
  <2> QED BY <2>2, <2>3, Zenon
<1>2. CASE P!KeyboardSends \/ P!MouseSends
  <2>1. Alike(dev, dev') /\ dev'.id = dev.id /\ inp' = inp /\ target' = target /\ Rest
    BY <1>0, <1>2, DeviceKeeps, Zenon
  <2>2. There(drv', dev') BY <2>1, StaysThere, Zenon DEF Rest
  <2>3. Ending' BY <1>0, <2>1, Zenon DEF Ending, Rest, Alike
  <2> QED BY <2>2, <2>3, Zenon
<1>3. ASSUME inp' = inp, target' = target, dev' = dev, todo' \in Seq(EndAccess)
      PROVE  Ending'
  BY <1>0, <1>3, Zenon DEF Ending
<1>4. CASE P!HandlerTakes
  <2>1. inp' = inp /\ target' = target /\ dev' = dev /\ todo' = todo /\ drv' = drv
    BY <1>4, Zenon DEF P!HandlerTakes
  <2>2. Ending' BY <1>0, <1>3, <2>1, Zenon
  <2> QED BY <2>1, <2>2, Zenon
<1>5. CASE P!Driver
  <2>0. todo # <<>>
    BY <1>5, Zenon DEF P!Driver, P!Send, P!SendTimeout, P!DropByte, P!RecvByte, P!RecvTimeout, P!Op
  <2>1. PICK op, arg, r, k :
          op = Head(todo).op /\ arg = Head(todo).arg /\ r = Tail(todo) /\ k = Head(todo).skip OBVIOUS
  <2>2. /\ r \in Seq(EndAccess) /\ todo \in Seq(Access)
        /\ op \in {"cmd", "data", "recv"}
        /\ op \in {"cmd", "data"} => arg \in Int /\ k \in Nat
        /\ op = "cmd" => arg # 212
        /\ op = "recv" => arg = "irqs"
    BY <1>0, <2>0, <2>1, EndParts, Zenon
  <2>3. Starts(todo, op, arg, r) BY <2>0, <2>1, <2>2, Zenon DEF Starts
  <2>4. CASE P!SendTimeout
    <3>1. /\ todo' = SubSeq(todo, 2 + k, Len(todo)) /\ op \in {"cmd", "data"}
          /\ inp' = inp /\ target' = target /\ dev' = dev /\ drv' = drv
      BY <2>1, <2>4, Zenon DEF P!SendTimeout, P!Op, P!machine
    <3>2. k \in Nat BY <2>2, <3>1, Zenon
    <3>3. todo' \in Seq(EndAccess) BY <1>0, <3>1, <3>2
    <3> QED BY <1>3, <3>1, <3>3, Zenon
  <2>5. CASE op \in {"cmd", "data"} /\ SentOne(op, arg, r)
    <3>1. /\ inp = <<>> /\ inp' = <<op, arg>> /\ todo' = r /\ drv' = drv
          /\ target' = target /\ dev' = dev /\ arg \in Int
      BY <2>2, <2>5, Zenon DEF SentOne
    <3>2. target # "p2"
      <4>1. \A b : <<>> # <<"data", b>> OBVIOUS
      <4> QED BY <3>1, <4>1, Zenon DEF Ending
    <3>3. (\E c \in Int \ {212} : inp' = <<"cmd", c>>) \/ (\E b \in Int : inp' = <<"data", b>>)
      BY <2>2, <2>5, <3>1, SMT
    <3>4. Ending' BY <1>0, <2>2, <3>1, <3>2, <3>3, Zenon DEF Ending
    <3> QED BY <3>1, <3>4, Zenon
  <2>6. CASE op = "recv" /\ (GotByte(arg, r) \/ GotNothing(arg, r))
    <3>1. PICK v \in Int : Got("irqs", r, v)
      <4>1. -1 \in Int OBVIOUS
      <4>2. answer # <<>> => answer[2] \in Int BY Zenon DEF BytesOK
      <4>3. arg = "irqs" BY <2>2, <2>6, Zenon
      <4> QED BY <2>6, <4>1, <4>2, <4>3, Zenon DEF GotByte, GotNothing
    <3>2. PICK more : more = P!Cmd(96) \o P!Data(On12(v % 256)) OBVIOUS
    <3>3. Goes("irqs", v, drv, drv, more) BY <3>2, OnIrqs, PairIs, Zenon
    <3>4. /\ drv' = drv /\ todo' = r \o more
          /\ inp' = inp /\ target' = target /\ dev' = dev
      BY <3>1, <3>3, Zenon DEF Got, Goes, Then
    <3>5. more \in Seq(EndAccess) BY <3>2, WriteEnds, Zenon
    <3>6. todo' \in Seq(EndAccess) BY <2>2, <3>4, <3>5
    <3> QED BY <1>3, <3>4, <3>6, Zenon
  <2>7. CASE op = "inb" BY <2>2, <2>7
  <2> QED BY <1>1, <1>2, <1>4, <2>3, <2>4, <2>5, <2>6, <2>7, DriverSteps, Zenon
<1> QED BY <1>1, <1>2, <1>4, <1>5, Zenon DEF P!Next

-----------------------------------------------------------------------------
(* The beginning, and the whole.                                           *)

LEMMA AbsentPrograms ==
    /\ \A c \in Int, n \in Nat : P!Cmd(c) \in Seq(AbsentAccess) /\ P!CmdOrSkip(c, n) \in Seq(AbsentAccess)
    /\ \A b \in Int : P!Data(b) \in Seq(AbsentAccess)
    /\ P!Inb \in Seq(AbsentAccess)
    /\ \A tag \in {"config", "self_test", "irqs"} : P!Recv(tag) \in Seq(AbsentAccess)
    /\ \A p \in Seq(AbsentAccess), q \in Seq(AbsentAccess) : p \o q \in Seq(AbsentAccess)
<1>1. \A a \in AbsentAccess : <<a>> \in Seq(AbsentAccess) OBVIOUS
<1>2. \A op \in {"cmd", "data", "inb"}, c \in Int, n \in Nat :
        [op |-> op, arg |-> c, skip |-> n] \in AbsentAccess
  BY SMT DEF AbsentAccess, Access
<1>3. \A tag \in {"config", "self_test", "irqs"} :
        [op |-> "recv", arg |-> tag, skip |-> 0] \in AbsentAccess
  BY SMT DEF AbsentAccess, Access, Tags
<1>4. /\ "cmd" \in {"cmd", "data", "inb"} /\ "data" \in {"cmd", "data", "inb"}
      /\ "inb" \in {"cmd", "data", "inb"} /\ 0 \in Int /\ 0 \in Nat OBVIOUS
<1>5. \A c \in Int, n \in Nat : P!Cmd(c) \in Seq(AbsentAccess) /\ P!CmdOrSkip(c, n) \in Seq(AbsentAccess)
  BY <1>1, <1>2, <1>4, Zenon DEF P!Cmd, P!CmdOrSkip
<1>6. \A b \in Int : P!Data(b) \in Seq(AbsentAccess)
  BY <1>1, <1>2, <1>4, Zenon DEF P!Data
<1>7. P!Inb \in Seq(AbsentAccess) BY <1>1, <1>2, <1>4, Zenon DEF P!Inb
<1>8. \A tag \in {"config", "self_test", "irqs"} : P!Recv(tag) \in Seq(AbsentAccess)
  BY <1>1, <1>3, Zenon DEF P!Recv
<1>9. \A p \in Seq(AbsentAccess), q \in Seq(AbsentAccess) : p \o q \in Seq(AbsentAccess) OBVIOUS
<1> QED BY <1>5, <1>6, <1>7, <1>8, <1>9, Zenon

(* Nothing but 255 is read.                                                *)
LEMMA AbsentReceives ==
    ASSUME NEW tag \in {"config", "self_test", "irqs"}
    PROVE  \E more \in Seq(AbsentAccess) : P!Received(tag, 255, Start(TRUE)) = Pair(Start(TRUE), more)
<1>0. PICK d : d = Start(TRUE) OBVIOUS
<1> SUFFICES \E more \in Seq(AbsentAccess) : P!Received(tag, 255, d) = Pair(d, more)
  BY <1>0, Zenon
<1>1. d.p2 # 0 /\ d = [d EXCEPT !.dual = TRUE]
  <2>1. d.p2 # 0 BY <1>0, SMT DEF Start, P!PS2_DEV_NONE
  <2>2. d.dual = TRUE /\ d = [x \in {"dual", "p1", "p2", "type", "size"} |-> d[x]]
    BY <1>0, Zenon DEF Start
  <2> QED BY <2>1, <2>2, Zenon
<1>2. PICK v : v = 255 OBVIOUS
<1>3. Clear(v) = 188 /\ On12(v % 256) = 255
  BY <1>2, SMT DEF Clear, On12, P!Without, P!With, P!HasBit
<1>4. /\ 96 \in Int /\ 170 \in Int /\ 188 \in Int /\ 255 \in Int /\ 32 \in Int /\ 0 \in Nat
      /\ "self_test" \in {"config", "self_test", "irqs"} /\ "irqs" \in {"config", "self_test", "irqs"} OBVIOUS
<1>5. CASE tag = "config"
  <2>1. WithDual(d, P!HasBit(Clear(v), 32)) = d
    <3>1. P!HasBit(Clear(v), 32) = TRUE BY <1>3, SMT DEF P!HasBit
    <3> QED BY <1>1, <3>1, Zenon DEF WithDual
  <2>2. PICK more : more = P!Cmd(96) \o P!Data(Clear(v)) \o P!Cmd(170) \o P!Recv("self_test") OBVIOUS
  <2>3. P!Received(tag, v, d) = Pair(d, more) BY <1>5, <2>1, <2>2, OnConfig, Zenon
  <2>4. more \in Seq(AbsentAccess)
    <3>1. /\ P!Cmd(96) \in Seq(AbsentAccess) /\ P!Data(Clear(v)) \in Seq(AbsentAccess)
          /\ P!Cmd(170) \in Seq(AbsentAccess) /\ P!Recv("self_test") \in Seq(AbsentAccess)
      <4>1. \A c \in Int : P!Cmd(c) \in Seq(AbsentAccess) /\ P!Data(c) \in Seq(AbsentAccess)
        BY <1>4, AbsentPrograms, Zenon
      <4>2. Clear(v) \in Int BY <1>3, SMT
      <4>3. P!Recv("self_test") \in Seq(AbsentAccess) BY <1>4, AbsentPrograms, Zenon
      <4> QED BY <1>4, <4>1, <4>2, <4>3, Zenon
    <3> QED BY <2>2, <3>1, AbsentPrograms, Zenon
  <2> QED BY <1>2, <2>3, <2>4, Zenon
<1>6. P!EnableIrqs \in Seq(AbsentAccess)
  <2>1. P!Cmd(32) \in Seq(AbsentAccess) /\ P!Recv("irqs") \in Seq(AbsentAccess)
    BY <1>4, AbsentPrograms, SMT
  <2> QED BY <2>1, AbsentPrograms, Zenon DEF P!EnableIrqs
<1>7. CASE tag = "self_test"
  <2>1. P!Received("self_test", v, d) = Pair(d, P!Kernel(d))
    BY <1>2, SMT DEF P!Received, Pair
  <2>2. P!Kernel(d) = P!EnableIrqs BY <1>1, Zenon DEF P!Kernel
  <2> QED BY <1>2, <1>6, <1>7, <2>1, <2>2, Zenon
<1>8. CASE tag = "irqs"
  <2>1. PICK more : more = P!Cmd(96) \o P!Data(On12(v % 256)) OBVIOUS
  <2>2. P!Received(tag, v, d) = Pair(d, more) BY <1>8, <2>1, OnIrqs, Zenon
  <2>3. P!Cmd(96) \in Seq(AbsentAccess) /\ P!Data(On12(v % 256)) \in Seq(AbsentAccess)
    BY <1>3, <1>4, AbsentPrograms, SMT
  <2>4. more \in Seq(AbsentAccess) BY <2>1, <2>3, AbsentPrograms, Zenon
  <2> QED BY <1>2, <2>2, <2>4, Zenon
<1> QED BY <1>5, <1>7, <1>8, Zenon

LEMMA AbsentStep ==
    ASSUME hw = "absent", Absent, P!Next
    PROVE  hw' = "absent" /\ Absent'
<1>0. todo \in Seq(AbsentAccess) /\ drv = Start(TRUE) BY Zenon DEF Absent
<1>1. hw' = hw
  BY Zenon DEF P!Next, P!Driver, P!HandlerTakes, P!Send, P!SendTimeout, P!DropByte, P!RecvByte,
               P!RecvTimeout, P!ControllerTakes, P!KeyboardSends, P!MouseSends, P!machine
<1>2. ASSUME todo # <<>>
      PROVE  /\ Tail(todo) \in Seq(AbsentAccess) /\ Head(todo).skip \in Nat
             /\ Head(todo).op = "recv" => Head(todo).arg \in {"config", "self_test", "irqs"}
  <2>1. PICK a : a = Head(todo) OBVIOUS
  <2>2. a \in AbsentAccess /\ Tail(todo) \in Seq(AbsentAccess) BY <1>0, <1>2, <2>1
  <2>3. a.skip \in Nat /\ (a.op = "recv" => a.arg \in {"config", "self_test", "irqs"})
    BY <2>2, SMT DEF AbsentAccess, Access
  <2> QED BY <2>1, <2>2, <2>3, Zenon
<1>3. CASE todo' = todo /\ drv' = drv BY <1>0, <1>1, <1>3, Zenon DEF Absent
<1>4. CASE P!SendTimeout
  <2>1. PICK k : k = Head(todo).skip OBVIOUS
  <2>2. todo # <<>> /\ drv' = drv /\ todo' = SubSeq(todo, 2 + k, Len(todo))
    BY <1>4, <2>1, Zenon DEF P!SendTimeout, P!Op
  <2>3. k \in Nat BY <1>2, <2>1, <2>2, Zenon
  <2>4. todo' \in Seq(AbsentAccess) BY <1>0, <2>2, <2>3
  <2> QED BY <1>0, <1>1, <2>2, <2>4, Zenon DEF Absent
<1>5. CASE P!DropByte
  <2>1. todo # <<>> /\ drv' = drv /\ todo' = Tail(todo)
    BY <1>5, Zenon DEF P!DropByte, P!Op
  <2> QED BY <1>0, <1>1, <1>2, <2>1, Zenon DEF Absent
<1>6. CASE P!RecvByte
  <2>1. PICK tag, r : tag = Head(todo).arg /\ r = Tail(todo) OBVIOUS
  <2>2. todo # <<>> /\ Head(todo).op = "recv" /\ P!Take(255)
    BY <1>6, Zenon DEF P!RecvByte, P!Op
  <2>3. /\ drv' = P!Received(tag, 255, Start(TRUE)).drv
        /\ todo' = r \o P!Received(tag, 255, Start(TRUE)).more
    BY <1>0, <2>1, <2>2, Zenon DEF P!Take
  <2>4. tag \in {"config", "self_test", "irqs"} /\ r \in Seq(AbsentAccess)
    BY <1>2, <2>1, <2>2, Zenon
  <2>5. PICK more \in Seq(AbsentAccess) : P!Received(tag, 255, Start(TRUE)) = Pair(Start(TRUE), more)
    BY <2>4, AbsentReceives, Zenon
  <2>6. Goes(tag, 255, Start(TRUE), Start(TRUE), more) BY <2>5, PairIs, Zenon
  <2>7. drv' = Start(TRUE) /\ todo' = r \o more BY <2>3, <2>6, Zenon DEF Goes
  <2>8. todo' \in Seq(AbsentAccess) BY <2>4, <2>5, <2>7
  <2> QED BY <1>1, <2>7, <2>8, Zenon DEF Absent
<1>7. ~P!Send /\ ~P!RecvTimeout BY Zenon DEF P!Send, P!RecvTimeout
<1>8. CASE P!HandlerTakes \/ P!ControllerTakes \/ P!KeyboardSends \/ P!MouseSends
  <2>1. todo' = todo /\ drv' = drv
    BY <1>8, Zenon DEF P!HandlerTakes, P!ControllerTakes, P!KeyboardSends, P!MouseSends
  <2> QED BY <1>3, <2>1, Zenon
<1> QED BY <1>4, <1>5, <1>6, <1>7, <1>8, Zenon DEF P!Next, P!Driver

LEMMA StartsBare ==
    ASSUME NEW b \in BOOLEAN, NEW dv
    PROVE  There(Start(b), dv) /\ NoMouseYet(Start(b))
<1>1. PICK d : d = Start(b) OBVIOUS
<1>2. /\ d \in DrvSet /\ d.p1 = 65535 /\ d.p2 = 65535 /\ d.size = 3
  BY <1>1 DEF Start, P!PS2_DEV_NONE, DrvSet
<1>3. There(d, dv) /\ NoMouseYet(d)
  BY <1>2, SMT DEF There, NoMouseYet, P!PS2_DEV_MF2_KEYBOARD
<1> QED BY <1>1, <1>3, Zenon

(* The tests are over and the ports come next.                             *)
LEMMA EnterFinding ==
    ASSUME NEW h, Enters(h)', Unmoved, Calm, StateOf(dev) = Fresh, dev \in DevSet
    PROVE  There(drv, dev)' /\ BytesOK' /\ Finding'
<1>1. PICK c \in Configs : Alone(Port1Program, <<>>, "p1", c, {<<>>}, Start(h = "dual"))'
  BY Zenon DEF Enters, Configs
<1>2. /\ todo' = Port1Program /\ inp' = <<>> /\ target' = "p1" /\ config' = c /\ answer' = <<>>
      /\ drv' = Start(h = "dual") /\ dev' = dev
  BY <1>1, Zenon DEF Alone, Unmoved
<1>3. There(drv', dev') /\ NoMouseYet(drv')
  <2>1. (h = "dual") \in BOOLEAN OBVIOUS
  <2> QED BY <1>2, <2>1, StartsBare, Zenon
<1>4. BytesOK'
  <2>1. config' \in Int BY <1>2, SMT DEF Configs
  <2> QED BY <1>2, <2>1, Zenon DEF BytesOK
<1>5. dev.rates = <<>> /\ dev.id = 0 /\ dev.rate_next = FALSE
  BY StateFields, Zenon DEF Fresh
<1>6. Bare(dev') BY <1>2, <1>5, Zenon DEF Bare
<1>7. Talks(dev')
  <2>1. <<>> \in Seq(KbBytes) /\ <<>> \in Seq(MsBytes(dev.id)) /\ 0 \in {0, 3, 4} OBVIOUS
  <2> QED BY <1>2, <1>5, <2>1, Zenon DEF Talks, Calm
<1>8. Given(FindBytes)'
  <2>1. "p1" \in {"p1", "p2"} /\ "p1" # "p2" /\ <<>> # <<"cmd", 212>> /\ <<>> # <<"data", 255>> OBVIOUS
  <2> QED BY <1>2, <2>1, Zenon DEF Given
<1>9. Proper(todo', FindBytes, FindTags) /\ Heard(answer', dev')
  BY <1>2, FindPrograms, Zenon DEF Heard
<1>10. Phase(FindBytes, FindTags)' BY <1>7, <1>8, <1>9, Zenon DEF Phase
<1> QED BY <1>3, <1>4, <1>6, <1>10, Zenon DEF Finding

LEMMA FoundStarts == InputInit => FoundInv
<1> SUFFICES ASSUME InputInit
             PROVE  FoundInv OBVIOUS
<1>1. DevTypeOK /\ late = 0 /\ Early(hw) BY SetUpStarts, Zenon
<1>2. hw \in {"absent", "single", "dual"} BY <1>1, Zenon DEF DevTypeOK
<1>3. CASE hw = "absent"
  <2>1. todo = E1 /\ drv = Start(TRUE)
    BY InitializeIs, Zenon DEF InputInit, P!Init, Start
  <2>2. E6 \in Seq(AbsentAccess)
    <3>1. P!Recv("config") \in Seq(AbsentAccess) /\ <<>> \in Seq(AbsentAccess)
      BY AbsentPrograms, SMT
    <3> QED BY <3>1, AbsentPrograms, Zenon DEF E6, Get, Then
  <2>3. /\ P!Cmd(32) \in Seq(AbsentAccess) /\ P!Cmd(173) \in Seq(AbsentAccess)
        /\ P!CmdOrSkip(167, 1) \in Seq(AbsentAccess) /\ P!Inb \in Seq(AbsentAccess)
    <3>1. 32 \in Int /\ 173 \in Int /\ 167 \in Int /\ 1 \in Nat OBVIOUS
    <3> QED BY <3>1, AbsentPrograms, Zenon
  <2>4. E4 \in Seq(AbsentAccess) BY <2>2, <2>3, AbsentPrograms, Zenon DEF E4, E5, Then
  <2>5. E2 \in Seq(AbsentAccess) BY <2>3, <2>4, AbsentPrograms, Zenon DEF E2, E3, Then
  <2>6. E1 \in Seq(AbsentAccess) BY <2>3, <2>5, AbsentPrograms, Zenon DEF E1, Then
  <2> QED BY <1>3, <2>1, <2>6, Zenon DEF FoundInv, Absent
<1> QED BY <1>1, <1>2, <1>3, Zenon DEF FoundInv

LEMMA FoundStep == FoundInv /\ P!Next => FoundInv'
<1> SUFFICES ASSUME FoundInv, P!Next
             PROVE  FoundInv' OBVIOUS
<1>0. hw' = hw
  BY Zenon DEF P!Next, P!Driver, P!HandlerTakes, P!Send, P!SendTimeout, P!DropByte, P!RecvByte,
               P!RecvTimeout, P!ControllerTakes, P!KeyboardSends, P!MouseSends, P!machine
<1>1. "single" # "absent" /\ "dual" # "absent" OBVIOUS
<1>2. CASE hw = "absent" /\ Absent BY <1>2, AbsentStep, Zenon DEF FoundInv
<1>3. CASE hw \in {"single", "dual"} /\ late = 0 /\ DevTypeOK /\ Early(hw)
  <2>0. PICK h \in {"single", "dual"} : hw = h BY <1>3, Zenon
  <2>1. /\ Unmoved /\ Calm /\ StateOf(dev) = Fresh
        /\ Early(h)' \/ Enters(h)'
    BY <1>1, <1>3, <2>0, EarlyStep, Zenon
  <2>2. DevTypeOK' /\ late' = 0 BY <1>1, <1>3, <2>1, UnmovedBase, Zenon
  <2>3. CASE Early(h)' BY <1>0, <1>3, <2>0, <2>2, <2>3, Zenon DEF FoundInv
  <2>4. CASE Enters(h)'
    <3>1. dev \in DevSet BY <1>3, Zenon DEF DevTypeOK
    <3>2. There(drv, dev)' /\ BytesOK' /\ Finding'
      BY <2>1, <2>4, <3>1, EnterFinding, Zenon
    <3> QED BY <1>0, <1>3, <3>2, Zenon DEF FoundInv
  <2> QED BY <2>1, <2>3, <2>4, Zenon
<1>4. CASE /\ hw \in {"single", "dual"} /\ There(drv, dev) /\ BytesOK
           /\ Finding \/ Starting \/ Ending
  <2>1. hw # "absent" BY <1>1, <1>4, Zenon
  <2>2. BytesOK' BY <1>4, GivenBytes, BytesStep, Zenon
  <2>3. There(drv, dev)' /\ (Finding \/ Starting \/ Ending)'
    BY <1>4, <2>1, FindingStep, StartingStep, EndingStep, Zenon
  <2> QED BY <1>0, <1>4, <2>2, <2>3, Zenon DEF FoundInv
<1> QED BY <1>2, <1>3, <1>4, Zenon DEF FoundInv

LEMMA FoundStays == FoundInv /\ UNCHANGED pvars => FoundInv'
<1> SUFFICES ASSUME FoundInv, UNCHANGED pvars
             PROVE  FoundInv' OBVIOUS
<1>1. /\ todo' = todo /\ drv' = drv /\ hw' = hw /\ inp' = inp /\ answer' = answer
      /\ config' = config /\ target' = target /\ dev' = dev /\ late' = late
  BY Zenon DEF pvars
<1>2. Early(hw) => Early(hw)'
  <2>1. \A t, i, g, c, a, d : Alone(t, i, g, c, a, d) => Alone(t, i, g, c, a, d)'
    BY <1>1, Zenon DEF Alone
  <2>2. \A h : BeforeConfig(h) => BeforeConfig(h)'
    BY <1>1, Zenon DEF BeforeConfig, Alone
  <2>3. \A h, c : AfterConfig(h, c) => AfterConfig(h, c)'
    BY <1>1, <2>1, SMT DEF AfterConfig
  <2> QED BY <1>1, <2>2, <2>3, SMT DEF Early
<1>3. DevTypeOK => DevTypeOK' BY <1>1, Zenon DEF DevTypeOK
<1>4. \A bytes, tags : Phase(bytes, tags) => Phase(bytes, tags)'
  BY <1>1, Zenon DEF Phase, Given
<1>5. (Finding => Finding') /\ (Starting => Starting') /\ (Ending => Ending')
  BY <1>1, <1>4, Zenon DEF Finding, Starting, Ending
<1>6. (Absent => Absent') /\ (BytesOK => BytesOK') /\ (There(drv, dev) => There(drv, dev)')
  BY <1>1, Zenon DEF Absent, BytesOK
<1> QED BY <1>1, <1>2, <1>3, <1>5, <1>6, Zenon DEF FoundInv

LEMMA FoundSuffices == FoundInv => FoundIsThere
<1> SUFFICES ASSUME FoundInv
             PROVE  FoundIsThere OBVIOUS
<1>1. ASSUME There(drv, dev)
      PROVE  FoundIsThere
  BY <1>1, Zenon DEF There, FoundIsThere, P!FoundIsThere, Marks
<1>2. CASE \E b \in BOOLEAN : drv = Start(b) BY <1>1, <1>2, StartsBare, Zenon
<1>3. Early(hw) => \E b \in BOOLEAN : drv = Start(b)
  <2>1. ASSUME NEW h, BeforeConfig(h)
        PROVE  drv = Start(TRUE)
    BY <2>1, Zenon DEF BeforeConfig, Alone
  <2>2. ASSUME NEW h, NEW c, AfterConfig(h, c)
        PROVE  \E b \in BOOLEAN : drv = Start(b)
    <3>1. drv = Start(c # 20) BY <2>2, Zenon DEF AfterConfig, Alone
    <3> QED BY <3>1, Zenon
  <2> QED BY <2>1, <2>2, Zenon DEF Early
<1> QED BY <1>1, <1>2, <1>3, Zenon DEF FoundInv, Absent

(* However late the answers come, what ps2_identify and mouse_initialize   *)
(* have concluded is true of the devices: a keyboard or a mouse that was   *)
(* found is there, and four-byte packets are expected only from a mouse    *)
(* that has been told to send them.                                        *)
THEOREM FoundAlwaysThere == InputSpec => []FoundIsThere
<1>1. FoundInv /\ [InputNext]_inputvars => FoundInv'
  <2> SUFFICES ASSUME FoundInv, [InputNext]_inputvars
               PROVE  FoundInv' OBVIOUS
  <2>1. P!Next \/ UNCHANGED pvars BY Zenon DEF InputNext, SetUpDone, inputvars
  <2> QED BY <2>1, FoundStep, FoundStays, Zenon
<1> QED BY <1>1, FoundStarts, FoundSuffices, PTL DEF InputSpec
=============================================================================

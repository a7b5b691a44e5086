------------------------------ MODULE InputInv ------------------------------
(***************************************************************************)
(* The invariants by which InputProofs proves that the mouse is followed   *)
(* (MouseInv), that driver and devices agree after a set-up with answers in*)
(* time (HandshakeInv), and that what the driver finds is there however    *)
(* late they come (FoundInv).                                              *)
(***************************************************************************)
EXTENDS Input

(* Movements for which the handler is meant.                               *)
SlowMotions == Motions \subseteq -128 .. 127

Reports ==
    [x : -128 .. 127, y : -128 .. 127, z : -8 .. 7, btn : SUBSET (1 .. 5)]

(* What a kind of mouse can report.                                        *)
Possible(type, r) ==
    /\ type = "generic" => r.z = 0
    /\ type # "5btn" => 4 \notin r.btn /\ 5 \notin r.btn

Packet(type, r) == PacketOf(type, r.x, r.y, r.z, r.btn)

MouseTypeOK ==
    /\ mouse_type \in {"generic", "zaxis", "5btn"}
    /\ mouse_packet_size = PacketSize(mouse_type)
    /\ packet_byte \in 0 .. 3
    /\ packet_byte < mouse_packet_size
    /\ packet \in [1 .. 4 -> Int]
    /\ mouse_x \in Int /\ mouse_y \in Int /\ mouse_z \in Int
    /\ mouse_button_states \in [1 .. 5 -> Int]
    /\ mouse_type # "5btn" => mouse_button_states[4] = 0 /\ mouse_button_states[5] = 0
    /\ out \in [from : {"none", "kb", "mouse"}, byte : Int]
    /\ to_send \in Seq(Int)
    /\ moved \in [x : Int, y : Int, z : Int, btn : SUBSET (1 .. 5)]

(* Bytes of the mouse in the controller's buffer.                          *)
InBuffer == IF out.from = "mouse" THEN 1 ELSE 0

(* r is what the handler has not yet added to the position.                *)
UnderWay(r) ==
    LET p == Packet(mouse_type, r) IN
    /\ Possible(mouse_type, r)
    /\ packet_byte + InBuffer + Len(to_send) = mouse_packet_size
    /\ \A k \in 1 .. 4 : k <= packet_byte => packet[k] = p[k]
    /\ out.from = "mouse" => out.byte = p[packet_byte + 1]
    /\ \A k \in 1 .. Len(to_send) : to_send[k] = p[packet_byte + InBuffer + k]
    /\ moved.x = mouse_x + r.x
    /\ moved.y = r.y - mouse_y
    /\ moved.z = mouse_z + r.z
    /\ moved.btn = r.btn

(* The handler has still to take the last byte of the packet of q, and the *)
(* mouse has already reported r.                                           *)
Trailing(q, r) ==
    /\ Possible(mouse_type, q) /\ Possible(mouse_type, r)
    /\ packet_byte = mouse_packet_size - 1
    /\ out.from = "mouse"
    /\ out.byte = Packet(mouse_type, q)[mouse_packet_size]
    /\ \A k \in 1 .. 4 : k <= packet_byte => packet[k] = Packet(mouse_type, q)[k]
    /\ to_send = Packet(mouse_type, r)
    /\ moved.x = mouse_x + q.x + r.x
    /\ moved.y = q.y + r.y - mouse_y
    /\ moved.z = mouse_z + q.z + r.z
    /\ moved.btn = r.btn

Tracked ==
    /\ mouse_x = moved.x /\ mouse_y = -moved.y /\ mouse_z = moved.z
    /\ \A k \in 1 .. 5 : mouse_button_states[k] # 0 <=> k \in moved.btn

MouseInv ==
    /\ MouseTypeOK
    /\ Quiet => packet_byte = 0 /\ Tracked
    /\ ~Quiet => \/ \E r \in Reports : UnderWay(r)
                 \/ \E q, r \in Reports : Trailing(q, r)

-----------------------------------------------------------------------------
(* The set-up of controller and devices.  The invariant HandshakeInv lists *)
(* the points the driver can be at while answers come in time, and says at *)
(* each of them what is in the controller's buffers and on its way from    *)
(* the devices, what state the mouse is in, and what the driver has        *)
(* concluded so far.  Where the driver waits for a device, that does not   *)
(* depend on how far controller and device have got (Settled).             *)

(* An access of the driver.                                                *)
Tags == {"config", "self_test", "p1_test", "p2_test", "p1_reset", "p1_passed", "ack",
         "p1_type", "p1_type2", "p2_reset", "p2_passed", "p2_type", "p2_type2", "unused",
         "id", "id2", "irqs"}
Access ==
    [op : {"cmd", "data", "inb"}, arg : Int, skip : Nat]
      \cup [op : {"recv"}, arg : Tags, skip : {0}]

(* What the set-up can meet: a controller with h channels, a keyboard or   *)
(* none, a mouse ms or none.                                               *)
Machine(h, kb, ms) ==
    /\ hw = h /\ h \in {"single", "dual"}
    /\ dev.kb = kb /\ kb \in BOOLEAN
    /\ dev.ms = ms /\ ms \in {"none", "generic", "zaxis", "5btn"}
    /\ h = "single" => ms = "none"

DevSet ==
    [kb : BOOLEAN, ms : {"none", "generic", "zaxis", "5btn"},
     kb_queue : Seq(Int), ms_queue : Seq(Int), rates : Seq(Int),
     id : Int, reporting : BOOLEAN, rate_next : BOOLEAN]
DevTypeOK ==
    /\ dev \in DevSet
    /\ hw \in {"absent", "single", "dual"}
    /\ hw # "dual" => dev.ms = "none"
    /\ late \in Nat

(* The mouse's state, and what a byte does to it and is answered by.       *)
State(rates, id, reporting, rate_next) ==
    [rates |-> rates, id |-> id, reporting |-> reporting, rate_next |-> rate_next]
Fresh == State(<<>>, 0, FALSE, FALSE)
StateOf(dv) == State(dv.rates, dv.id, dv.reporting, dv.rate_next)

NewId(ms, rates, id) ==
    CASE ms # "generic" /\ rates = <<200, 100, 80>> -> 3
      [] ms = "5btn" /\ id = 3 /\ rates = <<200, 200, 80>> -> 4
      [] OTHER -> id
NewRates(rates, b) ==
    SubSeq(Append(rates, b), IF Len(rates) = 3 THEN 2 ELSE 1, Len(rates) + 1)
HeedsId(ms, m, b) ==
    CASE b = 255 -> 0 [] b = 242 -> NewId(ms, m.rates, m.id) [] OTHER -> m.id
HeedsOn(m, b) ==
    CASE b \in {255, 246} -> FALSE [] b = 244 -> TRUE [] OTHER -> m.reporting
HeedsNext(b) == IF b = 243 THEN TRUE ELSE FALSE
Heeds(ms, m, b) ==
    CASE ms = "none" -> m
      [] ms # "none" /\ m.rate_next -> State(NewRates(m.rates, b), m.id, m.reporting, FALSE)
      [] ms # "none" /\ ~m.rate_next ->
           State(m.rates, HeedsId(ms, m, b), HeedsOn(m, b), HeedsNext(b))
Says(ms, m, b) ==
    CASE ms = "none" -> <<>>
      [] ms # "none" /\ m.rate_next -> <<250>>
      [] ms # "none" /\ ~m.rate_next ->
           CASE b = 255 -> <<250, 170, 0>>
             [] b = 242 -> <<250, NewId(ms, m.rates, m.id)>>
             [] b \in {246, 244, 243} -> <<250>>
             [] OTHER -> <<254>>
KbSays(kb, b) == IF kb THEN P!KbAnswer(b) ELSE <<>>

(* Configurations in which no handler takes a byte.                        *)
Configs == {4, 20, 36, 52, 140, 156, 172, 188}

(* With answers in time, what the driver will find is settled as soon as   *)
(* it has sent a byte: the mouse's state m once the controller has passed  *)
(* that byte on, and the bytes s that are to be read from the output       *)
(* buffer and then from the device.                                        *)
Then(p, q) == p \o q
Unread(a, q) == IF a = <<>> THEN q ELSE Then(<<a[2]>>, q)
Queued(dv) == IF dv.kb_queue = <<>> THEN dv.ms_queue ELSE dv.kb_queue
Nothing == answer = <<>> /\ dev.kb_queue = <<>> /\ dev.ms_queue = <<>>

(* Nothing is in the input buffer but a command to enable a port.          *)
Idle(m, s) ==
    /\ inp \in {<<>>, <<"cmd", 168>>, <<"cmd", 174>>}
    /\ target = "p1"
    /\ dev.kb_queue = <<>> \/ dev.ms_queue = <<>>
    /\ m = StateOf(dev) /\ s = Unread(answer, Queued(dev))
ToKeyboard(m, s) ==
    \E b \in Int :
      /\ inp = <<"data", b>> /\ target = "p1" /\ Nothing
      /\ m = StateOf(dev) /\ s = KbSays(dev.kb, b)
ToMouse(m, s) ==
    \E b \in Int :
      /\ inp = <<"data", b>> /\ target = "p2" /\ Nothing
      /\ m = Heeds(dev.ms, StateOf(dev), b) /\ s = Says(dev.ms, StateOf(dev), b)
Settled(m, s) == Idle(m, s) \/ ToKeyboard(m, s) \/ ToMouse(m, s)

(* Port 2 has been selected for the next byte.                             *)
Selected(m, s) ==
    /\ (inp = <<"cmd", 212>> /\ target = "p1") \/ (inp = <<>> /\ target = "p2")
    /\ dev.kb_queue = <<>> \/ dev.ms_queue = <<>>
    /\ m = StateOf(dev) /\ s = Unread(answer, Queued(dev))

Send2(b, r) == Then(P!CmdOrSkip(212, 2), Then(P!Inb, Then(P!Data(b), r)))
Get(tag, r) == Then(P!Recv(tag), r)

(* What is left to do, with the driver's variables d.                      *)
At(t, m, s, d) == todo = t /\ Settled(m, s) /\ drv = d
Sending(b, r, m, s, d) ==
    \/ At(Send2(b, r), m, s, d)
    \/ todo = Then(P!Inb, Then(P!Data(b), r)) /\ Selected(m, s) /\ drv = d
    \/ todo = Then(P!Data(b), r) /\ Selected(m, <<>>) /\ drv = d

(* The driver's variables, with what it has found so far.                  *)
Vars(h, p1, p2, type, size) ==
    [dual |-> h = "dual", p1 |-> p1, p2 |-> p2, type |-> type, size |-> size]
P1(kb) == IF kb THEN P!PS2_DEV_MF2_KEYBOARD ELSE P!PS2_DEV_NONE

-----------------------------------------------------------------------------
(* The programs, from the back: what is left after each access.            *)

M11(tag) == Get("unused", Get(tag, <<>>))
M9(c, tag) == Send2(c, Send2(242, M11(tag)))
M7(c, tag) == Send2(243, Get("unused", M9(c, tag)))
M6(b, c, tag) == Send2(b, M7(c, tag))
M4(b, c, tag) == Send2(243, Get("unused", M6(b, c, tag)))
M3(a, b, c, tag) == Send2(a, M4(b, c, tag))
M1(a, b, c, tag) == Send2(243, Get("unused", M3(a, b, c, tag)))

(* mouse_set_rate, with the answer s to the byte before not yet dropped.   *)
On(w, id) == State(w, id, TRUE, FALSE)
NextIsRate(w, id) == State(w, id, TRUE, TRUE)
RatePoint(b, r, w, id, s, d) ==
    \/ Sending(243, Get("unused", Send2(b, r)), On(w, id), s, d)
    \/ At(Get("unused", Send2(b, r)), NextIsRate(w, id), <<250>>, d)
    \/ Sending(b, r, NextIsRate(w, id), <<>>, d)

(* The three rates given to the mouse, and its id after them.              *)
Window(rates, a, b, c) == NewRates(NewRates(NewRates(rates, a), b), c)
MagicPoint(a, b, c, tag, ms, rates, id, d) ==
    LET w1 == NewRates(rates, a)
        w2 == NewRates(w1, b)
        w3 == Window(rates, a, b, c)
        new == NewId(ms, w3, id)
    IN
    \/ RatePoint(a, M4(b, c, tag), rates, id, <<>>, d)
    \/ RatePoint(b, M7(c, tag), w1, id, <<250>>, d)
    \/ RatePoint(c, Send2(242, M11(tag)), w2, id, <<250>>, d)
    \/ Sending(242, M11(tag), On(w3, id), <<250>>, d)
    \/ At(M11(tag), On(w3, new), <<250, new>>, d)
    \/ At(Get(tag, <<>>), On(w3, new), <<new>>, d)

(* mouse_initialize; a generic mouse keeps id 0, the others answer 3 to    *)
(* the first rates and a mouse with five buttons 4 to the second.          *)
Rates1 == <<200, 100, 80>>
Rates2 == <<200, 200, 80>>
MouseProgram == M1(200, 100, 80, "id")
MouseRest == Get("unused", MouseProgram)
MouseMore == Get("unused", Send2(244, MouseRest))
MousePoint(h, kb, ms) ==
    LET d == Vars(h, P1(kb), 0, 0, 3)
    IN
    /\ ms # "none"
    /\ \/ Sending(246, MouseMore, Fresh, <<>>, d)
       \/ At(MouseMore, Fresh, <<250>>, d)
       \/ Sending(244, MouseRest, Fresh, <<>>, d)
       \/ At(MouseRest, On(<<>>, 0), <<250>>, d)
       \/ MagicPoint(200, 100, 80, "id", ms, <<>>, 0, d)
       \/ /\ ms # "generic"
          /\ MagicPoint(200, 200, 80, "id2", ms, Rates1, 3, Vars(h, P1(kb), 0, 3, 4))

(* Driver and mouse agree.                                                 *)
Agreed(h, kb, ms, m, d) ==
    \/ ms = "none" /\ d = Vars(h, P1(kb), P!PS2_DEV_NONE, 0, 3) /\ m = Fresh
    \/ ms = "generic" /\ d = Vars(h, P1(kb), 0, 0, 3) /\ m = On(Rates1, 0)
    \/ ms = "zaxis" /\ d = Vars(h, P1(kb), 0, 3, 4) /\ m = On(Rates2, 3)
    \/ ms = "5btn" /\ d = Vars(h, P1(kb), 0, 4, 4) /\ m = On(Rates2, 4)

(* ps2_initialize, the keyboard on port 1 and the mouse on port 2.         *)
KbIdentify == Then(P!Data(242), Get("ack", Get("p1_type", <<>>)))
KeyboardPoint(h, kb) ==
    LET d == Vars(h, P!PS2_DEV_NONE, P!PS2_DEV_NONE, 0, 3) IN
    \/ At(Then(P!Cmd(174), Then(P!Data(255), Get("p1_reset", <<>>))), Fresh, <<>>, d)
    \/ At(Then(P!Data(255), Get("p1_reset", <<>>)), Fresh, <<>>, d)
    \/ At(Get("p1_reset", <<>>), Fresh, KbSays(kb, 255), d)
    \/ kb /\ At(Get("p1_passed", <<>>), Fresh, <<170>>, d)
    \/ kb /\ At(KbIdentify, Fresh, <<>>, d)
    \/ kb /\ At(Get("ack", Get("p1_type", <<>>)), Fresh, <<250, 171, 131>>, d)
    \/ kb /\ At(Get("p1_type", <<>>), Fresh, <<171, 131>>, d)
    \/ kb /\ At(Get("p1_type2", <<>>), Fresh, <<131>>, d)

MsReset == Then(P!Cmd(174), Send2(255, Get("p2_reset", <<>>)))
MsIdentify == Get("ack", Get("p2_type", <<>>))
ResetPoint(h, kb, ms) ==
    LET d == Vars(h, P1(kb), P!PS2_DEV_NONE, 0, 3) IN
    /\ h = "dual"
    /\ \/ At(Then(P!CmdOrSkip(168, 1), MsReset), Fresh, <<>>, d)
       \/ At(MsReset, Fresh, <<>>, d)
       \/ Sending(255, Get("p2_reset", <<>>), Fresh, <<>>, d)
       \/ At(Get("p2_reset", <<>>), Fresh, Says(ms, Fresh, 255), d)
       \/ ms # "none" /\ At(Get("p2_passed", <<>>), Fresh, <<170, 0>>, d)
       \/ ms # "none" /\ Sending(242, MsIdentify, Fresh, <<0>>, d)
       \/ ms # "none" /\ At(MsIdentify, Fresh, <<250, 0>>, d)
       \/ ms # "none" /\ At(Get("p2_type", <<>>), Fresh, <<0>>, d)

(* ps2_enable_irqs.                                                        *)
On12(c) == P!With(P!With(c, 1), 2)
Ends == {Fresh, On(Rates1, 0), On(Rates2, 3),
         On(Rates2, 4)}
(* Driver and controller are alone, the devices have nothing to say.       *)
Alone(t, i, g, c, a, d) ==
    todo = t /\ inp = i /\ target = g /\ config = c /\ answer \in a /\ drv = d

Ask == Then(P!Cmd(32), Get("irqs", <<>>))
Write(v) == Then(P!Data(On12(v)), <<>>)
AskPoint(h, kb, ms) == \E m \in Ends : Agreed(h, kb, ms, m, drv) /\ At(Ask, m, <<>>, drv)
IrqsPoint(h, kb, ms) ==
    \E m \in Ends, v \in Configs :
      /\ Agreed(h, kb, ms, m, drv)
      /\ m = StateOf(dev) /\ dev.kb_queue = <<>> /\ dev.ms_queue = <<>>
      /\ \/ Alone(Get("irqs", <<>>), <<"cmd", 32>>, "p1", v, {<<>>}, drv)
         \/ Alone(Get("irqs", <<>>), <<>>, "p1", v, {<<0, v>>}, drv)
         \/ Alone(Then(P!Cmd(96), Write(v)), <<>>, "p1", v, {<<>>}, drv)
         \/ Alone(Write(v), <<"cmd", 96>>, "p1", v, {<<>>}, drv)
         \/ Alone(Write(v), <<>>, "config", v, {<<>>}, drv)
         \/ Alone(<<>>, <<"data", On12(v)>>, "config", v, {<<>>}, drv)
         \/ Alone(<<>>, <<>>, "p1", On12(v), {<<>>}, drv)

(* ps2_initialize before the ports are enabled: the driver waits for the   *)
(* controller's own answers only, and the handlers may take the first.     *)
Stale == {<<>>, <<1, 28>>}
Config1(h) == IF h = "dual" THEN 119 ELSE 87
E6 == Get("config", <<>>)
E5 == Then(P!Cmd(32), E6)
E4 == Then(P!Inb, E5)
E3 == Then(P!Cmd(173), E4)
E2 == Then(P!CmdOrSkip(167, 1), E3)
E1 == Then(P!Cmd(173), E2)
Start(b) ==
    [dual |-> b, p1 |-> P!PS2_DEV_NONE, p2 |-> P!PS2_DEV_NONE, type |-> 0, size |-> 3]
BeforeConfig(h) ==
    LET d == Start(TRUE)
        c == Config1(h) IN
    \/ Alone(E1, <<>>, "p1", 71, Stale, d)
    \/ Alone(E2, <<"cmd", 173>>, "p1", 71, Stale, d)
    \/ Alone(E2, <<>>, "p1", 87, Stale, d)
    \/ Alone(E3, <<"cmd", 167>>, "p1", 87, Stale, d)
    \/ Alone(E3, <<>>, "p1", c, Stale, d)
    \/ Alone(E4, <<"cmd", 173>>, "p1", c, Stale, d)
    \/ Alone(E4, <<>>, "p1", c, Stale, d)
    \/ Alone(E5, <<"cmd", 173>>, "p1", c, {<<>>}, d)
    \/ Alone(E5, <<>>, "p1", c, {<<>>}, d)
    \/ Alone(E6, <<"cmd", 32>>, "p1", c, {<<>>}, d)
    \/ Alone(E6, <<>>, "p1", c, {<<>>, <<0, c>>}, d)

Cleared(h) == IF h = "dual" THEN {52, 188} ELSE {20, 188}
E10 == Get("self_test", <<>>)
E9 == Then(P!Cmd(170), E10)
E8(c) == Then(P!Data(c), E9)
E7(c) == Then(P!Cmd(96), E8(c))
E12 == Get("p1_test", <<>>)
E11 == Then(P!Cmd(171), E12)
E14 == Get("p2_test", <<>>)
E13 == Then(P!Cmd(169), E14)
AfterConfig(h, c) ==
    LET d == Start(c # 20)
        x == Config1(h) IN
    \/ Alone(E7(c), <<>>, "p1", x, {<<>>}, d)
    \/ Alone(E8(c), <<"cmd", 96>>, "p1", x, {<<>>}, d)
    \/ Alone(E8(c), <<>>, "config", x, {<<>>}, d)
    \/ Alone(E9, <<"data", c>>, "config", x, {<<>>}, d)
    \/ Alone(E9, <<>>, "p1", c, {<<>>}, d)
    \/ Alone(E10, <<"cmd", 170>>, "p1", c, {<<>>}, d)
    \/ Alone(E10, <<>>, "p1", c, {<<0, 85>>}, d)
    \/ Alone(E11, <<>>, "p1", c, {<<>>}, d)
    \/ Alone(E12, <<"cmd", 171>>, "p1", c, {<<>>}, d)
    \/ Alone(E12, <<>>, "p1", c, {<<0, 0>>}, d)
    \/ c # 20 /\ Alone(E13, <<>>, "p1", c, {<<>>}, d)
    \/ c # 20 /\ Alone(E14, <<"cmd", 169>>, "p1", c, {<<>>}, d)
    \/ c # 20 /\ Alone(E14, <<>>, "p1", c, IF h = "dual" THEN {<<0, 0>>} ELSE {<<>>}, d)
Early(h) ==
    /\ dev.kb_queue = <<>> /\ dev.ms_queue = <<>> /\ StateOf(dev) = Fresh
    /\ BeforeConfig(h) \/ \E c \in Cleared(h) : AfterConfig(h, c)

InTime(h, kb, ms) ==
    \/ Early(h)
    \/ /\ config \in Configs
       /\ \/ KeyboardPoint(h, kb) \/ ResetPoint(h, kb, ms) \/ MousePoint(h, kb, ms)
          \/ AskPoint(h, kb, ms)
    \/ IrqsPoint(h, kb, ms)

HandshakeInv ==
    /\ late \in Nat
    /\ hw # "absent" /\ late = 0 => DevTypeOK /\ InTime(hw, dev.kb, dev.ms)

-----------------------------------------------------------------------------
(* What the driver finds, however late answers come.  The invariant        *)
(* FoundInv says less than HandshakeInv of where the driver is, and of the *)
(* bytes under way only which device they can have come from: a keyboard   *)
(* never sends 0, a mouse never 131, and it sends 3 or 4 only after its id *)
(* has become that, which only a reset undoes.                             *)

(* The bytes a keyboard sends, and a mouse with this id.                   *)
KbBytes == {250, 170, 171, 131, 254}
Marks == {3, 4}
MsBytes(id) == IF id \in Marks THEN {250, 170, 0, 254, 3, 4} ELSE {250, 170, 0, 254}
Talks(dv) ==
    /\ dv \in DevSet /\ dv.id \in {0, 3, 4}
    /\ dv.kb_queue \in Seq(KbBytes) /\ (dv.kb_queue # <<>> => dv.kb)
    /\ dv.ms_queue \in Seq(MsBytes(dv.id)) /\ (dv.ms_queue # <<>> => dv.ms # "none")
Heard(a, dv) ==
    \/ a = <<>>
    \/ \E b \in KbBytes : a = <<1, b>> /\ dv.kb
    \/ \E b \in MsBytes(dv.id) : a = <<2, b>> /\ dv.ms # "none"

(* The accesses of one part of the set-up: an answer that decides what to  *)
(* do is waited for last, the choice of port 2 is followed by a byte for   *)
(* it, and a reset by the wait for its answer.                             *)
Plain == {"ack", "unused"}
ResetTags == {"p1_reset", "p1_passed", "p2_reset", "p2_passed"}
FindTags == {"p1_reset", "p1_passed", "p2_reset", "p2_passed",
             "p1_type", "p1_type2", "p2_type", "p2_type2"}
StartTags == {"id", "id2"}
FindBytes == {255, 242}
StartBytes == {246, 244, 243, 200, 100, 80, 242}
Codes == {168, 174, 212}
AwaitsReset(a) == a.op = "recv" /\ a.arg \in ResetTags
Fit(a, b, bytes) ==
    /\ a.op = "cmd" => a.arg \in Codes /\ (a.arg = 212 => b.op = "inb")
    /\ a.op = "data" => a.arg \in bytes /\ (a.arg = 255 => AwaitsReset(b))
    /\ a.op = "inb" => b.op = "data"
    /\ a.op = "recv" => a.arg \in Plain
Proper(t, bytes, tags) ==
    /\ t \in Seq(Access) /\ t # <<>>
    /\ t[Len(t)].op = "recv" /\ t[Len(t)].arg \in tags
    /\ \A i \in 1 .. Len(t) - 1 : Fit(t[i], t[i + 1], bytes)

(* What the controller has been sent and has still to take.                *)
Waits(t) == Head(t).op \in {"inb", "data"}
Resets(t) == Head(t).op \in {"cmd", "data"} \/ AwaitsReset(Head(t))
Given(bytes) ==
    /\ \/ inp = <<>>
       \/ \E c \in Codes : inp = <<"cmd", c>>
       \/ \E b \in bytes : inp = <<"data", b>>
    /\ target \in {"p1", "p2"}
    /\ inp = <<"cmd", 212>> => Waits(todo) /\ target = "p1"
    /\ target = "p2" => (inp = <<>> /\ Waits(todo)) \/ \E b \in bytes : inp = <<"data", b>>
    /\ inp = <<"data", 255>> => Resets(todo)
Phase(bytes, tags) ==
    Proper(todo, bytes, tags) /\ Given(bytes) /\ Talks(dev) /\ Heard(answer, dev)

(* The driver's variables.                                                 *)
DrvSet == [dual : BOOLEAN, p1 : Int, p2 : Int, type : Int, size : Int]
There(d, dv) ==
    /\ d \in DrvSet
    /\ d.p1 = P!PS2_DEV_MF2_KEYBOARD => dv.kb
    /\ d.p2 = 0 => dv.ms # "none"
    /\ d.size = 4 => dv.id \in Marks

(* The ports are reset and identified; a mouse keeps its id.               *)
Bare(dv) == dv.rates = <<>> /\ dv.id = 0 /\ dv.rate_next = FALSE
NoMouseYet(d) == d.p2 # 0 /\ d.size = 3
Finding == Phase(FindBytes, FindTags) /\ Bare(dev) /\ NoMouseYet(drv)

(* mouse_initialize.                                                       *)
Starting == Phase(StartBytes, StartTags)

(* ps2_enable_irqs.                                                        *)
EndAccess ==
    {a \in Access : a.op # "inb" /\ (a.op = "cmd" => a.arg # 212) /\ (a.op = "recv" => a.arg = "irqs")}
Ending ==
    /\ todo \in Seq(EndAccess)
    /\ dev \in DevSet
    /\ \/ inp = <<>>
       \/ \E c \in Int \ {212} : inp = <<"cmd", c>>
       \/ \E b \in Int : inp = <<"data", b>>
    /\ target = "p2" => \E b \in Int : inp = <<"data", b>> /\ (dev.id \in Marks => b # 255)

(* Without a controller every byte read is 255.                            *)
AbsentAccess ==
    {a \in Access : a.op = "recv" => a.arg \in {"config", "self_test", "irqs"}}
Absent == todo \in Seq(AbsentAccess) /\ drv = Start(TRUE)

BytesOK == config \in Int /\ (answer # <<>> => answer[2] \in Int)

FoundInv ==
    \/ hw = "absent" /\ Absent
    \/ hw \in {"single", "dual"} /\ late = 0 /\ DevTypeOK /\ Early(hw)
    \/ /\ hw \in {"single", "dual"} /\ There(drv, dev) /\ BytesOK
       /\ Finding \/ Starting \/ Ending
=============================================================================

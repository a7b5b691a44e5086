-------------------------------- MODULE Ps2 --------------------------------
(***************************************************************************)
(* The set-up of the PS/2 controller and its devices (drivers/ps2.c,       *)
(* mouse_initialize in drivers/mouse.c, called by kernel_enter).  Commands *)
(* and answers pass through one-byte buffers; every wait ends after 10 ms, *)
(* and the answers of a device may come sooner or later than that.         *)
(* The driver is a list of accesses still to do, todo; what was received   *)
(* decides which come next.                                                *)
(***************************************************************************)
EXTENDS Integers, Sequences

CONSTANTS
    Mice,         \* what is on port 2: "none", "generic", "zaxis", "5btn"
    MaxLate       \* bound: answers that come too late

Ps2Assumption ==
    /\ Mice \subseteq {"none", "generic", "zaxis", "5btn"}
    /\ MaxLate \in Nat

VARIABLES
    todo,       \* accesses the driver has still to make
    drv,        \* its variables: dual_channel, cfg, ps2_p1, ps2_p2, mouse_type,
                \* mouse_packet_size
    hw,         \* the hardware: "absent", "single" or "dual" channel controller
    inp,        \* the controller's input buffer, <<>> or <<port, byte>>
    out,        \* its output buffer, <<>> or <<origin, byte>>
    config,     \* its configuration byte
    target,     \* where the next data byte goes
    dev,        \* the devices on ports 1 and 2
    late        \* how often the driver has gone on too early

vars == <<todo, drv, hw, inp, out, config, target, dev, late>>
machine == <<hw, inp, out, config, target, dev>>

PS2_ACK == 250
PS2_DEV_NONE == 65535
PS2_DEV_MF2_KEYBOARD == 43907

HasBit(v, m) == (v \div m) % 2 = 1
Without(v, m) == IF HasBit(v, m) THEN v - m ELSE v
With(v, m) == IF HasBit(v, m) THEN v ELSE v + m

-----------------------------------------------------------------------------
(* The driver's accesses.  A send that times out skips the accesses that   *)
(* depend on it.                                                           *)

Cmd(c) == <<[op |-> "cmd", arg |-> c, skip |-> 0]>>
CmdOrSkip(c, n) == <<[op |-> "cmd", arg |-> c, skip |-> n]>>
Data(b) == <<[op |-> "data", arg |-> b, skip |-> 0]>>
Inb == <<[op |-> "inb", arg |-> 0, skip |-> 0]>>
Recv(tag) == <<[op |-> "recv", arg |-> tag, skip |-> 0]>>

(* Mutant: the answer to the byte before is left in the buffer. *)
SendPort2Only(b) == CmdOrSkip(212, 1) \o Data(b)

(* ps2_send_port: for port 2 an answer that is still there is dropped.     *)
SendPort1(b) == Data(b)
SendPort2(b) == CmdOrSkip(212, 2) \o Inb \o Data(b)

(* ps2_disable_port and ps2_enable_port: port 2 is followed by port 1.     *)
DisablePorts == Cmd(173) \o CmdOrSkip(167, 1) \o Cmd(173)
EnablePort1 == Cmd(174)
EnablePort2 == CmdOrSkip(168, 1) \o Cmd(174)

(* ps2_initialize up to the first answer.                                  *)
Initialize == DisablePorts \o Inb \o Cmd(32) \o Recv("config")

Port1 == EnablePort1 \o SendPort1(255) \o Recv("p1_reset")
Port2 == EnablePort2 \o SendPort2(255) \o Recv("p2_reset")

(* mouse_set_rate: the answer to the rate itself is not read.              *)
mouse_set_rate(r) == SendPort2(243) \o Recv("unused") \o SendPort2(r)

Magic(a, b, c, tag) ==
    mouse_set_rate(a) \o mouse_set_rate(b) \o mouse_set_rate(c)
      \o SendPort2(242) \o Recv("unused") \o Recv(tag)

(* mouse_initialize, and the end, ps2_enable_irqs.                         *)
Mouse == SendPort2(246) \o Recv("unused") \o SendPort2(244) \o Recv("unused")
           \o Magic(200, 100, 80, "id")
EnableIrqs == Cmd(32) \o Recv("irqs")

(* kernel_enter after ps2_initialize.                                      *)
Kernel(d) == IF d.p2 = 0 THEN Mouse ELSE EnableIrqs
AfterPort1(d) == IF d.dual THEN Port2 ELSE Kernel(d)

(* Mutant: every mouse that does not answer 0 is taken to have a wheel. *)
WithAnyId(v, d) == [d EXCEPT !.type = v, !.size = IF v # 0 THEN 4 ELSE @]

(* mouse_type and mouse_packet_size after the first answer.                *)
WithId(v, d) == [d EXCEPT !.type = v, !.size = IF v = 3 THEN 4 ELSE @]

(* What the driver does with a byte received, -1 after a timeout: its      *)
(* variables and the accesses that follow.                                 *)
Received(tag, v, d) ==
    LET u16 == v % 65536
        clear == Without(Without(Without(v % 256, 1), 2), 64)
        Go(dd, more) == [drv |-> dd, more |-> more]
    IN
    CASE tag = "config" ->
           Go([d EXCEPT !.dual = HasBit(clear, 32)],
              Cmd(96) \o Data(clear) \o Cmd(170) \o Recv("self_test"))
      [] tag = "self_test" ->
           Go(d, IF v = 85 THEN Cmd(171) \o Recv("p1_test") ELSE Kernel(d))
      [] tag = "p1_test" -> Go(d, IF d.dual THEN Cmd(169) \o Recv("p2_test") ELSE Port1)
      [] tag = "p2_test" -> Go([d EXCEPT !.dual = v = 0], Port1)
      [] tag = "p1_reset" -> Go(d, IF v = PS2_ACK THEN Recv("p1_passed") ELSE AfterPort1(d))
      [] tag = "p1_passed" ->
           Go(d, IF v = 170 THEN SendPort1(242) \o Recv("ack") \o Recv("p1_type") ELSE AfterPort1(d))
      [] tag = "p1_type" ->
           IF v = 171 THEN Go(d, Recv("p1_type2"))
           ELSE Go([d EXCEPT !.p1 = u16], AfterPort1(d))
      [] tag = "p1_type2" ->
           Go([d EXCEPT !.p1 = IF v = -1 THEN 65535 ELSE 171 * 256 + v], AfterPort1(d))
      [] tag = "p2_reset" -> Go(d, IF v = PS2_ACK THEN Recv("p2_passed") ELSE Kernel(d))
      [] tag = "p2_passed" ->
           Go(d, IF v = 170 THEN SendPort2(242) \o Recv("ack") \o Recv("p2_type") ELSE Kernel(d))
      [] tag = "p2_type" ->
           IF v = 171 THEN Go(d, Recv("p2_type2"))
           ELSE LET dd == [d EXCEPT !.p2 = u16] IN Go(dd, Kernel(dd))
      [] tag = "p2_type2" ->
           LET dd == [d EXCEPT !.p2 = IF v = -1 THEN 65535 ELSE 171 * 256 + v] IN Go(dd, Kernel(dd))
      [] tag = "id" ->
           Go(WithId(v, d), IF v = 3 THEN Magic(200, 200, 80, "id2") ELSE EnableIrqs)
      [] tag = "id2" -> Go([d EXCEPT !.type = v], EnableIrqs)
      [] tag = "irqs" -> Go(d, Cmd(96) \o Data(With(With(v % 256, 1), 2)))
      [] tag \in {"ack", "unused"} -> Go(d, <<>>)

Init ==
    /\ todo = Initialize
    /\ drv = [dual |-> TRUE, p1 |-> PS2_DEV_NONE, p2 |-> PS2_DEV_NONE, type |-> 0, size |-> 3]
    /\ hw \in {"absent", "single", "dual"}
    /\ inp = <<>>
    /\ out \in {<<>>, <<1, 28>>}
    /\ config = 71
    /\ target = "p1"
    /\ \E kb \in BOOLEAN, ms \in Mice :
         /\ hw # "dual" => ms = "none"
         /\ dev = [kb |-> kb, ms |-> ms, kb_queue |-> <<>>, ms_queue |-> <<>>,
                   rates |-> <<>>, id |-> 0, reporting |-> FALSE, rate_next |-> FALSE]
    /\ late = 0

-----------------------------------------------------------------------------
(* The driver's steps.                                                     *)

Op(ops) == todo # <<>> /\ Head(todo).op \in ops

(* A device has an answer that the controller has not yet received.        *)
Pending == dev.kb_queue # <<>> \/ dev.ms_queue # <<>>

Stuck == inp # <<>> /\ out # <<>> /\ inp[1] = "cmd" /\ inp[2] \in {32, 169, 170, 171}

(* The driver does not wait longer; early if what it waits for is coming.  *)
GoesOn(early) ==
    /\ early => late < MaxLate
    /\ late' = IF early THEN late + 1 ELSE late

(* ps2_send_cmd and ps2_send_data.                                         *)
Send ==
    /\ Op({"cmd", "data"})
    /\ hw # "absent"
    /\ inp = <<>>
    /\ inp' = <<Head(todo).op, Head(todo).arg>>
    /\ todo' = Tail(todo)
    /\ UNCHANGED <<drv, hw, out, config, target, dev, late>>

(* The input buffer stays full, because the controller has an answer and   *)
(* nobody reads the byte before; without a controller all status bits are  *)
(* 1.  The controller itself takes a byte within the 10 ms.                *)
SendTimeout ==
    /\ Op({"cmd", "data"})
    /\ hw = "absent" \/ Stuck
    /\ todo' = SubSeq(todo, 2 + Head(todo).skip, Len(todo))
    /\ UNCHANGED <<drv, machine, late>>

(* A read of the data port that is not waited for.                         *)
DropByte ==
    /\ Op({"inb"})
    /\ todo' = Tail(todo)
    /\ out' = <<>>
    /\ GoesOn(out = <<>> /\ Pending)
    /\ UNCHANGED <<drv, hw, inp, config, target, dev>>

Take(v) ==
    LET r == Received(Head(todo).arg, v, drv) IN
    /\ drv' = r.drv
    /\ todo' = Tail(todo) \o r.more

(* ps2_recv.                                                               *)
RecvByte ==
    /\ Op({"recv"})
    /\ out # <<>> \/ hw = "absent"
    /\ Take(IF hw = "absent" THEN 255 ELSE out[2])
    /\ out' = <<>>
    /\ UNCHANGED <<hw, inp, config, target, dev, late>>

RecvTimeout ==
    /\ Op({"recv"})
    /\ out = <<>> /\ inp = <<>> /\ hw # "absent"
    /\ Take(-1)
    /\ GoesOn(Pending)
    /\ UNCHANGED machine

(* While the configuration left by the firmware enables interrupts, the    *)
(* handlers of keyboard and mouse take bytes meant for the driver.         *)
HandlerTakes ==
    /\ todo # <<>>
    /\ out # <<>>
    /\ HasBit(config, IF out[1] = 2 THEN 2 ELSE 1)
    /\ out' = <<>>
    /\ UNCHANGED <<todo, drv, hw, inp, config, target, dev, late>>

-----------------------------------------------------------------------------
(* The controller and the devices.                                         *)

Answer(b) == out = <<>> /\ out' = <<0, b>>
Quiet == UNCHANGED out

Command(c) ==
    /\ target' = CASE c = 96 -> "config" [] c = 212 /\ hw = "dual" -> "p2" [] OTHER -> target
    /\ config' = CASE c = 173 -> With(config, 16)
                   [] c = 174 -> Without(config, 16)
                   [] c = 167 /\ hw = "dual" -> With(config, 32)
                   [] c = 168 /\ hw = "dual" -> Without(config, 32)
                   [] OTHER -> config
    /\ CASE c = 32  -> Answer(config)
         [] c = 170 -> Answer(85)
         [] c = 171 -> Answer(0)
         [] c = 169 /\ hw = "dual" -> Answer(0)
         [] OTHER   -> Quiet
    /\ UNCHANGED dev

KbAnswer(b) ==
    CASE b = 255 -> <<PS2_ACK, 170>> [] b = 242 -> <<PS2_ACK, 171, 131>> [] OTHER -> <<254>>

(* The id a mouse answers with after these rates.                          *)
Id(m) ==
    CASE m.ms # "generic" /\ m.rates = <<200, 100, 80>> -> 3
      [] m.ms = "5btn" /\ m.id = 3 /\ m.rates = <<200, 200, 80>> -> 4
      [] OTHER -> m.id

MsCommand(m, b) ==
    LET Say(mm, bytes) == [mm EXCEPT !.ms_queue = @ \o bytes] IN
    IF m.rate_next
    THEN Say([m EXCEPT !.rate_next = FALSE,
                       !.rates = SubSeq(Append(@, b), IF Len(@) = 3 THEN 2 ELSE 1, Len(@) + 1)],
             <<PS2_ACK>>)
    ELSE CASE b = 255 -> Say([m EXCEPT !.id = 0, !.reporting = FALSE], <<PS2_ACK, 170, 0>>)
           [] b = 246 -> Say([m EXCEPT !.reporting = FALSE], <<PS2_ACK>>)
           [] b = 244 -> Say([m EXCEPT !.reporting = TRUE], <<PS2_ACK>>)
           [] b = 243 -> Say([m EXCEPT !.rate_next = TRUE], <<PS2_ACK>>)
           [] b = 242 -> Say([m EXCEPT !.id = Id(m)], <<PS2_ACK, Id(m)>>)
           [] OTHER   -> Say(m, <<254>>)

ControllerTakes ==
    /\ inp # <<>>
    /\ inp' = <<>>
    /\ IF inp[1] = "cmd" THEN Command(inp[2])
       ELSE /\ target' = "p1"
            /\ config' = IF target = "config" THEN inp[2] ELSE config
            /\ dev' = CASE target = "p1" /\ dev.kb -> [dev EXCEPT !.kb_queue = @ \o KbAnswer(inp[2])]
                        [] target = "p2" /\ dev.ms # "none" -> MsCommand(dev, inp[2])
                        [] OTHER -> dev
            /\ Quiet
    /\ UNCHANGED <<todo, drv, hw, late>>

KeyboardSends ==
    /\ dev.kb_queue # <<>> /\ out = <<>> /\ ~HasBit(config, 16)
    /\ out' = <<1, Head(dev.kb_queue)>>
    /\ dev' = [dev EXCEPT !.kb_queue = Tail(@)]
    /\ UNCHANGED <<todo, drv, hw, inp, config, target, late>>

MouseSends ==
    /\ dev.ms_queue # <<>> /\ out = <<>> /\ ~HasBit(config, 32)
    /\ out' = <<2, Head(dev.ms_queue)>>
    /\ dev' = [dev EXCEPT !.ms_queue = Tail(@)]
    /\ UNCHANGED <<todo, drv, hw, inp, config, target, late>>

-----------------------------------------------------------------------------
Driver == Send \/ SendTimeout \/ DropByte \/ RecvByte \/ RecvTimeout

Next ==
    \/ Driver \/ HandlerTakes \/ ControllerTakes
    \/ KeyboardSends \/ MouseSends

Spec == Init /\ [][Next]_vars

-----------------------------------------------------------------------------
(* Properties.                                                             *)

Done == todo = <<>>

(* When answers come in time, the driver and the devices agree in the end, *)
(* whatever the handlers have taken before they were switched off: what is *)
(* on each port, the mouse's id and the size of its packets; interrupts are*)
(* on and translation is off.                                              *)
HandshakeAgrees ==
    (Done /\ inp = <<>> /\ hw # "absent" /\ late = 0) =>
      /\ drv.p1 = IF dev.kb THEN PS2_DEV_MF2_KEYBOARD ELSE PS2_DEV_NONE
      /\ drv.p2 = IF dev.ms # "none" THEN 0 ELSE PS2_DEV_NONE
      /\ dev.ms # "none" => /\ dev.reporting
                            /\ drv.type = dev.id
                            /\ drv.size = IF dev.id = 0 THEN 3 ELSE 4
      /\ HasBit(config, 1) /\ HasBit(config, 2) /\ ~HasBit(config, 64)

(* However late answers come, what the driver has concluded is true of the *)
(* devices: a keyboard or a mouse it has found is there, and packets of    *)
(* four bytes are expected only from a mouse that has been told to send    *)
(* them.                                                                   *)
FoundIsThere ==
    /\ drv.p1 = PS2_DEV_MF2_KEYBOARD => dev.kb
    /\ drv.p2 = 0 => dev.ms # "none"
    /\ drv.size = 4 => dev.id \in {3, 4}
=============================================================================

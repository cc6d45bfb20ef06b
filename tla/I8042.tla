------------------------------- MODULE I8042 -------------------------------
(***************************************************************************)
(* Bringing up the keyboard: I8042Init (src/Shadow/DRV/PS2/I8042.C), then  *)
(* KbdInit and KbdSetLeds (KBD.C), talking through two I/O ports to the    *)
(* controller and through it to whatever sits on port 1.  Bytes of both    *)
(* share one output buffer with the keys somebody types meanwhile, so a    *)
(* reader can only know whose byte it takes by the order of the            *)
(* conversation.                                                           *)
(*                                                                         *)
(* `pc' is <<routine, step>>.  A step is one call of a primitive of I8042.C*)
(* except that I8042ReadData looks at the status and pops the byte in two. *)
(* A spin on the input buffer may run out; a spin for a byte runs out at   *)
(* any moment the device is silent, but never on an answer the controller  *)
(* owes: it "answers in microseconds" (I8042.C:254-256).                   *)
(***************************************************************************)
EXTENDS Integers, Sequences

CONSTANTS
  KeyBytes,       \* scancodes somebody may type
  FirmwareConfigs,\* configuration bytes the firmware may leave behind
  ResetConfigs,   \* configuration bytes a self-test may revert to
  MaxResends,     \* I8042_MAX_RESENDS
  MaxKeys,        \* bound on keys typed
  MaxGarbled,     \* bound on bytes that arrive with an error
  MaxLeds         \* bound on calls of KbdSetLeds

VARIABLES
  pc, seen,       \* where the driver is; the status its read has seen
  config,         \* the local variable Config
  resends,        \* resends honoured in the current I8042DeviceCommand
  port2,          \* I8042Port2Present
  live,           \* KbdLive, and with it the PIC's mask for IRQ1 lifted
  leds,           \* calls of KbdSetLeds
  cfg,            \* the controller's configuration byte
  reply,          \* the controller's answers, not yet in the output buffer
  out,            \* the output buffer: [full, byte, garbled, from]
  wire,           \* what the device has still to clock out: [byte, from]
  device,         \* what is on port 1
  scanning,       \* it reports keys
  hasPort2,       \* the controller has a second port
  keys, garbled,  \* keys typed, bytes garbled
  stolen          \* IRQ1's handler has taken a byte that was no key (history)

ASSUME ControllerAssumption ==
  /\ FirmwareConfigs \subseteq 0 .. 255
  /\ ResetConfigs \subseteq 0 .. 255
  /\ KeyBytes \subseteq 0 .. 255
  /\ MaxResends \in Nat

(* The keyboard's replies, PS2_DEV_ACK and PS2_DEV_RESEND (I8042.H:192-193), *)
(* are the scancodes of no key: a keyboard that typed them could answer the *)
(* handshake with keys.                                                    *)
ASSUME ScancodeAssumption == KeyBytes \cap {250, 254} = {}

locals == <<config, resends, port2, live, leds>>
host == <<pc, seen, locals>>
chip == <<cfg, reply, hasPort2>>
keyboard == <<wire, device, scanning, keys>>
bus == <<out, garbled, stolen>>
vars == <<host, chip, keyboard, bus>>

-----------------------------------------------------------------------------
(* The vocabulary of I8042.H and KBD.H.                                    *)
Int1 == 1
Int2 == 2
Clock1 == 16
Clock2 == 32
Translate == 64
Has(c, bit) == (c \div bit) % 2 = 1
With(c, bit) == IF Has(c, bit) THEN c ELSE c + bit
Without(c, bit) == IF Has(c, bit) THEN c - bit ELSE c

ReadConfig == 32
TestController == 170
DisablePort2 == 167
EnablePort2 == 168
TestPort2 == 169
DisablePort1 == 173
EnablePort1 == 174
TestPort1 == 171
Ack == 250
Resend == 254
Failed == 252
Passed == 170
TestOk == 85
DisableScan == 245
Reset == 255
Identify == 242
EnableScan == 244
SetLeds == 237
LedState == 2

-----------------------------------------------------------------------------
(* The controller: what a command does to the configuration byte and what  *)
(* it answers.  Both are sets: a self-test may revert the configuration    *)
(* and any test may fail.                                                  *)
ConfigsAfter(c) ==
  CASE c = DisablePort1 -> {With(cfg, Clock1)}
    [] c = EnablePort1 -> {Without(cfg, Clock1)}
    [] c = DisablePort2 /\ hasPort2 -> {With(cfg, Clock2)}
    [] c = EnablePort2 /\ hasPort2 -> {Without(cfg, Clock2)}
    [] c = TestController -> {cfg} \cup ResetConfigs
    [] OTHER -> {cfg}

Answers(c) ==
  CASE c = ReadConfig -> {<<cfg>>}
    [] c = TestController -> {<<TestOk>>, <<Failed>>}
    [] c = TestPort1 -> {<<0>>, <<1>>}
    [] c = TestPort2 -> {<<0>>, <<1>>, <<>>}
    [] OTHER -> {<<>>}

(* The device on port 1: what it says to a byte, and whether it then scans.*)
(* A reset keyboard may come back scanning or not.                         *)
Talks == device # "silent"
Extra(b) ==
  CASE b = Reset -> IF device = "broken" THEN {<<Failed>>} ELSE {<<Passed>>}
    [] b = Identify -> IF device = "other" THEN {<<0>>} ELSE {<<171, 65>>, <<171, 193>>}
    [] OTHER -> {<<>>}
ScansAfter(b) ==
  CASE device # "keyboard" -> {FALSE}
    [] device = "keyboard" /\ b = Reset -> BOOLEAN
    [] device = "keyboard" /\ b = EnableScan -> {TRUE}
    [] device = "keyboard" /\ b = DisableScan -> {FALSE}
    [] OTHER -> {scanning}

From(who, bytes) == [i \in DOMAIN bytes |-> [byte |-> bytes[i], from |-> who]]

DeviceHears(b) ==
  \/ /\ Talks /\ ~Has(cfg, Clock1)
     /\ \E extra \in Extra(b) : wire' = wire \o From("device", <<Ack>> \o extra)
     /\ scanning' \in ScansAfter(b)
     /\ UNCHANGED <<device, keys>>
  \/ /\ Talks /\ ~Has(cfg, Clock1)
     /\ \E refusal \in {Resend, Failed} : wire' = wire \o From("device", <<refusal>>)
     /\ UNCHANGED <<device, scanning, keys>>
  \/ /\ ~Talks \/ Has(cfg, Clock1)
     /\ UNCHANGED keyboard

Type ==
  /\ scanning /\ keys < MaxKeys
  /\ \E b \in KeyBytes : wire' = wire \o From("key", <<b>>)
  /\ keys' = keys + 1
  /\ UNCHANGED <<host, chip, device, scanning, bus>>

(* The next byte reaches the empty output buffer: the controller's own     *)
(* answers first, the device's when its clock runs.                        *)
Arrive ==
  /\ ~out.full
  /\ \/ /\ reply # <<>>
        /\ out' = [full |-> TRUE, byte |-> Head(reply), garbled |-> FALSE,
                   from |-> "controller"]
        /\ reply' = Tail(reply)
        /\ UNCHANGED <<wire, garbled>>
     \/ /\ reply = <<>> /\ wire # <<>> /\ ~Has(cfg, Clock1)
        /\ \E bad \in BOOLEAN :
             /\ bad => garbled < MaxGarbled
             /\ out' = [full |-> TRUE, byte |-> Head(wire).byte, garbled |-> bad,
                        from |-> Head(wire).from]
             /\ garbled' = IF bad THEN garbled + 1 ELSE garbled
        /\ wire' = Tail(wire)
        /\ UNCHANGED reply
  /\ UNCHANGED <<host, cfg, hasPort2, device, scanning, keys, stolen>>

(* KbdIrqHandler, as far as the buffer is concerned: it pops.              *)
Irq ==
  /\ live /\ out.full /\ Has(cfg, Int1)
  /\ out' = [out EXCEPT !.full = FALSE]
  /\ stolen' = (stolen \/ out.from # "key")
  /\ UNCHANGED <<host, chip, keyboard, garbled>>

-----------------------------------------------------------------------------
(* The primitives.  Each leaves the driver's locals to its caller.         *)
At(routine, step) == pc = <<routine, step>>

Command(c, next, otherwise) ==    \* I8042Command
  /\ UNCHANGED <<seen, keyboard, bus, hasPort2>>
  /\ \/ /\ cfg' \in ConfigsAfter(c)
        /\ \E answer \in Answers(c) : reply' = reply \o answer
        /\ pc' = next
     \/ /\ UNCHANGED <<cfg, reply>>         \* the input buffer stayed full
        /\ pc' = otherwise

CommandConfig(c, next, otherwise) == \* I8042CommandArg(PS2_CMD_WRITE_CFG_BYTE, c)
  /\ UNCHANGED <<seen, keyboard, bus, hasPort2, reply>>
  /\ \/ cfg' = c /\ pc' = next
     \/ UNCHANGED cfg /\ pc' = otherwise

(* I8042ReadData looks at the status, and then pops.  A bad byte is popped *)
(* and counts as none, like a spin that ran out.  The data register keeps  *)
(* the last byte, for a reader whose byte was popped under it.             *)
Pop ==
  /\ out' = [out EXCEPT !.full = FALSE]
  /\ seen' = "nothing"

StatusRead ==
  /\ seen = "nothing" /\ out.full
  /\ seen' = IF out.garbled THEN "bad" ELSE "good"
  /\ UNCHANGED <<pc, locals, out>>

NoByte ==
  \/ /\ seen = "nothing" /\ ~out.full /\ reply = <<>>
     /\ UNCHANGED <<seen, out>>
  \/ seen = "bad" /\ Pop

GoodByte == seen = "good" /\ Pop

(* Take(b) says what becomes of a good byte, Miss what a caller without    *)
(* one does.                                                               *)
ReadData(Take(_), Miss) ==
  /\ UNCHANGED <<chip, keyboard, garbled, stolen>>
  /\ \/ StatusRead
     \/ NoByte /\ Miss
     \/ GoodByte /\ Take(out.byte)

(* while (I8042ReadData(0, &Scratch)): a bad byte is popped and ends it.   *)
Drain(next) ==
  /\ out' = [out EXCEPT !.full = FALSE]
  /\ pc' = IF out.full /\ ~out.garbled THEN pc ELSE next
  /\ UNCHANGED <<seen, locals, chip, keyboard, garbled, stolen>>

Goto(next) == pc' = next /\ UNCHANGED locals

(* A configuration read: command 0x20, then the answer into Config.        *)
AskConfig(r, ask, read, next, otherwise) ==
  LET Keep(b) == /\ config' = b
                 /\ pc' = next
                 /\ UNCHANGED <<resends, port2, live, leds>>
  IN  \/ /\ At(r, ask)
         /\ Command(ReadConfig, <<r, read>>, otherwise)
         /\ UNCHANGED locals
      \/ /\ At(r, read)
         /\ ReadData(Keep, Goto(otherwise))

(* I8042DeviceCommand(1, b): a resend request is honoured MaxResends times.*)
MayResend == resends < MaxResends

NextResendKept == resends                     \* mutant: Retries is not counted down
NextResend == resends + 1

DeviceCommand(r, b, next, otherwise) ==
  LET Exit(l) == pc' = l /\ resends' = 0 /\ UNCHANGED <<config, port2, live, leds>>
      Judge(answer) ==
        \/ answer = Ack /\ Exit(next)
        \/ /\ answer = Resend /\ MayResend
           /\ pc' = <<r, "send">>
           /\ resends' = NextResend
           /\ UNCHANGED <<config, port2, live, leds>>
        \/ answer = Resend /\ ~MayResend /\ Exit(otherwise)
        \/ answer \notin {Ack, Resend} /\ Exit(otherwise)
  IN  \/ /\ At(r, "send")
         /\ \/ DeviceHears(b) /\ pc' = <<r, "answer">> /\ UNCHANGED locals
            \/ UNCHANGED keyboard /\ Exit(otherwise)
         /\ UNCHANGED <<seen, chip, bus>>
      \/ At(r, "answer") /\ ReadData(Judge, Exit(otherwise))

(* A read whose byte must be one of `expected'.                            *)
Expect(expected, next, otherwise) ==
  LET Judge(b) == Goto(IF b \in expected THEN next ELSE otherwise)
  IN  ReadData(Judge, Goto(otherwise))

-----------------------------------------------------------------------------
(* I8042Init.  Commands whose result the code ignores go on either way.    *)
R == "I8042Init"
Error == <<R, "error">>
Ready == <<R, "ready">>

Quieten ==
  \/ At(R, "gate1") /\ Command(DisablePort1, <<R, "gate2">>, <<R, "gate2">>) /\ UNCHANGED locals
  \/ At(R, "gate2") /\ Command(DisablePort2, <<R, "ask1">>, <<R, "ask1">>) /\ UNCHANGED locals
  \/ AskConfig(R, "ask1", "config1", <<R, "disarm">>, Error)
  \/ /\ At(R, "disarm")
     /\ CommandConfig(Without(Without(config, Int1), Int2), <<R, "drain">>, Error)
     /\ UNCHANGED locals
  \/ At(R, "drain") /\ Drain(<<R, "test">>)

SelfTest ==
  \/ At(R, "test") /\ Command(TestController, <<R, "verdict">>, Error) /\ UNCHANGED locals
  \/ At(R, "verdict") /\ Expect({TestOk}, <<R, "ask2">>, Error)

ProgrammedKeepingGates(c) == With(Without(Without(c, Int1), Int2), Translate) \* mutant
Programmed(c) ==
  With(With(With(Without(Without(c, Int1), Int2), Clock1), Clock2), Translate)

Program ==
  \/ AskConfig(R, "ask2", "config2", <<R, "program">>, Error)
  \/ /\ At(R, "program")
     /\ CommandConfig(Programmed(config), <<R, "probe">>, Error)
     /\ UNCHANGED locals

SetPort2(present, next) ==
  port2' = present /\ pc' = next /\ UNCHANGED <<config, resends, live, leds>>

(* Port 2 is there when its clock bit obeys 0xA8 and then 0xA7.            *)
ProbePort2 ==
  \/ At(R, "probe") /\ Command(EnablePort2, <<R, "ask3">>, <<R, "ask3">>) /\ UNCHANGED locals
  \/ AskConfig(R, "ask3", "config3", <<R, "obeyed">>, Error)
  \/ /\ At(R, "obeyed")
     /\ SetPort2(~Has(config, Clock2), IF Has(config, Clock2) THEN <<R, "port1">>
                                                             ELSE <<R, "unprobe">>)
     /\ UNCHANGED <<seen, chip, keyboard, bus>>
  \/ At(R, "unprobe") /\ Command(DisablePort2, <<R, "ask4">>, <<R, "ask4">>) /\ UNCHANGED locals
  \/ AskConfig(R, "ask4", "config4", <<R, "obeyed_again">>, <<R, "no_port2">>)
  \/ /\ At(R, "obeyed_again")
     /\ SetPort2(Has(config, Clock2), <<R, "port1">>)
     /\ UNCHANGED <<seen, chip, keyboard, bus>>
  \/ /\ At(R, "no_port2")
     /\ SetPort2(FALSE, <<R, "port1">>)
     /\ UNCHANGED <<seen, chip, keyboard, bus>>

TestPorts ==
  \/ At(R, "port1") /\ Command(TestPort1, <<R, "verdict1">>, Error) /\ UNCHANGED locals
  \/ At(R, "verdict1") /\ Expect({0}, IF port2 THEN <<R, "port2">> ELSE Ready, Error)
  \/ /\ At(R, "port2")
     /\ Command(TestPort2, <<R, "verdict2">>, <<R, "port2_broken">>)
     /\ UNCHANGED locals
  \/ At(R, "verdict2") /\ Expect({0}, Ready, <<R, "port2_broken">>)
  \/ /\ At(R, "port2_broken")
     /\ SetPort2(FALSE, Ready)
     /\ UNCHANGED <<seen, chip, keyboard, bus>>

I8042Init == Quieten \/ SelfTest \/ Program \/ ProbePort2 \/ TestPorts

-----------------------------------------------------------------------------
(* KbdInit, with I8042EnablePort(1) called twice and I8042DisablePort(1)   *)
(* when anything fails.                                                    *)
K == "KbdInit"
Degrade == <<"disable", "gate">>

EnablePort(r, next) ==
  \/ At(r, "drain") /\ Drain(<<r, "ask">>)
  \/ AskConfig(r, "ask", "config", <<r, "arm">>, Degrade)
  \/ /\ At(r, "arm")
     /\ CommandConfig(Without(With(config, Int1), Clock1), <<r, "gate">>, Degrade)
     /\ UNCHANGED locals
  \/ At(r, "gate") /\ Command(EnablePort1, next, Degrade) /\ UNCHANGED locals

DisablePortDisarmsFirst ==        \* mutant: the order of I8042EnablePort
  LET r == "disable" IN
  \/ At(r, "gate") /\ UNCHANGED <<seen, locals, chip, keyboard, bus>> /\ pc' = <<r, "ask">>
  \/ AskConfig(r, "ask", "config", <<r, "disarm">>, <<r, "gave_up">>)
  \/ /\ At(r, "disarm")
     /\ CommandConfig(With(Without(config, Int1), Clock1), <<r, "done">>, <<r, "gave_up">>)
     /\ UNCHANGED locals

DisablePort ==
  LET r == "disable" IN
  \/ At(r, "gate") /\ Command(DisablePort1, <<r, "ask">>, <<r, "refused">>) /\ UNCHANGED locals
  \/ AskConfig(r, "ask", "config", <<r, "disarm">>, <<r, "gave_up">>)
  \/ /\ At(r, "disarm")
     /\ CommandConfig(With(Without(config, Int1), Clock1), <<r, "done">>, <<r, "gave_up">>)
     /\ UNCHANGED locals

Unmute ==
  \/ /\ pc = Ready
     /\ Goto(<<K, "drain">>)
     /\ UNCHANGED <<seen, chip, keyboard, bus>>
  \/ At(K, "drain") /\ Drain(<<K, "ask">>)
  \/ AskConfig(K, "ask", "config", <<K, "unmute">>, Degrade)
  \/ /\ At(K, "unmute")
     /\ CommandConfig(Without(config, Clock1), <<K, "gate">>, Degrade)
     /\ UNCHANGED locals
  \/ At(K, "gate") /\ Command(EnablePort1, <<"enable", "drain">>, Degrade) /\ UNCHANGED locals

ConverseUnidentified ==           \* mutant: the identity bytes are not compared
  \/ DeviceCommand("scan_off", DisableScan, <<"reset", "send">>, Degrade)
  \/ DeviceCommand("reset", Reset, <<K, "bat">>, Degrade)
  \/ At(K, "bat") /\ Expect({Passed}, <<"identify", "send">>, Degrade)
  \/ DeviceCommand("identify", Identify, <<K, "id0">>, Degrade)
  \/ At(K, "id0") /\ Expect(0 .. 255, <<"scan_on", "send">>, Degrade)
  \/ DeviceCommand("scan_on", EnableScan, <<"enable_again", "drain">>, Degrade)

Converse ==
  \/ DeviceCommand("scan_off", DisableScan, <<"reset", "send">>, Degrade)
  \/ DeviceCommand("reset", Reset, <<K, "bat">>, Degrade)
  \/ At(K, "bat") /\ Expect({Passed}, <<"identify", "send">>, Degrade)
  \/ DeviceCommand("identify", Identify, <<K, "id0">>, Degrade)
  \/ At(K, "id0") /\ Expect({171}, <<K, "id1">>, Degrade)
  \/ At(K, "id1") /\ Expect({65, 193}, <<"scan_on", "send">>, Degrade)
  \/ DeviceCommand("scan_on", EnableScan, <<"enable_again", "drain">>, Degrade)

GoLive ==                         \* KbdLive = TRUE; IALEnableIrq(1)
  /\ At(K, "live")
  /\ live' = TRUE
  /\ pc' = <<K, "up">>
  /\ UNCHANGED <<seen, config, resends, port2, leds, chip, keyboard, bus>>

KbdInit ==
  \/ Unmute
  \/ EnablePort("enable", <<"scan_off", "send">>)
  \/ Converse
  \/ EnablePort("enable_again", <<K, "live">>)
  \/ GoLive
  \/ DisablePort

(* KbdSetLeds on a live keyboard: two handshakes, with IRQ1 enabled.       *)
Idling == <<K, "up">>
KbdSetLeds ==
  \/ /\ pc = Idling /\ live /\ leds < MaxLeds
     /\ leds' = leds + 1
     /\ pc' = <<"leds", "send">>
     /\ UNCHANGED <<seen, config, resends, port2, live, chip, keyboard, bus>>
  \/ DeviceCommand("leds", SetLeds, <<"led_state", "send">>, Idling)
  \/ DeviceCommand("led_state", LedState, Idling, Idling)

-----------------------------------------------------------------------------
Devices == {"keyboard", "broken", "other", "silent"}
Stray == [byte : {Passed}, from : {"device"}]

Init ==
  /\ pc = <<R, "gate1">> /\ seen = "nothing"
  /\ config = 0 /\ resends = 0 /\ port2 = FALSE /\ live = FALSE /\ leds = 0
  /\ cfg \in FirmwareConfigs
  /\ reply = <<>>
  /\ out \in [full : BOOLEAN, byte : {Passed}, garbled : {FALSE}, from : {"device"}]
  /\ device \in Devices
  /\ wire \in IF device = "silent" THEN {<<>>} ELSE {<<>>} \cup {<<s>> : s \in Stray}
  /\ scanning \in IF device = "keyboard" THEN BOOLEAN ELSE {FALSE}
  /\ hasPort2 \in BOOLEAN
  /\ keys = 0 /\ garbled = 0 /\ stolen = FALSE

Driver == I8042Init \/ KbdInit

Next == Driver \/ KbdSetLeds \/ Type \/ Arrive \/ Irq

(* The CPU runs the driver, the controller passes bytes on, and IRQ1 is    *)
(* taken while its line is up.                                             *)
Spec == Init /\ [][Next]_vars
          /\ WF_vars(Driver \/ KbdSetLeds) /\ WF_vars(Arrive) /\ WF_vars(Irq)

-----------------------------------------------------------------------------
Bytes == 0 .. 255
Routines == {R, K, "enable", "enable_again", "disable",
             "scan_off", "reset", "identify", "scan_on", "leds", "led_state"}
Steps == {"gate1", "gate2", "ask1", "config1", "disarm", "drain", "test", "verdict",
          "ask2", "config2", "program", "probe", "ask3", "config3", "obeyed", "unprobe",
          "ask4", "config4", "obeyed_again", "no_port2", "port1", "verdict1", "port2",
          "verdict2", "port2_broken", "ready", "error",
          "ask", "config", "unmute", "gate", "arm", "send", "answer", "bat", "id0", "id1",
          "live", "up", "done", "gave_up", "refused"}
TypeOK ==
  /\ pc \in Routines \X Steps
  /\ seen \in {"nothing", "good", "bad"}
  /\ config \in Bytes /\ cfg \in Bytes
  /\ resends \in 0 .. MaxResends
  /\ {port2, live, scanning, hasPort2, stolen} \subseteq BOOLEAN
  /\ out \in [full : BOOLEAN, byte : Bytes, garbled : BOOLEAN,
              from : {"controller", "device", "key"}]
  /\ \A i \in DOMAIN wire : wire[i] \in [byte : Bytes, from : {"device", "key"}]

Muted == Has(cfg, Clock1) /\ ~Has(cfg, Int1)
Ringing == Has(cfg, Int1) /\ ~Has(cfg, Clock1)

(* When I8042Init succeeds the controller is programmed as its comment     *)
(* promises and nobody's answer is left over, whatever the firmware, the   *)
(* device or somebody typing put in the buffer meanwhile; a second port it *)
(* vouches for exists and is muted (I8042.C:429-459).  One it gave up on   *)
(* because 0xA7 was not accepted may be left running.                      *)
ReadyMeansQuiet ==
  pc = Ready =>
    /\ Muted /\ ~Has(cfg, Int2) /\ Has(cfg, Translate)
    /\ reply = <<>>
    /\ port2 => hasPort2 /\ Has(cfg, Clock2)

(* The keyboard goes live only if there is one: it passed its self-test,   *)
(* named itself and scans; and then its bytes can ring (KBD.C:244-295).    *)
LiveIsKeyboard == live => device = "keyboard" /\ scanning /\ Ringing

(* Bring-up gives up for good, and silently: from the moment 0xAD has been *)
(* accepted no byte of the device reaches the output buffer again, though  *)
(* any of the steps that follow may fail half way, the configuration byte  *)
(* read back may be a byte the device had sent, and keys may be typed.     *)
(* That is what gating first and disarming last is for (I8042.C:366-408).  *)
(* Only a controller that refuses 0xAD itself is left as it was.           *)
Shutting == {<<"disable", s>> : s \in {"ask", "config", "disarm", "done", "gave_up"}}
StaysSilent ==
  /\ pc' \in Shutting
  /\ ~out.full /\ out'.full => out'.from = "controller"
GivenUpIsSilent == [][(pc \in Shutting) => StaysSilent]_vars

(* Every path through bring-up ends, with a device that answers nothing,   *)
(* answers garbage or asks for resends for ever (I8042.C:244-256).         *)
Over == {Error, Idling} \cup {<<"disable", s>> : s \in {"done", "gave_up", "refused"}}
BringUpEnds == <>(pc \in Over)

(* Violated: a keyboard that goes live is a translated one.  A key typed   *)
(* between the drain and the answer of the last I8042EnablePort is taken   *)
(* for the configuration byte and written back (I8042.C:311-323, 445-449). *)
LiveIsTranslated == live => Has(cfg, Translate)

(* Violated: the handler takes keys only; what the driver waits for waits  *)
(* in the buffer for its poll (KBD.C:244-245, 319-322).                    *)
RepliesReachTheDriver == ~stolen
=============================================================================

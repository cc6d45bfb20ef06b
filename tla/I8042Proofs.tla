---------------------------- MODULE I8042Proofs ----------------------------
(***************************************************************************)
(* Bringing up the keyboard, for any firmware, any device on port 1, any   *)
(* typing and any number of resends.  All rests on the conversation        *)
(* staying in step: `Pending' is what the driver will read, in order, and  *)
(* the invariant says at each step what may be in it.                      *)
(***************************************************************************)
EXTENDS I8042, SequenceTheorems, TLAPS

(* The bytes the driver will read next: the output buffer, the controller's*)
(* answers, and, once these are gone, what the device has said.            *)
Front == IF out.full THEN <<out.byte>> \o reply ELSE reply
Said == [i \in DOMAIN wire |-> wire[i].byte]
Pending == Front \o Said

(* A handshake's answers, and sequences that hold none, one at most, and   *)
(* none but at the end.                                                    *)
Handshake == {Ack, Resend}
Clean(s) == \A i \in 1 .. Len(s) : s[i] \notin Handshake
Once(s) ==
  \A i, j \in 1 .. Len(s) : i < j /\ s[i] \in Handshake => s[j] \notin Handshake
AtEnd(s) == \A i \in 1 .. Len(s) : s[i] \in Handshake => i = Len(s)

In(r, steps) == pc[1] = r /\ pc[2] \in steps
Gated == Has(cfg, Clock1) /\ Has(cfg, Translate) /\ ~Has(cfg, Int1) /\ ~Has(cfg, Int2)

(* Where the driver reads; elsewhere it has seen nothing.                  *)
Talking == {"scan_off", "reset", "identify", "scan_on"}
Reading ==
  \/ In(R, {"config1", "config2", "config3", "config4", "verdict", "verdict1", "verdict2"})
  \/ In(K, {"config", "bat", "id0", "id1"})
  \/ pc[1] \in {"enable", "enable_again", "disable"} /\ pc[2] = "config"
  \/ pc[1] \in Talking \cup {"leds", "led_state"} /\ pc[2] = "answer"

Message == [byte : Bytes, from : {"device", "key"}]
Typed ==
  /\ TypeOK
  /\ reply \in Seq(Bytes)
  /\ wire \in Seq(Message)
  /\ device \in Devices
  /\ device # "keyboard" => ~scanning

SeenInv == seen # "nothing" => Reading /\ (live \/ out.full)

(* Until the configuration byte is programmed one byte at most is ahead of *)
(* the answer the driver is waiting for.                                   *)
EarlyInv ==
  /\ In(R, {"gate1", "gate2", "ask1", "disarm", "drain", "test", "ask2", "program"}) =>
       Len(Front) <= 1
  /\ In(R, {"config1", "verdict", "config2"}) => Len(Front) <= 2

(* Then the clocks are off, so a byte that is ahead stays ahead; it is a   *)
(* configuration with the translation bit, which fails the test of port 1. *)
Offset == Len(Front) <= 1 /\ (Len(Front) = 1 => Has(Front[1], Translate))
Owed == Len(Front) \in {1, 2} /\ Front[Len(Front)] = cfg
SecondPort == port2 => hasPort2 /\ Has(cfg, Clock2)

ProgrammedInv ==
  /\ In(R, {"probe", "ask3", "config3", "obeyed", "unprobe", "ask4", "config4",
            "obeyed_again", "no_port2", "port1", "verdict1", "port2", "verdict2",
            "port2_broken", "ready"}) => Gated /\ (~hasPort2 => Has(cfg, Clock2))
  /\ In(R, {"probe", "ask3"}) => Len(Front) <= 1
  /\ In(R, {"config3"}) => Owed
  /\ In(R, {"obeyed", "unprobe", "ask4", "obeyed_again", "no_port2", "port1"}) => Offset
  /\ In(R, {"obeyed", "obeyed_again"}) => (Front = <<>> => config = cfg)
  /\ In(R, {"unprobe", "ask4", "obeyed_again"}) => (Front = <<>> => hasPort2)
  /\ In(R, {"config4"}) => Owed /\ Has(Front[1], Translate) /\ (Len(Front) = 1 => hasPort2)
  /\ In(R, {"port1"}) => (Front = <<>> => SecondPort)
  /\ In(R, {"verdict1"}) =>
       /\ Len(Front) \in {1, 2}
       /\ Len(Front) = 2 => Has(Front[1], Translate)
       /\ Len(Front) = 1 => SecondPort
  /\ In(R, {"port2", "port2_broken", "ready"}) => Front = <<>>
  /\ In(R, {"verdict2"}) => Len(Front) <= 1
  /\ In(R, {"port2", "verdict2", "ready"}) => SecondPort

(* KbdInit starts in step; a controller's answer left over once the clock  *)
(* runs is a configuration without the clock's bit, hence no handshake.    *)
UnmuteInv ==
  /\ In(K, {"drain", "ask", "config", "unmute"}) => Has(cfg, Clock1)
  /\ In(K, {"drain", "ask", "unmute"}) => Front = <<>>
  /\ In(K, {"config"}) => Len(Front) <= 1
  /\ In(K, {"gate"}) \/ In("enable", {"drain", "ask", "config"}) => ~Has(cfg, Clock1)
  /\ In(K, {"gate"}) \/ pc[1] = "enable" => Clean(Front)
  /\ pc[1] \in {R, "enable"} \/ In(K, {"drain", "ask", "config", "unmute", "gate"}) =>
       Clean(Said)

(* The conversation stays in step: at most one answer to a handshake is    *)
(* outstanding, and what is not a keyboard is found out.                   *)
ConverseInv ==
  /\ (pc[1] \in Talking /\ pc[2] = "send") \/ In(K, {"bat", "id0", "id1"}) => Clean(Pending)
  /\ pc[1] \in Talking /\ pc[2] = "answer" => Once(Pending)
  /\ In("scan_off", {"answer"}) =>
       /\ device # "keyboard" => AtEnd(Pending)
       /\ device = "silent" => Clean(Pending)
  /\ pc[1] = "reset" \/ In(K, {"bat"}) => device # "silent"
  /\ pc[1] = "identify" \/ In(K, {"id0"}) => device \in {"keyboard", "other"}
  /\ pc[1] \in {"reset", "identify"} /\ pc[2] = "send" /\ device # "keyboard" => Pending = <<>>
  /\ In("reset", {"answer"}) /\ device # "keyboard" =>
       \/ Pending \in {<<>>, <<Resend>>, <<Failed>>}
       \/ Pending = <<Ack, IF device = "broken" THEN Failed ELSE Passed>>
  /\ In(K, {"bat"}) /\ device # "keyboard" =>
       Pending = <<IF device = "broken" THEN Failed ELSE Passed>>
  /\ In("identify", {"answer"}) /\ device # "keyboard" =>
       Pending \in {<<>>, <<Resend>>, <<Failed>>, <<Ack, 0>>}
  /\ In(K, {"id0"}) /\ device # "keyboard" => Pending = <<0>>
  /\ pc[1] \in {"scan_on", "enable_again"} \/ In(K, {"id1", "live"}) => device = "keyboard"
  /\ In("scan_on", {"answer"}) => (\A i \in 1 .. Len(Pending) : Pending[i] = Ack => scanning)
  /\ pc[1] = "enable_again" \/ In(K, {"live"}) => scanning
  /\ In("enable_again", {"gate"}) \/ In(K, {"live"}) => Ringing

EndInv ==
  /\ live => /\ In(K, {"up"}) \/ pc[1] \in {"leds", "led_state"}
             /\ LiveIsKeyboard
  /\ pc[1] \in {"leds", "led_state"} => live
  /\ In("disable", {"ask", "config", "disarm", "done", "gave_up"}) => Has(cfg, Clock1)

IInv == Typed /\ SeenInv /\ EarlyInv /\ ProgrammedInv /\ UnmuteInv /\ ConverseInv /\ EndInv

-----------------------------------------------------------------------------
(* The bits of a configuration byte are independent.                       *)
BitSet == {Int1, Int2, Clock1, Clock2, Translate}

LEMMA AtMostOne ==
  ASSUME NEW n \in Nat, n <= 1
  PROVE  n = 0 \/ n = 1
OBVIOUS

LEMMA SetBit ==
  ASSUME NEW c \in Bytes, NEW b \in BitSet
  PROVE  With(c, b) \in Bytes /\ Has(With(c, b), b)
BY DEF Bytes, BitSet, Int1, Int2, Clock1, Clock2, Translate, Has, With

LEMMA ClearBit ==
  ASSUME NEW c \in Bytes, NEW b \in BitSet
  PROVE  Without(c, b) \in Bytes /\ ~Has(Without(c, b), b)
BY DEF Bytes, BitSet, Int1, Int2, Clock1, Clock2, Translate, Has, Without

LEMMA OtherBit ==
  ASSUME NEW c \in Bytes, NEW b \in BitSet, NEW d \in BitSet, b # d
  PROVE  /\ Has(With(c, b), d) <=> Has(c, d)
         /\ Has(Without(c, b), d) <=> Has(c, d)
<1> USE DEF Bytes, Int1, Int2, Clock1, Clock2, Translate, Has, With, Without
<1>1. CASE b = Int1
  <2>1. Has(With(c, b), d) <=> Has(c, d)
    BY <1>1 DEF BitSet
  <2>2. Has(Without(c, b), d) <=> Has(c, d)
    BY <1>1 DEF BitSet
  <2>. QED BY <2>1, <2>2
<1>2. CASE b = Int2
  <2>1. Has(With(c, b), d) <=> Has(c, d)
    BY <1>2 DEF BitSet
  <2>2. Has(Without(c, b), d) <=> Has(c, d)
    BY <1>2 DEF BitSet
  <2>. QED BY <2>1, <2>2
<1>3. CASE b = Clock1
  <2>1. Has(With(c, b), d) <=> Has(c, d)
    BY <1>3 DEF BitSet
  <2>2. Has(Without(c, b), d) <=> Has(c, d)
    BY <1>3 DEF BitSet
  <2>. QED BY <2>1, <2>2
<1>4. CASE b = Clock2
  <2>1. Has(With(c, b), d) <=> Has(c, d)
    BY <1>4 DEF BitSet
  <2>2. Has(Without(c, b), d) <=> Has(c, d)
    BY <1>4 DEF BitSet
  <2>. QED BY <2>1, <2>2
<1>5. CASE b = Translate
  <2>1. Has(With(c, b), d) <=> Has(c, d)
    BY <1>5 DEF BitSet
  <2>2. Has(Without(c, b), d) <=> Has(c, d)
    BY <1>5 DEF BitSet
  <2>. QED BY <2>1, <2>2
<1>. QED BY <1>1, <1>2, <1>3, <1>4, <1>5 DEF BitSet

(* What the driver writes: gated; armed; disarmed.                         *)
LEMMA WrittenConfigs ==
  ASSUME NEW c \in Bytes
  PROVE  /\ Programmed(c) \in Bytes
         /\ Has(Programmed(c), Clock1) /\ Has(Programmed(c), Clock2)
         /\ Has(Programmed(c), Translate)
         /\ ~Has(Programmed(c), Int1) /\ ~Has(Programmed(c), Int2)
         /\ Without(Without(c, Int1), Int2) \in Bytes
         /\ Without(With(c, Int1), Clock1) \in Bytes
         /\ Has(Without(With(c, Int1), Clock1), Int1)
         /\ ~Has(Without(With(c, Int1), Clock1), Clock1)
         /\ With(Without(c, Int1), Clock1) \in Bytes
         /\ Has(With(Without(c, Int1), Clock1), Clock1)
         /\ ~Has(With(Without(c, Int1), Clock1), Int1)
<1>1. /\ Int1 \in BitSet /\ Int2 \in BitSet /\ Clock1 \in BitSet
      /\ Clock2 \in BitSet /\ Translate \in BitSet
  BY DEF BitSet
<1>2. /\ Int1 # Int2 /\ Int1 # Clock1 /\ Int1 # Clock2 /\ Int1 # Translate
      /\ Int2 # Clock1 /\ Int2 # Clock2 /\ Int2 # Translate
      /\ Clock1 # Clock2 /\ Clock1 # Translate /\ Clock2 # Translate
  BY DEF Int1, Int2, Clock1, Clock2, Translate
<1> DEFINE c1 == Without(c, Int1)
           c2 == Without(c1, Int2)
           c3 == With(c2, Clock1)
           c4 == With(c3, Clock2)
           c5 == With(c4, Translate)
<1>3. c1 \in Bytes /\ ~Has(c1, Int1)
  BY <1>1, ClearBit
<1>4. c2 \in Bytes /\ ~Has(c2, Int1) /\ ~Has(c2, Int2)
  <2> HIDE DEF c1
  <2>. QED BY <1>1, <1>2, <1>3, ClearBit, OtherBit
<1>5. c3 \in Bytes /\ ~Has(c3, Int1) /\ ~Has(c3, Int2) /\ Has(c3, Clock1)
  <2> HIDE DEF c2
  <2>. QED BY <1>1, <1>2, <1>4, SetBit, OtherBit
<1>6. /\ c4 \in Bytes /\ ~Has(c4, Int1) /\ ~Has(c4, Int2) /\ Has(c4, Clock1)
      /\ Has(c4, Clock2)
  <2> HIDE DEF c3
  <2>. QED BY <1>1, <1>2, <1>5, SetBit, OtherBit
<1>7. /\ c5 \in Bytes /\ ~Has(c5, Int1) /\ ~Has(c5, Int2) /\ Has(c5, Clock1)
      /\ Has(c5, Clock2) /\ Has(c5, Translate)
  <2> HIDE DEF c4
  <2>. QED BY <1>1, <1>2, <1>6, SetBit, OtherBit
<1>8. /\ With(c1, Clock1) \in Bytes /\ Has(With(c1, Clock1), Clock1)
      /\ ~Has(With(c1, Clock1), Int1)
  <2> HIDE DEF c1
  <2>. QED BY <1>1, <1>2, <1>3, SetBit, OtherBit
<1>9. /\ With(c, Int1) \in Bytes /\ Has(With(c, Int1), Int1)
  BY <1>1, SetBit
<1>10. /\ Without(With(c, Int1), Clock1) \in Bytes
       /\ Has(Without(With(c, Int1), Clock1), Int1)
       /\ ~Has(Without(With(c, Int1), Clock1), Clock1)
  BY <1>1, <1>2, <1>9, ClearBit, OtherBit
<1>. QED BY <1>4, <1>7, <1>8, <1>10 DEF Programmed

(* A running clock's configuration is no answer to a handshake, and one    *)
(* with translation is no passed test.                                     *)
LEMMA ConfigsAreNoAnswers ==
  ASSUME NEW c \in Bytes
  PROVE  /\ ~Has(c, Clock1) => c \notin Handshake
         /\ Has(c, Translate) => c # 0
BY DEF Bytes, Has, Clock1, Translate, Handshake, Ack, Resend

-----------------------------------------------------------------------------
(* Sequences of bytes.                                                     *)
LEMMA CleanParts ==
  ASSUME NEW s \in Seq(Bytes), NEW t \in Seq(Bytes)
  PROVE  /\ Clean(s \o t) <=> Clean(s) /\ Clean(t)
         /\ Clean(<<>>)
         /\ s # <<>> /\ Clean(s) => Clean(Tail(s))
         /\ s # <<>> /\ Once(s) => Once(Tail(s))
         /\ s # <<>> /\ Once(s) /\ s[1] \in Handshake => Clean(Tail(s))
         /\ s # <<>> /\ AtEnd(s) /\ s[1] \in Handshake => Tail(s) = <<>>
         /\ Clean(s) => Once(s)
         /\ Clean(s) => AtEnd(s)
         /\ Once(s) /\ Clean(t) => Once(s \o t)
         /\ Clean(s) /\ Once(t) => Once(s \o t)
         /\ Clean(s) /\ AtEnd(t) => AtEnd(s \o t)
<1>1. Len(s) \in Nat /\ Len(t) \in Nat
  OBVIOUS
<1>2. /\ Len(s \o t) = Len(s) + Len(t)
      /\ \A i \in 1 .. Len(s) : (s \o t)[i] = s[i]
      /\ \A i \in (Len(s) + 1) .. (Len(s) + Len(t)) : (s \o t)[i] = t[i - Len(s)]
  OBVIOUS
<1>3. Clean(s \o t) => Clean(s)
  BY <1>1, <1>2 DEF Clean
<1>4. Clean(s \o t) => Clean(t)
  <2>1. \A i \in 1 .. Len(t) : (s \o t)[i + Len(s)] = t[i] /\ i + Len(s) \in 1 .. Len(s \o t)
    BY <1>1, <1>2
  <2>. QED BY <2>1 DEF Clean
<1>5. \A i \in 1 .. Len(s \o t) :
         \/ i \in 1 .. Len(s) /\ (s \o t)[i] = s[i]
         \/ i - Len(s) \in 1 .. Len(t) /\ (s \o t)[i] = t[i - Len(s)]
  BY <1>1, <1>2
<1>6. Clean(s) /\ Clean(t) => Clean(s \o t)
  BY <1>5 DEF Clean
<1>7. ASSUME s # <<>> PROVE /\ Len(Tail(s)) = Len(s) - 1 /\ Len(s) >= 1
                            /\ \A i \in 1 .. Len(Tail(s)) : Tail(s)[i] = s[i + 1] /\ i + 1 \in 2 .. Len(s)
  BY <1>1, <1>7
<1>8. ASSUME s # <<>>, Clean(s) PROVE Clean(Tail(s))
  BY <1>1, <1>7, <1>8 DEF Clean
<1>9. ASSUME s # <<>>, Once(s) PROVE Once(Tail(s))
  BY <1>1, <1>7, <1>9 DEF Once
<1>10. ASSUME s # <<>>, Once(s), s[1] \in Handshake PROVE Clean(Tail(s))
  <2>1. \A j \in 2 .. Len(s) : s[j] \notin Handshake
    BY <1>1, <1>7, <1>10 DEF Once
  <2>. QED BY <1>7, <1>10, <2>1 DEF Clean
<1>11. ASSUME s # <<>>, AtEnd(s), s[1] \in Handshake PROVE Tail(s) = <<>>
  <2>1. Len(s) >= 1 /\ Len(Tail(s)) = Len(s) - 1 /\ Tail(s) \in Seq(Bytes)
    BY <1>7, <1>11
  <2>2. 1 \in 1 .. Len(s)
    BY <1>1, <2>1
  <2>3. 1 = Len(s)
    BY <1>11, <2>2 DEF AtEnd
  <2>4. Len(Tail(s)) = 0
    <3> DEFINE n == Len(s)
               m == Len(Tail(s))
    <3>1. n = 1 /\ m = n - 1
      BY <2>1, <2>3
    <3> HIDE DEF n, m
    <3>2. m = 0
      BY <3>1
    <3>. QED BY <3>2 DEF m
  <2>. QED BY <2>1, <2>4, EmptySeq
<1>12. Clean(s) => Once(s) /\ AtEnd(s)
  BY DEF Clean, Once, AtEnd
<1>13. ASSUME Once(s), Clean(t) PROVE Once(s \o t)
  <2>1. SUFFICES ASSUME NEW i \in 1 .. Len(s \o t), NEW j \in 1 .. Len(s \o t), i < j,
                        (s \o t)[i] \in Handshake
                 PROVE  (s \o t)[j] \notin Handshake
    BY DEF Once
  <2>2. i \in 1 .. Len(s) /\ s[i] \in Handshake
    BY <1>5, <1>13, <2>1 DEF Clean
  <2>. QED BY <1>5, <1>13, <2>1, <2>2 DEF Clean, Once
<1>14. ASSUME Clean(s), Once(t) PROVE Once(s \o t)
  <2>1. SUFFICES ASSUME NEW i \in 1 .. Len(s \o t), NEW j \in 1 .. Len(s \o t), i < j,
                        (s \o t)[i] \in Handshake
                 PROVE  (s \o t)[j] \notin Handshake
    BY DEF Once
  <2>2. i - Len(s) \in 1 .. Len(t) /\ t[i - Len(s)] \in Handshake
    BY <1>5, <1>14, <2>1 DEF Clean
  <2>3. j - Len(s) \in 1 .. Len(t) /\ (s \o t)[j] = t[j - Len(s)] /\ i - Len(s) < j - Len(s)
    BY <1>1, <1>2, <2>1, <2>2
  <2>. QED BY <1>14, <2>2, <2>3 DEF Once
<1>15. ASSUME Clean(s), AtEnd(t) PROVE AtEnd(s \o t)
  <2>1. SUFFICES ASSUME NEW i \in 1 .. Len(s \o t), (s \o t)[i] \in Handshake
                 PROVE  i = Len(s \o t)
    BY DEF AtEnd
  <2>2. i - Len(s) \in 1 .. Len(t) /\ t[i - Len(s)] \in Handshake
    BY <1>5, <1>15, <2>1 DEF Clean
  <2>. QED BY <1>1, <1>2, <1>15, <2>2 DEF AtEnd
<1>16. Clean(<<>>)
  BY DEF Clean
<1>. QED
  BY <1>3, <1>4, <1>6, <1>8, <1>9, <1>10, <1>11, <1>12, <1>13, <1>14, <1>15, <1>16

(* A sequence of one or two bytes.                                         *)
LEMMA ShortSequences ==
  ASSUME NEW s \in Seq(Bytes), NEW b \in Bytes
  PROVE  /\ s \o <<>> = s
         /\ Len(s) = 0 <=> s = <<>>
         /\ s \o <<b>> \in Seq(Bytes)
         /\ Len(s \o <<b>>) = Len(s) + 1
         /\ (s \o <<b>>)[Len(s) + 1] = b
         /\ Len(s) >= 1 => (s \o <<b>>)[1] = s[1]
         /\ s # <<>> => Tail(s) \in Seq(Bytes) /\ Len(Tail(s)) = Len(s) - 1 /\ s[1] \in Bytes
         /\ Len(s) = 2 => Tail(s)[1] = s[2]
OBVIOUS

-----------------------------------------------------------------------------
(* What each kind of step does to the bytes waiting.                       *)
LEMMA FunctionIsSequence ==
  ASSUME NEW S, NEW n \in Nat, NEW f \in [1 .. n -> S]
  PROVE  f \in Seq(S) /\ Len(f) = n
OBVIOUS

LEMMA MessagesTyped ==
  ASSUME NEW w \in Seq(Message)
  PROVE  \A i \in DOMAIN w : w[i] \in [byte : Bytes, from : {"device", "key"}]
<1>1. \A i \in DOMAIN w : w[i] \in Message
  OBVIOUS
<1>. QED BY <1>1 DEF Message

LEMMA Waiting ==
  ASSUME Typed
  PROVE  /\ Front \in Seq(Bytes) /\ Said \in Seq(Bytes) /\ Pending \in Seq(Bytes)
         /\ Len(Said) = Len(wire)
         /\ out.full => Front = <<out.byte>> \o reply /\ Len(Front) = Len(reply) + 1
                        /\ Front[1] = out.byte
         /\ ~out.full => Front = reply
         /\ out.byte \in Bytes /\ out.full \in BOOLEAN
<1>1. out.byte \in Bytes /\ out.full \in BOOLEAN /\ reply \in Seq(Bytes)
  BY DEF Typed, TypeOK
<1>2. Said \in Seq(Bytes) /\ Len(Said) = Len(wire)
  <2>1. wire \in Seq(Message)
    BY DEF Typed
  <2>2. /\ Len(wire) \in Nat /\ DOMAIN wire = 1 .. Len(wire)
        /\ \A i \in DOMAIN wire : wire[i].byte \in Bytes
    <3>1. \A m \in Message : m.byte \in Bytes
      BY DEF Message
    <3>. QED BY <2>1, <3>1
  <2>3. Said \in [1 .. Len(wire) -> Bytes]
    BY <2>2 DEF Said
  <2>. QED BY <2>2, <2>3
<1>3. Front \in Seq(Bytes)
  BY <1>1 DEF Front
<1>4. Pending \in Seq(Bytes)
  BY <1>2, <1>3 DEF Pending
<1>5. ASSUME out.full
      PROVE  /\ Front = <<out.byte>> \o reply /\ Len(Front) = Len(reply) + 1
             /\ Front[1] = out.byte
  BY <1>1, <1>5 DEF Front
<1>6. ~out.full => Front = reply
  BY DEF Front
<1>. QED BY <1>1, <1>2, <1>3, <1>4, <1>5, <1>6

(* A byte is popped.                                                       *)
LEMMA Popped ==
  ASSUME Typed, out.full, out' = [out EXCEPT !.full = FALSE], reply' = reply, wire' = wire
  PROVE  /\ Front # <<>> /\ Front[1] = out.byte /\ Front' = Tail(Front)
         /\ Pending # <<>> /\ Pending[1] = out.byte /\ Pending' = Tail(Pending)
         /\ Said' = Said
         /\ out'.full = FALSE /\ out'.byte = out.byte
<1>1. /\ out.byte \in Bytes /\ reply \in Seq(Bytes) /\ Said \in Seq(Bytes)
      /\ Front = <<out.byte>> \o reply
  BY Waiting DEF Typed
<1>2. out'.full = FALSE /\ out'.byte = out.byte
  BY DEF Typed, TypeOK
<1>3. Front' = reply /\ Said' = Said
  BY <1>2 DEF Front, Said
<1>4. /\ <<out.byte>> \o reply # <<>> /\ (<<out.byte>> \o reply)[1] = out.byte
      /\ Tail(<<out.byte>> \o reply) = reply
  BY <1>1
<1>5. /\ (<<out.byte>> \o reply) \o Said # <<>>
      /\ ((<<out.byte>> \o reply) \o Said)[1] = out.byte
      /\ Tail((<<out.byte>> \o reply) \o Said) = reply \o Said
  BY <1>1
<1>. QED BY <1>1, <1>2, <1>3, <1>4, <1>5 DEF Pending

(* The controller answers.                                                 *)
LEMMA Answered ==
  ASSUME Typed, NEW a \in Seq(Bytes), reply' = reply \o a, out' = out, wire' = wire
  PROVE  Front' = Front \o a /\ Said' = Said
<1>1. out.byte \in Bytes /\ reply \in Seq(Bytes)
  BY Waiting DEF Typed
<1>2. (<<out.byte>> \o reply) \o a = <<out.byte>> \o (reply \o a)
  BY <1>1
<1>. QED BY <1>2 DEF Front, Said

(* Nothing moves.                                                          *)
LEMMA Unmoved ==
  ASSUME reply' = reply, out' = out, wire' = wire
  PROVE  Front' = Front /\ Said' = Said /\ Pending' = Pending
BY DEF Front, Said, Pending

(* Somebody at the other end of the wire speaks.                           *)
LEMMA Spoken ==
  ASSUME Typed, NEW bs \in Seq(Bytes), NEW who \in {"device", "key"},
         wire' = wire \o From(who, bs), out' = out, reply' = reply
  PROVE  /\ wire' \in Seq(Message)
         /\ Front' = Front /\ Said' = Said \o bs /\ Pending' = Pending \o bs
<1>1. wire \in Seq(Message) /\ Said \in Seq(Bytes) /\ Front \in Seq(Bytes)
  BY Waiting DEF Typed
<1>2. From(who, bs) \in Seq(Message) /\ Len(From(who, bs)) = Len(bs)
  <2>1. /\ Len(bs) \in Nat /\ DOMAIN bs = 1 .. Len(bs)
        /\ \A i \in 1 .. Len(bs) : bs[i] \in Bytes
    OBVIOUS
  <2>2. From(who, bs) \in [1 .. Len(bs) -> Message]
    BY <2>1 DEF From, Message
  <2>. QED BY <2>1, <2>2
<1>3. wire' \in Seq(Message) /\ Len(wire') = Len(wire) + Len(bs)
  <2> DEFINE f == From(who, bs)
  <2>1. wire \in Seq(Message) /\ f \in Seq(Message) /\ Len(f) = Len(bs) /\ wire' = wire \o f
    BY <1>1, <1>2
  <2> HIDE DEF f
  <2>2. wire \o f \in Seq(Message) /\ Len(wire \o f) = Len(wire) + Len(f)
    BY <2>1, ConcatProperties
  <2>. QED BY <2>1, <2>2
<1>4. Said' = Said \o bs
  <2>1. /\ Len(bs) \in Nat /\ Len(wire) \in Nat /\ DOMAIN wire = 1 .. Len(wire)
        /\ DOMAIN wire' = 1 .. (Len(wire) + Len(bs)) /\ Len(Said) = Len(wire)
    BY <1>1, <1>3, Waiting
  <2>2. \A i \in 1 .. Len(wire) : wire'[i] = wire[i]
    BY <1>1, <1>2, <2>1
  <2>3. \A i \in (Len(wire) + 1) .. (Len(wire) + Len(bs)) :
          /\ wire'[i] = From(who, bs)[i - Len(wire)]
          /\ i - Len(wire) \in 1 .. Len(bs)
    BY <1>1, <1>2, <2>1
  <2>4. \A i \in 1 .. Len(bs) : From(who, bs)[i].byte = bs[i]
    BY DEF From
  <2>5. \A i \in 1 .. Len(wire) : (Said \o bs)[i] = wire[i].byte
    BY <1>1, <2>1 DEF Said
  <2>6. \A i \in (Len(wire) + 1) .. (Len(wire) + Len(bs)) : (Said \o bs)[i] = bs[i - Len(wire)]
    BY <1>1, <2>1
  <2>7. \A i \in DOMAIN wire' : wire'[i].byte = (Said \o bs)[i]
    BY <2>1, <2>2, <2>3, <2>4, <2>5, <2>6
  <2>8. Said' \in Seq(Bytes) /\ Len(Said') = Len(wire) + Len(bs)
    <3>1. \A i \in 1 .. Len(wire') : wire'[i].byte \in Bytes
      <4>1. \A m \in Message : m.byte \in Bytes
        BY DEF Message
      <4>. QED BY <1>3, <4>1
    <3>2. Said' \in [1 .. (Len(wire) + Len(bs)) -> Bytes]
      BY <1>3, <2>1, <3>1 DEF Said
    <3>. QED BY <2>1, <3>2
  <2>9. (Said \o bs) \in Seq(Bytes) /\ Len(Said \o bs) = Len(wire) + Len(bs)
    <3> DEFINE t == Said
    <3>1. t \in Seq(Bytes) /\ Len(t) = Len(wire)
      BY <1>1, <2>1
    <3> HIDE DEF t
    <3>2. (t \o bs) \in Seq(Bytes) /\ Len(t \o bs) = Len(t) + Len(bs)
      BY <3>1, ConcatProperties
    <3>. QED BY <3>1, <3>2 DEF t
  <2>10. \A i \in 1 .. (Len(wire) + Len(bs)) : Said'[i] = (Said \o bs)[i]
    BY <2>1, <2>7 DEF Said
  <2>. QED BY <2>8, <2>9, <2>10, SeqEqual
<1>5. Front' = Front
  BY DEF Front
<1>6. Pending' = Pending \o bs
  <2>1. (Front \o Said) \o bs = Front \o (Said \o bs)
    BY <1>1, ConcatAssociative
  <2>. QED BY <1>4, <1>5, <2>1, Zenon DEF Pending
<1>. QED BY <1>3, <1>4, <1>5, <1>6

(* A byte reaches the output buffer.                                       *)
LEMMA Arrived ==
  ASSUME Typed, Arrive
  PROVE  /\ Pending' = Pending
         /\ \/ Front' = Front /\ Said' = Said
            \/ /\ Front = <<>> /\ Said # <<>> /\ ~Has(cfg, Clock1)
               /\ Front' = <<Said[1]>> /\ Said' = Tail(Said)
         /\ Typed'
<1>1. /\ wire \in Seq(Message) /\ Said \in Seq(Bytes) /\ Front \in Seq(Bytes)
      /\ reply \in Seq(Bytes) /\ ~out.full /\ Front = reply /\ Len(Said) = Len(wire)
  BY Waiting DEF Typed, Arrive
<1>2. CASE /\ reply # <<>>
           /\ out' = [full |-> TRUE, byte |-> Head(reply), garbled |-> FALSE,
                      from |-> "controller"]
           /\ reply' = Tail(reply) /\ UNCHANGED <<wire, garbled>>
  <2>1. Front' = <<Head(reply)>> \o Tail(reply)
    BY <1>2 DEF Front
  <2>2. <<Head(reply)>> \o Tail(reply) = reply
    BY <1>1, <1>2
  <2>3. Said' = Said
    BY <1>2 DEF Said
  <2>4. Head(reply) \in Bytes /\ Tail(reply) \in Seq(Bytes)
    BY <1>1, <1>2
  <2>5. Typed'
    <3>1. out' \in [full : BOOLEAN, byte : Bytes, garbled : BOOLEAN,
                    from : {"controller", "device", "key"}]
      BY <1>2, <2>4
    <3>2. /\ reply' \in Seq(Bytes) /\ wire' \in Seq(Message)
          /\ UNCHANGED <<host, cfg, hasPort2, device, scanning, keys, stolen>>
      BY <1>1, <1>2, <2>4 DEF Arrive
    <3>. QED BY <3>1, <3>2, MessagesTyped DEF Typed, TypeOK, host, locals
  <2>. QED BY <1>1, <2>1, <2>2, <2>3, <2>5 DEF Pending
<1>3. CASE /\ reply = <<>> /\ wire # <<>> /\ ~Has(cfg, Clock1)
           /\ \E bad \in BOOLEAN :
                /\ bad => garbled < MaxGarbled
                /\ out' = [full |-> TRUE, byte |-> Head(wire).byte, garbled |-> bad,
                           from |-> Head(wire).from]
                /\ garbled' = IF bad THEN garbled + 1 ELSE garbled
           /\ wire' = Tail(wire)
           /\ UNCHANGED reply
  <2>1. /\ Head(wire) = wire[1] /\ wire[1] \in Message /\ Tail(wire) \in Seq(Message)
        /\ Len(wire) \in Nat /\ Len(wire) >= 1 /\ Len(Tail(wire)) = Len(wire) - 1
        /\ \A i \in 1 .. (Len(wire) - 1) : Tail(wire)[i] = wire[i + 1]
    BY <1>1, <1>3
  <2>2. Said # <<>> /\ Said[1] = wire[1].byte
    <3>1. Len(Said) >= 1
      BY <1>1, <2>1
    <3>. QED BY <2>1, <3>1, EmptySeq DEF Said
  <2>3. Front' = <<Said[1]>> /\ Front = <<>>
    <3>1. <<Said[1]>> \o <<>> = <<Said[1]>>
      OBVIOUS
    <3>. QED BY <1>1, <1>3, <2>1, <2>2, <3>1 DEF Front
  <2>4. Said' = Tail(Said)
    <3>1. /\ Tail(Said) \in Seq(Bytes) /\ Len(Tail(Said)) = Len(wire) - 1
          /\ \A i \in 1 .. (Len(wire) - 1) : Tail(Said)[i] = Said[i + 1]
      BY <1>1, <2>1, <2>2
    <3>2. \A i \in 1 .. (Len(wire) - 1) : Said[i + 1] = wire[i + 1].byte
      BY <1>1, <2>1 DEF Said
    <3>3. DOMAIN wire' = 1 .. (Len(wire) - 1)
      BY <1>3, <2>1
    <3>4. \A i \in 1 .. (Len(wire) - 1) : Said'[i] = Tail(Said)[i]
      BY <1>3, <2>1, <3>1, <3>2, <3>3 DEF Said
    <3>5. Said' \in Seq(Bytes) /\ Len(Said') = Len(wire) - 1
      <4>1. \A i \in 1 .. (Len(wire) - 1) : wire'[i].byte \in Bytes
        <5>1. \A m \in Message : m.byte \in Bytes
          BY DEF Message
        <5>. QED BY <1>3, <2>1, <5>1
      <4>2. Said' \in [1 .. (Len(wire) - 1) -> Bytes]
        BY <3>3, <4>1 DEF Said
      <4>3. Len(wire) - 1 \in Nat
        BY <2>1
      <4>. QED BY <4>2, <4>3, FunctionIsSequence
    <3>. QED BY <3>1, <3>4, <3>5, SeqEqual
  <2>5. Pending' = Pending
    <3>1. <<Said[1]>> \o Tail(Said) = <<>> \o Said
      BY <1>1, <2>2
    <3>. QED BY <2>3, <2>4, <3>1 DEF Pending
  <2>6. Typed'
    <3>1. /\ wire[1].byte \in Bytes /\ wire[1].from \in {"device", "key"}
      BY <2>1 DEF Message
    <3>2. out' \in [full : BOOLEAN, byte : Bytes, garbled : BOOLEAN,
                    from : {"controller", "device", "key"}]
      BY <1>3, <2>1, <3>1
    <3>3. /\ reply' \in Seq(Bytes) /\ wire' \in Seq(Message)
          /\ UNCHANGED <<host, cfg, hasPort2, device, scanning, keys, stolen>>
      BY <1>1, <1>3, <2>1 DEF Arrive
    <3>. QED BY <3>2, <3>3, MessagesTyped DEF Typed, TypeOK, host, locals
  <2>. QED BY <1>3, <2>2, <2>3, <2>4, <2>5, <2>6
<1>. QED BY <1>2, <1>3 DEF Arrive

-----------------------------------------------------------------------------
(* The primitives, by what they do to the bytes ahead of the wire.         *)
Shrinks ==
  /\ Front # <<>> /\ Front' = Tail(Front)
  /\ Len(Front') = Len(Front) - 1
  /\ Len(Front) = 2 => Front'[1] = Front[2]
Grows(b) ==
  /\ Front' = Front \o <<b>>
  /\ Len(Front') = Len(Front) + 1
  /\ Front'[Len(Front')] = b
  /\ Len(Front) >= 1 => Front'[1] = Front[1]

LEMMA TailShrinks ==
  ASSUME Typed, Front # <<>>, Front' = Tail(Front)
  PROVE  Shrinks
<1>1. Front \in Seq(Bytes)
  BY Waiting
<1>. QED BY <1>1, ShortSequences DEF Shrinks

LEMMA AppendGrows ==
  ASSUME Typed, NEW b \in Bytes, Front' = Front \o <<b>>
  PROVE  Grows(b)
<1>1. Front \in Seq(Bytes)
  BY Waiting
<1>. QED BY <1>1, ShortSequences DEF Grows

LEMMA LabelParts == \A r, s : <<r, s>>[1] = r /\ <<r, s>>[2] = s
OBVIOUS

LEMMA FrontSize ==
  ASSUME Typed
  PROVE  Len(Front) \in Nat /\ (Len(Front) = 0 <=> Front = <<>>)
<1>1. Front \in Seq(Bytes)
  BY Waiting
<1>. QED BY <1>1

LEMMA FrontSizeNext ==
  ASSUME Typed'
  PROVE  Len(Front') \in Nat /\ (Len(Front') = 0 <=> Front' = <<>>)
<1>1. out'.byte \in Bytes /\ out'.full \in BOOLEAN /\ reply' \in Seq(Bytes)
  BY DEF Typed, TypeOK
<1>2. Front' \in Seq(Bytes)
  BY <1>1 DEF Front
<1>. QED BY <1>2

LEMMA ConfigStaysByte ==
  ASSUME Typed, NEW c
  PROVE  ConfigsAfter(c) \subseteq Bytes
<1>1. cfg \in Bytes /\ Clock1 \in BitSet /\ Clock2 \in BitSet
  BY DEF Typed, TypeOK, BitSet
<1>2. /\ With(cfg, Clock1) \in Bytes /\ Without(cfg, Clock1) \in Bytes
      /\ With(cfg, Clock2) \in Bytes /\ Without(cfg, Clock2) \in Bytes
  BY <1>1, SetBit, ClearBit
<1>3. ResetConfigs \subseteq Bytes
  BY ControllerAssumption DEF Bytes
<1>. QED BY <1>1, <1>2, <1>3 DEF ConfigsAfter

LEMMA AnswersAreBytes ==
  ASSUME Typed, NEW c, NEW a \in Answers(c)
  PROVE  a \in Seq(Bytes)
<1>1. /\ cfg \in Bytes /\ TestOk \in Bytes /\ Failed \in Bytes /\ 0 \in Bytes /\ 1 \in Bytes
  BY DEF Typed, TypeOK, Bytes, TestOk, Failed
<1>2. /\ <<cfg>> \in Seq(Bytes) /\ <<TestOk>> \in Seq(Bytes) /\ <<Failed>> \in Seq(Bytes)
      /\ <<0>> \in Seq(Bytes) /\ <<1>> \in Seq(Bytes) /\ <<>> \in Seq(Bytes)
  BY <1>1
<1>3. Answers(c) \in {{<<cfg>>}, {<<TestOk>>, <<Failed>>}, {<<0>>, <<1>>},
                     {<<0>>, <<1>>, <<>>}, {<<>>}}
  BY DEF Answers
<1>4. a \in {<<cfg>>, <<TestOk>>, <<Failed>>, <<0>>, <<1>>, <<>>}
  BY <1>3
<1>. QED BY <1>2, <1>4

LEMMA CommandEffect ==
  ASSUME Typed, NEW c, NEW next \in Routines \X Steps, NEW otherwise \in Routines \X Steps,
         Command(c, next, otherwise), UNCHANGED locals
  PROVE  /\ Typed' /\ Said' = Said /\ seen' = seen
         /\ UNCHANGED <<locals, hasPort2, device, scanning>>
         /\ \/ pc' = otherwise /\ cfg' = cfg /\ Front' = Front
            \/ /\ pc' = next /\ cfg' \in ConfigsAfter(c)
               /\ \E a \in Answers(c) : Front' = Front \o a
<1>1. UNCHANGED <<seen, hasPort2, locals, wire, device, scanning, keys, out, garbled, stolen>>
  BY DEF Command, keyboard, bus
<1>2. CASE UNCHANGED <<cfg, reply>> /\ pc' = otherwise
  <2>1. Typed'
    BY <1>1, <1>2 DEF Typed, TypeOK, locals
  <2>. QED BY <1>1, <1>2, <2>1, Unmoved
<1>3. CASE /\ cfg' \in ConfigsAfter(c) /\ pc' = next
           /\ \E answer \in Answers(c) : reply' = reply \o answer
  <2>1. PICK a \in Answers(c) : reply' = reply \o a
    BY <1>3
  <2>2. a \in Seq(Bytes) /\ cfg' \in Bytes
    BY <1>3, AnswersAreBytes, ConfigStaysByte
  <2>3. Front' = Front \o a /\ Said' = Said
    BY <1>1, <2>1, <2>2, Answered
  <2>4. reply' \in Seq(Bytes)
    BY <2>1, <2>2 DEF Typed
  <2>5. Typed'
    BY <1>1, <1>3, <2>2, <2>4 DEF Typed, TypeOK, locals
  <2>. QED BY <1>1, <1>3, <2>3, <2>5
<1>. QED BY <1>2, <1>3 DEF Command

(* The commands that are not answered, and a configuration asked for.      *)
LEMMA SilentCommand ==
  ASSUME Typed, NEW c \in {DisablePort1, EnablePort1, DisablePort2, EnablePort2}
  PROVE  \A a \in Answers(c) : Front \o a = Front
<1>1. Front \in Seq(Bytes)
  BY Waiting
<1>2. Front \o <<>> = Front
  BY <1>1
<1>3. Answers(c) = {<<>>}
  BY DEF Answers, DisablePort1, EnablePort1, DisablePort2, EnablePort2, ReadConfig,
         TestController, TestPort1, TestPort2
<1>. QED BY <1>2, <1>3

LEMMA ConfigEffect ==
  ASSUME Typed, NEW c \in Bytes, NEW next \in Routines \X Steps,
         NEW otherwise \in Routines \X Steps, CommandConfig(c, next, otherwise), UNCHANGED locals
  PROVE  /\ Typed' /\ Front' = Front /\ Said' = Said /\ seen' = seen
         /\ UNCHANGED <<locals, hasPort2, device, scanning>>
         /\ \/ pc' = otherwise /\ cfg' = cfg
            \/ pc' = next /\ cfg' = c
<1>1. UNCHANGED <<seen, hasPort2, locals, wire, device, scanning, keys, out, garbled, stolen, reply>>
  BY DEF CommandConfig, keyboard, bus
<1>2. cfg' \in Bytes /\ pc' \in Routines \X Steps
  BY DEF CommandConfig, Typed, TypeOK
<1>3. Typed'
  BY <1>1, <1>2 DEF Typed, TypeOK, locals
<1>. QED BY <1>1, <1>3, Unmoved DEF CommandConfig

LEMMA DrainEffect ==
  ASSUME Typed, NEW next \in Routines \X Steps, Drain(next)
  PROVE  /\ Typed' /\ Said' = Said /\ seen' = seen
         /\ UNCHANGED <<locals, cfg, hasPort2, device, scanning>>
         /\ (Front' = Front) \/ Shrinks
         /\ pc' \in {pc, next}
<1>1. UNCHANGED <<seen, locals, cfg, reply, hasPort2, wire, device, scanning, keys, garbled, stolen>>
  BY DEF Drain, chip, keyboard
<1>2. /\ out' = [out EXCEPT !.full = FALSE] /\ pc' \in {pc, next}
      /\ pc' \in Routines \X Steps
  BY DEF Drain, Typed, TypeOK
<1>3. Typed'
  BY <1>1, <1>2 DEF Typed, TypeOK, locals
<1>4. Said' = Said
  BY <1>1 DEF Said
<1>5. CASE out.full
  BY <1>1, <1>2, <1>3, <1>4, <1>5, Popped, TailShrinks
<1>6. CASE ~out.full
  <2>1. out' = out
    BY <1>2, <1>6 DEF Typed, TypeOK
  <2>. QED BY <1>1, <1>2, <1>3, <2>1, Unmoved
<1>. QED BY <1>5, <1>6

(* A read, as the routines that wait for a byte make it: it looks, misses  *)
(* or takes.  Nothing but its own pop empties the buffer meanwhile, for    *)
(* the interrupt is still masked.                                          *)
Misses == Front' = Front /\ Front = <<>> /\ Pending' = Pending

LEMMA ReadParts ==
  ASSUME Typed, SeenInv, ~live, UNCHANGED <<chip, keyboard, garbled, stolen>>
  PROVE  /\ StatusRead =>
              /\ UNCHANGED <<pc, locals>> /\ Front' = Front /\ Pending' = Pending
              /\ Said' = Said /\ seen' \in {"good", "bad"} /\ out'.full = TRUE
              /\ out' = out
         /\ NoByte =>
              /\ Misses \/ (Shrinks /\ Pending # <<>> /\ Pending' = Tail(Pending))
              /\ Said' = Said /\ seen' = "nothing"
              /\ out' \in [full : BOOLEAN, byte : Bytes, garbled : BOOLEAN,
                           from : {"controller", "device", "key"}]
         /\ GoodByte =>
              /\ Shrinks /\ Pending # <<>> /\ Pending' = Tail(Pending)
              /\ Pending[1] = out.byte /\ Front[1] = out.byte
              /\ Said' = Said /\ seen' = "nothing"
              /\ out' \in [full : BOOLEAN, byte : Bytes, garbled : BOOLEAN,
                           from : {"controller", "device", "key"}]
<1>1. reply' = reply /\ wire' = wire
  BY DEF chip, keyboard
<1>2. out \in [full : BOOLEAN, byte : Bytes, garbled : BOOLEAN,
               from : {"controller", "device", "key"}]
  BY DEF Typed, TypeOK
<1>3. ASSUME StatusRead
      PROVE  /\ UNCHANGED <<pc, locals>> /\ Front' = Front /\ Pending' = Pending
             /\ Said' = Said /\ seen' \in {"good", "bad"} /\ out'.full = TRUE
             /\ out' = out
  <2>1. out' = out /\ out.full = TRUE /\ seen' \in {"good", "bad"} /\ UNCHANGED <<pc, locals>>
    BY <1>2, <1>3 DEF StatusRead
  <2>. QED BY <1>1, <2>1, Unmoved
<1>4. ASSUME Pop, out.full
      PROVE  /\ Shrinks /\ Pending # <<>> /\ Pending' = Tail(Pending)
             /\ Pending[1] = out.byte /\ Front[1] = out.byte
             /\ Said' = Said /\ seen' = "nothing"
             /\ out' \in [full : BOOLEAN, byte : Bytes, garbled : BOOLEAN,
                          from : {"controller", "device", "key"}]
  <2>1. out' = [out EXCEPT !.full = FALSE] /\ seen' = "nothing"
    BY <1>4 DEF Pop
  <2>2. /\ Front # <<>> /\ Front[1] = out.byte /\ Front' = Tail(Front)
        /\ Pending # <<>> /\ Pending[1] = out.byte /\ Pending' = Tail(Pending)
        /\ Said' = Said
    BY <1>1, <1>4, <2>1, Popped
  <2>3. Shrinks
    BY <2>2, TailShrinks
  <2>. QED BY <1>2, <2>1, <2>2, <2>3
<1>5. ASSUME NoByte
      PROVE  /\ Misses \/ (Shrinks /\ Pending # <<>> /\ Pending' = Tail(Pending))
             /\ Said' = Said /\ seen' = "nothing"
             /\ out' \in [full : BOOLEAN, byte : Bytes, garbled : BOOLEAN,
                          from : {"controller", "device", "key"}]
  <2>1. CASE seen = "nothing" /\ ~out.full /\ reply = <<>> /\ UNCHANGED <<seen, out>>
    <3>1. Front' = Front /\ Said' = Said /\ Pending' = Pending
      BY <1>1, <2>1, Unmoved
    <3>2. Front = <<>>
      BY <2>1 DEF Front
    <3>. QED BY <1>2, <2>1, <3>1, <3>2 DEF Misses
  <2>2. CASE seen = "bad" /\ Pop
    <3>1. out.full
      BY <2>2 DEF SeenInv
    <3>. QED BY <1>4, <2>2, <3>1
  <2>. QED BY <1>5, <2>1, <2>2 DEF NoByte
<1>6. ASSUME GoodByte PROVE Pop /\ out.full
  BY <1>6 DEF GoodByte, SeenInv
<1>. QED BY <1>3, <1>4, <1>5, <1>6

LEMMA AskEffect ==
  ASSUME Typed, SeenInv, ~live,
         NEW r \in Routines, NEW ask \in Steps, NEW read \in Steps, ask # read,
         NEW next \in Routines \X Steps, NEW otherwise \in Routines \X Steps,
         AskConfig(r, ask, read, next, otherwise),
         pc = <<r, ask>> => ~Reading, pc = <<r, read>> => Reading
  PROVE  /\ Typed' /\ SeenInv' /\ Said' = Said /\ live' = live
         /\ UNCHANGED <<cfg, hasPort2, port2, device, scanning>>
         /\ \/ /\ pc = <<r, ask>> /\ config' = config
               /\ \/ pc' = <<r, read>> /\ Grows(cfg)
                  \/ pc' = otherwise /\ Front' = Front
            \/ /\ pc = <<r, read>>
               /\ \/ pc' = pc /\ config' = config /\ Front' = Front
                  \/ /\ pc' = otherwise /\ config' = config
                     /\ (Front' = Front /\ Front = <<>>) \/ Shrinks
                  \/ pc' = next /\ config' = Front[1] /\ Shrinks
<1>0. cfg \in Bytes /\ out.byte \in Bytes
  BY Waiting DEF Typed, TypeOK
<1>1. CASE /\ At(r, ask) /\ Command(ReadConfig, <<r, read>>, otherwise) /\ UNCHANGED locals
  <2>1. /\ Typed' /\ Said' = Said /\ seen' = seen
        /\ UNCHANGED <<locals, hasPort2, device, scanning>>
        /\ \/ pc' = otherwise /\ cfg' = cfg /\ Front' = Front
           \/ /\ pc' = <<r, read>> /\ cfg' \in ConfigsAfter(ReadConfig)
              /\ \E a \in Answers(ReadConfig) : Front' = Front \o a
    BY <1>1, CommandEffect
  <2>2. /\ ConfigsAfter(ReadConfig) = {cfg} /\ Answers(ReadConfig) = {<<cfg>>}
    BY DEF ConfigsAfter, Answers, ReadConfig, DisablePort1, EnablePort1, DisablePort2,
           EnablePort2, TestController, TestPort1, TestPort2
  <2>3. seen' = "nothing"
    BY <1>1, <2>1 DEF SeenInv, At
  <2>4. SeenInv'
    BY <2>3 DEF SeenInv
  <2>5. Front' = Front \o <<cfg>> => Grows(cfg)
    BY <1>0, AppendGrows
  <2>. QED BY <1>1, <2>1, <2>2, <2>4, <2>5 DEF At, locals
<1>2. CASE At(r, read) /\ ~At(r, ask)
  <2>1. /\ UNCHANGED <<chip, keyboard, garbled, stolen>>
        /\ \/ StatusRead
           \/ NoByte /\ Goto(otherwise)
           \/ GoodByte /\ config' = out.byte /\ pc' = next /\ UNCHANGED <<resends, port2, live, leds>>
    BY <1>2 DEF AskConfig, ReadData
  <2>2. CASE StatusRead
    <3>1. /\ UNCHANGED <<pc, locals>> /\ Front' = Front /\ Said' = Said
          /\ seen' \in {"good", "bad"} /\ out'.full = TRUE /\ out' = out
      BY <2>1, <2>2, ReadParts
    <3>2. Typed'
      BY <2>1, <3>1 DEF Typed, TypeOK, chip, keyboard, locals
    <3>3. SeenInv'
      BY <1>2, <3>1 DEF SeenInv, Reading, In, At
    <3>. QED BY <1>2, <2>1, <3>1, <3>2, <3>3 DEF At, chip, keyboard, locals
  <2>3. CASE NoByte /\ Goto(otherwise)
    <3>1. /\ Misses \/ Shrinks
          /\ Said' = Said /\ seen' = "nothing"
          /\ out' \in [full : BOOLEAN, byte : Bytes, garbled : BOOLEAN,
                       from : {"controller", "device", "key"}]
      BY <2>1, <2>3, ReadParts
    <3>2. Typed'
      BY <2>1, <2>3, <3>1 DEF Typed, TypeOK, chip, keyboard, Goto, locals
    <3>3. SeenInv'
      BY <3>1 DEF SeenInv
    <3>. QED BY <1>2, <2>1, <2>3, <3>1, <3>2, <3>3 DEF At, chip, keyboard, Goto, locals, Misses
  <2>4. CASE GoodByte /\ config' = out.byte /\ pc' = next /\ UNCHANGED <<resends, port2, live, leds>>
    <3>1. /\ Shrinks /\ Front[1] = out.byte
          /\ Said' = Said /\ seen' = "nothing"
          /\ out' \in [full : BOOLEAN, byte : Bytes, garbled : BOOLEAN,
                       from : {"controller", "device", "key"}]
      BY <2>1, <2>4, ReadParts
    <3>2. Typed'
      BY <1>0, <2>1, <2>4, <3>1 DEF Typed, TypeOK, chip, keyboard
    <3>3. SeenInv'
      BY <3>1 DEF SeenInv
    <3>. QED BY <1>2, <2>1, <2>4, <3>1, <3>2, <3>3 DEF At, chip, keyboard
  <2>. QED BY <2>1, <2>2, <2>3, <2>4
<1>3. At(r, read) => ~At(r, ask)
  BY LabelParts DEF At
<1>4. \/ At(r, ask) /\ Command(ReadConfig, <<r, read>>, otherwise) /\ UNCHANGED locals
      \/ At(r, read)
  BY DEF AskConfig
<1>. QED BY <1>1, <1>2, <1>3, <1>4

LEMMA ExpectEffect ==
  ASSUME Typed, SeenInv, ~live, Reading, NEW expected,
         NEW next \in Routines \X Steps, NEW otherwise \in Routines \X Steps,
         Expect(expected, next, otherwise)
  PROVE  /\ Typed' /\ SeenInv' /\ Said' = Said
         /\ UNCHANGED <<cfg, hasPort2, port2, live, config, device, scanning>>
         /\ \/ pc' = pc /\ Front' = Front /\ Pending' = Pending
            \/ /\ pc' = otherwise
               /\ (Front' = Front /\ Front = <<>>) \/ Shrinks
            \/ /\ pc' = next /\ Front[1] \in expected /\ Shrinks
               /\ Pending # <<>> /\ Pending[1] \in expected /\ Pending' = Tail(Pending)
<1>1. /\ UNCHANGED <<chip, keyboard, garbled, stolen>>
      /\ \/ StatusRead
         \/ NoByte /\ Goto(otherwise)
         \/ GoodByte /\ Goto(IF out.byte \in expected THEN next ELSE otherwise)
  BY DEF Expect, ReadData
<1>2. CASE StatusRead
  <2>1. /\ UNCHANGED <<pc, locals>> /\ Front' = Front /\ Said' = Said /\ Pending' = Pending
        /\ seen' \in {"good", "bad"} /\ out'.full = TRUE /\ out' = out
    BY <1>1, <1>2, ReadParts
  <2>2. Typed'
    BY <1>1, <2>1 DEF Typed, TypeOK, chip, keyboard, locals
  <2>3. SeenInv'
    BY <2>1 DEF SeenInv, Reading, In
  <2>. QED BY <1>1, <2>1, <2>2, <2>3 DEF chip, keyboard, locals
<1>3. CASE NoByte /\ Goto(otherwise)
  <2>1. /\ Misses \/ Shrinks
        /\ Said' = Said /\ seen' = "nothing"
        /\ out' \in [full : BOOLEAN, byte : Bytes, garbled : BOOLEAN,
                     from : {"controller", "device", "key"}]
    BY <1>1, <1>3, ReadParts
  <2>2. Typed'
    BY <1>1, <1>3, <2>1 DEF Typed, TypeOK, chip, keyboard, Goto, locals
  <2>3. SeenInv'
    BY <2>1 DEF SeenInv
  <2>. QED BY <1>1, <1>3, <2>1, <2>2, <2>3 DEF chip, keyboard, Goto, locals, Misses
<1>4. CASE GoodByte /\ Goto(IF out.byte \in expected THEN next ELSE otherwise)
  <2>1. /\ Shrinks /\ Front[1] = out.byte
        /\ Pending # <<>> /\ Pending[1] = out.byte /\ Pending' = Tail(Pending)
        /\ Said' = Said /\ seen' = "nothing"
        /\ out' \in [full : BOOLEAN, byte : Bytes, garbled : BOOLEAN,
                     from : {"controller", "device", "key"}]
    BY <1>1, <1>4, ReadParts
  <2>2. pc' \in Routines \X Steps /\ UNCHANGED locals
    BY <1>4 DEF Goto
  <2>3. Typed'
    BY <1>1, <2>1, <2>2 DEF Typed, TypeOK, chip, keyboard, locals
  <2>4. SeenInv'
    BY <2>1 DEF SeenInv
  <2>. QED BY <1>1, <1>4, <2>1, <2>2, <2>3, <2>4 DEF chip, keyboard, Goto, locals
<1>. QED BY <1>1, <1>2, <1>3, <1>4

-----------------------------------------------------------------------------
(* Which parts of the invariant a region of the program bears on.          *)
LEMMA LeavesI8042Init ==
  ASSUME pc'[1] # R
  PROVE  EarlyInv' /\ ProgrammedInv'
BY DEF EarlyInv, ProgrammedInv, In

LEMMA StaysInI8042Init ==
  ASSUME pc'[1] = R, Clean(Said)', live' = FALSE
  PROVE  UnmuteInv' /\ ConverseInv' /\ EndInv'
BY DEF UnmuteInv, ConverseInv, EndInv, In, R, K, Talking

LEMMA GivesUp ==
  ASSUME Typed', SeenInv', pc'[1] = "disable", live' = FALSE,
         pc'[2] \in {"gate", "refused"} \/ Has(cfg', Clock1)
  PROVE  IInv'
<1>1. EarlyInv' /\ ProgrammedInv'
  BY DEF EarlyInv, ProgrammedInv, In, R
<1>2. UnmuteInv' /\ ConverseInv' /\ EndInv'
  BY DEF UnmuteInv, ConverseInv, EndInv, In, R, K, Talking
<1>. QED BY <1>1, <1>2 DEF IInv

LEMMA NotLive ==
  ASSUME IInv, ~(In(K, {"up"}) \/ pc[1] \in {"leds", "led_state"})
  PROVE  live = FALSE
BY DEF IInv, EndInv, Typed, TypeOK

-----------------------------------------------------------------------------
(* A step within I8042Init has the answers in the buffer to see to.        *)
LEMMA InitStep ==
  ASSUME IInv, pc[1] = R, pc'[1] = R, Typed', Said' = Said, live' = live,
         SeenInv' \/ (seen' = seen /\ ~Reading), EarlyInv', ProgrammedInv'
  PROVE  IInv'
<1>1. live = FALSE
  BY NotLive DEF In, R, K
<1>2. Clean(Said)'
  BY DEF IInv, UnmuteInv, Clean
<1>3. SeenInv'
  BY DEF IInv, SeenInv
<1>. QED BY <1>1, <1>2, <1>3, StaysInI8042Init DEF IInv

(* What a step of I8042Init may count on.                                  *)
InitKnows(s) ==
  /\ pc = <<R, s>> /\ pc[1] = R /\ pc[2] = s
  /\ live = FALSE /\ Typed /\ SeenInv
  /\ Len(Front) \in Nat /\ (Len(Front) = 0 <=> Front = <<>>)
  /\ cfg \in Bytes /\ config \in Bytes
  /\ R \in Routines /\ Error \in Routines \X Steps

LEMMA InitFacts ==
  ASSUME IInv, NEW s, pc = <<R, s>>
  PROVE  InitKnows(s)
<1>1. pc[1] = R /\ pc[2] = s /\ R \in Routines /\ Error \in Routines \X Steps
  BY LabelParts DEF Routines, Steps, Error
<1>2. live = FALSE
  BY <1>1, NotLive DEF In, R, K
<1>. QED BY <1>1, <1>2, FrontSize DEF IInv, Typed, TypeOK, InitKnows

LEMMA QuietenPreserves == IInv /\ Quieten => IInv'
<1> SUFFICES ASSUME IInv, Quieten PROVE IInv'
  OBVIOUS
<1>1. CASE At(R, "gate1") /\ Command(DisablePort1, <<R, "gate2">>, <<R, "gate2">>) /\ UNCHANGED locals
  <2>0. InitKnows("gate1") /\ <<R, "gate2">> \in Routines \X Steps
    BY <1>1, InitFacts DEF Routines, Steps, At
  <2>1. /\ Typed' /\ Said' = Said /\ seen' = seen /\ live' = live
        /\ Front' = Front /\ pc' = <<R, "gate2">>
    BY <1>1, <2>0, CommandEffect, SilentCommand DEF InitKnows, locals
  <2>2. pc'[1] = R /\ pc'[2] = "gate2"
    BY <2>1, LabelParts
  <2>3. ~Reading
    BY <2>0 DEF InitKnows, Reading, In, R, K, Talking
  <2>4. EarlyInv' /\ ProgrammedInv'
    BY <2>0, <2>1, <2>2 DEF IInv, InitKnows, EarlyInv, ProgrammedInv, In
  <2>. QED BY <2>0, <2>1, <2>2, <2>3, <2>4, InitStep DEF InitKnows
<1>2. CASE At(R, "gate2") /\ Command(DisablePort2, <<R, "ask1">>, <<R, "ask1">>) /\ UNCHANGED locals
  <2>0. InitKnows("gate2") /\ <<R, "ask1">> \in Routines \X Steps
    BY <1>2, InitFacts DEF Routines, Steps, At
  <2>1. /\ Typed' /\ Said' = Said /\ seen' = seen /\ live' = live
        /\ Front' = Front /\ pc' = <<R, "ask1">>
    BY <1>2, <2>0, CommandEffect, SilentCommand DEF InitKnows, locals
  <2>2. pc'[1] = R /\ pc'[2] = "ask1"
    BY <2>1, LabelParts
  <2>3. ~Reading
    BY <2>0 DEF InitKnows, Reading, In, R, K, Talking
  <2>4. EarlyInv' /\ ProgrammedInv'
    BY <2>0, <2>1, <2>2 DEF IInv, InitKnows, EarlyInv, ProgrammedInv, In
  <2>. QED BY <2>0, <2>1, <2>2, <2>3, <2>4, InitStep DEF InitKnows
<1>3. CASE AskConfig(R, "ask1", "config1", <<R, "disarm">>, Error)
  <2>0. PICK s \in {"ask1", "config1"} : InitKnows(s)
    BY <1>3, InitFacts DEF AskConfig, At
  <2>1. "ask1" \in Steps /\ "config1" \in Steps /\ <<R, "disarm">> \in Routines \X Steps
    BY DEF Routines, Steps
  <2>2. /\ pc = <<R, "ask1">> => ~Reading
        /\ pc = <<R, "config1">> => Reading
    BY <2>0, <2>1 DEF InitKnows, Reading, In, R, K, Talking
  <2>3. /\ Typed' /\ SeenInv' /\ Said' = Said /\ live' = live
        /\ \/ s = "ask1" /\ pc' = <<R, "config1">> /\ Len(Front') = Len(Front) + 1
           \/ s = "config1" /\ pc' = pc /\ Front' = Front
           \/ pc' = Error
           \/ s = "config1" /\ pc' = <<R, "disarm">> /\ Len(Front') = Len(Front) - 1
    BY <1>3, <2>0, <2>1, <2>2, AskEffect DEF InitKnows, Grows, Shrinks
  <2>4. /\ pc[2] = s /\ pc[1] = R /\ pc'[1] = R
        /\ pc' = <<R, "config1">> => pc'[2] = "config1"
        /\ pc' = <<R, "disarm">> => pc'[2] = "disarm"
        /\ pc' = Error => pc'[2] = "error"
    BY <2>0, <2>1, <2>3, LabelParts DEF InitKnows, Error
  <2>5. Len(Front) <= (IF s = "ask1" THEN 1 ELSE 2) /\ Len(Front') \in Nat
    BY <2>0, <2>3, FrontSizeNext DEF IInv, InitKnows, EarlyInv, In
  <2>6. EarlyInv'
    BY <2>0, <2>3, <2>4, <2>5 DEF InitKnows, EarlyInv, In
  <2>7. ProgrammedInv'
    BY <2>0, <2>3, <2>4 DEF InitKnows, ProgrammedInv, In
  <2>. QED BY <2>3, <2>4, <2>6, <2>7, InitStep
<1>4. CASE /\ At(R, "disarm")
           /\ CommandConfig(Without(Without(config, Int1), Int2), <<R, "drain">>, Error)
           /\ UNCHANGED locals
  <2>0. InitKnows("disarm") /\ <<R, "drain">> \in Routines \X Steps
    BY <1>4, InitFacts DEF Routines, Steps, At
  <2>1. Without(Without(config, Int1), Int2) \in Bytes
    BY <2>0, WrittenConfigs DEF InitKnows
  <2>2. /\ Typed' /\ Said' = Said /\ seen' = seen /\ live' = live
        /\ Front' = Front /\ pc' \in {<<R, "drain">>, Error}
    BY <1>4, <2>0, <2>1, ConfigEffect DEF InitKnows, locals
  <2>3. pc'[1] = R /\ pc'[2] \in {"drain", "error"}
    BY <2>2, LabelParts DEF Error
  <2>4. ~Reading
    BY <2>0 DEF InitKnows, Reading, In, R, K, Talking
  <2>5. EarlyInv' /\ ProgrammedInv'
    BY <2>0, <2>2, <2>3 DEF IInv, InitKnows, EarlyInv, ProgrammedInv, In
  <2>. QED BY <2>0, <2>2, <2>3, <2>4, <2>5, InitStep DEF InitKnows
<1>5. CASE At(R, "drain") /\ Drain(<<R, "test">>)
  <2>0. InitKnows("drain") /\ <<R, "test">> \in Routines \X Steps
    BY <1>5, InitFacts DEF Routines, Steps, At
  <2>1. /\ Typed' /\ Said' = Said /\ seen' = seen /\ live' = live
        /\ Len(Front') <= Len(Front) /\ pc' \in {pc, <<R, "test">>}
    BY <1>5, <2>0, DrainEffect DEF InitKnows, locals, Shrinks
  <2>2. pc'[1] = R /\ pc'[2] \in {"drain", "test"}
    BY <2>0, <2>1, LabelParts DEF InitKnows
  <2>3. ~Reading
    BY <2>0 DEF InitKnows, Reading, In, R, K, Talking
  <2>4. Len(Front') \in Nat
    BY <2>1, FrontSizeNext
  <2>5. Len(Front) <= 1
    BY <2>0 DEF IInv, InitKnows, EarlyInv, In
  <2>6. EarlyInv'
    BY <2>0, <2>1, <2>2, <2>4, <2>5 DEF InitKnows, EarlyInv, In
  <2>7. ProgrammedInv'
    BY <2>2 DEF ProgrammedInv, In
  <2>. QED BY <2>0, <2>1, <2>2, <2>3, <2>6, <2>7, InitStep DEF InitKnows
<1>. QED BY <1>1, <1>2, <1>3, <1>4, <1>5 DEF Quieten

(* A test is answered by one byte, but for that of a port that may not be  *)
(* there.                                                                  *)
LEMMA AnsweredCommand ==
  ASSUME Typed, NEW c \in {TestController, TestPort1, TestPort2}, NEW a \in Answers(c),
         Front' = Front \o a
  PROVE  (\E b \in Bytes : Grows(b)) \/ (c = TestPort2 /\ Front' = Front)
<1>1. /\ Front \o <<>> = Front
      /\ TestOk \in Bytes /\ Failed \in Bytes /\ 0 \in Bytes /\ 1 \in Bytes
  BY Waiting DEF Bytes, TestOk, Failed
<1>2. a \in {<<TestOk>>, <<Failed>>, <<0>>, <<1>>} \/ (c = TestPort2 /\ a = <<>>)
  BY DEF Answers, ReadConfig, TestController, TestPort1, TestPort2
<1>. QED BY <1>1, <1>2, AppendGrows

LEMMA SelfTestPreserves == IInv /\ SelfTest => IInv'
<1> SUFFICES ASSUME IInv, SelfTest PROVE IInv'
  OBVIOUS
<1>1. CASE At(R, "test") /\ Command(TestController, <<R, "verdict">>, Error) /\ UNCHANGED locals
  <2>0. InitKnows("test") /\ <<R, "verdict">> \in Routines \X Steps
    BY <1>1, InitFacts DEF Routines, Steps, At
  <2>1. /\ Typed' /\ Said' = Said /\ seen' = seen /\ live' = live
        /\ \/ pc' = Error
           \/ pc' = <<R, "verdict">> /\ Len(Front') = Len(Front) + 1
    <3>1. ASSUME NEW a \in Answers(TestController), Front' = Front \o a
          PROVE  Len(Front') = Len(Front) + 1
      <4>1. TestController # TestPort2
        BY DEF TestController, TestPort2
      <4>2. \E b \in Bytes : Grows(b)
        BY <2>0, <3>1, <4>1, AnsweredCommand DEF InitKnows
      <4>. QED BY <4>2 DEF Grows
    <3>. QED BY <1>1, <2>0, <3>1, CommandEffect DEF InitKnows, locals
  <2>2. /\ pc'[1] = R
        /\ pc' = Error => pc'[2] = "error"
        /\ pc' = <<R, "verdict">> => pc'[2] = "verdict"
    BY <2>1, LabelParts DEF Error
  <2>3. ~Reading /\ Len(Front) <= 1
    BY <2>0 DEF IInv, InitKnows, Reading, EarlyInv, In, R, K, Talking
  <2>4. EarlyInv'
    BY <2>0, <2>1, <2>2, <2>3 DEF InitKnows, EarlyInv, In
  <2>5. ProgrammedInv'
    BY <2>1, <2>2 DEF ProgrammedInv, In
  <2>. QED BY <2>0, <2>1, <2>2, <2>3, <2>4, <2>5, InitStep DEF InitKnows
<1>2. CASE At(R, "verdict") /\ Expect({TestOk}, <<R, "ask2">>, Error)
  <2>0. InitKnows("verdict") /\ <<R, "ask2">> \in Routines \X Steps
    BY <1>2, InitFacts DEF Routines, Steps, At
  <2>1. Reading /\ Len(Front) <= 2
    BY <2>0 DEF IInv, InitKnows, Reading, EarlyInv, In
  <2>2. /\ Typed' /\ SeenInv' /\ Said' = Said /\ live' = live
        /\ \/ pc' = pc /\ Front' = Front
           \/ pc' = Error
           \/ pc' = <<R, "ask2">> /\ Len(Front') = Len(Front) - 1
    BY <1>2, <2>0, <2>1, ExpectEffect DEF InitKnows, Shrinks
  <2>3. /\ pc'[1] = R
        /\ pc' = Error => pc'[2] = "error"
        /\ pc' = <<R, "ask2">> => pc'[2] = "ask2"
    BY <2>0, <2>2, LabelParts DEF Error, InitKnows
  <2>4. EarlyInv'
    BY <2>0, <2>1, <2>2, <2>3 DEF InitKnows, EarlyInv, In
  <2>5. ProgrammedInv'
    BY <2>0, <2>2, <2>3 DEF InitKnows, ProgrammedInv, In
  <2>. QED BY <2>0, <2>2, <2>3, <2>4, <2>5, InitStep DEF InitKnows
<1>. QED BY <1>1, <1>2 DEF SelfTest

LEMMA ProgramPreserves == IInv /\ Program => IInv'
<1> SUFFICES ASSUME IInv, Program PROVE IInv'
  OBVIOUS
<1>1. CASE AskConfig(R, "ask2", "config2", <<R, "program">>, Error)
  <2>0. PICK s \in {"ask2", "config2"} : InitKnows(s)
    BY <1>1, InitFacts DEF AskConfig, At
  <2>1. "ask2" \in Steps /\ "config2" \in Steps /\ <<R, "program">> \in Routines \X Steps
    BY DEF Routines, Steps
  <2>2. /\ pc = <<R, "ask2">> => ~Reading
        /\ pc = <<R, "config2">> => Reading
    BY <2>0, <2>1 DEF InitKnows, Reading, In, R, K, Talking
  <2>3. /\ Typed' /\ SeenInv' /\ Said' = Said /\ live' = live
        /\ \/ s = "ask2" /\ pc' = <<R, "config2">> /\ Len(Front') = Len(Front) + 1
           \/ s = "config2" /\ pc' = pc /\ Front' = Front
           \/ pc' = Error
           \/ s = "config2" /\ pc' = <<R, "program">> /\ Len(Front') = Len(Front) - 1
    BY <1>1, <2>0, <2>1, <2>2, AskEffect DEF InitKnows, Grows, Shrinks
  <2>4. /\ pc[2] = s /\ pc[1] = R /\ pc'[1] = R
        /\ pc' = <<R, "config2">> => pc'[2] = "config2"
        /\ pc' = <<R, "program">> => pc'[2] = "program"
        /\ pc' = Error => pc'[2] = "error"
    BY <2>0, <2>1, <2>3, LabelParts DEF InitKnows, Error
  <2>5. Len(Front) <= (IF s = "ask2" THEN 1 ELSE 2) /\ Len(Front') \in Nat
    BY <2>0, <2>3, FrontSizeNext DEF IInv, InitKnows, EarlyInv, In
  <2>6. EarlyInv'
    BY <2>0, <2>3, <2>4, <2>5 DEF InitKnows, EarlyInv, In
  <2>7. ProgrammedInv'
    BY <2>0, <2>3, <2>4 DEF InitKnows, ProgrammedInv, In
  <2>. QED BY <2>3, <2>4, <2>6, <2>7, InitStep
<1>2. CASE /\ At(R, "program") /\ CommandConfig(Programmed(config), <<R, "probe">>, Error)
           /\ UNCHANGED locals
  <2>0. InitKnows("program") /\ <<R, "probe">> \in Routines \X Steps
    BY <1>2, InitFacts DEF Routines, Steps, At
  <2>1. /\ Programmed(config) \in Bytes
        /\ Has(Programmed(config), Clock1) /\ Has(Programmed(config), Clock2)
        /\ Has(Programmed(config), Translate)
        /\ ~Has(Programmed(config), Int1) /\ ~Has(Programmed(config), Int2)
    BY <2>0, WrittenConfigs DEF InitKnows
  <2>2. /\ Typed' /\ Said' = Said /\ seen' = seen /\ live' = live /\ Front' = Front
        /\ \/ pc' = Error
           \/ pc' = <<R, "probe">> /\ cfg' = Programmed(config)
    BY <1>2, <2>0, <2>1, ConfigEffect DEF InitKnows, locals
  <2>3. /\ pc'[1] = R
        /\ pc' = Error => pc'[2] = "error"
        /\ pc' = <<R, "probe">> => pc'[2] = "probe"
    BY <2>2, LabelParts DEF Error
  <2>4. ~Reading /\ Len(Front) <= 1
    BY <2>0 DEF IInv, InitKnows, Reading, EarlyInv, In, R, K, Talking
  <2>5. EarlyInv'
    BY <2>2, <2>3 DEF EarlyInv, In
  <2>6. pc' = <<R, "probe">> => Gated' /\ Has(cfg, Clock2)'
    BY <2>1, <2>2, <2>3 DEF Gated
  <2>7. ProgrammedInv'
    BY <2>2, <2>3, <2>4, <2>6 DEF ProgrammedInv, In
  <2>. QED BY <2>0, <2>2, <2>3, <2>4, <2>5, <2>7, InitStep DEF InitKnows
<1>. QED BY <1>1, <1>2 DEF Program

(* The bits around the clock of port 2 stay put.                           *)
Port2Gated == Gated /\ (~hasPort2 => Has(cfg, Clock2))

LEMMA Port2Command ==
  ASSUME cfg \in Bytes, Port2Gated, hasPort2' = hasPort2,
         NEW c \in {EnablePort2, DisablePort2}, cfg' \in ConfigsAfter(c) \/ cfg' = cfg
  PROVE  Port2Gated'
<1>1. /\ Clock1 \in BitSet /\ Clock2 \in BitSet /\ Translate \in BitSet
      /\ Int1 \in BitSet /\ Int2 \in BitSet
      /\ Clock2 # Clock1 /\ Clock2 # Translate /\ Clock2 # Int1 /\ Clock2 # Int2
  BY DEF BitSet, Int1, Int2, Clock1, Clock2, Translate
<1>2. cfg' \in {cfg, With(cfg, Clock2)} \/ (hasPort2 /\ cfg' = Without(cfg, Clock2))
  BY DEF ConfigsAfter, EnablePort2, DisablePort2, EnablePort1, DisablePort1, TestController
<1>3. CASE cfg' = cfg
  BY <1>3 DEF Port2Gated, Gated
<1>4. CASE cfg' = With(cfg, Clock2)
  BY <1>1, <1>4, SetBit, OtherBit DEF Port2Gated, Gated
<1>5. CASE hasPort2 /\ cfg' = Without(cfg, Clock2)
  BY <1>1, <1>5, OtherBit DEF Port2Gated, Gated
<1>. QED BY <1>2, <1>3, <1>4, <1>5

LEMMA SetPort2Effect ==
  ASSUME Typed, SeenInv, NEW next \in Routines \X Steps, NEW present \in BOOLEAN,
         SetPort2(present, next), UNCHANGED <<seen, chip, keyboard, bus>>, ~Reading
  PROVE  /\ Typed' /\ SeenInv' /\ Front' = Front /\ Said' = Said /\ port2' = present
         /\ pc' = next
         /\ UNCHANGED <<cfg, hasPort2, live, config, device, scanning>>
<1>1. /\ UNCHANGED <<seen, cfg, reply, hasPort2, wire, device, scanning, keys, out, garbled,
                     stolen, config, resends, live>>
      /\ pc' = next /\ port2' = present
  BY DEF SetPort2, chip, keyboard, bus
<1>2. Typed'
  BY <1>1 DEF Typed, TypeOK
<1>3. SeenInv'
  BY <1>1 DEF SeenInv
<1>. QED BY <1>1, <1>2, <1>3, Unmoved

(* What a step may count on once the configuration byte is programmed.     *)
ProbeLabels == {"probe", "ask3", "config3", "obeyed", "unprobe", "ask4", "config4",
                "obeyed_again", "no_port2", "port1", "verdict1", "port2", "verdict2",
                "port2_broken", "ready"}

LEMMA ProbeFacts ==
  ASSUME IInv, NEW s \in ProbeLabels, pc = <<R, s>>
  PROVE  /\ InitKnows(s) /\ Port2Gated
         /\ s \notin {"config3", "config4", "verdict1", "verdict2"} => ~Reading
         /\ s \in {"config3", "config4", "verdict1", "verdict2"} => Reading
<1>1. InitKnows(s)
  BY InitFacts
<1>2. Port2Gated
  BY <1>1 DEF IInv, InitKnows, ProgrammedInv, ProbeLabels, In, Port2Gated
<1>3. /\ s \notin {"config3", "config4", "verdict1", "verdict2"} => ~Reading
      /\ s \in {"config3", "config4", "verdict1", "verdict2"} => Reading
  BY <1>1 DEF InitKnows, ProbeLabels, Reading, In, R, K, Talking
<1>. QED BY <1>1, <1>2, <1>3

(* ... and what is left to show of a step that does not end in the error.  *)
LEMMA ProbeStep ==
  ASSUME IInv, pc[1] = R, Typed', Said' = Said, live' = live,
         SeenInv' \/ (seen' = seen /\ ~Reading),
         NEW t \in ProbeLabels \cup {"error"}, pc' = <<R, t>>,
         ProgrammedInv'
  PROVE  IInv'
<1>1. pc'[1] = R /\ pc'[2] = t
  BY LabelParts
<1>2. EarlyInv'
  BY <1>1 DEF EarlyInv, ProbeLabels, In
<1>. QED BY <1>1, <1>2, InitStep

LEMMA ProbePort2Preserves == IInv /\ ProbePort2 => IInv'
<1> SUFFICES ASSUME IInv, ProbePort2 PROVE IInv'
  OBVIOUS
<1>0. /\ <<R, "ask3">> \in Routines \X Steps /\ <<R, "obeyed">> \in Routines \X Steps
      /\ <<R, "unprobe">> \in Routines \X Steps /\ <<R, "ask4">> \in Routines \X Steps
      /\ <<R, "obeyed_again">> \in Routines \X Steps
      /\ <<R, "no_port2">> \in Routines \X Steps /\ <<R, "port1">> \in Routines \X Steps
      /\ "config3" \in Steps /\ "config4" \in Steps /\ "ask3" \in Steps /\ "ask4" \in Steps
      /\ Error = <<R, "error">>
  BY DEF Routines, Steps, Error
<1>1. CASE At(R, "probe") /\ Command(EnablePort2, <<R, "ask3">>, <<R, "ask3">>) /\ UNCHANGED locals
  <2>0. InitKnows("probe") /\ Port2Gated /\ ~Reading
    BY <1>1, ProbeFacts DEF At, ProbeLabels
  <2>1. /\ Typed' /\ Said' = Said /\ seen' = seen /\ live' = live /\ hasPort2' = hasPort2
        /\ Front' = Front /\ pc' = <<R, "ask3">>
        /\ cfg' \in ConfigsAfter(EnablePort2) \/ cfg' = cfg
    BY <1>0, <1>1, <2>0, CommandEffect, SilentCommand DEF InitKnows, locals
  <2>2. Port2Gated'
    BY <2>0, <2>1, Port2Command DEF InitKnows
  <2>3. Len(Front) <= 1
    BY <2>0 DEF IInv, InitKnows, ProgrammedInv, In
  <2>4. pc'[2] = "ask3"
    BY <2>1, LabelParts
  <2>5. ProgrammedInv'
    BY <2>1, <2>2, <2>3, <2>4 DEF ProgrammedInv, In, Port2Gated
  <2>. QED BY <2>0, <2>1, <2>5, ProbeStep DEF InitKnows, ProbeLabels
<1>2. CASE AskConfig(R, "ask3", "config3", <<R, "obeyed">>, Error)
  <2>0. PICK s \in {"ask3", "config3"} : pc = <<R, s>>
    BY <1>2 DEF AskConfig, At
  <2>1. /\ InitKnows(s) /\ Port2Gated
        /\ pc = <<R, "ask3">> => ~Reading /\ s = "ask3"
        /\ pc = <<R, "config3">> => Reading /\ s = "config3"
    BY <2>0, ProbeFacts, LabelParts DEF ProbeLabels
  <2>2. /\ Typed' /\ SeenInv' /\ Said' = Said /\ live' = live /\ cfg' = cfg /\ hasPort2' = hasPort2
        /\ \E t \in {"config3", "obeyed", "error"} :
             /\ pc' = <<R, t>>
             /\ \/ s = "ask3" /\ t = "config3" /\ Grows(cfg)
                \/ s = "config3" /\ t = "config3" /\ Front' = Front
                \/ t = "error"
                \/ s = "config3" /\ t = "obeyed" /\ Shrinks /\ config' = Front[1]
    <3>1. /\ Typed' /\ SeenInv' /\ Said' = Said /\ live' = live /\ cfg' = cfg
          /\ hasPort2' = hasPort2
          /\ \/ /\ pc = <<R, "ask3">>
                /\ \/ pc' = <<R, "config3">> /\ Grows(cfg)
                   \/ pc' = Error
             \/ /\ pc = <<R, "config3">>
                /\ \/ pc' = <<R, "config3">> /\ Front' = Front
                   \/ pc' = Error
                   \/ pc' = <<R, "obeyed">> /\ config' = Front[1] /\ Shrinks
      <4>1. /\ Typed /\ SeenInv /\ ~live /\ R \in Routines /\ "ask3" \in Steps
            /\ "config3" \in Steps /\ <<R, "obeyed">> \in Routines \X Steps
            /\ Error \in Routines \X Steps
            /\ pc = <<R, "ask3">> => ~Reading
            /\ pc = <<R, "config3">> => Reading
        BY <1>0, <2>1 DEF InitKnows
      <4>. QED BY <1>2, <4>1, AskEffect
    <3>. QED BY <1>0, <2>1, <3>1
  <2>3. /\ s = "ask3" => Len(Front) <= 1
        /\ s = "config3" => Owed
    BY <2>1 DEF IInv, InitKnows, ProgrammedInv, In
  <2>4. Len(Front) \in Nat /\ Len(Front') \in Nat /\ (Len(Front') = 0 <=> Front' = <<>>)
    BY <2>1, <2>2, FrontSizeNext DEF InitKnows
  <2>5. PICK t \in {"config3", "obeyed", "error"} :
             /\ pc' = <<R, t>>
             /\ \/ s = "ask3" /\ t = "config3" /\ Grows(cfg)
                \/ s = "config3" /\ t = "config3" /\ Front' = Front
                \/ t = "error"
                \/ s = "config3" /\ t = "obeyed" /\ Shrinks /\ config' = Front[1]
    BY <2>2
  <2>6. pc'[2] = t /\ pc[1] = R
    BY <2>1, <2>5, LabelParts DEF InitKnows
  <2>7. t = "config3" => Owed'
    <3>1. CASE s = "ask3" /\ t = "config3" /\ Grows(cfg)
      <4>1. Len(Front') = Len(Front) + 1 /\ Front'[Len(Front')] = cfg
        BY <3>1 DEF Grows
      <4>2. Len(Front') \in {1, 2}
        BY <2>3, <2>4, <3>1, <4>1
      <4>. QED BY <2>2, <4>1, <4>2 DEF Owed
    <3>2. CASE s = "config3" /\ t = "config3" /\ Front' = Front
      BY <2>2, <2>3, <3>2 DEF Owed
    <3>. QED BY <2>5, <3>1, <3>2
  <2>8. t = "obeyed" => Offset' /\ (Front' = <<>> => config' = cfg')
    <3>1. SUFFICES ASSUME t = "obeyed"
                   PROVE  Offset' /\ (Front' = <<>> => config' = cfg')
      OBVIOUS
    <3>2. s = "config3" /\ Shrinks /\ config' = Front[1]
      BY <2>5, <3>1
    <3>3. /\ Len(Front) \in {1, 2} /\ Front[Len(Front)] = cfg
          /\ Len(Front') = Len(Front) - 1
          /\ Len(Front) = 2 => Front'[1] = Front[2]
      BY <2>3, <3>2 DEF Owed, Shrinks
    <3>4. CASE Len(Front) = 1
      BY <2>2, <2>4, <3>2, <3>3, <3>4 DEF Offset
    <3>5. CASE Len(Front) = 2
      BY <2>1, <2>2, <2>4, <3>2, <3>3, <3>5 DEF Offset, Port2Gated, Gated
    <3>. QED BY <3>3, <3>4, <3>5
  <2>9. Port2Gated'
    BY <2>1, <2>2 DEF Port2Gated, Gated
  <2>10. ProgrammedInv'
    BY <2>5, <2>6, <2>7, <2>8, <2>9 DEF ProgrammedInv, In, Port2Gated
  <2>. QED BY <2>2, <2>5, <2>6, <2>10, ProbeStep DEF ProbeLabels
<1>3. CASE /\ At(R, "obeyed")
           /\ SetPort2(~Has(config, Clock2), IF Has(config, Clock2) THEN <<R, "port1">>
                                                                   ELSE <<R, "unprobe">>)
           /\ UNCHANGED <<seen, chip, keyboard, bus>>
  <2>0. InitKnows("obeyed") /\ Port2Gated /\ ~Reading
    BY <1>3, ProbeFacts DEF At, ProbeLabels
  <2>1. Offset /\ (Front = <<>> => config = cfg)
    BY <2>0 DEF IInv, InitKnows, ProgrammedInv, In
  <2>2. CASE Has(config, Clock2)
    <3>1. SetPort2(FALSE, <<R, "port1">>)
      <4>1. (~Has(config, Clock2)) = FALSE
        BY <2>2
      <4>. QED BY <1>3, <2>2, <4>1 DEF SetPort2
    <3>2. /\ Typed' /\ SeenInv' /\ Front' = Front /\ Said' = Said /\ port2' = FALSE
          /\ pc' = <<R, "port1">> /\ cfg' = cfg /\ hasPort2' = hasPort2 /\ live' = live
      BY <1>0, <1>3, <2>0, <3>1, SetPort2Effect DEF InitKnows
    <3>3. Port2Gated' /\ Offset' /\ SecondPort'
      BY <2>0, <2>1, <3>2 DEF Port2Gated, Gated, Offset, SecondPort
    <3>4. pc'[2] = "port1"
      BY <3>2, LabelParts
    <3>5. ProgrammedInv'
      BY <3>3, <3>4 DEF ProgrammedInv, In, Port2Gated
    <3>. QED BY <2>0, <3>2, <3>5, ProbeStep DEF InitKnows, ProbeLabels
  <2>3. CASE ~Has(config, Clock2)
    <3>1. SetPort2(TRUE, <<R, "unprobe">>)
      <4>1. (~Has(config, Clock2)) = TRUE
        BY <2>3
      <4>. QED BY <1>3, <2>3, <4>1 DEF SetPort2
    <3>2. /\ Typed' /\ SeenInv' /\ Front' = Front /\ Said' = Said
          /\ pc' = <<R, "unprobe">> /\ cfg' = cfg /\ hasPort2' = hasPort2 /\ live' = live
      BY <1>0, <1>3, <2>0, <3>1, SetPort2Effect DEF InitKnows
    <3>3. Port2Gated' /\ Offset' /\ (Front' = <<>> => hasPort2')
      BY <2>0, <2>1, <2>3, <3>2 DEF Port2Gated, Gated, Offset
    <3>4. pc'[2] = "unprobe"
      BY <3>2, LabelParts
    <3>5. ProgrammedInv'
      BY <3>3, <3>4 DEF ProgrammedInv, In, Port2Gated
    <3>. QED BY <2>0, <3>2, <3>5, ProbeStep DEF InitKnows, ProbeLabels
  <2>. QED BY <2>2, <2>3
<1>4. CASE At(R, "unprobe") /\ Command(DisablePort2, <<R, "ask4">>, <<R, "ask4">>) /\ UNCHANGED locals
  <2>0. InitKnows("unprobe") /\ Port2Gated /\ ~Reading
    BY <1>4, ProbeFacts DEF At, ProbeLabels
  <2>1. /\ Typed' /\ Said' = Said /\ seen' = seen /\ live' = live /\ hasPort2' = hasPort2
        /\ Front' = Front /\ pc' = <<R, "ask4">>
        /\ cfg' \in ConfigsAfter(DisablePort2) \/ cfg' = cfg
    BY <1>0, <1>4, <2>0, CommandEffect, SilentCommand DEF InitKnows, locals
  <2>2. Port2Gated'
    BY <2>0, <2>1, Port2Command DEF InitKnows
  <2>3. Offset /\ (Front = <<>> => hasPort2)
    BY <2>0 DEF IInv, InitKnows, ProgrammedInv, In
  <2>4. Offset' /\ (Front' = <<>> => hasPort2')
    BY <2>1, <2>3 DEF Offset
  <2>5. pc'[2] = "ask4"
    BY <2>1, LabelParts
  <2>6. ProgrammedInv'
    BY <2>2, <2>4, <2>5 DEF ProgrammedInv, In, Port2Gated
  <2>. QED BY <2>0, <2>1, <2>6, ProbeStep DEF InitKnows, ProbeLabels
<1>5. CASE AskConfig(R, "ask4", "config4", <<R, "obeyed_again">>, <<R, "no_port2">>)
  <2>0. PICK s \in {"ask4", "config4"} : pc = <<R, s>>
    BY <1>5 DEF AskConfig, At
  <2>1. /\ InitKnows(s) /\ Port2Gated
        /\ pc = <<R, "ask4">> => ~Reading /\ s = "ask4"
        /\ pc = <<R, "config4">> => Reading /\ s = "config4"
    BY <2>0, ProbeFacts, LabelParts DEF ProbeLabels
  <2>2. /\ Typed' /\ SeenInv' /\ Said' = Said /\ live' = live /\ cfg' = cfg /\ hasPort2' = hasPort2
        /\ \E t \in {"config4", "no_port2", "obeyed_again"} :
             /\ pc' = <<R, t>>
             /\ \/ s = "ask4" /\ t = "config4" /\ Grows(cfg)
                \/ s = "ask4" /\ t = "no_port2" /\ Front' = Front
                \/ s = "config4" /\ t = "config4" /\ Front' = Front
                \/ s = "config4" /\ t = "no_port2" /\ Front' = Front /\ Front = <<>>
                \/ s = "config4" /\ t = "no_port2" /\ Shrinks
                \/ s = "config4" /\ t = "obeyed_again" /\ Shrinks /\ config' = Front[1]
    <3>1. /\ Typed' /\ SeenInv' /\ Said' = Said /\ live' = live /\ cfg' = cfg
          /\ hasPort2' = hasPort2
          /\ \/ /\ pc = <<R, "ask4">>
                /\ \/ pc' = <<R, "config4">> /\ Grows(cfg)
                   \/ pc' = <<R, "no_port2">> /\ Front' = Front
             \/ /\ pc = <<R, "config4">>
                /\ \/ pc' = <<R, "config4">> /\ Front' = Front
                   \/ /\ pc' = <<R, "no_port2">>
                      /\ (Front' = Front /\ Front = <<>>) \/ Shrinks
                   \/ pc' = <<R, "obeyed_again">> /\ config' = Front[1] /\ Shrinks
      <4>1. /\ Typed /\ SeenInv /\ ~live /\ R \in Routines /\ "ask4" \in Steps
            /\ "config4" \in Steps /\ <<R, "obeyed_again">> \in Routines \X Steps
            /\ <<R, "no_port2">> \in Routines \X Steps
            /\ pc = <<R, "ask4">> => ~Reading
            /\ pc = <<R, "config4">> => Reading
        BY <1>0, <2>1 DEF InitKnows
      <4>. QED BY <1>5, <4>1, AskEffect
    <3>. QED BY <2>1, <3>1
  <2>3. /\ s = "ask4" => Offset /\ (Front = <<>> => hasPort2)
        /\ s = "config4" => Owed /\ Has(Front[1], Translate) /\ (Len(Front) = 1 => hasPort2)
    BY <2>1 DEF IInv, InitKnows, ProgrammedInv, In
  <2>4. Len(Front) \in Nat /\ (Len(Front) = 0 <=> Front = <<>>)
    BY <2>1 DEF InitKnows
  <2>13. Len(Front') \in Nat /\ (Len(Front') = 0 <=> Front' = <<>>)
    BY <2>2, FrontSizeNext
  <2>5. PICK t \in {"config4", "no_port2", "obeyed_again"} :
             /\ pc' = <<R, t>>
             /\ \/ s = "ask4" /\ t = "config4" /\ Grows(cfg)
                \/ s = "ask4" /\ t = "no_port2" /\ Front' = Front
                \/ s = "config4" /\ t = "config4" /\ Front' = Front
                \/ s = "config4" /\ t = "no_port2" /\ Front' = Front /\ Front = <<>>
                \/ s = "config4" /\ t = "no_port2" /\ Shrinks
                \/ s = "config4" /\ t = "obeyed_again" /\ Shrinks /\ config' = Front[1]
    BY <2>2
  <2>6. pc'[2] = t /\ pc[1] = R
    BY <2>1, <2>5, LabelParts DEF InitKnows
  <2>7. t = "config4" => /\ Owed' /\ Has(Front'[1], Translate)
                         /\ Len(Front') = 1 => hasPort2'
    <3>1. CASE s = "ask4" /\ t = "config4" /\ Grows(cfg)
      <4>1. /\ Len(Front') = Len(Front) + 1 /\ Front'[Len(Front')] = cfg
            /\ Len(Front) >= 1 => Front'[1] = Front[1]
        BY <3>1 DEF Grows
      <4>2. /\ Len(Front) = 1 => Has(Front[1], Translate)
            /\ Len(Front) = 0 => hasPort2
        BY <2>3, <2>4, <3>1 DEF Offset
      <4>3. CASE Len(Front) = 0
        <5>1. Len(Front') = 1
          BY <4>1, <4>3
        <5>2. Front'[1] = cfg /\ Has(cfg, Translate) /\ cfg' = cfg /\ hasPort2'
          BY <2>1, <2>2, <4>1, <4>2, <4>3, <5>1 DEF Port2Gated, Gated
        <5>. QED BY <5>1, <5>2 DEF Owed
      <4>4. CASE Len(Front) = 1
        <5>1. Len(Front') = 2
          BY <4>1, <4>4
        <5>2. Front'[2] = cfg /\ Has(Front'[1], Translate) /\ cfg' = cfg
          BY <2>2, <4>1, <4>2, <4>4, <5>1
        <5>. QED BY <5>1, <5>2 DEF Owed
      <4>5. Len(Front) <= 1
        BY <2>3, <3>1 DEF Offset
      <4>6. Len(Front) \in Nat
        BY <2>4
      <4>7. Len(Front) = 0 \/ Len(Front) = 1
        BY <4>5, <4>6, AtMostOne, Zenon
      <4>. QED BY <4>3, <4>4, <4>7
    <3>2. CASE s = "config4" /\ t = "config4" /\ Front' = Front
      BY <2>2, <2>3, <3>2 DEF Owed
    <3>. QED BY <2>5, <3>1, <3>2
  <2>8. ASSUME Shrinks, s = "config4"
        PROVE  Offset' /\ (Front' = <<>> => Front[1] = cfg /\ hasPort2)
    <3>1. /\ Len(Front) \in {1, 2} /\ Front[Len(Front)] = cfg
          /\ Len(Front') = Len(Front) - 1
          /\ Len(Front) = 2 => Front'[1] = Front[2]
          /\ Len(Front) = 1 => hasPort2
      BY <2>3, <2>8 DEF Owed, Shrinks
    <3>2. CASE Len(Front) = 1
      <4>1. Len(Front') = 0
        BY <3>1, <3>2
      <4>. QED BY <3>1, <3>2, <4>1 DEF Offset
    <3>3. CASE Len(Front) = 2
      <4>1. Len(Front') = 1
        BY <3>1, <3>3
      <4>2. Front'[1] = cfg /\ Has(cfg, Translate) /\ Front' # <<>>
        BY <2>1, <2>13, <3>1, <3>3, <4>1 DEF Port2Gated, Gated
      <4>. QED BY <4>1, <4>2 DEF Offset
    <3>. QED BY <3>1, <3>2, <3>3
  <2>9. t = "obeyed_again" => Offset' /\ (Front' = <<>> => config' = cfg' /\ hasPort2')
    BY <2>2, <2>5, <2>8
  <2>10. t = "no_port2" => Offset'
    <3>1. ASSUME Front' = Front, Offset PROVE Offset'
      BY <3>1 DEF Offset
    <3>2. ASSUME Front' = Front, Front = <<>> PROVE Offset'
      <4>1. Len(Front') = 0
        BY <2>13, <3>2
      <4>. QED BY <4>1 DEF Offset
    <3>. QED BY <2>3, <2>5, <2>8, <3>1, <3>2
  <2>11. Port2Gated'
    BY <2>1, <2>2 DEF Port2Gated, Gated
  <2>12. ProgrammedInv'
    BY <2>5, <2>6, <2>7, <2>9, <2>10, <2>11 DEF ProgrammedInv, In, Port2Gated
  <2>. QED BY <2>2, <2>5, <2>6, <2>12, ProbeStep DEF ProbeLabels
<1>6. CASE /\ At(R, "obeyed_again") /\ SetPort2(Has(config, Clock2), <<R, "port1">>)
           /\ UNCHANGED <<seen, chip, keyboard, bus>>
  <2>0. InitKnows("obeyed_again") /\ Port2Gated /\ ~Reading
    BY <1>6, ProbeFacts DEF At, ProbeLabels
  <2>1. Offset /\ (Front = <<>> => config = cfg /\ hasPort2)
    BY <2>0 DEF IInv, InitKnows, ProgrammedInv, In
  <2>2. Has(config, Clock2) \in BOOLEAN
    BY DEF Has
  <2>3. /\ Typed' /\ SeenInv' /\ Front' = Front /\ Said' = Said /\ port2' = Has(config, Clock2)
        /\ pc' = <<R, "port1">> /\ cfg' = cfg /\ hasPort2' = hasPort2 /\ live' = live
    BY <1>0, <1>6, <2>0, <2>2, SetPort2Effect DEF InitKnows
  <2>4. Port2Gated' /\ Offset' /\ (Front' = <<>> => SecondPort')
    BY <2>0, <2>1, <2>3 DEF Port2Gated, Gated, Offset, SecondPort
  <2>5. pc'[2] = "port1"
    BY <2>3, LabelParts
  <2>6. ProgrammedInv'
    BY <2>4, <2>5 DEF ProgrammedInv, In, Port2Gated
  <2>. QED BY <2>0, <2>3, <2>6, ProbeStep DEF InitKnows, ProbeLabels
<1>7. CASE /\ At(R, "no_port2") /\ SetPort2(FALSE, <<R, "port1">>)
           /\ UNCHANGED <<seen, chip, keyboard, bus>>
  <2>0. InitKnows("no_port2") /\ Port2Gated /\ ~Reading
    BY <1>7, ProbeFacts DEF At, ProbeLabels
  <2>1. Offset
    BY <2>0 DEF IInv, InitKnows, ProgrammedInv, In
  <2>2. /\ Typed' /\ SeenInv' /\ Front' = Front /\ Said' = Said /\ port2' = FALSE
        /\ pc' = <<R, "port1">> /\ cfg' = cfg /\ hasPort2' = hasPort2 /\ live' = live
    BY <1>0, <1>7, <2>0, SetPort2Effect DEF InitKnows
  <2>3. Port2Gated' /\ Offset' /\ SecondPort'
    BY <2>0, <2>1, <2>2 DEF Port2Gated, Gated, Offset, SecondPort
  <2>4. pc'[2] = "port1"
    BY <2>2, LabelParts
  <2>5. ProgrammedInv'
    BY <2>3, <2>4 DEF ProgrammedInv, In, Port2Gated
  <2>. QED BY <2>0, <2>2, <2>5, ProbeStep DEF InitKnows, ProbeLabels
<1>. QED BY <1>1, <1>2, <1>3, <1>4, <1>5, <1>6, <1>7 DEF ProbePort2

LEMMA TestPortsPreserves == IInv /\ TestPorts => IInv'
<1> SUFFICES ASSUME IInv, TestPorts PROVE IInv'
  OBVIOUS
<1>0. /\ <<R, "verdict1">> \in Routines \X Steps /\ <<R, "port2">> \in Routines \X Steps
      /\ <<R, "verdict2">> \in Routines \X Steps /\ <<R, "port2_broken">> \in Routines \X Steps
      /\ Ready \in Routines \X Steps
      /\ Ready = <<R, "ready">> /\ Error = <<R, "error">>
  BY DEF Routines, Steps, Error, Ready
<1>1. CASE At(R, "port1") /\ Command(TestPort1, <<R, "verdict1">>, Error) /\ UNCHANGED locals
  <2>0. InitKnows("port1") /\ Port2Gated /\ ~Reading
    BY <1>1, ProbeFacts DEF At, ProbeLabels
  <2>1. /\ Typed' /\ Said' = Said /\ seen' = seen /\ hasPort2' = hasPort2 /\ UNCHANGED locals
        /\ \/ pc' = Error
           \/ /\ pc' = <<R, "verdict1">> /\ cfg' \in ConfigsAfter(TestPort1)
              /\ \E a \in Answers(TestPort1) : Front' = Front \o a
    BY <1>0, <1>1, <2>0, CommandEffect DEF InitKnows
  <2>2. ConfigsAfter(TestPort1) = {cfg}
    BY DEF ConfigsAfter, TestPort1, DisablePort1, EnablePort1, DisablePort2, EnablePort2,
           TestController
  <2>3. PICK t \in {"verdict1", "error"} :
           /\ pc' = <<R, t>>
           /\ t = "verdict1" =>
                cfg' = cfg /\ \E a \in Answers(TestPort1) : Front' = Front \o a
    BY <1>0, <2>1, <2>2
  <2>4. Offset /\ (Front = <<>> => SecondPort) /\ Len(Front) \in Nat /\ (Len(Front) = 0 <=> Front = <<>>)
    BY <2>0 DEF IInv, InitKnows, ProgrammedInv, In
  <2>5. ASSUME t = "verdict1"
        PROVE  /\ Port2Gated' /\ Len(Front') \in {1, 2}
               /\ Len(Front') = 2 => Has(Front'[1], Translate)
               /\ Len(Front') = 1 => SecondPort'
    <3>1. TestPort1 # TestPort2
      BY DEF TestPort1, TestPort2
    <3>2. PICK b \in Bytes : Grows(b)
      BY <2>0, <2>3, <2>5, <3>1, AnsweredCommand DEF InitKnows
    <3>3. /\ Len(Front') = Len(Front) + 1
          /\ Len(Front) >= 1 => Front'[1] = Front[1]
      BY <3>2 DEF Grows
    <3>4. Len(Front) <= 1 /\ (Len(Front) = 1 => Has(Front[1], Translate))
      BY <2>4 DEF Offset
    <3>5. Len(Front') = 1 => SecondPort'
      <4>1. ASSUME Len(Front') = 1 PROVE SecondPort
        BY <2>4, <3>3, <4>1
      <4>2. UNCHANGED <<port2, hasPort2, cfg>>
        BY <2>1, <2>3, <2>5 DEF locals
      <4>. QED BY <4>1, <4>2 DEF SecondPort
    <3>6. Port2Gated'
      BY <2>0, <2>1, <2>3, <2>5 DEF Port2Gated, Gated
    <3>7. Len(Front) \in Nat
      BY <2>4
    <3>8. Len(Front) = 0 \/ Len(Front) = 1
      BY <3>4, <3>7, AtMostOne, Zenon
    <3>9. Len(Front') \in {1, 2} /\ (Len(Front') = 2 => Len(Front) = 1)
      <4> DEFINE m == Len(Front)
                 n == Len(Front')
      <4>1. n = m + 1 /\ (m = 0 \/ m = 1)
        BY <3>3, <3>8
      <4> HIDE DEF m, n
      <4>2. n \in {1, 2} /\ (n = 2 => m = 1)
        BY <4>1
      <4>. QED BY <4>2 DEF m, n
    <3>10. Len(Front') = 2 => Has(Front'[1], Translate)
      <4>1. ASSUME Len(Front') = 2 PROVE Front'[1] = Front[1] /\ Has(Front[1], Translate)
        BY <3>3, <3>4, <3>9, <4>1
      <4>. QED BY <4>1
    <3>. QED BY <3>5, <3>6, <3>9, <3>10
  <2>6. pc'[2] = t
    BY <2>3, LabelParts
  <2>7. ProgrammedInv'
    BY <2>3, <2>5, <2>6 DEF ProgrammedInv, In, Port2Gated
  <2>8. live' = live
    BY <2>1 DEF locals
  <2>. QED BY <2>0, <2>1, <2>3, <2>7, <2>8, ProbeStep DEF InitKnows, ProbeLabels
<1>2. CASE At(R, "verdict1") /\ Expect({0}, IF port2 THEN <<R, "port2">> ELSE Ready, Error)
  <2>0. InitKnows("verdict1") /\ Port2Gated /\ Reading
    BY <1>2, ProbeFacts DEF At, ProbeLabels
  <2>1. PICK t \in {"port2", "ready"} :
           /\ At(R, "verdict1") /\ Expect({0}, <<R, t>>, Error)
           /\ <<R, t>> \in Routines \X Steps
    BY <1>0, <1>2
  <2>2. /\ Typed' /\ SeenInv' /\ Said' = Said
        /\ UNCHANGED <<cfg, hasPort2, port2, live>>
        /\ \/ pc' = pc /\ Front' = Front
           \/ pc' = Error
           \/ pc' = <<R, t>> /\ Front[1] = 0 /\ Shrinks
    <3>1. Typed /\ SeenInv /\ ~live /\ Reading /\ Error \in Routines \X Steps
      BY <2>0 DEF InitKnows
    <3>2. Expect({0}, <<R, t>>, Error) /\ <<R, t>> \in Routines \X Steps
      BY <2>1
    <3> DEFINE n == <<R, t>>
    <3>3. Expect({0}, n, Error) /\ n \in Routines \X Steps
      BY <3>2
    <3> HIDE DEF n
    <3>4. /\ Typed' /\ SeenInv' /\ Said' = Said
          /\ UNCHANGED <<cfg, hasPort2, port2, live, config, device, scanning>>
          /\ \/ pc' = pc /\ Front' = Front
             \/ pc' = Error
             \/ pc' = n /\ Front[1] \in {0} /\ Shrinks
      BY <3>1, <3>3, ExpectEffect
    <3>. QED BY <3>4 DEF n
  <2>3. PICK u \in {"verdict1", "error", t} :
           /\ pc' = <<R, u>>
           /\ u = "verdict1" => Front' = Front
           /\ u = t => Front[1] = 0 /\ Shrinks
    BY <1>0, <2>0, <2>1, <2>2 DEF InitKnows
  <2>4. /\ Len(Front) \in {1, 2}
        /\ Len(Front) = 2 => Has(Front[1], Translate)
        /\ Len(Front) = 1 => SecondPort
    BY <2>0 DEF IInv, InitKnows, ProgrammedInv, In
  <2>5. u = "verdict1" => /\ Len(Front') \in {1, 2}
                          /\ Len(Front') = 2 => Has(Front'[1], Translate)
                          /\ Len(Front') = 1 => SecondPort'
    BY <2>2, <2>3, <2>4 DEF SecondPort
  <2>6. u = t => Front' = <<>> /\ SecondPort'
    <3>1. SUFFICES ASSUME u = t PROVE Front' = <<>> /\ SecondPort'
      OBVIOUS
    <3>2. ~Has(0, Translate)
      BY ConfigsAreNoAnswers DEF Bytes
    <3>3. Len(Front) = 1
      BY <2>3, <2>4, <3>1, <3>2
    <3>4. Len(Front') = 0
      BY <2>3, <3>1, <3>3 DEF Shrinks
    <3>5. Front' = <<>>
      BY <2>2, <3>4, FrontSizeNext
    <3>. QED BY <2>2, <2>4, <3>3, <3>5 DEF SecondPort
  <2>7. Port2Gated'
    BY <2>0, <2>2 DEF Port2Gated, Gated
  <2>8. pc'[2] = u
    BY <2>3, LabelParts
  <2>9. ProgrammedInv'
    BY <2>1, <2>3, <2>5, <2>6, <2>7, <2>8 DEF ProgrammedInv, In, Port2Gated
  <2>. QED BY <2>0, <2>1, <2>2, <2>3, <2>9, ProbeStep DEF InitKnows, ProbeLabels
<1>3. CASE /\ At(R, "port2")
           /\ Command(TestPort2, <<R, "verdict2">>, <<R, "port2_broken">>)
           /\ UNCHANGED locals
  <2>0. InitKnows("port2") /\ Port2Gated /\ ~Reading
    BY <1>3, ProbeFacts DEF At, ProbeLabels
  <2>1. /\ Typed' /\ Said' = Said /\ seen' = seen /\ hasPort2' = hasPort2 /\ UNCHANGED locals
        /\ \/ pc' = <<R, "port2_broken">> /\ cfg' = cfg /\ Front' = Front
           \/ /\ pc' = <<R, "verdict2">> /\ cfg' \in ConfigsAfter(TestPort2)
              /\ \E a \in Answers(TestPort2) : Front' = Front \o a
    BY <1>0, <1>3, <2>0, CommandEffect DEF InitKnows
  <2>2. ConfigsAfter(TestPort2) = {cfg}
    BY DEF ConfigsAfter, TestPort2, DisablePort1, EnablePort1, DisablePort2, EnablePort2,
           TestController
  <2>3. PICK t \in {"verdict2", "port2_broken"} :
           /\ pc' = <<R, t>> /\ cfg' = cfg
           /\ t = "port2_broken" => Front' = Front
           /\ t = "verdict2" => \E a \in Answers(TestPort2) : Front' = Front \o a
    BY <2>1, <2>2
  <2>4. Front = <<>> /\ SecondPort /\ Len(Front) = 0
    BY <2>0 DEF IInv, InitKnows, ProgrammedInv, In
  <2>5. t = "verdict2" => Len(Front') <= 1
    <3>1. SUFFICES ASSUME t = "verdict2" PROVE Len(Front') <= 1
      OBVIOUS
    <3>2. (\E b \in Bytes : Grows(b)) \/ Front' = Front
      BY <2>0, <2>3, <3>1, AnsweredCommand DEF InitKnows
    <3>3. Len(Front') = Len(Front) + 1 \/ Front' = Front
      BY <3>2 DEF Grows
    <3>. QED BY <2>4, <3>3
  <2>6. Port2Gated' /\ SecondPort' /\ (t = "port2_broken" => Front' = <<>>)
    BY <2>0, <2>1, <2>3, <2>4 DEF Port2Gated, Gated, SecondPort, locals
  <2>7. pc'[2] = t
    BY <2>3, LabelParts
  <2>8. ProgrammedInv'
    BY <2>3, <2>5, <2>6, <2>7 DEF ProgrammedInv, In, Port2Gated
  <2>9. live' = live
    BY <2>1 DEF locals
  <2>. QED BY <2>0, <2>1, <2>3, <2>8, <2>9, ProbeStep DEF InitKnows, ProbeLabels
<1>4. CASE At(R, "verdict2") /\ Expect({0}, Ready, <<R, "port2_broken">>)
  <2>0. InitKnows("verdict2") /\ Port2Gated /\ Reading
    BY <1>4, ProbeFacts DEF At, ProbeLabels
  <2>1. /\ Typed' /\ SeenInv' /\ Said' = Said
        /\ UNCHANGED <<cfg, hasPort2, port2, live>>
        /\ \/ pc' = pc /\ Front' = Front
           \/ pc' = <<R, "port2_broken">> /\ ((Front' = Front /\ Front = <<>>) \/ Shrinks)
           \/ pc' = Ready /\ Shrinks
    <3>1. Typed /\ SeenInv /\ ~live /\ Reading
      BY <2>0 DEF InitKnows
    <3>. QED BY <1>0, <1>4, <3>1, ExpectEffect
  <2>2. Len(Front) <= 1 /\ SecondPort /\ Len(Front) \in Nat
    BY <2>0 DEF IInv, InitKnows, ProgrammedInv, In
  <2>3. PICK t \in {"verdict2", "port2_broken", "ready"} :
           /\ pc' = <<R, t>>
           /\ t = "verdict2" => Front' = Front
           /\ t # "verdict2" => (Front' = Front /\ Front = <<>>) \/ Shrinks
    BY <1>0, <2>0, <2>1 DEF InitKnows
  <2>4. t # "verdict2" => Front' = <<>>
    <3>1. ASSUME Shrinks PROVE Front' = <<>>
      <4>1. Len(Front') = Len(Front) - 1
        BY <3>1 DEF Shrinks
      <4>2. Len(Front') \in Nat /\ (Len(Front') = 0 <=> Front' = <<>>)
        BY <2>1, FrontSizeNext
      <4>. QED BY <2>2, <4>1, <4>2
    <3>. QED BY <2>3, <3>1
  <2>5. Port2Gated' /\ SecondPort'
    BY <2>0, <2>1, <2>2 DEF Port2Gated, Gated, SecondPort
  <2>6. t = "verdict2" => Len(Front') <= 1
    BY <2>2, <2>3
  <2>7. pc'[2] = t
    BY <2>3, LabelParts
  <2>8. ProgrammedInv'
    BY <2>3, <2>4, <2>5, <2>6, <2>7 DEF ProgrammedInv, In, Port2Gated
  <2>. QED BY <2>0, <2>1, <2>3, <2>8, ProbeStep DEF InitKnows, ProbeLabels
<1>5. CASE /\ At(R, "port2_broken") /\ SetPort2(FALSE, Ready)
           /\ UNCHANGED <<seen, chip, keyboard, bus>>
  <2>0. InitKnows("port2_broken") /\ Port2Gated /\ ~Reading
    BY <1>5, ProbeFacts DEF At, ProbeLabels
  <2>1. /\ Typed' /\ SeenInv' /\ Front' = Front /\ Said' = Said /\ port2' = FALSE
        /\ pc' = <<R, "ready">> /\ cfg' = cfg /\ hasPort2' = hasPort2 /\ live' = live
    BY <1>0, <1>5, <2>0, SetPort2Effect DEF InitKnows
  <2>2. Front = <<>>
    BY <2>0 DEF IInv, InitKnows, ProgrammedInv, In
  <2>3. Port2Gated' /\ SecondPort' /\ Front' = <<>>
    BY <2>0, <2>1, <2>2 DEF Port2Gated, Gated, SecondPort
  <2>4. pc'[2] = "ready"
    BY <2>1, LabelParts
  <2>5. ProgrammedInv'
    BY <2>3, <2>4 DEF ProgrammedInv, In, Port2Gated
  <2>. QED BY <2>0, <2>1, <2>5, ProbeStep DEF InitKnows, ProbeLabels
<1>. QED BY <1>1, <1>2, <1>3, <1>4, <1>5 DEF TestPorts

-----------------------------------------------------------------------------
(* KbdInit.  Outside I8042Init a step has the rest of the invariant to see *)
(* to.                                                                     *)
LEMMA KbdStep ==
  ASSUME pc'[1] # R, Typed', SeenInv', UnmuteInv', ConverseInv', EndInv'
  PROVE  IInv'
BY LeavesI8042Init DEF IInv

KbdKnows(r, s) ==
  /\ pc = <<r, s>> /\ pc[1] = r /\ pc[2] = s
  /\ live = FALSE /\ Typed /\ SeenInv
  /\ Len(Front) \in Nat /\ (Len(Front) = 0 <=> Front = <<>>)
  /\ cfg \in Bytes /\ config \in Bytes
  /\ Degrade \in Routines \X Steps
  /\ s \notin {"config", "bat", "id0", "id1", "answer"} => ~Reading

LEMMA KbdFacts ==
  ASSUME IInv, NEW r \in Routines \ {R, "leds", "led_state"}, NEW s \in Steps \ {"up"},
         pc = <<r, s>>
  PROVE  KbdKnows(r, s)
<1>1. pc[1] = r /\ pc[2] = s /\ Degrade \in Routines \X Steps
  BY LabelParts DEF Degrade, Routines, Steps
<1>2. live = FALSE
  BY <1>1, NotLive DEF In
<1>3. s \notin {"config", "bat", "id0", "id1", "answer"} => ~Reading
  BY <1>1 DEF Reading, In, R
<1>. QED BY <1>1, <1>2, <1>3, FrontSize DEF IInv, Typed, TypeOK, KbdKnows

(* The commands that gate port 1.                                          *)
LEMMA Port1Command ==
  ASSUME cfg \in Bytes
  PROVE  /\ \A c \in ConfigsAfter(EnablePort1) :
              ~Has(c, Clock1) /\ (Has(cfg, Int1) => Has(c, Int1))
<1>1. ConfigsAfter(EnablePort1) = {Without(cfg, Clock1)}
  BY DEF ConfigsAfter, EnablePort1, DisablePort1, EnablePort2, DisablePort2, TestController
<1>2. /\ Clock1 \in BitSet /\ Int1 \in BitSet /\ Int1 # Clock1
  BY DEF BitSet, Int1, Clock1
<1>. QED BY <1>1, <1>2, ClearBit, OtherBit

LEMMA UnmutePreserves == IInv /\ Unmute => IInv'
<1> SUFFICES ASSUME IInv, Unmute PROVE IInv'
  OBVIOUS
<1>0. /\ K = "KbdInit" /\ R = "I8042Init" /\ K \in Routines \ {R, "leds", "led_state"}
      /\ "drain" \in Steps \ {"up"} /\ "ask" \in Steps \ {"up"} /\ "config" \in Steps \ {"up"}
      /\ "unmute" \in Steps \ {"up"} /\ "gate" \in Steps \ {"up"} /\ K \in Routines
      /\ <<K, "drain">> \in Routines \X Steps /\ <<K, "ask">> \in Routines \X Steps
      /\ <<K, "unmute">> \in Routines \X Steps /\ <<K, "gate">> \in Routines \X Steps
      /\ <<"enable", "drain">> \in Routines \X Steps
      /\ Degrade = <<"disable", "gate">> /\ Ready = <<R, "ready">>
  BY DEF K, R, Routines, Steps, Degrade, Ready
<1>1. CASE pc = Ready /\ Goto(<<K, "drain">>) /\ UNCHANGED <<seen, chip, keyboard, bus>>
  <2>0. InitKnows("ready") /\ Port2Gated /\ ~Reading
    BY <1>0, <1>1, ProbeFacts DEF ProbeLabels
  <2>1. /\ pc' = <<K, "drain">>
        /\ UNCHANGED <<seen, locals, cfg, reply, hasPort2, wire, device, scanning, keys, out,
                       garbled, stolen>>
    BY <1>1 DEF Goto, chip, keyboard, bus
  <2>2. Typed' /\ live' = FALSE
    BY <1>0, <2>0, <2>1 DEF InitKnows, Typed, TypeOK, locals
  <2>3. SeenInv'
    BY <2>0, <2>1 DEF InitKnows, SeenInv
  <2>4. Front' = Front /\ Said' = Said
    BY <2>1, Unmoved
  <2>5. Front = <<>> /\ Clean(Said) /\ Has(cfg, Clock1)
    BY <2>0 DEF IInv, InitKnows, ProgrammedInv, UnmuteInv, In, Port2Gated, Gated
  <2>6. pc'[1] = K /\ pc'[2] = "drain"
    BY <2>1, LabelParts
  <2>7. UnmuteInv'
    BY <1>0, <2>1, <2>4, <2>5, <2>6 DEF UnmuteInv, In, Clean
  <2>8. ConverseInv' /\ EndInv'
    BY <1>0, <2>2, <2>6 DEF ConverseInv, EndInv, In, Talking
  <2>. QED BY <1>0, <2>2, <2>3, <2>6, <2>7, <2>8, KbdStep
<1>2. CASE At(K, "drain") /\ Drain(<<K, "ask">>)
  <2>0. KbdKnows(K, "drain")
    BY <1>0, <1>2, KbdFacts DEF At
  <2>1. /\ Typed' /\ Said' = Said /\ seen' = seen /\ live' = live /\ cfg' = cfg
        /\ (Front' = Front) \/ Shrinks
        /\ pc' \in {pc, <<K, "ask">>}
    BY <1>0, <1>2, <2>0, DrainEffect DEF KbdKnows, locals
  <2>2. Has(cfg, Clock1) /\ Front = <<>> /\ Clean(Said)
    BY <2>0 DEF IInv, KbdKnows, UnmuteInv, In
  <2>3. Front' = <<>>
    BY <2>1, <2>2 DEF Shrinks
  <2>4. pc'[1] = K /\ pc'[2] \in {"drain", "ask"}
    BY <2>0, <2>1, LabelParts DEF KbdKnows
  <2>5. SeenInv'
    BY <2>0, <2>1 DEF KbdKnows, SeenInv
  <2>6. UnmuteInv'
    BY <1>0, <2>1, <2>2, <2>3, <2>4 DEF UnmuteInv, In, Clean
  <2>7. ConverseInv' /\ EndInv'
    BY <1>0, <2>0, <2>1, <2>4 DEF KbdKnows, ConverseInv, EndInv, In, Talking
  <2>. QED BY <1>0, <2>1, <2>4, <2>5, <2>6, <2>7, KbdStep
<1>3. CASE AskConfig(K, "ask", "config", <<K, "unmute">>, Degrade)
  <2>0. PICK s \in {"ask", "config"} : pc = <<K, s>>
    BY <1>3 DEF AskConfig, At
  <2>1. /\ KbdKnows(K, s)
        /\ pc = <<K, "ask">> => ~Reading /\ s = "ask"
        /\ pc = <<K, "config">> => Reading /\ s = "config"
    <3>1. KbdKnows(K, s)
      BY <1>0, <2>0, KbdFacts
    <3>. QED BY <2>0, <3>1, LabelParts DEF KbdKnows, Reading, In
  <2>2. /\ Typed' /\ SeenInv' /\ Said' = Said /\ live' = live /\ cfg' = cfg
        /\ \/ pc = <<K, "ask">> /\ pc' = <<K, "config">> /\ Grows(cfg)
           \/ pc' = Degrade
           \/ pc = <<K, "config">> /\ pc' = <<K, "config">> /\ Front' = Front
           \/ pc = <<K, "config">> /\ pc' = <<K, "unmute">> /\ Shrinks
    <3>1. /\ Typed /\ SeenInv /\ ~live /\ Degrade \in Routines \X Steps
          /\ pc = <<K, "ask">> => ~Reading
          /\ pc = <<K, "config">> => Reading
      BY <2>1 DEF KbdKnows
    <3>. QED BY <1>0, <1>3, <3>1, AskEffect
  <2>3. CASE pc' = Degrade
    BY <1>0, <2>1, <2>2, <2>3, GivesUp, LabelParts DEF KbdKnows
  <2>4. PICK t \in {"config", "unmute"} :
           /\ pc' = <<K, t>>
           /\ \/ s = "ask" /\ t = "config" /\ Len(Front') = Len(Front) + 1
              \/ s = "config" /\ t = "config" /\ Front' = Front
              \/ s = "config" /\ t = "unmute" /\ Len(Front') = Len(Front) - 1
           \/ pc' = Degrade
    BY <2>1, <2>2 DEF Grows, Shrinks
  <2>5. /\ Has(cfg, Clock1) /\ Clean(Said)
        /\ s = "ask" => Len(Front) = 0
        /\ s = "config" => Len(Front) <= 1
        /\ Len(Front) \in Nat
    BY <2>1 DEF IInv, KbdKnows, UnmuteInv, In
  <2>6. CASE pc' # Degrade
    <3>1. Len(Front') \in Nat /\ (Len(Front') = 0 <=> Front' = <<>>)
      BY <2>2, FrontSizeNext
    <3>2. pc'[1] = K /\ pc'[2] = t
      BY <2>4, <2>6, LabelParts
    <3>3. (t = "config" => Len(Front') <= 1) /\ (t = "unmute" => Len(Front') = 0)
      BY <2>4, <2>5, <2>6, <3>1
    <3>4. UnmuteInv'
      BY <1>0, <2>2, <2>5, <3>1, <3>2, <3>3 DEF UnmuteInv, In, Clean
    <3>5. ConverseInv' /\ EndInv'
      BY <1>0, <2>1, <2>2, <3>2 DEF KbdKnows, ConverseInv, EndInv, In, Talking
    <3>. QED BY <1>0, <2>2, <3>2, <3>4, <3>5, KbdStep
  <2>. QED BY <2>3, <2>6
<1>4. CASE /\ At(K, "unmute")
           /\ CommandConfig(Without(config, Clock1), <<K, "gate">>, Degrade)
           /\ UNCHANGED locals
  <2>0. KbdKnows(K, "unmute")
    BY <1>0, <1>4, KbdFacts DEF At
  <2>1. Without(config, Clock1) \in Bytes /\ ~Has(Without(config, Clock1), Clock1)
    BY <2>0, ClearBit DEF KbdKnows, BitSet
  <2>2. /\ Typed' /\ Front' = Front /\ Said' = Said /\ seen' = seen /\ live' = live
        /\ pc' = Degrade \/ (pc' = <<K, "gate">> /\ cfg' = Without(config, Clock1))
    BY <1>0, <1>4, <2>0, <2>1, ConfigEffect DEF KbdKnows, locals
  <2>3. SeenInv'
    BY <2>0, <2>2 DEF KbdKnows, SeenInv
  <2>4. CASE pc' = Degrade
    BY <1>0, <2>0, <2>2, <2>3, <2>4, GivesUp, LabelParts DEF KbdKnows
  <2>5. CASE pc' = <<K, "gate">> /\ cfg' = Without(config, Clock1)
    <3>1. pc'[1] = K /\ pc'[2] = "gate"
      BY <2>5, LabelParts
    <3>2. Front = <<>> /\ Clean(Said)
      BY <2>0 DEF IInv, KbdKnows, UnmuteInv, In
    <3>3. UnmuteInv'
      BY <1>0, <2>1, <2>2, <2>5, <3>1, <3>2 DEF UnmuteInv, In, Clean
    <3>4. ConverseInv' /\ EndInv'
      BY <1>0, <2>0, <2>2, <3>1 DEF KbdKnows, ConverseInv, EndInv, In, Talking
    <3>. QED BY <1>0, <2>2, <2>3, <3>1, <3>3, <3>4, KbdStep
  <2>. QED BY <2>2, <2>4, <2>5
<1>5. CASE At(K, "gate") /\ Command(EnablePort1, <<"enable", "drain">>, Degrade) /\ UNCHANGED locals
  <2>0. KbdKnows(K, "gate")
    BY <1>0, <1>5, KbdFacts DEF At
  <2>1. /\ Typed' /\ Said' = Said /\ seen' = seen /\ live' = live /\ Front' = Front
        /\ pc' = Degrade \/ (pc' = <<"enable", "drain">> /\ cfg' \in ConfigsAfter(EnablePort1))
    BY <1>0, <1>5, <2>0, CommandEffect, SilentCommand DEF KbdKnows, locals
  <2>2. SeenInv'
    BY <2>0, <2>1 DEF KbdKnows, SeenInv
  <2>3. CASE pc' = Degrade
    BY <1>0, <2>0, <2>1, <2>2, <2>3, GivesUp, LabelParts DEF KbdKnows
  <2>4. CASE pc' = <<"enable", "drain">> /\ cfg' \in ConfigsAfter(EnablePort1)
    <3>1. pc'[1] = "enable" /\ pc'[2] = "drain"
      BY <2>4, LabelParts
    <3>2. Clean(Front) /\ Clean(Said)
      BY <2>0 DEF IInv, KbdKnows, UnmuteInv, In
    <3>3. ~Has(cfg', Clock1)
      BY <2>0, <2>4, Port1Command DEF KbdKnows
    <3>4. UnmuteInv'
      BY <1>0, <2>1, <3>1, <3>2, <3>3 DEF UnmuteInv, In, Clean
    <3>5. ConverseInv' /\ EndInv'
      BY <1>0, <2>0, <2>1, <3>1 DEF KbdKnows, ConverseInv, EndInv, In, Talking
    <3>. QED BY <1>0, <2>1, <2>2, <3>1, <3>4, <3>5, KbdStep
  <2>. QED BY <2>1, <2>3, <2>4
<1>. QED BY <1>1, <1>2, <1>3, <1>4, <1>5 DEF Unmute

LEMMA DisablePortPreserves == IInv /\ DisablePort => IInv'
<1> SUFFICES ASSUME IInv, DisablePort PROVE IInv'
  OBVIOUS
<1>0. /\ "disable" \in Routines \ {R, "leds", "led_state"} /\ "disable" \in Routines
      /\ "gate" \in Steps \ {"up"} /\ "ask" \in Steps \ {"up"} /\ "config" \in Steps \ {"up"}
      /\ "disarm" \in Steps \ {"up"}
      /\ <<"disable", "ask">> \in Routines \X Steps
      /\ <<"disable", "refused">> \in Routines \X Steps
      /\ <<"disable", "disarm">> \in Routines \X Steps
      /\ <<"disable", "done">> \in Routines \X Steps
      /\ <<"disable", "gave_up">> \in Routines \X Steps
  BY DEF R, Routines, Steps
<1>1. CASE /\ At("disable", "gate")
           /\ Command(DisablePort1, <<"disable", "ask">>, <<"disable", "refused">>)
           /\ UNCHANGED locals
  <2>0. KbdKnows("disable", "gate")
    BY <1>0, <1>1, KbdFacts DEF At
  <2>1. /\ Typed' /\ seen' = seen /\ live' = live
        /\ pc' \in {<<"disable", "ask">>, <<"disable", "refused">>}
    BY <1>0, <1>1, <2>0, CommandEffect DEF KbdKnows, locals
  <2>2. SeenInv'
    BY <2>0, <2>1 DEF KbdKnows, SeenInv
  <2>3. pc'[1] = "disable" /\ (pc'[2] = "refused" \/ pc' = <<"disable", "ask">>)
    BY <2>1, LabelParts
  <2>4. pc' = <<"disable", "ask">> => Has(cfg', Clock1)
    <3>1. <<"disable", "ask">> # <<"disable", "refused">>
      OBVIOUS
    <3>2. pc' = <<"disable", "ask">> => cfg' = With(cfg, Clock1)
      BY <1>1, <3>1 DEF Command, ConfigsAfter, DisablePort1, EnablePort1, DisablePort2,
         EnablePort2, TestController
    <3>3. Clock1 \in BitSet
      BY DEF BitSet
    <3>. QED BY <2>0, <3>2, <3>3, SetBit DEF KbdKnows
  <2>. QED BY <2>0, <2>1, <2>2, <2>3, <2>4, GivesUp DEF KbdKnows
<1>2. CASE AskConfig("disable", "ask", "config", <<"disable", "disarm">>, <<"disable", "gave_up">>)
  <2>0. PICK s \in {"ask", "config"} : pc = <<"disable", s>>
    BY <1>2 DEF AskConfig, At
  <2>1. KbdKnows("disable", s)
    BY <1>0, <2>0, KbdFacts
  <2>2. /\ pc = <<"disable", "ask">> => ~Reading
        /\ pc = <<"disable", "config">> => Reading
    BY <2>0, <2>1, LabelParts DEF KbdKnows, Reading, In
  <2>3. /\ Typed' /\ SeenInv' /\ live' = live
        /\ pc' \in {<<"disable", "config">>, <<"disable", "gave_up">>, <<"disable", "disarm">>}
    <3>1. Typed /\ SeenInv /\ ~live
      BY <2>1 DEF KbdKnows
    <3>. QED BY <1>0, <1>2, <2>2, <3>1, AskEffect
  <2>4. pc'[1] = "disable"
    BY <2>3, LabelParts
  <2>5. Has(cfg', Clock1)
    <3>1. cfg' = cfg
      <4>1. Typed /\ SeenInv /\ ~live
        BY <2>1 DEF KbdKnows
      <4>. QED BY <1>0, <1>2, <2>2, <4>1, AskEffect
    <3>2. Has(cfg, Clock1)
      BY <2>0, <2>1 DEF KbdKnows, IInv, EndInv, In
    <3>. QED BY <3>1, <3>2
  <2>. QED BY <2>1, <2>3, <2>4, <2>5, GivesUp DEF KbdKnows
<1>3. CASE /\ At("disable", "disarm")
           /\ CommandConfig(With(Without(config, Int1), Clock1), <<"disable", "done">>,
                            <<"disable", "gave_up">>)
           /\ UNCHANGED locals
  <2>0. KbdKnows("disable", "disarm")
    BY <1>0, <1>3, KbdFacts DEF At
  <2> DEFINE c == With(Without(config, Int1), Clock1)
  <2>1. c \in Bytes /\ Has(c, Clock1)
    BY <2>0, WrittenConfigs DEF KbdKnows
  <2>2. CommandConfig(c, <<"disable", "done">>, <<"disable", "gave_up">>) /\ UNCHANGED locals
    BY <1>3
  <2> HIDE DEF c
  <2>3. /\ Typed' /\ seen' = seen /\ live' = live
        /\ pc' \in {<<"disable", "gave_up">>, <<"disable", "done">>}
        /\ cfg' \in {cfg, c}
    BY <1>0, <2>0, <2>1, <2>2, ConfigEffect DEF KbdKnows, locals, CommandConfig
  <2>4. SeenInv'
    BY <2>0, <2>3 DEF KbdKnows, SeenInv
  <2>5. Has(cfg, Clock1)
    BY <2>0 DEF KbdKnows, IInv, EndInv, In
  <2>6. pc'[1] = "disable"
    BY <2>3, LabelParts
  <2>. QED BY <2>0, <2>1, <2>3, <2>4, <2>5, <2>6, GivesUp DEF KbdKnows
<1>. QED BY <1>1, <1>2, <1>3 DEF DisablePort

(* A byte more or less leaves what is ahead without an answer.             *)
LEMMA Shrunk ==
  ASSUME Typed, Clean(Front), Front' = Front \/ Shrinks
  PROVE  Clean(Front')
<1>1. Front \in Seq(Bytes)
  BY Waiting
<1>2. CASE Front' = Front
  BY <1>2 DEF Clean
<1>3. CASE Shrinks
  <2>1. Front # <<>> /\ Front' = Tail(Front)
    BY <1>3 DEF Shrinks
  <2>2. Clean(Tail(Front))
    BY <1>1, <2>1, CleanParts
  <2>. QED BY <2>1, <2>2, Zenon
<1>. QED BY <1>2, <1>3

LEMMA Grown ==
  ASSUME Typed, Clean(Front), NEW b \in Bytes, b \notin Handshake, Grows(b)
  PROVE  Clean(Front')
<1>1. Front \in Seq(Bytes) /\ <<b>> \in Seq(Bytes)
  BY Waiting
<1>2. Clean(<<b>>)
  BY DEF Clean
<1>3. Clean(Front \o <<b>>)
  BY <1>1, <1>2, CleanParts
<1>. QED BY <1>3 DEF Grows, Clean

LEMMA EnablePortPreserves == IInv /\ EnablePort("enable", <<"scan_off", "send">>) => IInv'
<1> SUFFICES ASSUME IInv, EnablePort("enable", <<"scan_off", "send">>) PROVE IInv'
  OBVIOUS
<1>0. /\ "enable" \in Routines \ {R, "leds", "led_state"} /\ "enable" \in Routines
      /\ "drain" \in Steps \ {"up"} /\ "ask" \in Steps \ {"up"} /\ "config" \in Steps \ {"up"}
      /\ "arm" \in Steps \ {"up"} /\ "gate" \in Steps \ {"up"}
      /\ <<"enable", "ask">> \in Routines \X Steps /\ <<"enable", "arm">> \in Routines \X Steps
      /\ <<"enable", "gate">> \in Routines \X Steps
      /\ <<"scan_off", "send">> \in Routines \X Steps
      /\ Degrade = <<"disable", "gate">> /\ R = "I8042Init" /\ K = "KbdInit"
  BY DEF R, K, Routines, Steps, Degrade
<1>1. CASE At("enable", "drain") /\ Drain(<<"enable", "ask">>)
  <2>0. KbdKnows("enable", "drain")
    BY <1>0, <1>1, KbdFacts DEF At
  <2>1. /\ Typed' /\ Said' = Said /\ seen' = seen
        /\ UNCHANGED <<live, cfg, device, scanning>>
        /\ (Front' = Front) \/ Shrinks
        /\ pc' \in {pc, <<"enable", "ask">>}
    BY <1>0, <1>1, <2>0, DrainEffect DEF KbdKnows, locals
  <2>2. Clean(Front) /\ Clean(Said) /\ ~Has(cfg, Clock1)
    BY <2>0 DEF IInv, KbdKnows, UnmuteInv, In
  <2>3. pc'[1] = "enable" /\ pc'[2] \in {"drain", "ask"}
    BY <2>0, <2>1, LabelParts DEF KbdKnows
  <2>4. SeenInv'
    BY <2>0, <2>1 DEF KbdKnows, SeenInv
  <2>5. Clean(Front')
    BY <2>0, <2>1, <2>2, Shrunk DEF KbdKnows
  <2>6. UnmuteInv'
    BY <1>0, <2>1, <2>2, <2>3, <2>5 DEF UnmuteInv, In, Clean
  <2>7. ConverseInv' /\ EndInv'
    BY <1>0, <2>0, <2>1, <2>3 DEF KbdKnows, ConverseInv, EndInv, In, Talking
  <2>. QED BY <1>0, <2>1, <2>3, <2>4, <2>6, <2>7, KbdStep
<1>2. CASE AskConfig("enable", "ask", "config", <<"enable", "arm">>, Degrade)
  <2>0. PICK s \in {"ask", "config"} : pc = <<"enable", s>>
    BY <1>2 DEF AskConfig, At
  <2>1. /\ KbdKnows("enable", s)
        /\ pc = <<"enable", "ask">> => ~Reading
        /\ pc = <<"enable", "config">> => Reading
    <3>1. KbdKnows("enable", s)
      BY <1>0, <2>0, KbdFacts
    <3>. QED BY <2>0, <3>1, LabelParts DEF KbdKnows, Reading, In
  <2>2. /\ Typed' /\ SeenInv' /\ Said' = Said /\ UNCHANGED <<live, cfg, device, scanning>>
        /\ \/ pc' = <<"enable", "config">> /\ (Grows(cfg) \/ Front' = Front)
           \/ pc' = Degrade
           \/ pc' = <<"enable", "arm">> /\ Shrinks
    <3>1. /\ Typed /\ SeenInv /\ ~live /\ Degrade \in Routines \X Steps
          /\ pc = <<"enable", "ask">> => ~Reading
          /\ pc = <<"enable", "config">> => Reading
      BY <2>1 DEF KbdKnows
    <3>. QED BY <1>0, <1>2, <3>1, AskEffect
  <2>3. CASE pc' = Degrade
    BY <1>0, <2>1, <2>2, <2>3, GivesUp, LabelParts DEF KbdKnows
  <2>4. CASE pc' # Degrade
    <3>1. pc'[1] = "enable" /\ pc'[2] \in {"config", "arm"}
      BY <2>2, <2>4, LabelParts
    <3>2. Clean(Front) /\ Clean(Said) /\ ~Has(cfg, Clock1)
      BY <2>0, <2>1 DEF IInv, KbdKnows, UnmuteInv, In
    <3>3. Clean(Front')
      <4>1. cfg \notin Handshake
        BY <2>1, <3>2, ConfigsAreNoAnswers DEF KbdKnows
      <4>. QED BY <2>1, <2>2, <2>4, <3>2, <4>1, Shrunk, Grown DEF KbdKnows
    <3>4. UnmuteInv'
      BY <1>0, <2>2, <3>1, <3>2, <3>3 DEF UnmuteInv, In, Clean
    <3>5. ConverseInv' /\ EndInv'
      BY <1>0, <2>1, <2>2, <3>1 DEF KbdKnows, ConverseInv, EndInv, In, Talking
    <3>. QED BY <1>0, <2>2, <3>1, <3>4, <3>5, KbdStep
  <2>. QED BY <2>3, <2>4
<1>3. CASE /\ At("enable", "arm")
           /\ CommandConfig(Without(With(config, Int1), Clock1), <<"enable", "gate">>, Degrade)
           /\ UNCHANGED locals
  <2>0. KbdKnows("enable", "arm")
    BY <1>0, <1>3, KbdFacts DEF At
  <2> DEFINE c == Without(With(config, Int1), Clock1)
  <2>1. c \in Bytes /\ Has(c, Int1) /\ ~Has(c, Clock1)
    BY <2>0, WrittenConfigs DEF KbdKnows
  <2>2. CommandConfig(c, <<"enable", "gate">>, Degrade) /\ UNCHANGED locals
    BY <1>3
  <2> HIDE DEF c
  <2>3. /\ Typed' /\ seen' = seen /\ UNCHANGED <<live, device, scanning>>
        /\ Front' = Front /\ Said' = Said
        /\ pc' = Degrade \/ (pc' = <<"enable", "gate">> /\ cfg' = c)
    BY <1>0, <2>0, <2>1, <2>2, ConfigEffect DEF KbdKnows, locals
  <2>4. SeenInv'
    BY <2>0, <2>3 DEF KbdKnows, SeenInv
  <2>5. CASE pc' = Degrade
    BY <1>0, <2>0, <2>3, <2>4, <2>5, GivesUp, LabelParts DEF KbdKnows
  <2>6. CASE pc' = <<"enable", "gate">> /\ cfg' = c
    <3>1. pc'[1] = "enable" /\ pc'[2] = "gate"
      BY <2>6, LabelParts
    <3>2. Clean(Front) /\ Clean(Said)
      BY <2>0 DEF IInv, KbdKnows, UnmuteInv, In
    <3>3. UnmuteInv'
      BY <1>0, <2>1, <2>3, <2>6, <3>1, <3>2 DEF UnmuteInv, In, Clean
    <3>4. ConverseInv' /\ EndInv'
      BY <1>0, <2>0, <2>3, <3>1 DEF KbdKnows, ConverseInv, EndInv, In, Talking
    <3>. QED BY <1>0, <2>3, <2>4, <3>1, <3>3, <3>4, KbdStep
  <2>. QED BY <2>3, <2>5, <2>6
<1>4. CASE /\ At("enable", "gate") /\ Command(EnablePort1, <<"scan_off", "send">>, Degrade)
           /\ UNCHANGED locals
  <2>0. KbdKnows("enable", "gate")
    BY <1>0, <1>4, KbdFacts DEF At
  <2>1. /\ Typed' /\ Said' = Said /\ seen' = seen /\ Front' = Front
        /\ UNCHANGED <<live, device, scanning>>
        /\ pc' = Degrade \/ (pc' = <<"scan_off", "send">> /\ cfg' \in ConfigsAfter(EnablePort1))
    BY <1>0, <1>4, <2>0, CommandEffect, SilentCommand DEF KbdKnows, locals
  <2>2. SeenInv'
    BY <2>0, <2>1 DEF KbdKnows, SeenInv
  <2>3. CASE pc' = Degrade
    BY <1>0, <2>0, <2>1, <2>2, <2>3, GivesUp, LabelParts DEF KbdKnows
  <2>4. CASE pc' = <<"scan_off", "send">> /\ cfg' \in ConfigsAfter(EnablePort1)
    <3>1. pc'[1] = "scan_off" /\ pc'[2] = "send"
      BY <2>4, LabelParts
    <3>2. Clean(Front) /\ Clean(Said)
      BY <2>0 DEF IInv, KbdKnows, UnmuteInv, In
    <3>3. Clean(Pending')
      <4>1. Pending' = Front \o Said
        BY <2>1 DEF Pending
      <4>2. Front \in Seq(Bytes) /\ Said \in Seq(Bytes)
        BY <2>0, Waiting DEF KbdKnows
      <4>. QED BY <3>2, <4>1, <4>2, CleanParts
    <3>4. UnmuteInv' /\ ConverseInv' /\ EndInv'
      <4>1. UnmuteInv' /\ EndInv'
        BY <1>0, <2>0, <2>1, <3>1 DEF KbdKnows, UnmuteInv, EndInv, In
      <4>2. ConverseInv'
        BY <1>0, <3>1, <3>3 DEF ConverseInv, In, Clean, Talking
      <4>. QED BY <4>1, <4>2
    <3>. QED BY <1>0, <2>1, <2>2, <3>1, <3>4, KbdStep
  <2>. QED BY <2>1, <2>3, <2>4
<1>. QED BY <1>1, <1>2, <1>3, <1>4 DEF EnablePort

LEMMA EnablePortAgainPreserves == IInv /\ EnablePort("enable_again", <<K, "live">>) => IInv'
<1> SUFFICES ASSUME IInv, EnablePort("enable_again", <<K, "live">>) PROVE IInv'
  OBVIOUS
<1>0. /\ "enable_again" \in Routines \ {R, "leds", "led_state"} /\ "enable_again" \in Routines
      /\ "drain" \in Steps \ {"up"} /\ "ask" \in Steps \ {"up"} /\ "config" \in Steps \ {"up"}
      /\ "arm" \in Steps \ {"up"} /\ "gate" \in Steps \ {"up"}
      /\ <<"enable_again", "ask">> \in Routines \X Steps /\ <<"enable_again", "arm">> \in Routines \X Steps
      /\ <<"enable_again", "gate">> \in Routines \X Steps
      /\ <<K, "live">> \in Routines \X Steps
      /\ Degrade = <<"disable", "gate">> /\ R = "I8042Init" /\ K = "KbdInit"
  BY DEF R, K, Routines, Steps, Degrade
<1>1. CASE At("enable_again", "drain") /\ Drain(<<"enable_again", "ask">>)
  <2>0. KbdKnows("enable_again", "drain")
    BY <1>0, <1>1, KbdFacts DEF At
  <2>1. /\ Typed' /\ Said' = Said /\ seen' = seen
        /\ UNCHANGED <<live, cfg, device, scanning>>
        /\ (Front' = Front) \/ Shrinks
        /\ pc' \in {pc, <<"enable_again", "ask">>}
    BY <1>0, <1>1, <2>0, DrainEffect DEF KbdKnows, locals
  <2>2. device = "keyboard" /\ scanning
    BY <2>0 DEF IInv, KbdKnows, ConverseInv, In
  <2>3. pc'[1] = "enable_again" /\ pc'[2] \in {"drain", "ask"}
    BY <2>0, <2>1, LabelParts DEF KbdKnows
  <2>4. SeenInv'
    BY <2>0, <2>1 DEF KbdKnows, SeenInv
  <2>5. UnmuteInv' /\ ConverseInv' /\ EndInv'
    BY <1>0, <2>0, <2>1, <2>2, <2>3 DEF KbdKnows, UnmuteInv, ConverseInv, EndInv, In, Talking
  <2>. QED BY <1>0, <2>1, <2>3, <2>4, <2>5, KbdStep
<1>2. CASE AskConfig("enable_again", "ask", "config", <<"enable_again", "arm">>, Degrade)
  <2>0. PICK s \in {"ask", "config"} : pc = <<"enable_again", s>>
    BY <1>2 DEF AskConfig, At
  <2>1. /\ KbdKnows("enable_again", s)
        /\ pc = <<"enable_again", "ask">> => ~Reading
        /\ pc = <<"enable_again", "config">> => Reading
    <3>1. KbdKnows("enable_again", s)
      BY <1>0, <2>0, KbdFacts
    <3>. QED BY <2>0, <3>1, LabelParts DEF KbdKnows, Reading, In
  <2>2. /\ Typed' /\ SeenInv' /\ Said' = Said /\ UNCHANGED <<live, cfg, device, scanning>>
        /\ \/ pc' = <<"enable_again", "config">> /\ (Grows(cfg) \/ Front' = Front)
           \/ pc' = Degrade
           \/ pc' = <<"enable_again", "arm">> /\ Shrinks
    <3>1. /\ Typed /\ SeenInv /\ ~live /\ Degrade \in Routines \X Steps
          /\ pc = <<"enable_again", "ask">> => ~Reading
          /\ pc = <<"enable_again", "config">> => Reading
      BY <2>1 DEF KbdKnows
    <3>. QED BY <1>0, <1>2, <3>1, AskEffect
  <2>3. CASE pc' = Degrade
    BY <1>0, <2>1, <2>2, <2>3, GivesUp, LabelParts DEF KbdKnows
  <2>4. CASE pc' # Degrade
    <3>1. pc'[1] = "enable_again" /\ pc'[2] \in {"config", "arm"}
      BY <2>2, <2>4, LabelParts
    <3>2. device = "keyboard" /\ scanning
      BY <2>0, <2>1 DEF IInv, KbdKnows, ConverseInv, In
    <3>3. UnmuteInv' /\ ConverseInv' /\ EndInv'
      BY <1>0, <2>1, <2>2, <3>1, <3>2
         DEF KbdKnows, UnmuteInv, ConverseInv, EndInv, In, Talking
    <3>. QED BY <1>0, <2>2, <3>1, <3>3, KbdStep
  <2>. QED BY <2>3, <2>4
<1>3. CASE /\ At("enable_again", "arm")
           /\ CommandConfig(Without(With(config, Int1), Clock1), <<"enable_again", "gate">>, Degrade)
           /\ UNCHANGED locals
  <2>0. KbdKnows("enable_again", "arm")
    BY <1>0, <1>3, KbdFacts DEF At
  <2> DEFINE c == Without(With(config, Int1), Clock1)
  <2>1. c \in Bytes /\ Has(c, Int1) /\ ~Has(c, Clock1)
    BY <2>0, WrittenConfigs DEF KbdKnows
  <2>2. CommandConfig(c, <<"enable_again", "gate">>, Degrade) /\ UNCHANGED locals
    BY <1>3
  <2> HIDE DEF c
  <2>3. /\ Typed' /\ seen' = seen /\ UNCHANGED <<live, device, scanning>>
        /\ Front' = Front /\ Said' = Said
        /\ pc' = Degrade \/ (pc' = <<"enable_again", "gate">> /\ cfg' = c)
    BY <1>0, <2>0, <2>1, <2>2, ConfigEffect DEF KbdKnows, locals
  <2>4. SeenInv'
    BY <2>0, <2>3 DEF KbdKnows, SeenInv
  <2>5. CASE pc' = Degrade
    BY <1>0, <2>0, <2>3, <2>4, <2>5, GivesUp, LabelParts DEF KbdKnows
  <2>6. CASE pc' = <<"enable_again", "gate">> /\ cfg' = c
    <3>1. pc'[1] = "enable_again" /\ pc'[2] = "gate"
      BY <2>6, LabelParts
    <3>2. device = "keyboard" /\ scanning
      BY <2>0 DEF IInv, KbdKnows, ConverseInv, In
    <3>3. Ringing'
      BY <2>1, <2>6 DEF Ringing
    <3>4. UnmuteInv' /\ ConverseInv' /\ EndInv'
      BY <1>0, <2>0, <2>3, <3>1, <3>2, <3>3
         DEF KbdKnows, UnmuteInv, ConverseInv, EndInv, In, Talking
    <3>. QED BY <1>0, <2>3, <2>4, <3>1, <3>4, KbdStep
  <2>. QED BY <2>3, <2>5, <2>6
<1>4. CASE /\ At("enable_again", "gate") /\ Command(EnablePort1, <<K, "live">>, Degrade)
           /\ UNCHANGED locals
  <2>0. KbdKnows("enable_again", "gate")
    BY <1>0, <1>4, KbdFacts DEF At
  <2>1. /\ Typed' /\ Said' = Said /\ seen' = seen /\ Front' = Front
        /\ UNCHANGED <<live, device, scanning>>
        /\ pc' = Degrade \/ (pc' = <<K, "live">> /\ cfg' \in ConfigsAfter(EnablePort1))
    BY <1>0, <1>4, <2>0, CommandEffect, SilentCommand DEF KbdKnows, locals
  <2>2. SeenInv'
    BY <2>0, <2>1 DEF KbdKnows, SeenInv
  <2>3. CASE pc' = Degrade
    BY <1>0, <2>0, <2>1, <2>2, <2>3, GivesUp, LabelParts DEF KbdKnows
  <2>4. CASE pc' = <<K, "live">> /\ cfg' \in ConfigsAfter(EnablePort1)
    <3>1. pc'[1] = K /\ pc'[2] = "live"
      BY <2>4, LabelParts
    <3>2. device = "keyboard" /\ scanning /\ Ringing
      BY <2>0 DEF IInv, KbdKnows, ConverseInv, In
    <3>3. Ringing'
      BY <2>0, <2>4, <3>2, Port1Command DEF Ringing, KbdKnows
    <3>4. UnmuteInv' /\ ConverseInv' /\ EndInv'
      BY <1>0, <2>0, <2>1, <3>1, <3>2, <3>3
         DEF KbdKnows, UnmuteInv, ConverseInv, EndInv, In, Talking
    <3>. QED BY <1>0, <2>1, <2>2, <3>1, <3>4, KbdStep
  <2>. QED BY <2>1, <2>3, <2>4
<1>. QED BY <1>1, <1>2, <1>3, <1>4 DEF EnablePort

-----------------------------------------------------------------------------
(* A byte for the device.  It is lost, acknowledged or refused.            *)
Unheard == Pending' = Pending /\ scanning' = scanning
Obeyed(b) ==
  /\ device # "silent" /\ scanning' \in ScansAfter(b)
  /\ \E e \in Extra(b) : Pending' = Pending \o (<<Ack>> \o e)
Refused ==
  /\ device # "silent" /\ scanning' = scanning
  /\ \E f \in {Resend, Failed} : Pending' = Pending \o <<f>>

LEMMA ExtraBytes ==
  ASSUME NEW b, NEW e \in Extra(b)
  PROVE  e \in Seq(Bytes) /\ <<Ack>> \o e \in Seq(Bytes)
<1>1. /\ Failed \in Bytes /\ Passed \in Bytes /\ 0 \in Bytes /\ 171 \in Bytes /\ 65 \in Bytes
      /\ 193 \in Bytes /\ Ack \in Bytes
  BY DEF Bytes, Failed, Passed, Ack
<1>2. /\ <<Failed>> \in Seq(Bytes) /\ <<Passed>> \in Seq(Bytes) /\ <<0>> \in Seq(Bytes)
      /\ <<171, 65>> \in Seq(Bytes) /\ <<171, 193>> \in Seq(Bytes) /\ <<>> \in Seq(Bytes)
      /\ <<Ack>> \in Seq(Bytes)
  BY <1>1
<1>3. e \in {<<Failed>>, <<Passed>>, <<0>>, <<171, 65>>, <<171, 193>>, <<>>}
  BY DEF Extra
<1>4. e \in Seq(Bytes)
  <2>1. CASE e = <<Failed>>
    BY <1>2, <2>1
  <2>2. CASE e = <<Passed>>
    BY <1>2, <2>2
  <2>3. CASE e = <<0>>
    BY <1>2, <2>3
  <2>4. CASE e = <<171, 65>>
    BY <1>2, <2>4
  <2>5. CASE e = <<171, 193>>
    BY <1>2, <2>5
  <2>6. CASE e = <<>>
    BY <1>2, <2>6
  <2>. QED BY <1>3, <2>1, <2>2, <2>3, <2>4, <2>5, <2>6
<1>. QED
  <2> DEFINE B == Seq(Bytes)
  <2>1. e \in B /\ <<Ack>> \in B
    BY <1>2, <1>4
  <2>. QED BY <2>1

LEMMA ScansTyped ==
  ASSUME Typed, NEW b, NEW x \in ScansAfter(b)
  PROVE  x \in BOOLEAN /\ (device # "keyboard" => ~x)
BY DEF ScansAfter, Typed, TypeOK

LEMMA HearsEffect ==
  ASSUME Typed, NEW b, DeviceHears(b), UNCHANGED <<out, reply>>
  PROVE  /\ Unheard \/ Obeyed(b) \/ Refused
         /\ wire' \in Seq(Message) /\ device' = device /\ Front' = Front
         /\ scanning' \in BOOLEAN /\ (device # "keyboard" => ~scanning')
<1>0. wire \in Seq(Message) /\ scanning \in BOOLEAN /\ (device # "keyboard" => ~scanning)
  BY DEF Typed, TypeOK
<1>1. CASE /\ Talks
           /\ \E extra \in Extra(b) : wire' = wire \o From("device", <<Ack>> \o extra)
           /\ scanning' \in ScansAfter(b)
           /\ UNCHANGED <<device, keys>>
  <2>1. PICK e \in Extra(b) : wire' = wire \o From("device", <<Ack>> \o e)
    BY <1>1
  <2>2. <<Ack>> \o e \in Seq(Bytes)
    BY ExtraBytes
  <2>3. /\ wire' \in Seq(Message) /\ Front' = Front
        /\ Pending' = Pending \o (<<Ack>> \o e)
    BY <2>1, <2>2, Spoken
  <2>4. scanning' \in BOOLEAN /\ (device # "keyboard" => ~scanning')
    BY <1>1, ScansTyped
  <2>. QED BY <1>1, <2>3, <2>4 DEF Obeyed, Talks
<1>2. CASE /\ Talks
           /\ \E refusal \in {Resend, Failed} : wire' = wire \o From("device", <<refusal>>)
           /\ UNCHANGED <<device, scanning, keys>>
  <2>1. PICK f \in {Resend, Failed} : wire' = wire \o From("device", <<f>>)
    BY <1>2
  <2>2. <<f>> \in Seq(Bytes)
    <3>1. f \in Bytes
      BY DEF Bytes, Resend, Failed
    <3>. QED BY <3>1
  <2>3. /\ wire' \in Seq(Message) /\ Front' = Front /\ Pending' = Pending \o <<f>>
    BY <2>1, <2>2, Spoken
  <2>. QED BY <1>0, <1>2, <2>3 DEF Refused, Talks
<1>3. CASE UNCHANGED keyboard
  <2>1. UNCHANGED <<wire, device, scanning>>
    BY <1>3 DEF keyboard
  <2>. QED BY <1>0, <2>1, Unmoved DEF Unheard
<1>. QED BY <1>1, <1>2, <1>3 DEF DeviceHears

(* What the driver makes of the answer.                                    *)
Heeded(a) == Pending # <<>> /\ Pending[1] = a /\ Pending' = Tail(Pending)

LEMMA DeviceCommandEffect ==
  ASSUME Typed, SeenInv, ~live, NEW r \in Routines, NEW b,
         NEW next \in Routines \X Steps, NEW otherwise \in Routines \X Steps,
         DeviceCommand(r, b, next, otherwise),
         pc = <<r, "send">> => ~Reading, pc = <<r, "answer">> => Reading
  PROVE  /\ Typed' /\ SeenInv' /\ UNCHANGED <<live, cfg, device>>
         /\ \/ pc' = otherwise
            \/ /\ pc = <<r, "send">> /\ pc' = <<r, "answer">>
               /\ Unheard \/ Obeyed(b) \/ Refused
            \/ pc = <<r, "answer">> /\ pc' = <<r, "answer">> /\ Unheard
            \/ pc = <<r, "answer">> /\ pc' = next /\ Heeded(Ack) /\ scanning' = scanning
            \/ pc = <<r, "answer">> /\ pc' = <<r, "send">> /\ Heeded(Resend) /\ scanning' = scanning
<1>0. /\ <<r, "send">> \in Routines \X Steps /\ <<r, "answer">> \in Routines \X Steps
      /\ 0 \in 0 .. MaxResends /\ resends \in 0 .. MaxResends
      /\ MayResend => NextResend \in 0 .. MaxResends
  BY ControllerAssumption DEF Steps, Typed, TypeOK, MayResend, NextResend
<1>1. CASE /\ At(r, "send")
           /\ \/ DeviceHears(b) /\ pc' = <<r, "answer">> /\ UNCHANGED locals
              \/ /\ UNCHANGED keyboard
                 /\ pc' = otherwise /\ resends' = 0 /\ UNCHANGED <<config, port2, live, leds>>
           /\ UNCHANGED <<seen, chip, bus>>
  <2>1. /\ UNCHANGED <<seen, cfg, reply, hasPort2, out, garbled, stolen, config, port2, live>>
        /\ resends' \in 0 .. MaxResends /\ seen = "nothing"
    BY <1>0, <1>1 DEF chip, bus, locals, SeenInv, At
  <2>2. CASE DeviceHears(b) /\ pc' = <<r, "answer">>
    <3>1. /\ Unheard \/ Obeyed(b) \/ Refused
          /\ wire' \in Seq(Message) /\ device' = device
          /\ scanning' \in BOOLEAN /\ (device # "keyboard" => ~scanning')
      BY <2>1, <2>2, HearsEffect
    <3>2. Typed'
      BY <1>0, <2>1, <2>2, <3>1, MessagesTyped DEF Typed, TypeOK
    <3>3. SeenInv'
      BY <2>1 DEF SeenInv
    <3>. QED BY <1>1, <2>1, <2>2, <3>1, <3>2, <3>3 DEF At
  <2>3. CASE UNCHANGED keyboard /\ pc' = otherwise
    <3>1. Typed'
      BY <2>1, <2>3 DEF Typed, TypeOK, keyboard
    <3>2. SeenInv'
      BY <2>1 DEF SeenInv
    <3>. QED BY <2>1, <2>3, <3>1, <3>2 DEF keyboard
  <2>. QED BY <1>1, <2>2, <2>3
<1>2. ASSUME At(r, "answer"), UNCHANGED <<chip, keyboard, garbled, stolen>>, StatusRead
      PROVE  /\ Typed' /\ SeenInv' /\ UNCHANGED <<live, cfg, device>>
             /\ pc' = <<r, "answer">> /\ Unheard
  <2>1. /\ UNCHANGED <<pc, locals>> /\ Pending' = Pending
        /\ seen' \in {"good", "bad"} /\ out'.full = TRUE /\ out' = out
    BY <1>2, ReadParts
  <2>2. Typed'
    BY <1>2, <2>1 DEF Typed, TypeOK, chip, keyboard, locals
  <2>3. Reading'
    BY <1>2, <2>1 DEF Reading, In, At
  <2>4. SeenInv'
    BY <2>1, <2>3 DEF SeenInv
  <2>. QED BY <1>2, <2>1, <2>2, <2>4 DEF At, chip, keyboard, locals, Unheard
<1>3. ASSUME At(r, "answer"), UNCHANGED <<chip, keyboard, garbled, stolen>>, NoByte \/ GoodByte,
             pc' \in Routines \X Steps, resends' \in 0 .. MaxResends,
             UNCHANGED <<config, port2, live, leds>>
      PROVE  /\ Typed' /\ SeenInv' /\ UNCHANGED <<live, cfg, device>> /\ scanning' = scanning
             /\ GoodByte => Heeded(out.byte)
  <2>1. /\ seen' = "nothing"
        /\ out' \in [full : BOOLEAN, byte : Bytes, garbled : BOOLEAN,
                     from : {"controller", "device", "key"}]
        /\ GoodByte => Pending # <<>> /\ Pending' = Tail(Pending) /\ Pending[1] = out.byte
    BY <1>3, ReadParts
  <2>2. Typed'
    BY <1>3, <2>1 DEF Typed, TypeOK, chip, keyboard
  <2>3. SeenInv'
    BY <2>1 DEF SeenInv
  <2>. QED BY <1>3, <2>1, <2>2, <2>3 DEF chip, keyboard, Heeded
<1>4. CASE /\ At(r, "answer") /\ UNCHANGED <<chip, keyboard, garbled, stolen>>
           /\ NoByte /\ pc' = otherwise /\ resends' = 0 /\ UNCHANGED <<config, port2, live, leds>>
  BY <1>0, <1>3, <1>4
<1>5. CASE /\ At(r, "answer") /\ UNCHANGED <<chip, keyboard, garbled, stolen>>
           /\ GoodByte
           /\ \/ /\ out.byte = Ack /\ pc' = next /\ resends' = 0
                 /\ UNCHANGED <<config, port2, live, leds>>
              \/ /\ out.byte = Resend /\ MayResend /\ pc' = <<r, "send">> /\ resends' = NextResend
                 /\ UNCHANGED <<config, port2, live, leds>>
              \/ pc' = otherwise /\ resends' = 0 /\ UNCHANGED <<config, port2, live, leds>>
  <2>1. /\ pc' \in Routines \X Steps /\ resends' \in 0 .. MaxResends
        /\ UNCHANGED <<config, port2, live, leds>>
        /\ \/ pc' = otherwise
           \/ out.byte = Ack /\ pc' = next
           \/ out.byte = Resend /\ pc' = <<r, "send">>
    BY <1>0, <1>5
  <2>2. /\ Typed' /\ SeenInv' /\ UNCHANGED <<live, cfg, device>> /\ scanning' = scanning
        /\ Heeded(out.byte)
    BY <1>3, <1>5, <2>1
  <2>. QED BY <1>5, <2>1, <2>2 DEF At, Heeded
<1>6. \/ /\ At(r, "send")
         /\ \/ DeviceHears(b) /\ pc' = <<r, "answer">> /\ UNCHANGED locals
            \/ /\ UNCHANGED keyboard
               /\ pc' = otherwise /\ resends' = 0 /\ UNCHANGED <<config, port2, live, leds>>
         /\ UNCHANGED <<seen, chip, bus>>
      \/ /\ At(r, "answer") /\ UNCHANGED <<chip, keyboard, garbled, stolen>>
         /\ \/ StatusRead
            \/ NoByte /\ pc' = otherwise /\ resends' = 0 /\ UNCHANGED <<config, port2, live, leds>>
            \/ /\ GoodByte
               /\ \/ /\ out.byte = Ack /\ pc' = next /\ resends' = 0
                     /\ UNCHANGED <<config, port2, live, leds>>
                  \/ /\ out.byte = Resend /\ MayResend /\ pc' = <<r, "send">>
                     /\ resends' = NextResend /\ UNCHANGED <<config, port2, live, leds>>
                  \/ pc' = otherwise /\ resends' = 0 /\ UNCHANGED <<config, port2, live, leds>>
  BY DEF DeviceCommand, ReadData
<1>7. CASE At(r, "answer") /\ UNCHANGED <<chip, keyboard, garbled, stolen>> /\ StatusRead
  BY <1>2, <1>7 DEF At
<1>. QED BY <1>1, <1>4, <1>5, <1>6, <1>7

-----------------------------------------------------------------------------
(* The conversation.  What one exchange does to the order of the answers.  *)
LEMMA OneByte ==
  ASSUME NEW b \in Bytes
  PROVE  /\ <<b>> \in Seq(Bytes) /\ Once(<<b>>) /\ AtEnd(<<b>>)
         /\ b \notin Handshake => Clean(<<b>>)
<1>1. <<b>> \in Seq(Bytes) /\ Len(<<b>>) = 1 /\ <<b>>[1] = b
  OBVIOUS
<1>. QED BY <1>1 DEF Once, AtEnd, Clean

LEMMA TwoBytes == \A a, b : <<>> \o (<<a>> \o <<b>>) = <<a, b>>
<1> TAKE a, b
<1>2. <<a, b>> \in Seq({a, b}) /\ <<a>> \in Seq({a, b}) /\ <<b>> \in Seq({a, b})
  OBVIOUS
<1>1. <<a>> \o <<b>> = <<a, b>>
  <2> DEFINE s == <<a>>
             t == <<b>>
             u == <<a, b>>
  <2>1. /\ s \in Seq({a, b}) /\ t \in Seq({a, b}) /\ u \in Seq({a, b})
        /\ Len(s) = 1 /\ Len(t) = 1 /\ Len(u) = 2
        /\ s[1] = a /\ t[1] = b /\ u[1] = a /\ u[2] = b
    BY <1>2
  <2> HIDE DEF s, t, u
  <2>2. /\ s \o t \in Seq({a, b}) /\ Len(s \o t) = 2
        /\ (s \o t)[1] = a /\ (s \o t)[2] = b
    <3>1. /\ s \o t \in Seq({a, b}) /\ Len(s \o t) = Len(s) + Len(t)
          /\ \A i \in 1 .. Len(s) + Len(t) :
               (s \o t)[i] = IF i <= Len(s) THEN s[i] ELSE t[i - Len(s)]
      BY <2>1, ConcatProperties
    <3>2. 1 \in 1 .. Len(s) + Len(t) /\ 2 \in 1 .. Len(s) + Len(t)
      BY <2>1
    <3>. QED BY <2>1, <3>1, <3>2
  <2>3. \A i \in 1 .. 2 : (s \o t)[i] = u[i]
    BY <2>1, <2>2
  <2>4. s \o t = u
    BY <2>1, <2>2, <2>3, SeqEqual
  <2>. QED BY <2>4 DEF s, t, u
<1>3. \A S, s : s \in Seq(S) => <<>> \o s = s
  OBVIOUS
<1>. QED BY <1>1, <1>2, <1>3

LEMMA ExtraClean ==
  ASSUME NEW b, NEW e \in Extra(b)
  PROVE  Clean(e)
<1>1. /\ Failed \notin Handshake /\ Passed \notin Handshake /\ 0 \notin Handshake
      /\ 171 \notin Handshake /\ 65 \notin Handshake /\ 193 \notin Handshake
  BY DEF Handshake, Ack, Resend, Failed, Passed
<1>2. /\ Clean(<<Failed>>) /\ Clean(<<Passed>>) /\ Clean(<<0>>) /\ Clean(<<171, 65>>)
      /\ Clean(<<171, 193>>) /\ Clean(<<>>)
  BY <1>1 DEF Clean
<1>3. e \in {<<Failed>>, <<Passed>>, <<0>>, <<171, 65>>, <<171, 193>>, <<>>}
  BY DEF Extra
<1>. QED BY <1>2, <1>3

LEMMA SentOnce ==
  ASSUME Typed, Clean(Pending), NEW b, Unheard \/ Obeyed(b) \/ Refused
  PROVE  Once(Pending')
<1>0. Pending \in Seq(Bytes) /\ Ack \in Bytes /\ Resend \in Bytes /\ Failed \in Bytes
  BY Waiting DEF Bytes, Ack, Resend, Failed
<1>1. CASE Unheard
  BY <1>0, <1>1, CleanParts DEF Unheard, Once
<1>2. CASE Obeyed(b)
  <2>1. PICK e \in Extra(b) : Pending' = Pending \o (<<Ack>> \o e)
    BY <1>2 DEF Obeyed
  <2>2. e \in Seq(Bytes) /\ <<Ack>> \o e \in Seq(Bytes) /\ Clean(e)
    BY ExtraBytes, ExtraClean
  <2>3. Once(<<Ack>> \o e)
    BY <1>0, <2>2, OneByte, CleanParts
  <2>4. Once(Pending \o (<<Ack>> \o e))
    BY <1>0, <2>2, <2>3, CleanParts
  <2>. QED BY <2>1, <2>4 DEF Once
<1>3. CASE Refused
  <2>1. PICK f \in {Resend, Failed} : Pending' = Pending \o <<f>>
    BY <1>3 DEF Refused
  <2>2. <<f>> \in Seq(Bytes) /\ Once(<<f>>)
    BY <1>0, OneByte
  <2>3. Once(Pending \o <<f>>)
    BY <1>0, <2>2, CleanParts
  <2>. QED BY <2>1, <2>3 DEF Once
<1>. QED BY <1>1, <1>2, <1>3

LEMMA HeededOnce ==
  ASSUME Typed, Once(Pending), NEW a \in Handshake, Heeded(a)
  PROVE  Clean(Pending')
<1>1. Pending \in Seq(Bytes) /\ Pending # <<>> /\ Pending[1] \in Handshake
  BY Waiting DEF Heeded
<1>2. Clean(Tail(Pending))
  BY <1>1, CleanParts
<1>. QED BY <1>2 DEF Heeded, Clean

LEMMA TalkStep ==
  ASSUME NEW r, NEW s, pc' = <<r, s>>, r \in Talking \/ (r = K /\ s \in {"bat", "id0", "id1"}),
         Typed', SeenInv', live' = FALSE, ConverseInv'
  PROVE  IInv'
<1>1. pc'[1] = r /\ pc'[2] = s
  BY LabelParts
<1>2. UnmuteInv'
  BY <1>1 DEF UnmuteInv, In, K, R, Talking
<1>3. EndInv' /\ pc'[1] # R
  BY <1>1 DEF EndInv, In, K, R, Talking
<1>. QED BY <1>2, <1>3, KbdStep

LEMMA ScanOffPreserves ==
  IInv /\ DeviceCommand("scan_off", DisableScan, <<"reset", "send">>, Degrade) => IInv'
<1> SUFFICES ASSUME IInv, DeviceCommand("scan_off", DisableScan, <<"reset", "send">>, Degrade)
             PROVE  IInv'
  OBVIOUS
<1>0. /\ "scan_off" \in Routines \ {R, "leds", "led_state"} /\ "scan_off" \in Routines
      /\ "send" \in Steps \ {"up"} /\ "answer" \in Steps \ {"up"}
      /\ <<"reset", "send">> \in Routines \X Steps
      /\ "scan_off" \in Talking /\ "reset" \in Talking
      /\ R = "I8042Init" /\ K = "KbdInit" /\ Degrade = <<"disable", "gate">>
  BY DEF R, K, Routines, Steps, Degrade, Talking
<1>1. PICK s \in {"send", "answer"} : pc = <<"scan_off", s>>
  BY DEF DeviceCommand, At
<1>2. KbdKnows("scan_off", s)
  BY <1>0, <1>1, KbdFacts
<1>3. /\ pc = <<"scan_off", "send">> => ~Reading /\ s = "send"
      /\ pc = <<"scan_off", "answer">> => Reading /\ s = "answer"
  BY <1>0, <1>1, <1>2, LabelParts DEF KbdKnows, Reading, In
<1>4. /\ Typed' /\ SeenInv' /\ UNCHANGED <<live, cfg, device>>
      /\ \/ pc' = Degrade
         \/ /\ pc = <<"scan_off", "send">> /\ pc' = <<"scan_off", "answer">>
            /\ Unheard \/ Obeyed(DisableScan) \/ Refused
         \/ pc = <<"scan_off", "answer">> /\ pc' = <<"scan_off", "answer">> /\ Unheard
         \/ pc = <<"scan_off", "answer">> /\ pc' = <<"reset", "send">> /\ Heeded(Ack)
         \/ pc = <<"scan_off", "answer">> /\ pc' = <<"scan_off", "send">> /\ Heeded(Resend)
  <2>1. Typed /\ SeenInv /\ ~live /\ Degrade \in Routines \X Steps
    BY <1>2 DEF KbdKnows
  <2>. QED BY <1>0, <1>3, <2>1, DeviceCommandEffect
<1>5. Pending \in Seq(Bytes) /\ Typed /\ live = FALSE
  BY <1>2, Waiting DEF KbdKnows
<1>6. /\ s = "send" => Clean(Pending)
      /\ s = "answer" => /\ Once(Pending)
                         /\ device # "keyboard" => AtEnd(Pending)
                         /\ device = "silent" => Clean(Pending)
  BY <1>0, <1>2 DEF IInv, ConverseInv, KbdKnows, In
<1>7. CASE pc' = Degrade
  BY <1>0, <1>4, <1>5, <1>7, GivesUp, LabelParts
<1>8. CASE /\ pc = <<"scan_off", "send">> /\ pc' = <<"scan_off", "answer">>
           /\ Unheard \/ Obeyed(DisableScan) \/ Refused
  <2>1. Clean(Pending)
    BY <1>3, <1>6, <1>8
  <2>2. Once(Pending')
    BY <1>5, <1>8, <2>1, SentOnce
  <2>3. AtEnd(Pending') /\ (device = "silent" => Clean(Pending'))
    <3>1. CASE Unheard
      BY <1>5, <2>1, <3>1, CleanParts DEF Unheard, Clean, AtEnd
    <3>2. CASE Obeyed(DisableScan)
      <4>1. Extra(DisableScan) = {<<>>}
        BY DEF Extra, DisableScan, Reset, Identify
      <4>2. Pending' = Pending \o (<<Ack>> \o <<>>) /\ device # "silent"
        BY <3>2, <4>1 DEF Obeyed
      <4>3. <<Ack>> \o <<>> = <<Ack>> /\ Ack \in Bytes
        BY DEF Bytes, Ack
      <4>4. AtEnd(Pending \o <<Ack>>)
        BY <1>5, <2>1, <4>3, OneByte, CleanParts
      <4>. QED BY <4>2, <4>3, <4>4 DEF AtEnd
    <3>3. CASE Refused
      <4>1. PICK f \in {Resend, Failed} : Pending' = Pending \o <<f>>
        BY <3>3 DEF Refused
      <4>2. f \in Bytes
        BY DEF Bytes, Resend, Failed
      <4>3. AtEnd(Pending \o <<f>>)
        BY <1>5, <2>1, <4>2, OneByte, CleanParts
      <4>. QED BY <3>3, <4>1, <4>3 DEF AtEnd, Refused
    <3>. QED BY <1>8, <3>1, <3>2, <3>3
  <2>4. pc'[1] = "scan_off" /\ pc'[2] = "answer"
    BY <1>8, LabelParts
  <2>5. ConverseInv'
    BY <1>0, <1>4, <2>2, <2>3, <2>4 DEF ConverseInv, In, Once, AtEnd, Clean
  <2>. QED BY <1>0, <1>4, <1>5, <1>8, <2>5, TalkStep
<1>9. CASE pc = <<"scan_off", "answer">> /\ pc' = <<"scan_off", "answer">> /\ Unheard
  <2>1. pc'[1] = "scan_off" /\ pc'[2] = "answer" /\ Pending' = Pending
    BY <1>9, LabelParts DEF Unheard
  <2>2. ConverseInv'
    BY <1>0, <1>3, <1>4, <1>6, <1>9, <2>1 DEF ConverseInv, In, Once, AtEnd, Clean
  <2>. QED BY <1>0, <1>4, <1>5, <1>9, <2>2, TalkStep
<1>10. ASSUME pc = <<"scan_off", "answer">>, NEW a \in Handshake, Heeded(a)
       PROVE  Clean(Pending') /\ device # "silent" /\ (device # "keyboard" => Pending' = <<>>)
  <2>1. Clean(Pending')
    BY <1>3, <1>5, <1>6, <1>10, HeededOnce
  <2>2. Pending # <<>> /\ Pending[1] = a /\ Pending' = Tail(Pending)
    BY <1>10 DEF Heeded
  <2>3. ~Clean(Pending)
    <3>1. 1 \in 1 .. Len(Pending)
      BY <1>5, <2>2
    <3>. QED BY <2>2, <3>1 DEF Clean
  <2>4. AtEnd(Pending) => Tail(Pending) = <<>>
    BY <1>5, <2>2, CleanParts
  <2>. QED BY <1>3, <1>6, <1>10, <2>1, <2>2, <2>3, <2>4
<1>11. Ack \in Handshake /\ Resend \in Handshake
  BY DEF Handshake
<1>12. CASE pc = <<"scan_off", "answer">> /\ pc' = <<"reset", "send">> /\ Heeded(Ack)
  <2>1. pc'[1] = "reset" /\ pc'[2] = "send"
    BY <1>12, LabelParts
  <2>2. Clean(Pending') /\ device # "silent" /\ (device # "keyboard" => Pending' = <<>>)
    BY <1>10, <1>11, <1>12
  <2>3. ConverseInv'
    BY <1>0, <1>4, <2>1, <2>2 DEF ConverseInv, In, Clean
  <2>. QED BY <1>0, <1>4, <1>5, <1>12, <2>3, TalkStep
<1>13. CASE pc = <<"scan_off", "answer">> /\ pc' = <<"scan_off", "send">> /\ Heeded(Resend)
  <2>1. pc'[1] = "scan_off" /\ pc'[2] = "send"
    BY <1>13, LabelParts
  <2>2. Clean(Pending')
    BY <1>10, <1>11, <1>13
  <2>3. ConverseInv'
    BY <1>0, <1>4, <2>1, <2>2 DEF ConverseInv, In, Clean
  <2>. QED BY <1>0, <1>4, <1>5, <1>13, <2>3, TalkStep
<1>. QED BY <1>4, <1>7, <1>8, <1>9, <1>12, <1>13

LEMMA ResetPreserves ==
  IInv /\ DeviceCommand("reset", Reset, <<K, "bat">>, Degrade) => IInv'
<1> SUFFICES ASSUME IInv, DeviceCommand("reset", Reset, <<K, "bat">>, Degrade)
             PROVE  IInv'
  OBVIOUS
<1>0. /\ "reset" \in Routines \ {R, "leds", "led_state"} /\ "reset" \in Routines
      /\ "send" \in Steps \ {"up"} /\ "answer" \in Steps \ {"up"}
      /\ <<K, "bat">> \in Routines \X Steps
      /\ "reset" \in Talking
      /\ R = "I8042Init" /\ K = "KbdInit" /\ Degrade = <<"disable", "gate">>
  BY DEF R, K, Routines, Steps, Degrade, Talking
<1>1. PICK s \in {"send", "answer"} : pc = <<"reset", s>>
  BY DEF DeviceCommand, At
<1>2. KbdKnows("reset", s)
  BY <1>0, <1>1, KbdFacts
<1>3. /\ pc = <<"reset", "send">> => ~Reading /\ s = "send"
      /\ pc = <<"reset", "answer">> => Reading /\ s = "answer"
  BY <1>0, <1>1, <1>2, LabelParts DEF KbdKnows, Reading, In
<1>4. /\ Typed' /\ SeenInv' /\ UNCHANGED <<live, cfg, device>>
      /\ \/ pc' = Degrade
         \/ /\ pc = <<"reset", "send">> /\ pc' = <<"reset", "answer">>
            /\ Unheard \/ Obeyed(Reset) \/ Refused
         \/ pc = <<"reset", "answer">> /\ pc' = <<"reset", "answer">> /\ Unheard
         \/ /\ pc = <<"reset", "answer">> /\ pc' = <<K, "bat">> /\ Heeded(Ack)
            /\ scanning' = scanning
         \/ /\ pc = <<"reset", "answer">> /\ pc' = <<"reset", "send">> /\ Heeded(Resend)
            /\ scanning' = scanning
  <2>1. Typed /\ SeenInv /\ ~live /\ Degrade \in Routines \X Steps
    BY <1>2 DEF KbdKnows
  <2>. QED BY <1>0, <1>3, <2>1, DeviceCommandEffect
<1>5. Pending \in Seq(Bytes) /\ Typed /\ live = FALSE /\ device \in Devices
  BY <1>2, Waiting DEF KbdKnows, Typed
<1>6. /\ device # "silent"
      /\ s = "send" => Clean(Pending) /\ (device # "keyboard" => Pending = <<>>)
      /\ s = "answer" =>
           /\ Once(Pending)
           /\ device # "keyboard" =>
                \/ Pending \in {<<>>, <<Resend>>, <<Failed>>}
                \/ Pending = <<Ack, IF device = "broken" THEN Failed ELSE Passed>>
  BY <1>0, <1>2 DEF IInv, ConverseInv, KbdKnows, In
<1>7. CASE pc' = Degrade
  BY <1>0, <1>4, <1>5, <1>7, GivesUp, LabelParts
<1>8. CASE /\ pc = <<"reset", "send">> /\ pc' = <<"reset", "answer">>
           /\ Unheard \/ Obeyed(Reset) \/ Refused
  <2>1. Clean(Pending) /\ (device # "keyboard" => Pending = <<>>)
    BY <1>3, <1>6, <1>8
  <2>2. Once(Pending')
    BY <1>5, <1>8, <2>1, SentOnce
  <2>3. ASSUME device # "keyboard"
        PROVE  \/ Pending' \in {<<>>, <<Resend>>, <<Failed>>}
               \/ Pending' = <<Ack, IF device = "broken" THEN Failed ELSE Passed>>
    <3>1. Pending = <<>>
      BY <2>1, <2>3
    <3>2. CASE Unheard
      BY <3>1, <3>2 DEF Unheard
    <3>3. CASE Obeyed(Reset)
      <4>1. Extra(Reset) = {<<IF device = "broken" THEN Failed ELSE Passed>>}
        BY DEF Extra, Reset, Identify
      <4>2. PICK e \in Extra(Reset) : Pending' = <<>> \o (<<Ack>> \o e)
        BY <3>1, <3>3 DEF Obeyed
      <4> DEFINE x == IF device = "broken" THEN Failed ELSE Passed
      <4>3. e = <<x>>
        BY <4>1
      <4> HIDE DEF x
      <4>4. Pending' = <<Ack, x>>
        BY <4>2, <4>3, TwoBytes
      <4>. QED BY <4>4 DEF x
    <3>4. CASE Refused
      <4>1. PICK f \in {Resend, Failed} : Pending' = <<>> \o <<f>>
        BY <3>1, <3>4 DEF Refused
      <4>2. Pending' = <<f>>
        BY <4>1
      <4>. QED BY <4>2
    <3>. QED BY <1>8, <3>2, <3>3, <3>4
  <2>4. pc'[1] = "reset" /\ pc'[2] = "answer"
    BY <1>8, LabelParts
  <2>5. ConverseInv'
    BY <1>0, <1>4, <1>6, <2>2, <2>3, <2>4 DEF ConverseInv, In, Once
  <2>. QED BY <1>0, <1>4, <1>5, <1>8, <2>5, TalkStep
<1>9. CASE pc = <<"reset", "answer">> /\ pc' = <<"reset", "answer">> /\ Unheard
  <2>1. pc'[1] = "reset" /\ pc'[2] = "answer" /\ Pending' = Pending
    BY <1>9, LabelParts DEF Unheard
  <2>2. ConverseInv'
    BY <1>0, <1>3, <1>4, <1>6, <1>9, <2>1 DEF ConverseInv, In, Once
  <2>. QED BY <1>0, <1>4, <1>5, <1>9, <2>2, TalkStep
<1>10. Ack \in Handshake /\ Resend \in Handshake /\ Ack # Resend /\ Failed \notin Handshake
  BY DEF Handshake, Ack, Resend, Failed
<1>11. CASE pc = <<"reset", "answer">> /\ pc' = <<K, "bat">> /\ Heeded(Ack)
  <2>1. pc'[1] = K /\ pc'[2] = "bat"
    BY <1>11, LabelParts
  <2>2. Clean(Pending')
    BY <1>3, <1>5, <1>6, <1>10, <1>11, HeededOnce
  <2>3. ASSUME device # "keyboard"
        PROVE  Pending' = <<IF device = "broken" THEN Failed ELSE Passed>>
    <3> DEFINE x == IF device = "broken" THEN Failed ELSE Passed
    <3>1. Pending \in {<<>>, <<Resend>>, <<Failed>>} \/ Pending = <<Ack, x>>
      BY <1>3, <1>6, <1>11, <2>3
    <3> HIDE DEF x
    <3>2. Pending # <<>> /\ Pending[1] = Ack /\ Pending' = Tail(Pending)
      BY <1>11 DEF Heeded
    <3>3. Pending = <<Ack, x>>
      BY <1>10, <3>1, <3>2
    <3>4. Pending' = <<x>>
      BY <3>2, <3>3
    <3>. QED BY <3>4 DEF x
  <2>4. ConverseInv'
    BY <1>0, <1>4, <1>6, <2>1, <2>2, <2>3 DEF ConverseInv, In, Clean, Talking
  <2>. QED BY <1>0, <1>4, <1>5, <1>11, <2>4, TalkStep
<1>12. CASE pc = <<"reset", "answer">> /\ pc' = <<"reset", "send">> /\ Heeded(Resend)
  <2>1. pc'[1] = "reset" /\ pc'[2] = "send"
    BY <1>12, LabelParts
  <2>2. Clean(Pending')
    BY <1>3, <1>5, <1>6, <1>10, <1>12, HeededOnce
  <2>3. ASSUME device # "keyboard" PROVE Pending' = <<>>
    <3>1. Pending # <<>> /\ Pending[1] = Resend /\ Pending' = Tail(Pending)
      BY <1>12 DEF Heeded
    <3>2. Pending = <<Resend>>
      BY <1>3, <1>6, <1>10, <1>12, <2>3, <3>1
    <3>. QED BY <3>1, <3>2
  <2>4. ConverseInv'
    BY <1>0, <1>4, <1>6, <2>1, <2>2, <2>3 DEF ConverseInv, In, Clean
  <2>. QED BY <1>0, <1>4, <1>5, <1>12, <2>4, TalkStep
<1>. QED BY <1>4, <1>7, <1>8, <1>9, <1>11, <1>12

LEMMA BatPreserves ==
  IInv /\ At(K, "bat") /\ Expect({Passed}, <<"identify", "send">>, Degrade) => IInv'
<1> SUFFICES ASSUME IInv, At(K, "bat"), Expect({Passed}, <<"identify", "send">>, Degrade)
             PROVE  IInv'
  OBVIOUS
<1>0. /\ K \in Routines \ {R, "leds", "led_state"} /\ "bat" \in Steps \ {"up"}
      /\ <<"identify", "send">> \in Routines \X Steps
      /\ "identify" \in Talking \/ "identify" = K
      /\ R = "I8042Init" /\ K = "KbdInit" /\ Degrade = <<"disable", "gate">>
  BY DEF R, K, Routines, Steps, Degrade, Talking
<1>1. KbdKnows(K, "bat") /\ pc = <<K, "bat">>
  BY <1>0, KbdFacts DEF At
<1>2. Reading
  BY <1>1 DEF KbdKnows, Reading, In
<1>3. /\ Typed' /\ SeenInv' /\ UNCHANGED <<live, cfg, device>>
      /\ \/ pc' = <<K, "bat">> /\ Pending' = Pending
         \/ pc' = Degrade
         \/ /\ pc' = <<"identify", "send">> /\ Pending # <<>>
            /\ Pending[1] \in {Passed} /\ Pending' = Tail(Pending)
  <2>1. Typed /\ SeenInv /\ ~live /\ Degrade \in Routines \X Steps
    BY <1>1 DEF KbdKnows
  <2> DEFINE next == <<"identify", "send">>
             expected == {Passed}
  <2>2. next \in Routines \X Steps /\ Expect(expected, next, Degrade)
    BY <1>0
  <2> HIDE DEF next, expected
  <2>3. /\ Typed' /\ SeenInv' /\ UNCHANGED <<live, cfg, device>>
        /\ \/ pc' = pc /\ Pending' = Pending
           \/ pc' = Degrade
           \/ /\ pc' = next /\ Pending # <<>>
              /\ Pending[1] \in expected /\ Pending' = Tail(Pending)
    BY <1>2, <2>1, <2>2, ExpectEffect
  <2>4. pc = <<K, "bat">>
    BY <1>1
  <2>. QED BY <2>3, <2>4 DEF next, expected
<1>4. Pending \in Seq(Bytes) /\ Typed /\ live = FALSE /\ device \in Devices
  BY <1>1, Waiting DEF KbdKnows, Typed
<1>5. /\ Clean(Pending) /\ device # "silent"
      /\ device # "keyboard" =>
           Pending = <<IF device = "broken" THEN Failed ELSE Passed>>
  BY <1>0, <1>1 DEF IInv, ConverseInv, KbdKnows, In
<1>6. CASE pc' = Degrade
  BY <1>0, <1>3, <1>4, <1>6, GivesUp, LabelParts
<1>7. CASE pc' = <<K, "bat">> /\ Pending' = Pending
  <2>1. pc'[1] = K /\ pc'[2] = "bat"
    BY <1>7, LabelParts
  <2>2. ConverseInv'
    BY <1>0, <1>3, <1>5, <1>7, <2>1 DEF ConverseInv, In, Clean, Talking
  <2>. QED BY <1>0, <1>3, <1>4, <1>7, <2>2, TalkStep
<1>8. CASE /\ pc' = <<"identify", "send">> /\ Pending # <<>>
           /\ Pending[1] \in {Passed} /\ Pending' = Tail(Pending)
  <2>1. pc'[1] = "identify" /\ pc'[2] = "send"
    BY <1>8, LabelParts
  <2>2. Clean(Pending')
    <3>1. Clean(Tail(Pending))
      BY <1>4, <1>5, <1>8, CleanParts
    <3>. QED BY <1>8, <3>1 DEF Clean
  <2>3. /\ device \in {"keyboard", "other"}
        /\ device # "keyboard" => Pending' = <<>>
    <3>1. ASSUME device # "keyboard" PROVE device = "other" /\ Pending' = <<>>
      <4> DEFINE x == IF device = "broken" THEN Failed ELSE Passed
      <4>1. Pending = <<x>>
        BY <1>5, <3>1
      <4> HIDE DEF x
      <4>2. x = Passed /\ Pending' = <<>>
        BY <1>8, <4>1
      <4>3. device # "broken"
        BY <4>2 DEF x, Passed, Failed
      <4>. QED BY <1>4, <1>5, <3>1, <4>2, <4>3 DEF Devices
    <3>. QED BY <3>1
  <2>4. ConverseInv'
    BY <1>0, <1>3, <1>5, <2>1, <2>2, <2>3 DEF ConverseInv, In, Clean, Talking
  <2>. QED BY <1>0, <1>3, <1>4, <1>8, <2>4, TalkStep
<1>. QED BY <1>3, <1>6, <1>7, <1>8

LEMMA IdentifyPreserves ==
  IInv /\ DeviceCommand("identify", Identify, <<K, "id0">>, Degrade) => IInv'
<1> SUFFICES ASSUME IInv, DeviceCommand("identify", Identify, <<K, "id0">>, Degrade)
             PROVE  IInv'
  OBVIOUS
<1>0. /\ "identify" \in Routines \ {R, "leds", "led_state"} /\ "identify" \in Routines
      /\ "send" \in Steps \ {"up"} /\ "answer" \in Steps \ {"up"}
      /\ <<K, "id0">> \in Routines \X Steps
      /\ "identify" \in Talking
      /\ R = "I8042Init" /\ K = "KbdInit" /\ Degrade = <<"disable", "gate">>
  BY DEF R, K, Routines, Steps, Degrade, Talking
<1>1. PICK s \in {"send", "answer"} : pc = <<"identify", s>>
  BY DEF DeviceCommand, At
<1>2. KbdKnows("identify", s)
  BY <1>0, <1>1, KbdFacts
<1>3. /\ pc = <<"identify", "send">> => ~Reading /\ s = "send"
      /\ pc = <<"identify", "answer">> => Reading /\ s = "answer"
  BY <1>0, <1>1, <1>2, LabelParts DEF KbdKnows, Reading, In
<1>4. /\ Typed' /\ SeenInv' /\ UNCHANGED <<live, cfg, device>>
      /\ \/ pc' = Degrade
         \/ /\ pc = <<"identify", "send">> /\ pc' = <<"identify", "answer">>
            /\ Unheard \/ Obeyed(Identify) \/ Refused
         \/ pc = <<"identify", "answer">> /\ pc' = <<"identify", "answer">> /\ Unheard
         \/ /\ pc = <<"identify", "answer">> /\ pc' = <<K, "id0">> /\ Heeded(Ack)
            /\ scanning' = scanning
         \/ /\ pc = <<"identify", "answer">> /\ pc' = <<"identify", "send">> /\ Heeded(Resend)
            /\ scanning' = scanning
  <2>1. Typed /\ SeenInv /\ ~live /\ Degrade \in Routines \X Steps
    BY <1>2 DEF KbdKnows
  <2>. QED BY <1>0, <1>3, <2>1, DeviceCommandEffect
<1>5. Pending \in Seq(Bytes) /\ Typed /\ live = FALSE /\ device \in Devices
  BY <1>2, Waiting DEF KbdKnows, Typed
<1>6. /\ device \in {"keyboard", "other"}
      /\ s = "send" => Clean(Pending) /\ (device # "keyboard" => Pending = <<>>)
      /\ s = "answer" =>
           /\ Once(Pending)
           /\ device # "keyboard" => Pending \in {<<>>, <<Resend>>, <<Failed>>, <<Ack, 0>>}
  BY <1>0, <1>2 DEF IInv, ConverseInv, KbdKnows, In
<1>7. CASE pc' = Degrade
  BY <1>0, <1>4, <1>5, <1>7, GivesUp, LabelParts
<1>8. CASE /\ pc = <<"identify", "send">> /\ pc' = <<"identify", "answer">>
           /\ Unheard \/ Obeyed(Identify) \/ Refused
  <2>1. Clean(Pending) /\ (device # "keyboard" => Pending = <<>>)
    BY <1>3, <1>6, <1>8
  <2>2. Once(Pending')
    BY <1>5, <1>8, <2>1, SentOnce
  <2>3. ASSUME device # "keyboard"
        PROVE  Pending' \in {<<>>, <<Resend>>, <<Failed>>, <<Ack, 0>>}
    <3>1. Pending = <<>> /\ device = "other"
      BY <1>6, <2>1, <2>3
    <3>2. CASE Unheard
      BY <3>1, <3>2 DEF Unheard
    <3>3. CASE Obeyed(Identify)
      <4>1. Extra(Identify) = {<<0>>}
        BY <3>1 DEF Extra, Reset, Identify
      <4>2. PICK e \in Extra(Identify) : Pending' = <<>> \o (<<Ack>> \o e)
        BY <3>1, <3>3 DEF Obeyed
      <4>3. e = <<0>>
        BY <4>1
      <4>4. Pending' = <<Ack, 0>>
        BY <4>2, <4>3, TwoBytes
      <4>. QED BY <4>4
    <3>4. CASE Refused
      <4>1. PICK f \in {Resend, Failed} : Pending' = <<>> \o <<f>>
        BY <3>1, <3>4 DEF Refused
      <4>2. Pending' = <<f>>
        BY <4>1
      <4>. QED BY <4>2
    <3>. QED BY <1>8, <3>2, <3>3, <3>4
  <2>4. pc'[1] = "identify" /\ pc'[2] = "answer"
    BY <1>8, LabelParts
  <2>5. ConverseInv'
    BY <1>0, <1>4, <1>6, <2>2, <2>3, <2>4 DEF ConverseInv, In, Once
  <2>. QED BY <1>0, <1>4, <1>5, <1>8, <2>5, TalkStep
<1>9. CASE pc = <<"identify", "answer">> /\ pc' = <<"identify", "answer">> /\ Unheard
  <2>1. pc'[1] = "identify" /\ pc'[2] = "answer" /\ Pending' = Pending
    BY <1>9, LabelParts DEF Unheard
  <2>2. ConverseInv'
    BY <1>0, <1>3, <1>4, <1>6, <1>9, <2>1 DEF ConverseInv, In, Once
  <2>. QED BY <1>0, <1>4, <1>5, <1>9, <2>2, TalkStep
<1>10. Ack \in Handshake /\ Resend \in Handshake /\ Ack # Resend /\ Failed \notin Handshake
  BY DEF Handshake, Ack, Resend, Failed
<1>11. CASE pc = <<"identify", "answer">> /\ pc' = <<K, "id0">> /\ Heeded(Ack)
  <2>1. pc'[1] = K /\ pc'[2] = "id0"
    BY <1>11, LabelParts
  <2>2. Clean(Pending')
    BY <1>3, <1>5, <1>6, <1>10, <1>11, HeededOnce
  <2>3. ASSUME device # "keyboard" PROVE Pending' = <<0>>
    <3>1. Pending # <<>> /\ Pending[1] = Ack /\ Pending' = Tail(Pending)
      BY <1>11 DEF Heeded
    <3>2. Pending = <<Ack, 0>>
      BY <1>3, <1>6, <1>10, <1>11, <2>3, <3>1
    <3>. QED BY <3>1, <3>2
  <2>4. ConverseInv'
    BY <1>0, <1>4, <1>6, <2>1, <2>2, <2>3 DEF ConverseInv, In, Clean, Talking
  <2>. QED BY <1>0, <1>4, <1>5, <1>11, <2>4, TalkStep
<1>12. CASE pc = <<"identify", "answer">> /\ pc' = <<"identify", "send">> /\ Heeded(Resend)
  <2>1. pc'[1] = "identify" /\ pc'[2] = "send"
    BY <1>12, LabelParts
  <2>2. Clean(Pending')
    BY <1>3, <1>5, <1>6, <1>10, <1>12, HeededOnce
  <2>3. ASSUME device # "keyboard" PROVE Pending' = <<>>
    <3>1. Pending # <<>> /\ Pending[1] = Resend /\ Pending' = Tail(Pending)
      BY <1>12 DEF Heeded
    <3>2. Pending = <<Resend>>
      BY <1>3, <1>6, <1>10, <1>12, <2>3, <3>1
    <3>. QED BY <3>1, <3>2
  <2>4. ConverseInv'
    BY <1>0, <1>4, <1>6, <2>1, <2>2, <2>3 DEF ConverseInv, In, Clean
  <2>. QED BY <1>0, <1>4, <1>5, <1>12, <2>4, TalkStep
<1>. QED BY <1>4, <1>7, <1>8, <1>9, <1>11, <1>12

LEMMA Id0Preserves ==
  IInv /\ At(K, "id0") /\ Expect({171}, <<K, "id1">>, Degrade) => IInv'
<1> SUFFICES ASSUME IInv, At(K, "id0"), Expect({171}, <<K, "id1">>, Degrade)
             PROVE  IInv'
  OBVIOUS
<1>0. /\ K \in Routines \ {R, "leds", "led_state"} /\ "id0" \in Steps \ {"up"}
      /\ <<K, "id1">> \in Routines \X Steps
      /\ K \in Talking \/ K = K
      /\ R = "I8042Init" /\ K = "KbdInit" /\ Degrade = <<"disable", "gate">>
  BY DEF R, K, Routines, Steps, Degrade, Talking
<1>1. KbdKnows(K, "id0") /\ pc = <<K, "id0">>
  BY <1>0, KbdFacts DEF At
<1>2. Reading
  BY <1>1 DEF KbdKnows, Reading, In
<1>3. /\ Typed' /\ SeenInv' /\ UNCHANGED <<live, cfg, device>>
      /\ \/ pc' = <<K, "id0">> /\ Pending' = Pending
         \/ pc' = Degrade
         \/ /\ pc' = <<K, "id1">> /\ Pending # <<>>
            /\ Pending[1] \in {171} /\ Pending' = Tail(Pending)
  <2>1. Typed /\ SeenInv /\ ~live /\ Degrade \in Routines \X Steps
    BY <1>1 DEF KbdKnows
  <2> DEFINE next == <<K, "id1">>
             expected == {171}
  <2>2. next \in Routines \X Steps /\ Expect(expected, next, Degrade)
    BY <1>0
  <2> HIDE DEF next, expected
  <2>3. /\ Typed' /\ SeenInv' /\ UNCHANGED <<live, cfg, device>>
        /\ \/ pc' = pc /\ Pending' = Pending
           \/ pc' = Degrade
           \/ /\ pc' = next /\ Pending # <<>>
              /\ Pending[1] \in expected /\ Pending' = Tail(Pending)
    BY <1>2, <2>1, <2>2, ExpectEffect
  <2>4. pc = <<K, "id0">>
    BY <1>1
  <2>. QED BY <2>3, <2>4 DEF next, expected
<1>4. Pending \in Seq(Bytes) /\ Typed /\ live = FALSE /\ device \in Devices
  BY <1>1, Waiting DEF KbdKnows, Typed
<1>5. /\ Clean(Pending) /\ device \in {"keyboard", "other"}
      /\ device # "keyboard" => Pending = <<0>>
  BY <1>0, <1>1 DEF IInv, ConverseInv, KbdKnows, In
<1>6. CASE pc' = Degrade
  BY <1>0, <1>3, <1>4, <1>6, GivesUp, LabelParts
<1>7. CASE pc' = <<K, "id0">> /\ Pending' = Pending
  <2>1. pc'[1] = K /\ pc'[2] = "id0"
    BY <1>7, LabelParts
  <2>2. ConverseInv'
    BY <1>0, <1>3, <1>5, <1>7, <2>1 DEF ConverseInv, In, Clean, Talking
  <2>. QED BY <1>0, <1>3, <1>4, <1>7, <2>2, TalkStep
<1>8. CASE /\ pc' = <<K, "id1">> /\ Pending # <<>>
           /\ Pending[1] \in {171} /\ Pending' = Tail(Pending)
  <2>1. pc'[1] = K /\ pc'[2] = "id1"
    BY <1>8, LabelParts
  <2>2. Clean(Pending')
    <3>1. Clean(Tail(Pending))
      BY <1>4, <1>5, <1>8, CleanParts
    <3>. QED BY <1>8, <3>1 DEF Clean
  <2>3. device = "keyboard"
    <3>1. Pending[1] = 171
      BY <1>8
    <3>2. Pending # <<0>>
      BY <3>1
    <3>. QED BY <1>5, <3>2
  <2>4. ConverseInv'
    BY <1>0, <1>3, <1>5, <2>1, <2>2, <2>3 DEF ConverseInv, In, Clean, Talking
  <2>. QED BY <1>0, <1>3, <1>4, <1>8, <2>4, TalkStep
<1>. QED BY <1>3, <1>6, <1>7, <1>8

LEMMA Id1Preserves ==
  IInv /\ At(K, "id1") /\ Expect({65, 193}, <<"scan_on", "send">>, Degrade) => IInv'
<1> SUFFICES ASSUME IInv, At(K, "id1"), Expect({65, 193}, <<"scan_on", "send">>, Degrade)
             PROVE  IInv'
  OBVIOUS
<1>0. /\ K \in Routines \ {R, "leds", "led_state"} /\ "id1" \in Steps \ {"up"}
      /\ <<"scan_on", "send">> \in Routines \X Steps
      /\ "scan_on" \in Talking \/ "scan_on" = K
      /\ R = "I8042Init" /\ K = "KbdInit" /\ Degrade = <<"disable", "gate">>
  BY DEF R, K, Routines, Steps, Degrade, Talking
<1>1. KbdKnows(K, "id1") /\ pc = <<K, "id1">>
  BY <1>0, KbdFacts DEF At
<1>2. Reading
  BY <1>1 DEF KbdKnows, Reading, In
<1>3. /\ Typed' /\ SeenInv' /\ UNCHANGED <<live, cfg, device>>
      /\ \/ pc' = <<K, "id1">> /\ Pending' = Pending
         \/ pc' = Degrade
         \/ /\ pc' = <<"scan_on", "send">> /\ Pending # <<>>
            /\ Pending[1] \in {65, 193} /\ Pending' = Tail(Pending)
  <2>1. Typed /\ SeenInv /\ ~live /\ Degrade \in Routines \X Steps
    BY <1>1 DEF KbdKnows
  <2> DEFINE next == <<"scan_on", "send">>
             expected == {65, 193}
  <2>2. next \in Routines \X Steps /\ Expect(expected, next, Degrade)
    BY <1>0
  <2> HIDE DEF next, expected
  <2>3. /\ Typed' /\ SeenInv' /\ UNCHANGED <<live, cfg, device>>
        /\ \/ pc' = pc /\ Pending' = Pending
           \/ pc' = Degrade
           \/ /\ pc' = next /\ Pending # <<>>
              /\ Pending[1] \in expected /\ Pending' = Tail(Pending)
    BY <1>2, <2>1, <2>2, ExpectEffect
  <2>4. pc = <<K, "id1">>
    BY <1>1
  <2>. QED BY <2>3, <2>4 DEF next, expected
<1>4. Pending \in Seq(Bytes) /\ Typed /\ live = FALSE /\ device \in Devices
  BY <1>1, Waiting DEF KbdKnows, Typed
<1>5. Clean(Pending) /\ device = "keyboard"
  BY <1>0, <1>1 DEF IInv, ConverseInv, KbdKnows, In
<1>6. CASE pc' = Degrade
  BY <1>0, <1>3, <1>4, <1>6, GivesUp, LabelParts
<1>7. CASE pc' = <<K, "id1">> /\ Pending' = Pending
  <2>1. pc'[1] = K /\ pc'[2] = "id1"
    BY <1>7, LabelParts
  <2>2. ConverseInv'
    BY <1>0, <1>3, <1>5, <1>7, <2>1 DEF ConverseInv, In, Clean, Talking
  <2>. QED BY <1>0, <1>3, <1>4, <1>7, <2>2, TalkStep
<1>8. CASE /\ pc' = <<"scan_on", "send">> /\ Pending # <<>>
           /\ Pending[1] \in {65, 193} /\ Pending' = Tail(Pending)
  <2>1. pc'[1] = "scan_on" /\ pc'[2] = "send"
    BY <1>8, LabelParts
  <2>2. Clean(Pending')
    <3>1. Clean(Tail(Pending))
      BY <1>4, <1>5, <1>8, CleanParts
    <3>. QED BY <1>8, <3>1 DEF Clean
  <2>3. device = "keyboard"
    BY <1>5
  <2>4. ConverseInv'
    BY <1>0, <1>3, <1>5, <2>1, <2>2, <2>3 DEF ConverseInv, In, Clean, Talking
  <2>. QED BY <1>0, <1>3, <1>4, <1>8, <2>4, TalkStep
<1>. QED BY <1>3, <1>6, <1>7, <1>8

LEMMA ScanOnPreserves ==
  IInv /\ DeviceCommand("scan_on", EnableScan, <<"enable_again", "drain">>, Degrade) => IInv'
<1> SUFFICES ASSUME IInv, DeviceCommand("scan_on", EnableScan, <<"enable_again", "drain">>, Degrade)
             PROVE  IInv'
  OBVIOUS
<1>0. /\ "scan_on" \in Routines \ {R, "leds", "led_state"} /\ "scan_on" \in Routines
      /\ "send" \in Steps \ {"up"} /\ "answer" \in Steps \ {"up"}
      /\ <<"enable_again", "drain">> \in Routines \X Steps
      /\ "scan_on" \in Talking
      /\ R = "I8042Init" /\ K = "KbdInit" /\ Degrade = <<"disable", "gate">>
  BY DEF R, K, Routines, Steps, Degrade, Talking
<1>1. PICK s \in {"send", "answer"} : pc = <<"scan_on", s>>
  BY DEF DeviceCommand, At
<1>2. KbdKnows("scan_on", s)
  BY <1>0, <1>1, KbdFacts
<1>3. /\ pc = <<"scan_on", "send">> => ~Reading /\ s = "send"
      /\ pc = <<"scan_on", "answer">> => Reading /\ s = "answer"
  BY <1>0, <1>1, <1>2, LabelParts DEF KbdKnows, Reading, In
<1>4. /\ Typed' /\ SeenInv' /\ UNCHANGED <<live, cfg, device>>
      /\ \/ pc' = Degrade
         \/ /\ pc = <<"scan_on", "send">> /\ pc' = <<"scan_on", "answer">>
            /\ Unheard \/ Obeyed(EnableScan) \/ Refused
         \/ pc = <<"scan_on", "answer">> /\ pc' = <<"scan_on", "answer">> /\ Unheard
         \/ /\ pc = <<"scan_on", "answer">> /\ pc' = <<"enable_again", "drain">> /\ Heeded(Ack)
            /\ scanning' = scanning
         \/ /\ pc = <<"scan_on", "answer">> /\ pc' = <<"scan_on", "send">> /\ Heeded(Resend)
            /\ scanning' = scanning
  <2>1. Typed /\ SeenInv /\ ~live /\ Degrade \in Routines \X Steps
    BY <1>2 DEF KbdKnows
  <2>. QED BY <1>0, <1>3, <2>1, DeviceCommandEffect
<1>5. Pending \in Seq(Bytes) /\ Typed /\ live = FALSE /\ device \in Devices
  BY <1>2, Waiting DEF KbdKnows, Typed
<1>6. /\ device = "keyboard"
      /\ s = "send" => Clean(Pending)
      /\ s = "answer" =>
           /\ Once(Pending)
           /\ \A i \in 1 .. Len(Pending) : Pending[i] = Ack => scanning
  BY <1>0, <1>2 DEF IInv, ConverseInv, KbdKnows, In
<1>7. CASE pc' = Degrade
  BY <1>0, <1>4, <1>5, <1>7, GivesUp, LabelParts
<1>8. Ack \in Handshake /\ Resend \in Handshake /\ Failed # Ack /\ Resend # Ack
  BY DEF Handshake, Ack, Resend, Failed
<1>9. CASE /\ pc = <<"scan_on", "send">> /\ pc' = <<"scan_on", "answer">>
           /\ Unheard \/ Obeyed(EnableScan) \/ Refused
  <2>1. Clean(Pending)
    BY <1>3, <1>6, <1>9
  <2>2. Once(Pending')
    BY <1>5, <1>9, <2>1, SentOnce
  <2>3. \A i \in 1 .. Len(Pending') : Pending'[i] = Ack => scanning'
    <3>0. \A i \in 1 .. Len(Pending) : Pending[i] # Ack
      BY <1>8, <2>1 DEF Clean
    <3>1. CASE Unheard
      BY <3>0, <3>1 DEF Unheard
    <3>2. CASE Obeyed(EnableScan)
      <4>1. ScansAfter(EnableScan) = {TRUE}
        BY <1>6 DEF ScansAfter, EnableScan, DisableScan, Reset
      <4>. QED BY <3>2, <4>1 DEF Obeyed
    <3>3. CASE Refused
      <4>1. PICK f \in {Resend, Failed} : Pending' = Pending \o <<f>>
        BY <3>3 DEF Refused
      <4>2. f \in Bytes /\ f # Ack
        BY <1>8 DEF Bytes, Resend, Failed
      <4>3. /\ Len(Pending \o <<f>>) = Len(Pending) + 1
            /\ \A i \in 1 .. Len(Pending) : (Pending \o <<f>>)[i] = Pending[i]
            /\ (Pending \o <<f>>)[Len(Pending) + 1] = f
        BY <1>5, <4>2
      <4>4. Len(Pending) \in Nat
        BY <1>5
      <4>5. \A i \in 1 .. Len(Pending \o <<f>>) : (Pending \o <<f>>)[i] # Ack
        BY <3>0, <4>2, <4>3, <4>4
      <4>. QED BY <4>1, <4>5
    <3>. QED BY <1>9, <3>1, <3>2, <3>3
  <2>4. pc'[1] = "scan_on" /\ pc'[2] = "answer"
    BY <1>9, LabelParts
  <2>5. ConverseInv'
    BY <1>0, <1>4, <1>6, <2>2, <2>3, <2>4 DEF ConverseInv, In, Once
  <2>. QED BY <1>0, <1>4, <1>5, <1>9, <2>5, TalkStep
<1>10. CASE pc = <<"scan_on", "answer">> /\ pc' = <<"scan_on", "answer">> /\ Unheard
  <2>1. /\ pc'[1] = "scan_on" /\ pc'[2] = "answer" /\ Pending' = Pending
        /\ scanning' = scanning
    BY <1>10, LabelParts DEF Unheard
  <2>2. ConverseInv'
    BY <1>0, <1>3, <1>4, <1>6, <1>10, <2>1 DEF ConverseInv, In, Once
  <2>. QED BY <1>0, <1>4, <1>5, <1>10, <2>2, TalkStep
<1>11. CASE /\ pc = <<"scan_on", "answer">> /\ pc' = <<"enable_again", "drain">> /\ Heeded(Ack)
            /\ scanning' = scanning
  <2>1. pc'[1] = "enable_again" /\ pc'[2] = "drain"
    BY <1>11, LabelParts
  <2>2. scanning
    <3>1. Pending # <<>> /\ Pending[1] = Ack
      BY <1>11 DEF Heeded
    <3>2. 1 \in 1 .. Len(Pending)
      BY <1>5, <3>1
    <3>. QED BY <1>3, <1>6, <1>11, <3>1, <3>2
  <2>3. UnmuteInv' /\ ConverseInv' /\ EndInv'
    BY <1>0, <1>4, <1>5, <1>6, <1>11, <2>1, <2>2
       DEF UnmuteInv, ConverseInv, EndInv, In, Talking
  <2>. QED BY <1>0, <1>4, <2>1, <2>3, KbdStep
<1>12. CASE pc = <<"scan_on", "answer">> /\ pc' = <<"scan_on", "send">> /\ Heeded(Resend)
  <2>1. pc'[1] = "scan_on" /\ pc'[2] = "send"
    BY <1>12, LabelParts
  <2>2. Clean(Pending')
    BY <1>3, <1>5, <1>6, <1>8, <1>12, HeededOnce
  <2>3. ConverseInv'
    BY <1>0, <1>4, <1>6, <2>1, <2>2 DEF ConverseInv, In, Clean
  <2>. QED BY <1>0, <1>4, <1>5, <1>12, <2>3, TalkStep
<1>. QED BY <1>4, <1>7, <1>9, <1>10, <1>11, <1>12

LEMMA ConversePreserves == IInv /\ Converse => IInv'
BY ScanOffPreserves, ResetPreserves, BatPreserves, IdentifyPreserves, Id0Preserves,
   Id1Preserves, ScanOnPreserves DEF Converse

-----------------------------------------------------------------------------
(* Going live, and the handshakes of a live keyboard.                      *)
LEMMA LiveStep ==
  ASSUME NEW r, NEW s, pc' = <<r, s>>, r \in {"leds", "led_state"} \/ (r = K /\ s = "up"),
         Typed', SeenInv', live', LiveIsKeyboard'
  PROVE  IInv'
<1>1. pc'[1] = r /\ pc'[2] = s
  BY LabelParts
<1>2. UnmuteInv' /\ ConverseInv'
  BY <1>1 DEF UnmuteInv, ConverseInv, In, K, R, Talking
<1>3. EndInv' /\ pc'[1] # R
  BY <1>1 DEF EndInv, In, K, R
<1>. QED BY <1>2, <1>3, KbdStep

LEMMA GoLivePreserves == IInv /\ GoLive => IInv'
<1> SUFFICES ASSUME IInv, GoLive PROVE IInv'
  OBVIOUS
<1>0. K \in Routines \ {R, "leds", "led_state"} /\ "live" \in Steps \ {"up"}
      /\ <<K, "up">> \in Routines \X Steps /\ K = "KbdInit"
  BY DEF K, R, Routines, Steps
<1>1. KbdKnows(K, "live")
  BY <1>0, KbdFacts DEF GoLive, At
<1>2. /\ live' = TRUE /\ pc' = <<K, "up">>
      /\ UNCHANGED <<seen, config, resends, port2, leds, cfg, reply, hasPort2, wire, device,
                     scanning, keys, out, garbled, stolen>>
  BY DEF GoLive, chip, keyboard, bus
<1>3. Typed'
  BY <1>0, <1>1, <1>2 DEF KbdKnows, Typed, TypeOK
<1>4. SeenInv'
  BY <1>1, <1>2 DEF KbdKnows, SeenInv
<1>5. device = "keyboard" /\ scanning /\ Ringing
  BY <1>1 DEF IInv, KbdKnows, ConverseInv, In
<1>6. LiveIsKeyboard'
  BY <1>2, <1>5 DEF LiveIsKeyboard, Ringing
<1>. QED BY <1>2, <1>3, <1>4, <1>6, LiveStep

LEMMA LiveCommandEffect ==
  ASSUME Typed, SeenInv, live, LiveIsKeyboard, NEW r \in {"leds", "led_state"},
         NEW b \in {SetLeds, LedState}, NEW next \in Routines \X Steps,
         DeviceCommand(r, b, next, <<K, "up">>)
  PROVE  /\ Typed' /\ SeenInv' /\ UNCHANGED <<live, cfg, device, scanning>>
         /\ pc' \in {<<r, "send">>, <<r, "answer">>, next, <<K, "up">>}
<1>0. /\ <<r, "send">> \in Routines \X Steps /\ <<r, "answer">> \in Routines \X Steps
      /\ <<K, "up">> \in Routines \X Steps
      /\ 0 \in 0 .. MaxResends /\ resends \in 0 .. MaxResends
      /\ MayResend => NextResend \in 0 .. MaxResends
      /\ r # R /\ r # K /\ r \notin Talking
  BY ControllerAssumption
     DEF Routines, Steps, Typed, TypeOK, MayResend, NextResend, K, R, Talking
<1>1. pc = <<r, "send">> => ~Reading
  BY <1>0, LabelParts DEF Reading, In
<1>2. CASE /\ At(r, "send")
           /\ \/ DeviceHears(b) /\ pc' = <<r, "answer">> /\ UNCHANGED locals
              \/ /\ UNCHANGED keyboard
                 /\ pc' = <<K, "up">> /\ resends' = 0 /\ UNCHANGED <<config, port2, live, leds>>
           /\ UNCHANGED <<seen, chip, bus>>
  <2>1. /\ UNCHANGED <<seen, cfg, reply, hasPort2, out, garbled, stolen, config, port2, live>>
        /\ resends' \in 0 .. MaxResends /\ seen = "nothing"
    BY <1>0, <1>1, <1>2 DEF chip, bus, locals, SeenInv, At
  <2>2. SeenInv'
    BY <2>1 DEF SeenInv
  <2>3. CASE DeviceHears(b) /\ pc' = <<r, "answer">>
    <3>1. /\ Unheard \/ Obeyed(b) \/ Refused
          /\ wire' \in Seq(Message) /\ device' = device
          /\ scanning' \in BOOLEAN /\ (device # "keyboard" => ~scanning')
      BY <2>1, <2>3, HearsEffect
    <3>2. ScansAfter(b) = {scanning}
      <4>1. device = "keyboard"
        BY DEF LiveIsKeyboard
      <4>2. b # Reset /\ b # EnableScan /\ b # DisableScan
        BY DEF SetLeds, LedState, Reset, EnableScan, DisableScan
      <4>. QED BY <4>1, <4>2 DEF ScansAfter
    <3>3. scanning' = scanning
      BY <3>1, <3>2 DEF Unheard, Obeyed, Refused
    <3>4. Typed'
      BY <1>0, <2>1, <2>3, <3>1, MessagesTyped DEF Typed, TypeOK
    <3>. QED BY <2>1, <2>2, <2>3, <3>1, <3>3, <3>4
  <2>4. CASE UNCHANGED keyboard /\ pc' = <<K, "up">>
    <3>1. Typed'
      BY <1>0, <2>1, <2>4 DEF Typed, TypeOK, keyboard
    <3>. QED BY <2>1, <2>2, <2>4, <3>1 DEF keyboard
  <2>. QED BY <1>2, <2>3, <2>4
<1>3. ASSUME At(r, "answer"), UNCHANGED <<chip, keyboard, garbled, stolen>>,
             pc' \in Routines \X Steps, resends' \in 0 .. MaxResends,
             UNCHANGED <<config, port2, live, leds>>,
             \/ StatusRead /\ pc' = pc
             \/ NoByte \/ GoodByte
      PROVE  Typed' /\ SeenInv' /\ UNCHANGED <<live, cfg, device, scanning>>
  <2>1. /\ out' \in [full : BOOLEAN, byte : Bytes, garbled : BOOLEAN,
                     from : {"controller", "device", "key"}]
        /\ \/ seen' \in {"good", "bad"} /\ pc' = pc
           \/ seen' = "nothing"
    BY <1>3 DEF StatusRead, NoByte, GoodByte, Pop, Typed, TypeOK
  <2>2. Typed'
    BY <1>3, <2>1 DEF Typed, TypeOK, chip, keyboard
  <2>3. SeenInv'
    <3>1. CASE seen' = "nothing"
      BY <3>1 DEF SeenInv
    <3>2. CASE pc' = pc
      <4>1. pc'[1] = r /\ pc'[2] = "answer"
        BY <1>3, <3>2, LabelParts DEF At
      <4>2. Reading'
        BY <4>1 DEF Reading
      <4>. QED BY <1>3, <4>2 DEF SeenInv
    <3>. QED BY <2>1, <3>1, <3>2
  <2>. QED BY <1>3, <2>2, <2>3 DEF chip, keyboard
<1>4. CASE At(r, "answer") /\ UNCHANGED <<chip, keyboard, garbled, stolen>> /\ StatusRead
  BY <1>0, <1>3, <1>4 DEF At, StatusRead, locals
<1>5. CASE /\ At(r, "answer") /\ UNCHANGED <<chip, keyboard, garbled, stolen>>
           /\ NoByte /\ pc' = <<K, "up">> /\ resends' = 0 /\ UNCHANGED <<config, port2, live, leds>>
  BY <1>0, <1>3, <1>5
<1>6. CASE /\ At(r, "answer") /\ UNCHANGED <<chip, keyboard, garbled, stolen>>
           /\ GoodByte
           /\ \/ pc' = next /\ resends' = 0 /\ UNCHANGED <<config, port2, live, leds>>
              \/ /\ MayResend /\ pc' = <<r, "send">> /\ resends' = NextResend
                 /\ UNCHANGED <<config, port2, live, leds>>
              \/ pc' = <<K, "up">> /\ resends' = 0 /\ UNCHANGED <<config, port2, live, leds>>
  BY <1>0, <1>3, <1>6
<1>7. \/ /\ At(r, "send")
         /\ \/ DeviceHears(b) /\ pc' = <<r, "answer">> /\ UNCHANGED locals
            \/ /\ UNCHANGED keyboard
               /\ pc' = <<K, "up">> /\ resends' = 0 /\ UNCHANGED <<config, port2, live, leds>>
         /\ UNCHANGED <<seen, chip, bus>>
      \/ /\ At(r, "answer") /\ UNCHANGED <<chip, keyboard, garbled, stolen>>
         /\ \/ StatusRead
            \/ /\ NoByte /\ pc' = <<K, "up">> /\ resends' = 0
               /\ UNCHANGED <<config, port2, live, leds>>
            \/ /\ GoodByte
               /\ \/ pc' = next /\ resends' = 0 /\ UNCHANGED <<config, port2, live, leds>>
                  \/ /\ MayResend /\ pc' = <<r, "send">>
                     /\ resends' = NextResend /\ UNCHANGED <<config, port2, live, leds>>
                  \/ /\ pc' = <<K, "up">> /\ resends' = 0
                     /\ UNCHANGED <<config, port2, live, leds>>
  BY DEF DeviceCommand, ReadData
<1>. QED BY <1>2, <1>4, <1>5, <1>6, <1>7

(* The LEDs' routines are reached by a live keyboard only.                 *)
LEMMA KbdSetLedsPreserves == IInv /\ KbdSetLeds => IInv'
<1> SUFFICES ASSUME IInv, KbdSetLeds PROVE IInv'
  OBVIOUS
<1>0. /\ Idling = <<K, "up">> /\ <<K, "up">> \in Routines \X Steps
      /\ <<"leds", "send">> \in Routines \X Steps
      /\ <<"led_state", "send">> \in Routines \X Steps
  BY DEF Idling, K, Routines, Steps
<1>1. CASE /\ pc = Idling /\ live /\ leds < MaxLeds
           /\ leds' = leds + 1
           /\ pc' = <<"leds", "send">>
           /\ UNCHANGED <<seen, config, resends, port2, live, chip, keyboard, bus>>
  <2>1. Typed /\ SeenInv /\ LiveIsKeyboard
    BY <1>1 DEF IInv, EndInv
  <2>2. UNCHANGED <<seen, config, resends, port2, live, cfg, reply, hasPort2, wire, device,
                    scanning, keys, out, garbled, stolen>>
    BY <1>1 DEF chip, keyboard, bus
  <2>3. Typed'
    BY <1>0, <1>1, <2>1, <2>2 DEF Typed, TypeOK
  <2>4. ~Reading
    BY <1>0, <1>1, LabelParts DEF Reading, In, K, R, Talking
  <2>5. SeenInv'
    BY <2>1, <2>2, <2>4 DEF SeenInv
  <2>6. LiveIsKeyboard'
    BY <2>1, <2>2 DEF LiveIsKeyboard, Ringing
  <2>. QED BY <1>1, <2>3, <2>5, <2>6, LiveStep
<1>2. ASSUME NEW r \in {"leds", "led_state"}, NEW b \in {SetLeds, LedState},
             NEW next \in {<<"led_state", "send">>, <<K, "up">>},
             DeviceCommand(r, b, next, <<K, "up">>)
      PROVE  IInv'
  <2>1. pc[1] = r
    BY <1>2, LabelParts DEF DeviceCommand, At
  <2>2. live
    BY <2>1 DEF IInv, EndInv
  <2>3. Typed /\ SeenInv /\ LiveIsKeyboard /\ next \in Routines \X Steps
    BY <1>0, <1>2, <2>2 DEF IInv, EndInv
  <2>4. /\ Typed' /\ SeenInv' /\ UNCHANGED <<live, cfg, device, scanning>>
        /\ pc' \in {<<r, "send">>, <<r, "answer">>, next, <<K, "up">>}
    BY <1>2, <2>2, <2>3, LiveCommandEffect
  <2>5. LiveIsKeyboard'
    BY <2>3, <2>4 DEF LiveIsKeyboard, Ringing
  <2>6. PICK q \in {"leds", "led_state", K}, s \in {"send", "answer", "up"} :
           /\ pc' = <<q, s>>
           /\ q \in {"leds", "led_state"} \/ (q = K /\ s = "up")
    BY <1>2, <2>4
  <2>. QED BY <2>2, <2>4, <2>5, <2>6, LiveStep
<1>3. CASE DeviceCommand("leds", SetLeds, <<"led_state", "send">>, Idling)
  BY <1>0, <1>2, <1>3
<1>4. CASE DeviceCommand("led_state", LedState, Idling, Idling)
  BY <1>0, <1>2, <1>4
<1>. QED BY <1>1, <1>2, <1>3, <1>4 DEF KbdSetLeds

-----------------------------------------------------------------------------
(* What happens on the other side of the ports.                            *)
LEMMA FrontUntouched ==
  ASSUME EarlyInv, ProgrammedInv, Front' = Front, pc' = pc, cfg' = cfg, config' = config,
         port2' = port2, hasPort2' = hasPort2
  PROVE  EarlyInv' /\ ProgrammedInv'
<1>1. EarlyInv'
  BY DEF EarlyInv, In
<1>2. ProgrammedInv'
  BY DEF ProgrammedInv, In, Gated, Owed, Offset, SecondPort
<1>. QED BY <1>1, <1>2

LEMMA TypePreserves == IInv /\ Type => IInv'
<1> SUFFICES ASSUME IInv, Type PROVE IInv'
  OBVIOUS
<1>1. PICK b \in KeyBytes : wire' = wire \o From("key", <<b>>)
  BY DEF Type
<1>2. UNCHANGED <<pc, seen, config, resends, port2, live, leds, cfg, reply, hasPort2, device,
                  scanning, out, garbled, stolen>>
  BY DEF Type, host, locals, chip, bus
<1>3. b \in Bytes /\ b \notin Handshake
  BY ControllerAssumption, ScancodeAssumption DEF Bytes, Handshake, Ack, Resend
<1>4. Typed /\ <<b>> \in Seq(Bytes) /\ Clean(<<b>>)
  BY <1>3, OneByte DEF IInv
<1>5. /\ wire' \in Seq(Message)
      /\ Front' = Front /\ Said' = Said \o <<b>> /\ Pending' = Pending \o <<b>>
  BY <1>1, <1>2, <1>4, Spoken
<1>6. Typed'
  BY <1>2, <1>4, <1>5, MessagesTyped DEF Typed, TypeOK
<1>7. SeenInv'
  BY <1>2 DEF IInv, SeenInv, Reading, In
<1>8. EarlyInv' /\ ProgrammedInv'
  BY <1>2, <1>5, FrontUntouched DEF IInv
<1>9. Said \in Seq(Bytes) /\ Pending \in Seq(Bytes)
  BY <1>4, Waiting
<1>10. /\ Clean(Said) => Clean(Said')
       /\ Clean(Front) => Clean(Front')
  BY <1>4, <1>5, <1>9, CleanParts DEF Clean
<1>11. UnmuteInv'
  BY <1>2, <1>5, <1>10 DEF IInv, UnmuteInv, In, Clean
<1>12. /\ Clean(Pending) => Clean(Pending')
       /\ Once(Pending) => Once(Pending')
  BY <1>4, <1>5, <1>9, CleanParts DEF Clean, Once
<1>13. device = "keyboard" /\ scanning
  BY <1>4 DEF Type, Typed
<1>14. ConverseInv'
  BY <1>2, <1>12, <1>13 DEF IInv, ConverseInv, In, Clean, Once, Ringing
<1>15. EndInv'
  BY <1>2 DEF IInv, EndInv, In, LiveIsKeyboard, Ringing, Muted
<1>. QED BY <1>6, <1>7, <1>8, <1>11, <1>14, <1>15 DEF IInv

LEMMA ArrivePreserves == IInv /\ Arrive => IInv'
<1> SUFFICES ASSUME IInv, Arrive PROVE IInv'
  OBVIOUS
<1>1. Typed
  BY DEF IInv
<1>2. /\ Pending' = Pending
      /\ \/ Front' = Front /\ Said' = Said
         \/ /\ Front = <<>> /\ Said # <<>> /\ ~Has(cfg, Clock1)
            /\ Front' = <<Said[1]>> /\ Said' = Tail(Said)
      /\ Typed'
  BY <1>1, Arrived
<1>3. UNCHANGED <<pc, seen, config, port2, live, cfg, hasPort2, device, scanning>>
  BY DEF Arrive, host, locals
<1>4. out'.full = TRUE
  BY DEF Arrive
<1>5. SeenInv'
  BY <1>3, <1>4 DEF IInv, SeenInv, Reading, In
<1>6. ConverseInv'
  BY <1>2, <1>3 DEF IInv, ConverseInv, In, Clean, Once, AtEnd, Ringing
<1>7. EndInv'
  BY <1>3 DEF IInv, EndInv, In, LiveIsKeyboard, Ringing, Muted
<1>8. CASE Front' = Front /\ Said' = Said
  <2>1. EarlyInv' /\ ProgrammedInv'
    BY <1>3, <1>8, FrontUntouched DEF IInv
  <2>2. UnmuteInv'
    BY <1>3, <1>8 DEF IInv, UnmuteInv, In, Clean
  <2>. QED BY <1>2, <1>5, <1>6, <1>7, <2>1, <2>2 DEF IInv
<1>9. CASE /\ Front = <<>> /\ Said # <<>> /\ ~Has(cfg, Clock1)
           /\ Front' = <<Said[1]>> /\ Said' = Tail(Said)
  <2>1. Said \in Seq(Bytes) /\ Len(<<Said[1]>>) = 1
    BY <1>1, Waiting
  <2>2. Len(Front') = 1
    BY <1>9, <2>1
  <2>3. EarlyInv'
    BY <1>3, <2>2 DEF EarlyInv, In
  <2>4. ProgrammedInv'
    BY <1>3, <1>9 DEF IInv, ProgrammedInv, In, Gated
  <2>5. ASSUME Clean(Said) PROVE Clean(Front') /\ Clean(Said')
    <3>1. 1 \in 1 .. Len(Said) /\ Said[1] \in Bytes
      BY <1>9, <2>1
    <3>2. Said[1] \notin Handshake
      BY <2>5, <3>1 DEF Clean
    <3>3. Clean(<<Said[1]>>)
      BY <3>1, <3>2, OneByte
    <3>4. Clean(Tail(Said))
      BY <1>9, <2>1, <2>5, CleanParts
    <3>. QED BY <1>9, <3>3, <3>4 DEF Clean
  <2>6. UnmuteInv'
    <3>1. pc[1] \in {R, "enable"} \/ In(K, {"drain", "ask", "config", "unmute", "gate"})
             => Clean(Said') /\ Clean(Front')
      BY <2>5 DEF IInv, UnmuteInv
    <3>2. ~In(K, {"drain", "ask", "config", "unmute"})
      BY <1>9 DEF IInv, UnmuteInv
    <3>3. In(K, {"gate"}) \/ In("enable", {"drain", "ask", "config"}) => ~Has(cfg, Clock1)
      BY <1>9
    <3>. QED BY <1>3, <3>1, <3>2, <3>3 DEF UnmuteInv, In, Clean
  <2>. QED BY <1>2, <1>5, <1>6, <1>7, <2>3, <2>4, <2>6 DEF IInv
<1>. QED BY <1>2, <1>8, <1>9

LEMMA IrqPreserves == IInv /\ Irq => IInv'
<1> SUFFICES ASSUME IInv, Irq PROVE IInv'
  OBVIOUS
<1>1. /\ live /\ Typed /\ SeenInv /\ LiveIsKeyboard
      /\ In(K, {"up"}) \/ pc[1] \in {"leds", "led_state"}
  BY DEF Irq, IInv, EndInv
<1>2. /\ UNCHANGED <<pc, seen, config, resends, port2, live, cfg, reply, hasPort2, wire, device,
                     scanning>>
      /\ out' = [out EXCEPT !.full = FALSE]
      /\ stolen' \in BOOLEAN
  BY DEF Irq, host, locals, chip, keyboard
<1>3. Typed'
  BY <1>1, <1>2 DEF Typed, TypeOK
<1>4. SeenInv'
  BY <1>1, <1>2 DEF SeenInv, Reading, In
<1>5. LiveIsKeyboard'
  BY <1>1, <1>2 DEF LiveIsKeyboard, Ringing
<1>6. PICK r \in Routines, s \in Steps : pc = <<r, s>>
  BY <1>1 DEF Typed, TypeOK
<1>7. r \in {"leds", "led_state"} \/ (r = K /\ s = "up")
  BY <1>1, <1>6, LabelParts DEF In
<1>. QED BY <1>1, <1>2, <1>3, <1>4, <1>5, <1>6, <1>7, LiveStep

LEMMA StutterPreserves == IInv /\ UNCHANGED vars => IInv'
<1> SUFFICES ASSUME IInv, UNCHANGED vars PROVE IInv'
  OBVIOUS
<1>1. UNCHANGED <<pc, seen, config, resends, port2, live, leds, cfg, reply, hasPort2, wire,
                  device, scanning, keys, out, garbled, stolen>>
  BY DEF vars, host, locals, chip, keyboard, bus
<1>2. Front' = Front /\ Said' = Said /\ Pending' = Pending
  BY <1>1, Unmoved
<1>3. Typed' /\ SeenInv'
  BY <1>1 DEF IInv, Typed, TypeOK, SeenInv, Reading, In
<1>4. EarlyInv' /\ ProgrammedInv'
  BY <1>1, <1>2, FrontUntouched DEF IInv
<1>5. UnmuteInv'
  BY <1>1, <1>2 DEF IInv, UnmuteInv, In, Clean
<1>6. ConverseInv'
  BY <1>1, <1>2 DEF IInv, ConverseInv, In, Clean, Once, AtEnd, Ringing
<1>7. EndInv'
  BY <1>1 DEF IInv, EndInv, In, LiveIsKeyboard, Ringing, Muted
<1>. QED BY <1>3, <1>4, <1>5, <1>6, <1>7 DEF IInv

-----------------------------------------------------------------------------
(* The firmware's leftover, a passed self-test, is no answer.              *)
LEMMA InitHolds == Init => IInv
<1> SUFFICES ASSUME Init PROVE IInv
  OBVIOUS
<1>1. /\ pc = <<R, "gate1">> /\ pc[1] = R /\ pc[2] = "gate1"
      /\ seen = "nothing" /\ live = FALSE /\ reply = <<>>
  BY DEF Init
<1>2. Passed \in Bytes /\ 0 \in Bytes
  BY DEF Passed, Bytes
<1>3. out \in [full : BOOLEAN, byte : Bytes, garbled : BOOLEAN,
               from : {"controller", "device", "key"}]
  BY <1>2 DEF Init
<1>4. wire = <<>> \/ \E m \in Stray : wire = <<m>>
  BY DEF Init
<1>5. Stray \subseteq Message
  BY <1>2 DEF Stray, Message
<1>6. wire \in Seq(Message)
  <2>1. ASSUME NEW m \in Message PROVE <<m>> \in Seq(Message)
    OBVIOUS
  <2>2. <<>> \in Seq(Message)
    OBVIOUS
  <2>. QED BY <1>4, <1>5, <2>1, <2>2
<1>7. Typed
  <2>1. pc \in Routines \X Steps
    BY <1>1 DEF Routines, Steps
  <2>2. cfg \in Bytes
    BY ControllerAssumption DEF Init, Bytes
  <2>3. 0 \in 0 .. MaxResends
    BY ControllerAssumption
  <2>4. reply \in Seq(Bytes)
    BY <1>1
  <2>. QED BY <1>2, <1>3, <1>6, <2>1, <2>2, <2>3, <2>4, MessagesTyped DEF Init, Typed, TypeOK
<1>8. Clean(Said)
  <2>1. CASE wire = <<>>
    <3>1. Len(Said) = 0
      BY <1>7, <2>1, Waiting
    <3>. QED BY <3>1 DEF Clean
  <2>2. ASSUME NEW m \in Stray, wire = <<m>> PROVE Clean(Said)
    <3>1. Len(Said) = 1
      BY <1>7, <2>2, Waiting
    <3>2. Said[1] = Passed
      BY <2>2 DEF Said, Stray
    <3>. QED BY <3>1, <3>2 DEF Clean, Passed, Handshake, Ack, Resend
  <2>. QED BY <1>4, <2>1, <2>2
<1>9. Len(Front) <= 1
  BY <1>1 DEF Front
<1>10. SeenInv /\ EarlyInv /\ ProgrammedInv
  BY <1>1, <1>9 DEF SeenInv, EarlyInv, ProgrammedInv, In
<1>11. UnmuteInv /\ ConverseInv /\ EndInv
  BY <1>1, <1>8 DEF UnmuteInv, ConverseInv, EndInv, In, R, K, Talking
<1>. QED BY <1>7, <1>10, <1>11 DEF IInv

LEMMA NextPreserves == IInv /\ [Next]_vars => IInv'
BY QuietenPreserves, SelfTestPreserves, ProgramPreserves, ProbePort2Preserves,
   TestPortsPreserves, UnmutePreserves, EnablePortPreserves, ConversePreserves,
   EnablePortAgainPreserves, GoLivePreserves, DisablePortPreserves, KbdSetLedsPreserves,
   TypePreserves, ArrivePreserves, IrqPreserves, StutterPreserves
   DEF Next, Driver, I8042Init, KbdInit

(* The invariant of the conversation holds whatever the firmware left, the *)
(* device answers and somebody types.                                      *)
THEOREM InStep == Spec => []IInv
BY InitHolds, NextPreserves, PTL DEF Spec

(* The types.                                                              *)
THEOREM I8042Typed == Spec => []TypeOK
<1>1. IInv => TypeOK
  BY DEF IInv, Typed
<1>. QED BY <1>1, InStep, PTL

(* When I8042Init succeeds the controller is gated and translating and no  *)
(* answer is left over (I8042.C:429-459).                                  *)
THEOREM InitLeavesQuiet == Spec => []ReadyMeansQuiet
<1>1. IInv => ReadyMeansQuiet
  <2>1. SUFFICES ASSUME IInv, pc = <<R, "ready">>
                 PROVE  /\ Muted /\ ~Has(cfg, Int2) /\ Has(cfg, Translate)
                        /\ reply = <<>>
                        /\ port2 => hasPort2 /\ Has(cfg, Clock2)
    BY DEF ReadyMeansQuiet, Ready
  <2>2. pc[1] = R /\ pc[2] = "ready"
    BY <2>1, LabelParts
  <2>3. Gated /\ Front = <<>> /\ SecondPort
    BY <2>1, <2>2 DEF IInv, ProgrammedInv, In
  <2>4. reply = <<>>
    <3>1. /\ out.full => Len(Front) = Len(reply) + 1
          /\ ~out.full => Front = reply
          /\ reply \in Seq(Bytes)
      BY <2>1, Waiting DEF IInv, Typed
    <3>2. Len(reply) \in Nat /\ Len(Front) = 0
      BY <2>3, <3>1
    <3>3. ~out.full
      BY <3>1, <3>2
    <3>. QED BY <2>3, <3>1, <3>3
  <2>. QED BY <2>3, <2>4 DEF Gated, SecondPort, Muted
<1>. QED BY <1>1, InStep, PTL

(* Only a keyboard that passed its self-test and named itself goes live,   *)
(* and then it scans and its bytes can ring (KBD.C:244-295).               *)
THEOREM OnlyKeyboardsGoLive == Spec => []LiveIsKeyboard
<1>1. IInv => LiveIsKeyboard
  BY DEF IInv, EndInv, LiveIsKeyboard
<1>. QED BY <1>1, InStep, PTL

(* What the driver does puts no byte into the output buffer.               *)
NothingIn == out' = out \/ ~out'.full

LEMMA PrimitivesPutNothingIn ==
  ASSUME Typed
  PROVE  /\ UNCHANGED bus => NothingIn
         /\ \A c, next, otherwise : Command(c, next, otherwise) => NothingIn
         /\ \A c, next, otherwise : CommandConfig(c, next, otherwise) => NothingIn
         /\ \A next : Drain(next) => NothingIn
         /\ StatusRead \/ NoByte \/ GoodByte => NothingIn
<1>1. out \in [full : BOOLEAN, byte : Bytes, garbled : BOOLEAN,
               from : {"controller", "device", "key"}]
  BY DEF Typed, TypeOK
<1>2. out' = [out EXCEPT !.full = FALSE] => ~out'.full
  BY <1>1
<1>. QED BY <1>2 DEF NothingIn, bus, Command, CommandConfig, Drain, StatusRead, NoByte,
       GoodByte, Pop

LEMMA AskPutsNothingIn ==
  ASSUME Typed, NEW r, NEW ask, NEW read, NEW next, NEW otherwise,
         AskConfig(r, ask, read, next, otherwise)
  PROVE  NothingIn
BY PrimitivesPutNothingIn DEF AskConfig, ReadData

LEMMA ExpectPutsNothingIn ==
  ASSUME Typed, NEW expected, NEW next, NEW otherwise, Expect(expected, next, otherwise)
  PROVE  NothingIn
BY PrimitivesPutNothingIn DEF Expect, ReadData

LEMMA HandshakePutsNothingIn ==
  ASSUME Typed, NEW r, NEW b, NEW next, NEW otherwise, DeviceCommand(r, b, next, otherwise)
  PROVE  NothingIn
BY PrimitivesPutNothingIn DEF DeviceCommand, ReadData

LEMMA EnablePutsNothingIn ==
  ASSUME Typed, NEW r, NEW next, EnablePort(r, next)
  PROVE  NothingIn
BY PrimitivesPutNothingIn, AskPutsNothingIn DEF EnablePort

LEMMA DriverPutsNothingIn ==
  ASSUME Typed, Driver \/ KbdSetLeds
  PROVE  NothingIn
<1>1. CASE Quieten \/ SelfTest
  BY <1>1, PrimitivesPutNothingIn, AskPutsNothingIn, ExpectPutsNothingIn DEF Quieten, SelfTest
<1>2. CASE Program \/ ProbePort2
  BY <1>2, PrimitivesPutNothingIn, AskPutsNothingIn DEF Program, ProbePort2
<1>3. CASE TestPorts
  BY <1>3, PrimitivesPutNothingIn, ExpectPutsNothingIn DEF TestPorts
<1>4. CASE Unmute \/ DisablePort \/ GoLive
  BY <1>4, PrimitivesPutNothingIn, AskPutsNothingIn DEF Unmute, DisablePort, GoLive
<1>5. CASE Converse
  BY <1>5, ExpectPutsNothingIn, HandshakePutsNothingIn DEF Converse
<1>6. CASE KbdSetLeds
  BY <1>6, PrimitivesPutNothingIn, HandshakePutsNothingIn DEF KbdSetLeds
<1>. QED BY <1>1, <1>2, <1>3, <1>4, <1>5, <1>6, EnablePutsNothingIn
     DEF Driver, I8042Init, KbdInit

(* While the port is shut down no other routine of the driver runs.        *)
LEMMA ShuttingAlone ==
  ASSUME pc[1] = "disable", Driver \/ KbdSetLeds
  PROVE  DisablePort
<1>1. \A r, step : At(r, step) => r = "disable"
  BY DEF At
<1>2. R # "disable" /\ K # "disable"
  BY DEF R, K
<1>3. ~I8042Init
  BY <1>1, <1>2 DEF I8042Init, Quieten, SelfTest, Program, ProbePort2, TestPorts, AskConfig
<1>4. ~Unmute /\ ~GoLive
  BY <1>1, <1>2 DEF Unmute, GoLive, AskConfig, Ready
<1>5. \A r, next : EnablePort(r, next) => r = "disable"
  BY <1>1 DEF EnablePort, AskConfig
<1>6. \A r, b, next, otherwise : DeviceCommand(r, b, next, otherwise) => r = "disable"
  BY <1>1 DEF DeviceCommand
<1>7. ~Converse
  BY <1>1, <1>2, <1>6 DEF Converse
<1>8. ~KbdSetLeds
  BY <1>2, <1>6 DEF KbdSetLeds, Idling
<1>. QED BY <1>3, <1>4, <1>5, <1>7, <1>8 DEF Driver, KbdInit

(* From the moment 0xAD has been accepted the driver gives up for good and *)
(* no byte of the device reaches the output buffer, whichever of its next  *)
(* steps fails (I8042.C:366-408).                                          *)
THEOREM GivenUpStaysSilent == Spec => GivenUpIsSilent
<1>1. ASSUME IInv, [Next]_vars
      PROVE  [(pc \in Shutting) => StaysSilent]_vars
  <2> SUFFICES ASSUME pc \in Shutting, Next PROVE StaysSilent
    BY <1>1
  <2>1. /\ pc[1] = "disable" /\ pc[2] \in {"ask", "config", "disarm", "done", "gave_up"}
        /\ Typed
    BY <1>1, LabelParts DEF Shutting, IInv
  <2>2. Has(cfg, Clock1)
    BY <1>1, <2>1 DEF IInv, EndInv, In
  <2>3. CASE Driver \/ KbdSetLeds
    <3>1. pc' \in Shutting
      <4>1. ~At("disable", "gate") /\ DisablePort
        BY <2>1, <2>3, ShuttingAlone, LabelParts DEF At
      <4>2. \A s \in {"ask", "config", "disarm", "done", "gave_up"} : <<"disable", s>> \in Shutting
        BY DEF Shutting
      <4>3. ASSUME AskConfig("disable", "ask", "config", <<"disable", "disarm">>,
                             <<"disable", "gave_up">>)
            PROVE  pc' \in Shutting
        BY <4>2, <4>3 DEF AskConfig, Command, ReadData, StatusRead, Goto
      <4>4. ASSUME CommandConfig(With(Without(config, Int1), Clock1), <<"disable", "done">>,
                                 <<"disable", "gave_up">>)
            PROVE  pc' \in Shutting
        BY <4>2, <4>4 DEF CommandConfig
      <4>. QED BY <4>1, <4>3, <4>4 DEF DisablePort
    <3>2. NothingIn
      BY <2>1, <2>3, DriverPutsNothingIn
    <3>. QED BY <3>1, <3>2 DEF StaysSilent, NothingIn
  <2>4. CASE Type \/ Irq
    <3>1. pc' = pc
      BY <2>4 DEF Type, Irq, host
    <3>2. out' = out \/ out' = [out EXCEPT !.full = FALSE]
      BY <2>4 DEF Type, Irq, bus
    <3>3. NothingIn
      BY <2>1, <3>2 DEF NothingIn, Typed, TypeOK
    <3>. QED BY <3>1, <3>3 DEF StaysSilent, NothingIn
  <2>5. CASE Arrive
    BY <2>2, <2>5 DEF Arrive, StaysSilent, host
  <2>. QED BY <2>3, <2>4, <2>5 DEF Next
<1>. QED BY <1>1, InStep, PTL DEF Spec, GivenUpIsSilent

-----------------------------------------------------------------------------
(* What bring-up has still to do.  A handshake takes `Rounds' steps more   *)
(* than one at most, and begins at its place in `Handshakes'; every other  *)
(* step of the driver has a place in `Places', counted from the end.  A    *)
(* place further off is worth more than all that a step puts into the      *)
(* wires.                                                                  *)
Rounds == 2 * MaxResends + 1
Handshakes ==
  [led_state |-> 1, leds |-> Rounds + 2,
   scan_on |-> 11, identify |-> Rounds + 14,
   reset |-> 2 * Rounds + 16, scan_off |-> 3 * Rounds + 17]
Places ==
  LET n == 4 * Rounds IN
  [disable |-> [done |-> 0, gave_up |-> 0, refused |-> 0, disarm |-> 1, config |-> 2,
                ask |-> 3, gate |-> 4],
   enable_again |-> [gate |-> 6, arm |-> 7, config |-> 8, ask |-> 9, drain |-> 10],
   enable |-> [gate |-> n + 18, arm |-> n + 19, config |-> n + 20, ask |-> n + 21,
               drain |-> n + 22],
   KbdInit |-> [up |-> 0, live |-> 5, id1 |-> Rounds + 12, id0 |-> Rounds + 13,
                bat |-> 2 * Rounds + 15, gate |-> n + 23, unmute |-> n + 24,
                config |-> n + 25, ask |-> n + 26, drain |-> n + 27],
   I8042Init |-> [error |-> 0, ready |-> n + 28, port2_broken |-> n + 29, verdict2 |-> n + 30,
                  port2 |-> n + 31, verdict1 |-> n + 32, port1 |-> n + 33, no_port2 |-> n + 34,
                  obeyed_again |-> n + 34, config4 |-> n + 35, ask4 |-> n + 36,
                  unprobe |-> n + 37, obeyed |-> n + 38, config3 |-> n + 39, ask3 |-> n + 40,
                  probe |-> n + 41, program |-> n + 42, config2 |-> n + 43, ask2 |-> n + 44,
                  verdict |-> n + 45, test |-> n + 46, drain |-> n + 47, disarm |-> n + 48,
                  config1 |-> n + 49, ask1 |-> n + 50, gate2 |-> n + 51, gate1 |-> n + 52]]
Place(p, refused) ==
  IF p[1] \in DOMAIN Handshakes
  THEN Handshakes[p[1]] + 2 * (MaxResends - refused) + (IF p[2] = "send" THEN 1 ELSE 0)
  ELSE Places[p[1]][p[2]]

Waits == 4 * (Len(wire) + Len(reply)) + (IF out.full THEN 3 ELSE 0)
           + (IF seen = "nothing" THEN 1 ELSE 0)
BringUpWork == 16 * Place(pc, resends) + Waits

(* The labels the driver can be at, and what every step of it does.        *)
Refusals == 0 .. MaxResends
Labels ==
  {p \in Routines \X Steps :
     \/ p[1] \in DOMAIN Handshakes /\ p[2] \in {"send", "answer"}
     \/ p[1] \in DOMAIN Places /\ p[2] \in DOMAIN Places[p[1]]}
Nearer(p, q) ==
  /\ q \in Labels
  /\ \A m, n \in Refusals : Place(q, n) < Place(p, m)
Less == pc' \in Labels /\ BringUpWork' < BringUpWork

LEMMA RoundsTyped == Rounds \in Nat /\ Rounds >= 1 /\ MaxResends \in Nat
BY ControllerAssumption DEF Rounds

LEMMA PlaceTyped ==
  ASSUME NEW p \in Labels, NEW n \in Refusals
  PROVE  Place(p, n) \in Nat /\ (Place(p, n) = 0 <=> p \in Over)
<1> DEFINE far == 4 * Rounds
<1>1. far \in Nat /\ far >= 1
  BY RoundsTyped
<1>2. CASE p[1] \in DOMAIN Handshakes /\ p[2] \in {"send", "answer"}
  <2> DEFINE left == 2 * (MaxResends - n)
             base == Handshakes[p[1]]
             first == IF p[2] = "send" THEN 1 ELSE 0
  <2>1. left \in Nat /\ first \in Nat
    BY RoundsTyped DEF Refusals
  <2>2. base \in Nat /\ base >= 1
    BY <1>2, RoundsTyped DEF Handshakes
  <2>3. Place(p, n) = base + left + first
    BY <1>2 DEF Place
  <2>4. p \notin Over
    BY <1>2 DEF Over, Error, Idling, R, K, Handshakes
  <2> HIDE DEF left, base, first
  <2>. QED BY <2>1, <2>2, <2>3, <2>4
<1>3. CASE p[1] \in DOMAIN Places /\ p[2] \in DOMAIN Places[p[1]]
  <2>1. Place(p, n) = Places[p[1]][p[2]]
    BY <1>3 DEF Place, Places, Handshakes
  <2>2. p = <<p[1], p[2]>>
    BY DEF Labels
  <2>3. /\ Places[p[1]][p[2]] \in Nat
        /\ Places[p[1]][p[2]] = 0 <=>
             <<p[1], p[2]>> \in {<<R, "error">>, <<K, "up">>, <<"disable", "done">>,
                                 <<"disable", "gave_up">>, <<"disable", "refused">>}
    BY <1>1, <1>3, RoundsTyped DEF Places, R, K
  <2>. QED BY <2>1, <2>2, <2>3 DEF Over, Error, Idling
<1>. QED BY <1>2, <1>3 DEF Labels

LEMMA WaitsTyped ==
  /\ Typed => Waits \in Nat
  /\ Typed' => Waits' \in Nat
<1>1. Typed => Len(wire) \in Nat /\ Len(reply) \in Nat
  BY DEF Typed
<1>2. Typed' => Len(wire') \in Nat /\ Len(reply') \in Nat
  BY DEF Typed
<1>. QED BY <1>1, <1>2 DEF Waits

LEMMA WorkTyped ==
  ASSUME Typed, pc \in Labels
  PROVE  BringUpWork \in Nat
<1>1. resends \in Refusals
  BY DEF Typed, TypeOK, Refusals
<1>. QED BY <1>1, PlaceTyped, WaitsTyped DEF BringUpWork

(* A step towards the end may leave up to fifteen units in the wires.      *)
LEMMA Closer ==
  ASSUME Typed, Typed', pc \in Labels, pc' \in Labels,
         Place(pc', resends') < Place(pc, resends), Waits' <= Waits + 15
  PROVE  Less
<1> DEFINE p == Place(pc, resends)
           q == Place(pc', resends')
           v == Waits
           w == Waits'
<1>1. resends \in Refusals /\ resends' \in Refusals
  BY DEF Typed, TypeOK, Refusals
<1>2. p \in Nat /\ q \in Nat /\ v \in Nat /\ w \in Nat /\ q < p /\ w <= v + 15
  BY <1>1, PlaceTyped, WaitsTyped
<1>3. 16 * q + w < 16 * p + v
  <2> HIDE DEF p, q, v, w
  <2>. QED BY <1>2
<1>. QED BY <1>3 DEF Less, BringUpWork

(* One that stays where it is takes something out of them.                 *)
LEMMA Calmer ==
  ASSUME Typed, Typed', pc \in Labels, UNCHANGED <<pc, resends>>, Waits' < Waits
  PROVE  Less
<1> DEFINE p == Place(pc, resends)
           v == Waits
           w == Waits'
<1>1. resends \in Refusals
  BY DEF Typed, TypeOK, Refusals
<1>2. p \in Nat /\ v \in Nat /\ w \in Nat /\ w < v
  BY <1>1, PlaceTyped, WaitsTyped
<1>3. 16 * p + w < 16 * p + v
  <2> HIDE DEF p, v, w
  <2>. QED BY <1>2
<1>. QED BY <1>3 DEF Less, BringUpWork

LEMMA Forward ==
  ASSUME Typed, Typed', Nearer(pc, pc')
  PROVE  pc' \in Labels /\ Place(pc', resends') < Place(pc, resends)
<1>1. resends \in Refusals /\ resends' \in Refusals
  BY DEF Typed, TypeOK, Refusals
<1>. QED BY <1>1 DEF Nearer

(* The primitives: each moves the driver on, or takes a byte away.         *)
LEMMA CommandWork ==
  ASSUME Typed, Typed', pc \in Labels, NEW c, NEW next, NEW otherwise,
         Command(c, next, otherwise), UNCHANGED locals,
         Nearer(pc, next), Nearer(pc, otherwise)
  PROVE  Less
<1>1. /\ UNCHANGED <<seen, wire, out, resends>>
      /\ pc' \in {next, otherwise}
      /\ reply' = reply \/ \E a \in Answers(c) : reply' = reply \o a
  BY DEF Command, keyboard, bus, locals
<1>2. \A a \in Answers(c) : a \in Seq(Bytes) /\ Len(a) <= 1
  <2>1. SUFFICES ASSUME NEW a \in Answers(c) PROVE a \in Seq(Bytes) /\ Len(a) <= 1
    OBVIOUS
  <2>2. Answers(c) \in {{<<cfg>>}, {<<TestOk>>, <<Failed>>}, {<<0>>, <<1>>},
                        {<<0>>, <<1>>, <<>>}, {<<>>}}
    BY DEF Answers
  <2>3. a \in {<<cfg>>, <<TestOk>>, <<Failed>>, <<0>>, <<1>>, <<>>}
    BY <2>2
  <2>4. Len(a) <= 1
    <3>1. /\ Len(<<cfg>>) = 1 /\ Len(<<TestOk>>) = 1 /\ Len(<<Failed>>) = 1
          /\ Len(<<0>>) = 1 /\ Len(<<1>>) = 1 /\ Len(<<>>) = 0
      OBVIOUS
    <3> DEFINE n == Len(a)
    <3>2. n \in {0, 1}
      BY <2>3, <3>1, Zenon
    <3> HIDE DEF n
    <3>3. n <= 1
      BY <3>2
    <3>. QED BY <3>3 DEF n
  <2>. QED BY <2>4, AnswersAreBytes
<1>3. reply \in Seq(Bytes) /\ Len(wire) \in Nat
  BY DEF Typed
<1>4. Len(reply') \in Nat /\ Len(reply) \in Nat /\ Len(reply') <= Len(reply) + 1
  <2>1. CASE reply' = reply
    BY <1>3, <2>1
  <2>2. CASE \E a \in Answers(c) : reply' = reply \o a
    <3>1. PICK a \in Answers(c) : reply' = reply \o a
      BY <2>2
    <3>2. Len(reply') = Len(reply) + Len(a) /\ Len(a) \in Nat /\ Len(reply) \in Nat
      BY <1>2, <1>3, <3>1
    <3>. QED BY <1>2, <3>2
  <2>. QED BY <1>1, <2>1, <2>2
<1>5. Waits' <= Waits + 15
  <2> DEFINE x == Len(wire)
             y == Len(reply)
             z == Len(reply')
             full == IF out.full THEN 3 ELSE 0
             unseen == IF seen = "nothing" THEN 1 ELSE 0
  <2>1. Waits = 4 * (x + y) + full + unseen /\ Waits' = 4 * (x + z) + full + unseen
    BY <1>1 DEF Waits
  <2>2. x \in Nat /\ y \in Nat /\ z \in Nat /\ z <= y + 1 /\ full \in Nat /\ unseen \in Nat
    BY <1>3, <1>4
  <2> HIDE DEF x, y, z, full, unseen
  <2>. QED BY <2>1, <2>2
<1>6. Nearer(pc, pc')
  BY <1>1
<1>. QED BY <1>5, <1>6, Forward, Closer

LEMMA ConfigWork ==
  ASSUME Typed, Typed', pc \in Labels, NEW c, NEW next, NEW otherwise,
         CommandConfig(c, next, otherwise), UNCHANGED locals,
         Nearer(pc, next), Nearer(pc, otherwise)
  PROVE  Less
<1>1. UNCHANGED <<seen, wire, out, reply, resends>> /\ pc' \in {next, otherwise}
  BY DEF CommandConfig, keyboard, bus, locals
<1>2. Waits' = Waits
  BY <1>1 DEF Waits
<1>3. Nearer(pc, pc')
  BY <1>1
<1>4. Waits' <= Waits + 15
  <2> DEFINE v == Waits
  <2>1. v \in Nat /\ Waits' = v
    BY <1>2, WaitsTyped
  <2> HIDE DEF v
  <2>2. v <= v + 15
    BY <2>1
  <2>. QED BY <2>1, <2>2 DEF v
<1>. QED BY <1>3, <1>4, Forward, Closer

(* What becomes of a byte that is popped, and of a look at the status.     *)
LEMMA PopWaits ==
  ASSUME Typed, UNCHANGED <<wire, reply>>, out' = [out EXCEPT !.full = FALSE],
         seen' \in {seen, "nothing"}
  PROVE  /\ Waits' <= Waits + 15
         /\ out.full /\ seen' = seen => Waits' < Waits
<1> DEFINE x == 4 * (Len(wire) + Len(reply))
           full == IF out.full THEN 3 ELSE 0
           unseen == IF seen = "nothing" THEN 1 ELSE 0
           next == IF seen' = "nothing" THEN 1 ELSE 0
<1>1. /\ out' \in [full : BOOLEAN, byte : Bytes, garbled : BOOLEAN,
                   from : {"controller", "device", "key"}]
      /\ ~out'.full
  BY DEF Typed, TypeOK
<1>2. Waits = x + full + unseen /\ Waits' = x + 0 + next
  BY <1>1 DEF Waits
<1>3. /\ x \in Nat /\ full \in Nat /\ unseen \in 0 .. 1 /\ next \in 0 .. 1
      /\ out.full => full = 3
      /\ seen' = seen => next = unseen
  <2>1. Len(wire) \in Nat /\ Len(reply) \in Nat
    BY DEF Typed
  <2>. QED BY <2>1
<1> HIDE DEF x, full, unseen, next
<1>. QED BY <1>2, <1>3

LEMMA DrainWork ==
  ASSUME Typed, Typed', pc \in Labels, NEW next, Drain(next), Nearer(pc, next)
  PROVE  Less
<1>1. /\ UNCHANGED <<seen, wire, reply, resends>>
      /\ out' = [out EXCEPT !.full = FALSE]
      /\ pc' = next \/ (pc' = pc /\ out.full)
  BY DEF Drain, locals, chip, keyboard
<1>2. Waits' <= Waits + 15 /\ (out.full => Waits' < Waits)
  BY <1>1, PopWaits
<1>3. CASE pc' = next
  BY <1>2, <1>3, Forward, Closer
<1>4. CASE pc' = pc /\ out.full
  BY <1>1, <1>2, <1>4, Calmer
<1>. QED BY <1>1, <1>3, <1>4

LEMMA LookWork ==
  ASSUME Typed, Typed', pc \in Labels, UNCHANGED <<chip, keyboard>>, StatusRead
  PROVE  Less
<1>1. /\ UNCHANGED <<pc, resends, wire, reply, out>>
      /\ seen = "nothing" /\ seen' # "nothing"
  BY DEF StatusRead, chip, keyboard, locals
<1> DEFINE x == 4 * (Len(wire) + Len(reply)) + (IF out.full THEN 3 ELSE 0)
<1>2. Waits = x + 1 /\ Waits' = x + 0
  BY <1>1 DEF Waits
<1>3. x \in Nat
  <2>1. Len(wire) \in Nat /\ Len(reply) \in Nat
    BY DEF Typed
  <2>. QED BY <2>1
<1>4. Waits' < Waits
  <2> HIDE DEF x
  <2>. QED BY <1>2, <1>3
<1>. QED BY <1>1, <1>4, Calmer

LEMMA ReadWork ==
  ASSUME Typed, Typed', pc \in Labels, pc' \in Labels, UNCHANGED <<chip, keyboard>>,
         NoByte \/ GoodByte, Place(pc', resends') < Place(pc, resends)
  PROVE  Less
<1>1. wire' = wire /\ reply' = reply
  BY DEF chip, keyboard
<1>2. CASE seen = "nothing" /\ ~out.full /\ reply = <<>> /\ UNCHANGED <<seen, out>>
  <2> DEFINE v == Waits
  <2>1. v \in Nat /\ Waits' = v
    BY <1>1, <1>2, WaitsTyped DEF Waits
  <2>2. Waits' <= Waits + 15
    <3> HIDE DEF v
    <3>1. v <= v + 15
      BY <2>1
    <3>. QED BY <2>1, <3>1 DEF v
  <2>. QED BY <2>2, Closer
<1>3. CASE Pop
  <2>1. Waits' <= Waits + 15
    BY <1>1, <1>3, PopWaits DEF Pop
  <2>. QED BY <2>1, Closer
<1>. QED BY <1>2, <1>3 DEF NoByte, GoodByte

LEMMA AskWork ==
  ASSUME Typed, Typed', pc \in Labels, NEW r, NEW ask, NEW read, NEW next, NEW otherwise,
         AskConfig(r, ask, read, next, otherwise),
         Nearer(<<r, ask>>, <<r, read>>), Nearer(<<r, ask>>, otherwise),
         Nearer(<<r, read>>, next), Nearer(<<r, read>>, otherwise)
  PROVE  Less
<1>1. CASE At(r, ask) /\ Command(ReadConfig, <<r, read>>, otherwise) /\ UNCHANGED locals
  BY <1>1, CommandWork DEF At
<1>2. CASE /\ At(r, read) /\ UNCHANGED <<chip, keyboard>>
           /\ NoByte \/ GoodByte
           /\ pc' \in {next, otherwise}
  <2>1. Nearer(pc, pc')
    BY <1>2 DEF At
  <2>. QED BY <1>2, <2>1, Forward, ReadWork
<1>3. CASE UNCHANGED <<chip, keyboard>> /\ StatusRead
  BY <1>3, LookWork
<1>. QED BY <1>1, <1>2, <1>3 DEF AskConfig, ReadData, Goto

LEMMA ExpectWork ==
  ASSUME Typed, Typed', pc \in Labels, NEW expected, NEW next, NEW otherwise,
         Expect(expected, next, otherwise), Nearer(pc, next), Nearer(pc, otherwise)
  PROVE  Less
<1>1. CASE /\ UNCHANGED <<chip, keyboard>>
           /\ NoByte \/ GoodByte
           /\ pc' \in {next, otherwise}
  <2>1. Nearer(pc, pc')
    BY <1>1
  <2>. QED BY <1>1, <2>1, Forward, ReadWork
<1>2. CASE UNCHANGED <<chip, keyboard>> /\ StatusRead
  BY <1>2, LookWork
<1>. QED BY <1>1, <1>2 DEF Expect, ReadData, Goto

(* A handshake: the two labels of a routine, each resend a step nearer.    *)
LEMMA HandshakePlaces ==
  ASSUME NEW r \in DOMAIN Handshakes, NEW n \in Refusals
  PROVE  /\ <<r, "send">> \in Labels /\ <<r, "answer">> \in Labels
         /\ Place(<<r, "answer">>, n) < Place(<<r, "send">>, n)
         /\ n < MaxResends => Place(<<r, "send">>, n + 1) < Place(<<r, "answer">>, n)
<1> DEFINE base == Handshakes[r]
           left == MaxResends - n
           next == MaxResends - (n + 1)
<1>1. <<r, "send">> \in Labels /\ <<r, "answer">> \in Labels
  BY DEF Labels, Handshakes, Routines, Steps
<1>2. /\ Place(<<r, "send">>, n) = base + 2 * left + 1
      /\ Place(<<r, "answer">>, n) = base + 2 * left + 0
      /\ Place(<<r, "send">>, n + 1) = base + 2 * next + 1
  BY DEF Place
<1>3. base \in Nat /\ left \in Nat /\ next = left - 1
  BY RoundsTyped DEF Handshakes, Refusals
<1> HIDE DEF base, left, next
<1>. QED BY <1>1, <1>2, <1>3

LEMMA LongerWire ==
  ASSUME Typed, NEW bs \in Seq(Bytes), Len(bs) <= 3, NEW who \in {"device", "key"},
         wire' = wire \o From(who, bs)
  PROVE  Len(wire') \in Nat /\ Len(wire') <= Len(wire) + 3
<1> DEFINE f == From(who, bs)
<1>1. f \in Seq(Message) /\ Len(f) = Len(bs)
  <2>1. /\ Len(bs) \in Nat /\ DOMAIN bs = 1 .. Len(bs)
        /\ \A i \in 1 .. Len(bs) : bs[i] \in Bytes
    OBVIOUS
  <2>2. f \in [1 .. Len(bs) -> Message]
    BY <2>1 DEF From, Message
  <2>. QED BY <2>1, <2>2
<1>2. wire \in Seq(Message) /\ wire' = wire \o f
  BY DEF Typed
<1> HIDE DEF f
<1>3. Len(wire') = Len(wire) + Len(f) /\ Len(wire) \in Nat /\ Len(f) \in Nat
  BY <1>1, <1>2, ConcatProperties
<1>. QED BY <1>1, <1>3

LEMMA HearsWaits ==
  ASSUME Typed, NEW b, DeviceHears(b), UNCHANGED <<seen, out, reply>>
  PROVE  Waits' <= Waits + 15
<1>1. Len(wire') \in Nat /\ Len(wire') <= Len(wire) + 3
  <2>1. CASE \E extra \in Extra(b) : wire' = wire \o From("device", <<Ack>> \o extra)
    <3>1. PICK e \in Extra(b) : wire' = wire \o From("device", <<Ack>> \o e)
      BY <2>1
    <3>2. <<Ack>> \o e \in Seq(Bytes) /\ e \in Seq(Bytes)
      BY ExtraBytes
    <3>3. e \in {<<Failed>>, <<Passed>>, <<0>>, <<171, 65>>, <<171, 193>>, <<>>}
      BY DEF Extra
    <3>4. Len(e) <= 2
      <4>1. /\ Len(<<Failed>>) = 1 /\ Len(<<Passed>>) = 1 /\ Len(<<0>>) = 1
            /\ Len(<<171, 65>>) = 2 /\ Len(<<171, 193>>) = 2 /\ Len(<<>>) = 0
        OBVIOUS
      <4> DEFINE n == Len(e)
      <4>2. n \in {0, 1, 2}
        BY <3>3, <4>1, Zenon
      <4> HIDE DEF n
      <4>3. n <= 2
        BY <4>2
      <4>. QED BY <4>3 DEF n
    <3>5. Len(<<Ack>> \o e) = 1 + Len(e)
      BY <3>2
    <3>6. Len(<<Ack>> \o e) <= 3
      BY <3>2, <3>4, <3>5
    <3>. QED BY <3>1, <3>2, <3>6, LongerWire
  <2>2. CASE \E refusal \in {Resend, Failed} : wire' = wire \o From("device", <<refusal>>)
    <3>1. PICK f \in {Resend, Failed} : wire' = wire \o From("device", <<f>>)
      BY <2>2
    <3>2. f \in Bytes
      BY DEF Bytes, Resend, Failed
    <3>3. <<f>> \in Seq(Bytes) /\ Len(<<f>>) <= 3
      BY <3>2
    <3>. QED BY <3>1, <3>3, LongerWire
  <2>3. CASE UNCHANGED keyboard
    <3>1. wire' = wire /\ Len(wire) \in Nat
      BY <2>3 DEF keyboard, Typed
    <3>. QED BY <3>1
  <2>. QED BY <2>1, <2>2, <2>3 DEF DeviceHears
<1> DEFINE x == Len(wire)
           z == Len(wire')
           y == Len(reply)
           rest == (IF out.full THEN 3 ELSE 0) + (IF seen = "nothing" THEN 1 ELSE 0)
<1>2. Waits = 4 * (x + y) + rest /\ Waits' = 4 * (z + y) + rest
  BY DEF Waits
<1>3. x \in Nat /\ y \in Nat /\ rest \in Nat
  BY DEF Typed
<1>4. z \in Nat /\ z <= x + 3
  BY <1>1
<1> HIDE DEF x, y, z, rest
<1>. QED BY <1>2, <1>3, <1>4

LEMMA DeviceWork ==
  ASSUME Typed, Typed', pc \in Labels, NEW r \in DOMAIN Handshakes, NEW b, NEW next,
         NEW otherwise, DeviceCommand(r, b, next, otherwise),
         Nearer(<<r, "answer">>, next), Nearer(<<r, "answer">>, otherwise),
         Nearer(<<r, "send">>, otherwise)
  PROVE  Less
<1>0. resends \in Refusals /\ resends' \in Refusals /\ MaxResends \in Nat
  BY RoundsTyped DEF Typed, TypeOK, Refusals
<1>1. CASE /\ At(r, "send") /\ DeviceHears(b) /\ pc' = <<r, "answer">> /\ UNCHANGED locals
           /\ UNCHANGED <<seen, chip, bus>>
  <2>1. UNCHANGED <<seen, out, reply, resends>>
    BY <1>1 DEF chip, bus, locals
  <2>2. Waits' <= Waits + 15
    BY <1>1, <2>1, HearsWaits
  <2>3. pc' \in Labels /\ Place(pc', resends') < Place(pc, resends)
    BY <1>0, <1>1, <2>1, HandshakePlaces DEF At
  <2>. QED BY <2>2, <2>3, Closer
<1>2. CASE At(r, "send") /\ UNCHANGED keyboard /\ pc' = otherwise /\ UNCHANGED <<seen, chip, bus>>
  <2>1. Waits' = Waits
    BY <1>2 DEF Waits, keyboard, chip, bus
  <2>2. Waits' <= Waits + 15
    <3> DEFINE v == Waits
    <3>1. v \in Nat /\ Waits' = v
      BY <2>1, WaitsTyped
    <3> HIDE DEF v
    <3>2. v <= v + 15
      BY <3>1
    <3>. QED BY <3>1, <3>2 DEF v
  <2>3. Nearer(pc, pc')
    BY <1>2 DEF At
  <2>. QED BY <2>2, <2>3, Forward, Closer
<1>3. CASE UNCHANGED <<chip, keyboard>> /\ StatusRead
  BY <1>3, LookWork
<1>4. CASE /\ At(r, "answer") /\ UNCHANGED <<chip, keyboard>>
           /\ NoByte \/ GoodByte
           /\ pc' \in {next, otherwise}
  <2>1. Nearer(pc, pc')
    BY <1>4 DEF At
  <2>. QED BY <1>4, <2>1, Forward, ReadWork
<1>5. CASE /\ At(r, "answer") /\ UNCHANGED <<chip, keyboard>> /\ GoodByte
           /\ MayResend /\ pc' = <<r, "send">> /\ resends' = NextResend
  <2>1. resends < MaxResends /\ resends' = resends + 1
    BY <1>5 DEF MayResend, NextResend
  <2>2. pc' \in Labels /\ Place(pc', resends') < Place(pc, resends)
    BY <1>0, <1>5, <2>1, HandshakePlaces DEF At
  <2>. QED BY <1>5, <2>2, ReadWork
<1>. QED BY <1>1, <1>2, <1>3, <1>4, <1>5 DEF DeviceCommand, ReadData

-----------------------------------------------------------------------------
(* Comparing places.                                                       *)
LEMMA FixedPlaces ==
  ASSUME NEW r \in DOMAIN Places, NEW s \in DOMAIN Places[r]
  PROVE  /\ <<r, s>> \in Labels
         /\ \A n : Place(<<r, s>>, n) = Places[r][s]
         /\ Places[r][s] \in Nat
<1>1. r \in Routines /\ r \notin DOMAIN Handshakes
  BY DEF Places, Handshakes, Routines, R, K
<1>2. s \in Steps
  BY DEF Places, Steps
<1>3. Places[r][s] \in Nat
  <2> DEFINE far == 4 * Rounds
  <2>1. far \in Nat /\ Rounds \in Nat
    BY RoundsTyped
  <2>. QED BY <2>1 DEF Places
<1>. QED BY <1>1, <1>2, <1>3 DEF Labels, Place

LEMMA FixedNearer ==
  ASSUME NEW r \in DOMAIN Places, NEW s \in DOMAIN Places[r],
         NEW t \in DOMAIN Places, NEW u \in DOMAIN Places[t],
         Places[t][u] < Places[r][s]
  PROVE  Nearer(<<r, s>>, <<t, u>>)
BY FixedPlaces DEF Nearer

LEMMA HandshakeSpans ==
  ASSUME NEW r \in DOMAIN Handshakes, NEW n \in Refusals
  PROVE  /\ Place(<<r, "send">>, n) \in Handshakes[r] .. Handshakes[r] + Rounds
         /\ Place(<<r, "answer">>, n) \in Handshakes[r] .. Handshakes[r] + Rounds
<1> DEFINE base == Handshakes[r]
           left == MaxResends - n
<1>1. /\ Place(<<r, "send">>, n) = base + 2 * left + 1
      /\ Place(<<r, "answer">>, n) = base + 2 * left + 0
  BY DEF Place
<1>2. base \in Nat /\ left \in Nat /\ 2 * left + 1 <= Rounds
  BY RoundsTyped DEF Handshakes, Refusals, Rounds
<1>3. Rounds \in Nat
  BY RoundsTyped
<1> HIDE DEF base, left
<1>4. /\ base + 2 * left + 1 \in base .. base + Rounds
      /\ base + 2 * left + 0 \in base .. base + Rounds
  BY <1>2, <1>3
<1>. QED BY <1>1, <1>4 DEF base

(* A handshake lies between its place and `Rounds' further.                *)
LEMMA SpanNearer ==
  ASSUME NEW q \in DOMAIN Handshakes, NEW r \in DOMAIN Handshakes,
         NEW s \in DOMAIN Places, NEW t \in DOMAIN Places[s],
         NEW p \in {<<q, "send">>, <<q, "answer">>}
  PROVE  /\ Handshakes[r] + Rounds < Handshakes[q] => Nearer(p, <<r, "send">>)
         /\ Places[s][t] < Handshakes[q] => Nearer(p, <<s, t>>)
         /\ Handshakes[q] + Rounds < Places[s][t] => Nearer(<<s, t>>, <<q, "send">>)
<1> DEFINE base == Handshakes[q]
           other == Handshakes[r]
           place == Places[s][t]
<1>1. /\ base \in Nat /\ other \in Nat /\ Rounds \in Nat /\ place \in Nat
  <2>1. base \in Nat /\ other \in Nat /\ Rounds \in Nat
    BY RoundsTyped DEF Handshakes
  <2>2. place \in Nat
    BY FixedPlaces
  <2>. QED BY <2>1, <2>2
<1>2. /\ p \in Labels /\ <<r, "send">> \in Labels /\ <<q, "send">> \in Labels
      /\ <<s, t>> \in Labels
  <2>1. 0 \in Refusals
    BY RoundsTyped DEF Refusals
  <2>. QED BY <2>1, HandshakePlaces, FixedPlaces
<1>3. \A n \in Refusals : /\ Place(p, n) \in base .. base + Rounds
                          /\ Place(<<q, "send">>, n) \in base .. base + Rounds
                          /\ Place(<<r, "send">>, n) \in other .. other + Rounds
                          /\ Place(<<s, t>>, n) = place
  BY HandshakeSpans, FixedPlaces
<1> HIDE DEF base, other, place
<1>4. other + Rounds < base => Nearer(p, <<r, "send">>)
  BY <1>1, <1>2, <1>3 DEF Nearer
<1>5. place < base => Nearer(p, <<s, t>>)
  BY <1>1, <1>2, <1>3 DEF Nearer
<1>6. base + Rounds < place => Nearer(<<s, t>>, <<q, "send">>)
  BY <1>1, <1>2, <1>3 DEF Nearer
<1>. QED BY <1>4, <1>5, <1>6 DEF base, other, place

LEMMA TalkNearer ==
  /\ Nearer(<<"enable", "gate">>, <<"scan_off", "send">>)
  /\ \A s \in {"send", "answer"} :
       /\ Nearer(<<"scan_off", s>>, <<"reset", "send">>) /\ Nearer(<<"scan_off", s>>, Degrade)
       /\ Nearer(<<"reset", s>>, <<K, "bat">>) /\ Nearer(<<"reset", s>>, Degrade)
       /\ Nearer(<<"identify", s>>, <<K, "id0">>) /\ Nearer(<<"identify", s>>, Degrade)
       /\ Nearer(<<"scan_on", s>>, <<"enable_again", "drain">>)
       /\ Nearer(<<"scan_on", s>>, Degrade)
       /\ Nearer(<<"leds", s>>, <<"led_state", "send">>) /\ Nearer(<<"leds", s>>, Idling)
       /\ Nearer(<<"led_state", s>>, Idling)
  /\ Nearer(<<K, "bat">>, <<"identify", "send">>) /\ Nearer(<<K, "bat">>, Degrade)
  /\ Nearer(<<K, "id0">>, <<K, "id1">>) /\ Nearer(<<K, "id0">>, Degrade)
  /\ Nearer(<<K, "id1">>, <<"scan_on", "send">>) /\ Nearer(<<K, "id1">>, Degrade)
<1>1. /\ DOMAIN Handshakes = {"led_state", "leds", "scan_on", "identify", "reset", "scan_off"}
      /\ Handshakes["led_state"] = 1 /\ Handshakes["leds"] = Rounds + 2
      /\ Handshakes["scan_on"] = 11 /\ Handshakes["identify"] = Rounds + 14
      /\ Handshakes["reset"] = 2 * Rounds + 16 /\ Handshakes["scan_off"] = 3 * Rounds + 17
  BY DEF Handshakes
<1>2. /\ "enable" \in DOMAIN Places /\ "gate" \in DOMAIN Places["enable"]
      /\ Places["enable"]["gate"] = 4 * Rounds + 18
      /\ "enable_again" \in DOMAIN Places /\ "drain" \in DOMAIN Places["enable_again"]
      /\ Places["enable_again"]["drain"] = 10
      /\ "disable" \in DOMAIN Places /\ "gate" \in DOMAIN Places["disable"]
      /\ Places["disable"]["gate"] = 4
  BY DEF Places
<1>3. /\ K \in DOMAIN Places /\ {"bat", "id0", "id1", "up"} \subseteq DOMAIN Places[K]
      /\ Places[K]["bat"] = 2 * Rounds + 15 /\ Places[K]["id0"] = Rounds + 13
      /\ Places[K]["id1"] = Rounds + 12 /\ Places[K]["up"] = 0
  BY DEF Places, K
<1>4. Nearer(<<"enable", "gate">>, <<"scan_off", "send">>)
  BY <1>1, <1>2, RoundsTyped, SpanNearer
<1>5. ASSUME NEW s \in {"send", "answer"}
      PROVE  /\ Nearer(<<"scan_off", s>>, <<"reset", "send">>)
             /\ Nearer(<<"scan_off", s>>, Degrade)
  BY <1>1, <1>2, RoundsTyped, SpanNearer DEF Degrade
<1>6. ASSUME NEW s \in {"send", "answer"}
      PROVE  Nearer(<<"reset", s>>, <<K, "bat">>) /\ Nearer(<<"reset", s>>, Degrade)
  BY <1>1, <1>2, <1>3, RoundsTyped, SpanNearer DEF Degrade
<1>7. ASSUME NEW s \in {"send", "answer"}
      PROVE  Nearer(<<"identify", s>>, <<K, "id0">>) /\ Nearer(<<"identify", s>>, Degrade)
  BY <1>1, <1>2, <1>3, RoundsTyped, SpanNearer DEF Degrade
<1>8. ASSUME NEW s \in {"send", "answer"}
      PROVE  /\ Nearer(<<"scan_on", s>>, <<"enable_again", "drain">>)
             /\ Nearer(<<"scan_on", s>>, Degrade)
  BY <1>1, <1>2, RoundsTyped, SpanNearer DEF Degrade
<1>9. ASSUME NEW s \in {"send", "answer"}
      PROVE  /\ Nearer(<<"leds", s>>, <<"led_state", "send">>)
             /\ Nearer(<<"leds", s>>, Idling) /\ Nearer(<<"led_state", s>>, Idling)
  BY <1>1, <1>3, RoundsTyped, SpanNearer DEF Idling
<1>10. Nearer(<<K, "bat">>, <<"identify", "send">>) /\ Nearer(<<K, "id1">>, <<"scan_on", "send">>)
  BY <1>1, <1>3, RoundsTyped, SpanNearer
<1>11. /\ Nearer(<<K, "bat">>, Degrade) /\ Nearer(<<K, "id0">>, <<K, "id1">>)
       /\ Nearer(<<K, "id0">>, Degrade) /\ Nearer(<<K, "id1">>, Degrade)
  BY <1>2, <1>3, RoundsTyped, FixedNearer DEF Degrade
<1>. QED BY <1>4, <1>5, <1>6, <1>7, <1>8, <1>9, <1>10, <1>11

LEMMA QuietenWork ==
  ASSUME IInv, Typed', pc \in Labels, Quieten
  PROVE  Less
<1>1. Typed
  BY DEF IInv
<1>2. /\ Nearer(<<R, "gate1">>, <<R, "gate2">>)
      /\ Nearer(<<R, "gate2">>, <<R, "ask1">>)
      /\ Nearer(<<R, "ask1">>, <<R, "config1">>)
      /\ Nearer(<<R, "ask1">>, Error)
      /\ Nearer(<<R, "config1">>, <<R, "disarm">>)
      /\ Nearer(<<R, "config1">>, Error)
      /\ Nearer(<<R, "disarm">>, <<R, "drain">>)
      /\ Nearer(<<R, "disarm">>, Error)
      /\ Nearer(<<R, "drain">>, <<R, "test">>)
  BY FixedNearer, RoundsTyped DEF Places, R, Error
<1>3. CASE /\ At(R, "gate1") /\ Command(DisablePort1, <<R, "gate2">>, <<R, "gate2">>)
           /\ UNCHANGED locals
  BY <1>1, <1>2, <1>3, CommandWork DEF At
<1>4. CASE /\ At(R, "gate2") /\ Command(DisablePort2, <<R, "ask1">>, <<R, "ask1">>)
           /\ UNCHANGED locals
  BY <1>1, <1>2, <1>4, CommandWork DEF At
<1>5. CASE AskConfig(R, "ask1", "config1", <<R, "disarm">>, Error)
  BY <1>1, <1>2, <1>5, AskWork
<1>6. CASE /\ At(R, "disarm")
           /\ CommandConfig(Without(Without(config, Int1), Int2), <<R, "drain">>, Error)
           /\ UNCHANGED locals
  BY <1>1, <1>2, <1>6, ConfigWork DEF At
<1>7. CASE At(R, "drain") /\ Drain(<<R, "test">>)
  BY <1>1, <1>2, <1>7, DrainWork DEF At
<1>. QED BY <1>3, <1>4, <1>5, <1>6, <1>7 DEF Quieten

LEMMA SelfTestWork ==
  ASSUME IInv, Typed', pc \in Labels, SelfTest
  PROVE  Less
<1>1. Typed
  BY DEF IInv
<1>2. /\ Nearer(<<R, "test">>, <<R, "verdict">>)
      /\ Nearer(<<R, "test">>, Error)
      /\ Nearer(<<R, "verdict">>, <<R, "ask2">>)
      /\ Nearer(<<R, "verdict">>, Error)
  BY FixedNearer, RoundsTyped DEF Places, R, Error
<1>3. CASE /\ At(R, "test") /\ Command(TestController, <<R, "verdict">>, Error)
           /\ UNCHANGED locals
  BY <1>1, <1>2, <1>3, CommandWork DEF At
<1>4. CASE At(R, "verdict") /\ Expect({TestOk}, <<R, "ask2">>, Error)
  BY <1>1, <1>2, <1>4, ExpectWork DEF At
<1>. QED BY <1>3, <1>4 DEF SelfTest

LEMMA ProgramWork ==
  ASSUME IInv, Typed', pc \in Labels, Program
  PROVE  Less
<1>1. Typed
  BY DEF IInv
<1>2. /\ Nearer(<<R, "ask2">>, <<R, "config2">>)
      /\ Nearer(<<R, "ask2">>, Error)
      /\ Nearer(<<R, "config2">>, <<R, "program">>)
      /\ Nearer(<<R, "config2">>, Error)
      /\ Nearer(<<R, "program">>, <<R, "probe">>)
      /\ Nearer(<<R, "program">>, Error)
  BY FixedNearer, RoundsTyped DEF Places, R, Error
<1>3. CASE AskConfig(R, "ask2", "config2", <<R, "program">>, Error)
  BY <1>1, <1>2, <1>3, AskWork
<1>4. CASE /\ At(R, "program") /\ CommandConfig(Programmed(config), <<R, "probe">>, Error)
           /\ UNCHANGED locals
  BY <1>1, <1>2, <1>4, ConfigWork DEF At
<1>. QED BY <1>3, <1>4 DEF Program

(* The steps that move without a word on any port.                         *)
LEMMA QuietWork ==
  ASSUME Typed, Typed', pc \in Labels, UNCHANGED <<seen, chip, keyboard, bus>>, Nearer(pc, pc')
  PROVE  Less
<1> DEFINE v == Waits
<1>1. v \in Nat /\ Waits' = v
  BY WaitsTyped DEF Waits, chip, keyboard, bus
<1>2. Waits' <= Waits + 15
  <2> HIDE DEF v
  <2>1. v <= v + 15
    BY <1>1
  <2>. QED BY <1>1, <2>1 DEF v
<1>. QED BY <1>2, Forward, Closer

LEMMA ProbePort2Work ==
  ASSUME IInv, Typed', pc \in Labels, ProbePort2
  PROVE  Less
<1>1. Typed
  BY DEF IInv
<1>2. /\ Nearer(<<R, "probe">>, <<R, "ask3">>)
      /\ Nearer(<<R, "ask3">>, <<R, "config3">>)
      /\ Nearer(<<R, "ask3">>, Error)
      /\ Nearer(<<R, "config3">>, <<R, "obeyed">>)
      /\ Nearer(<<R, "config3">>, Error)
      /\ Nearer(<<R, "obeyed">>, <<R, "port1">>)
      /\ Nearer(<<R, "obeyed">>, <<R, "unprobe">>)
      /\ Nearer(<<R, "unprobe">>, <<R, "ask4">>)
  BY FixedNearer, RoundsTyped DEF Places, R, Error
<1>3. /\ Nearer(<<R, "ask4">>, <<R, "config4">>)
      /\ Nearer(<<R, "ask4">>, <<R, "no_port2">>)
      /\ Nearer(<<R, "config4">>, <<R, "obeyed_again">>)
      /\ Nearer(<<R, "config4">>, <<R, "no_port2">>)
      /\ Nearer(<<R, "obeyed_again">>, <<R, "port1">>)
      /\ Nearer(<<R, "no_port2">>, <<R, "port1">>)
  BY FixedNearer, RoundsTyped DEF Places, R, Error
<1>4. CASE /\ At(R, "probe") /\ Command(EnablePort2, <<R, "ask3">>, <<R, "ask3">>)
           /\ UNCHANGED locals
  BY <1>1, <1>2, <1>3, <1>4, CommandWork DEF At
<1>5. CASE AskConfig(R, "ask3", "config3", <<R, "obeyed">>, Error)
  BY <1>1, <1>2, <1>3, <1>5, AskWork
<1>6. CASE /\ At(R, "obeyed") /\ pc' \in {<<R, "port1">>, <<R, "unprobe">>}
           /\ UNCHANGED <<seen, chip, keyboard, bus>>
  BY <1>1, <1>2, <1>3, <1>6, QuietWork DEF At
<1>7. CASE /\ At(R, "unprobe") /\ Command(DisablePort2, <<R, "ask4">>, <<R, "ask4">>)
           /\ UNCHANGED locals
  BY <1>1, <1>2, <1>3, <1>7, CommandWork DEF At
<1>8. CASE AskConfig(R, "ask4", "config4", <<R, "obeyed_again">>, <<R, "no_port2">>)
  BY <1>1, <1>2, <1>3, <1>8, AskWork
<1>9. CASE /\ At(R, "obeyed_again") /\ pc' = <<R, "port1">>
           /\ UNCHANGED <<seen, chip, keyboard, bus>>
  BY <1>1, <1>2, <1>3, <1>9, QuietWork DEF At
<1>10. CASE /\ At(R, "no_port2") /\ pc' = <<R, "port1">>
           /\ UNCHANGED <<seen, chip, keyboard, bus>>
  BY <1>1, <1>2, <1>3, <1>10, QuietWork DEF At
<1>. QED BY <1>4, <1>5, <1>6, <1>7, <1>8, <1>9, <1>10 DEF ProbePort2, SetPort2

LEMMA TestPortsWork ==
  ASSUME IInv, Typed', pc \in Labels, TestPorts
  PROVE  Less
<1>1. Typed
  BY DEF IInv
<1>2. /\ Nearer(<<R, "port1">>, <<R, "verdict1">>)
      /\ Nearer(<<R, "port1">>, Error)
      /\ Nearer(<<R, "verdict1">>, <<R, "port2">>)
      /\ Nearer(<<R, "verdict1">>, Ready)
      /\ Nearer(<<R, "verdict1">>, Error)
      /\ Nearer(<<R, "port2">>, <<R, "verdict2">>)
      /\ Nearer(<<R, "port2">>, <<R, "port2_broken">>)
      /\ Nearer(<<R, "verdict2">>, Ready)
      /\ Nearer(<<R, "verdict2">>, <<R, "port2_broken">>)
      /\ Nearer(<<R, "port2_broken">>, Ready)
  BY FixedNearer, RoundsTyped DEF Places, R, Error, Ready
<1>3. CASE At(R, "port1") /\ Command(TestPort1, <<R, "verdict1">>, Error) /\ UNCHANGED locals
  BY <1>1, <1>2, <1>3, CommandWork DEF At
<1>4. CASE /\ At(R, "verdict1")
           /\ Expect({0}, IF port2 THEN <<R, "port2">> ELSE Ready, Error)
  BY <1>1, <1>2, <1>4, ExpectWork DEF At
<1>5. CASE /\ At(R, "port2") /\ Command(TestPort2, <<R, "verdict2">>, <<R, "port2_broken">>)
           /\ UNCHANGED locals
  BY <1>1, <1>2, <1>5, CommandWork DEF At
<1>6. CASE At(R, "verdict2") /\ Expect({0}, Ready, <<R, "port2_broken">>)
  BY <1>1, <1>2, <1>6, ExpectWork DEF At
<1>7. CASE /\ At(R, "port2_broken") /\ pc' = Ready
           /\ UNCHANGED <<seen, chip, keyboard, bus>>
  BY <1>1, <1>2, <1>7, QuietWork DEF At
<1>. QED BY <1>3, <1>4, <1>5, <1>6, <1>7 DEF TestPorts, SetPort2

LEMMA UnmuteWork ==
  ASSUME IInv, Typed', pc \in Labels, Unmute
  PROVE  Less
<1>1. Typed
  BY DEF IInv
<1>2. /\ Nearer(Ready, <<K, "drain">>)
      /\ Nearer(<<K, "drain">>, <<K, "ask">>)
      /\ Nearer(<<K, "ask">>, <<K, "config">>)
      /\ Nearer(<<K, "ask">>, Degrade)
      /\ Nearer(<<K, "config">>, <<K, "unmute">>)
      /\ Nearer(<<K, "config">>, Degrade)
      /\ Nearer(<<K, "unmute">>, <<K, "gate">>)
      /\ Nearer(<<K, "unmute">>, Degrade)
      /\ Nearer(<<K, "gate">>, <<"enable", "drain">>)
      /\ Nearer(<<K, "gate">>, Degrade)
  BY FixedNearer, RoundsTyped DEF Places, R, K, Ready, Degrade
<1>3. CASE pc = Ready /\ pc' = <<K, "drain">> /\ UNCHANGED <<seen, chip, keyboard, bus>>
  BY <1>1, <1>2, <1>3, QuietWork
<1>4. CASE At(K, "drain") /\ Drain(<<K, "ask">>)
  BY <1>1, <1>2, <1>4, DrainWork DEF At
<1>5. CASE AskConfig(K, "ask", "config", <<K, "unmute">>, Degrade)
  BY <1>1, <1>2, <1>5, AskWork
<1>6. CASE /\ At(K, "unmute") /\ CommandConfig(Without(config, Clock1), <<K, "gate">>, Degrade)
           /\ UNCHANGED locals
  BY <1>1, <1>2, <1>6, ConfigWork DEF At
<1>7. CASE /\ At(K, "gate") /\ Command(EnablePort1, <<"enable", "drain">>, Degrade)
           /\ UNCHANGED locals
  BY <1>1, <1>2, <1>7, CommandWork DEF At
<1>. QED BY <1>3, <1>4, <1>5, <1>6, <1>7 DEF Unmute, Goto

LEMMA DisablePortWork ==
  ASSUME IInv, Typed', pc \in Labels, DisablePort
  PROVE  Less
<1>1. Typed
  BY DEF IInv
<1>2. /\ Nearer(<<"disable", "gate">>, <<"disable", "ask">>)
      /\ Nearer(<<"disable", "gate">>, <<"disable", "refused">>)
      /\ Nearer(<<"disable", "ask">>, <<"disable", "config">>)
      /\ Nearer(<<"disable", "ask">>, <<"disable", "gave_up">>)
      /\ Nearer(<<"disable", "config">>, <<"disable", "disarm">>)
      /\ Nearer(<<"disable", "config">>, <<"disable", "gave_up">>)
      /\ Nearer(<<"disable", "disarm">>, <<"disable", "done">>)
      /\ Nearer(<<"disable", "disarm">>, <<"disable", "gave_up">>)
  BY FixedNearer, RoundsTyped DEF Places, Degrade
<1>3. CASE /\ At("disable", "gate")
           /\ Command(DisablePort1, <<"disable", "ask">>, <<"disable", "refused">>)
           /\ UNCHANGED locals
  BY <1>1, <1>2, <1>3, CommandWork DEF At
<1>4. CASE AskConfig("disable", "ask", "config", <<"disable", "disarm">>,
                   <<"disable", "gave_up">>)
  BY <1>1, <1>2, <1>4, AskWork
<1>5. CASE /\ At("disable", "disarm")
           /\ CommandConfig(With(Without(config, Int1), Clock1), <<"disable", "done">>,
                            <<"disable", "gave_up">>)
           /\ UNCHANGED locals
  BY <1>1, <1>2, <1>5, ConfigWork DEF At
<1>. QED BY <1>3, <1>4, <1>5 DEF DisablePort

LEMMA EnablePortWork ==
  ASSUME IInv, Typed', pc \in Labels, EnablePort("enable", <<"scan_off", "send">>)
  PROVE  Less
<1>1. Typed
  BY DEF IInv
<1>2. /\ Nearer(<<"enable", "drain">>, <<"enable", "ask">>)
      /\ Nearer(<<"enable", "ask">>, <<"enable", "config">>)
      /\ Nearer(<<"enable", "ask">>, Degrade)
      /\ Nearer(<<"enable", "config">>, <<"enable", "arm">>)
      /\ Nearer(<<"enable", "config">>, Degrade)
      /\ Nearer(<<"enable", "arm">>, <<"enable", "gate">>)
      /\ Nearer(<<"enable", "arm">>, Degrade)
      /\ Nearer(<<"enable", "gate">>, Degrade)
  BY FixedNearer, RoundsTyped DEF Places, Degrade
<1>3. Nearer(<<"enable", "gate">>, <<"scan_off", "send">>)
  BY TalkNearer
<1>4. CASE At("enable", "drain") /\ Drain(<<"enable", "ask">>)
  BY <1>1, <1>2, <1>3, <1>4, DrainWork DEF At
<1>5. CASE AskConfig("enable", "ask", "config", <<"enable", "arm">>, Degrade)
  BY <1>1, <1>2, <1>3, <1>5, AskWork
<1>6. CASE /\ At("enable", "arm")
           /\ CommandConfig(Without(With(config, Int1), Clock1), <<"enable", "gate">>, Degrade)
           /\ UNCHANGED locals
  BY <1>1, <1>2, <1>3, <1>6, ConfigWork DEF At
<1>7. CASE /\ At("enable", "gate") /\ Command(EnablePort1, <<"scan_off", "send">>, Degrade)
           /\ UNCHANGED locals
  BY <1>1, <1>2, <1>3, <1>7, CommandWork DEF At
<1>. QED BY <1>4, <1>5, <1>6, <1>7 DEF EnablePort

LEMMA EnablePortAgainWork ==
  ASSUME IInv, Typed', pc \in Labels, EnablePort("enable_again", <<K, "live">>)
  PROVE  Less
<1>1. Typed
  BY DEF IInv
<1>2. /\ Nearer(<<"enable_again", "drain">>, <<"enable_again", "ask">>)
      /\ Nearer(<<"enable_again", "ask">>, <<"enable_again", "config">>)
      /\ Nearer(<<"enable_again", "ask">>, Degrade)
      /\ Nearer(<<"enable_again", "config">>, <<"enable_again", "arm">>)
      /\ Nearer(<<"enable_again", "config">>, Degrade)
      /\ Nearer(<<"enable_again", "arm">>, <<"enable_again", "gate">>)
      /\ Nearer(<<"enable_again", "arm">>, Degrade)
      /\ Nearer(<<"enable_again", "gate">>, Degrade)
      /\ Nearer(<<"enable_again", "gate">>, <<K, "live">>)
  BY FixedNearer, RoundsTyped DEF Places, Degrade, K
<1>3. CASE At("enable_again", "drain") /\ Drain(<<"enable_again", "ask">>)
  BY <1>1, <1>2, <1>3, DrainWork DEF At
<1>4. CASE AskConfig("enable_again", "ask", "config", <<"enable_again", "arm">>, Degrade)
  BY <1>1, <1>2, <1>4, AskWork
<1>5. CASE /\ At("enable_again", "arm")
           /\ CommandConfig(Without(With(config, Int1), Clock1), <<"enable_again", "gate">>, Degrade)
           /\ UNCHANGED locals
  BY <1>1, <1>2, <1>5, ConfigWork DEF At
<1>6. CASE /\ At("enable_again", "gate") /\ Command(EnablePort1, <<K, "live">>, Degrade)
           /\ UNCHANGED locals
  BY <1>1, <1>2, <1>6, CommandWork DEF At
<1>. QED BY <1>3, <1>4, <1>5, <1>6 DEF EnablePort

LEMMA ConverseWork ==
  ASSUME IInv, Typed', pc \in Labels, Converse
  PROVE  Less
<1>1. Typed
  BY DEF IInv
<1>2. {"scan_off", "reset", "identify", "scan_on"} \subseteq DOMAIN Handshakes
  BY DEF Handshakes
<1>3. CASE DeviceCommand("scan_off", DisableScan, <<"reset", "send">>, Degrade)
  BY <1>1, <1>2, <1>3, TalkNearer, DeviceWork
<1>4. CASE DeviceCommand("reset", Reset, <<K, "bat">>, Degrade)
  BY <1>1, <1>2, <1>4, TalkNearer, DeviceWork
<1>5. CASE At(K, "bat") /\ Expect({Passed}, <<"identify", "send">>, Degrade)
  BY <1>1, <1>5, TalkNearer, ExpectWork DEF At
<1>6. CASE DeviceCommand("identify", Identify, <<K, "id0">>, Degrade)
  BY <1>1, <1>2, <1>6, TalkNearer, DeviceWork
<1>7. CASE At(K, "id0") /\ Expect({171}, <<K, "id1">>, Degrade)
  BY <1>1, <1>7, TalkNearer, ExpectWork DEF At
<1>8. CASE At(K, "id1") /\ Expect({65, 193}, <<"scan_on", "send">>, Degrade)
  BY <1>1, <1>8, TalkNearer, ExpectWork DEF At
<1>9. CASE DeviceCommand("scan_on", EnableScan, <<"enable_again", "drain">>, Degrade)
  BY <1>1, <1>2, <1>9, TalkNearer, DeviceWork
<1>. QED BY <1>3, <1>4, <1>5, <1>6, <1>7, <1>8, <1>9 DEF Converse

LEMMA GoLiveWork ==
  ASSUME IInv, Typed', pc \in Labels, GoLive
  PROVE  Less
<1>1. /\ pc = <<K, "live">> /\ pc' = <<K, "up">> /\ UNCHANGED <<seen, chip, keyboard, bus>>
  BY DEF GoLive, At
<1>2. Nearer(<<K, "live">>, <<K, "up">>)
  BY FixedNearer, RoundsTyped DEF Places, K
<1>. QED BY <1>1, <1>2, QuietWork DEF IInv

LEMMA KbdSetLedsWork ==
  ASSUME IInv, Typed', pc \in Labels, KbdSetLeds, ~(pc = Idling /\ pc' # Idling)
  PROVE  Less
<1>1. Typed
  BY DEF IInv
<1>2. {"leds", "led_state"} \subseteq DOMAIN Handshakes
  BY DEF Handshakes
<1>3. CASE DeviceCommand("leds", SetLeds, <<"led_state", "send">>, Idling)
  BY <1>1, <1>2, <1>3, TalkNearer, DeviceWork
<1>4. CASE DeviceCommand("led_state", LedState, Idling, Idling)
  BY <1>1, <1>2, <1>4, TalkNearer, DeviceWork
<1>5. <<"leds", "send">> # Idling
  BY DEF Idling, K
<1>. QED BY <1>3, <1>4, <1>5 DEF KbdSetLeds

-----------------------------------------------------------------------------
(* A byte that arrives leaves a wire, and the handler's empties the buffer.*)
LEMMA ArriveWork ==
  ASSUME IInv, Typed', pc \in Labels, Arrive
  PROVE  Less
<1>1. Typed /\ UNCHANGED <<pc, resends, seen>> /\ ~out.full /\ out'.full
  BY DEF IInv, Arrive, host, locals
<1>2. \/ reply # <<>> /\ reply' = Tail(reply) /\ wire' = wire
      \/ wire # <<>> /\ wire' = Tail(wire) /\ reply' = reply
  BY DEF Arrive
<1>3. /\ reply \in Seq(Bytes) /\ wire \in Seq(Message)
      /\ Len(reply) \in Nat /\ Len(wire) \in Nat
  BY <1>1 DEF Typed
<1> DEFINE x == Len(wire) + Len(reply)
           y == Len(wire') + Len(reply')
           unseen == IF seen = "nothing" THEN 1 ELSE 0
<1>4. x \in Nat /\ y = x - 1
  <2>1. CASE reply # <<>> /\ reply' = Tail(reply) /\ wire' = wire
    <3>1. Len(reply') = Len(reply) - 1
      BY <1>3, <2>1
    <3>. QED BY <1>3, <2>1, <3>1
  <2>2. CASE wire # <<>> /\ wire' = Tail(wire) /\ reply' = reply
    <3>1. Len(wire') = Len(wire) - 1
      BY <1>3, <2>2
    <3>. QED BY <1>3, <2>2, <3>1
  <2>. QED BY <1>2, <2>1, <2>2
<1>5. Waits = 4 * x + 0 + unseen /\ Waits' = 4 * y + 3 + unseen
  BY <1>1 DEF Waits
<1>6. unseen \in Nat
  OBVIOUS
<1>7. Waits' < Waits
  <2> HIDE DEF x, y, unseen
  <2>. QED BY <1>4, <1>5, <1>6
<1>. QED BY <1>1, <1>7, Calmer

LEMMA IrqWork ==
  ASSUME IInv, Typed', pc \in Labels, Irq
  PROVE  Less
<1>1. /\ Typed /\ UNCHANGED <<pc, resends, seen, wire, reply>>
      /\ out.full /\ out' = [out EXCEPT !.full = FALSE]
  BY DEF IInv, Irq, host, locals, chip, keyboard
<1>2. Waits' < Waits
  BY <1>1, PopWaits
<1>. QED BY <1>1, <1>2, Calmer

LEMMA StepWork ==
  ASSUME IInv, Typed', pc \in Labels, Next
  PROVE  /\ pc' \in Labels
         /\ Type \/ (pc = Idling /\ pc' # Idling) \/ Less
<1>1. CASE I8042Init
  BY <1>1, QuietenWork, SelfTestWork, ProgramWork, ProbePort2Work, TestPortsWork
     DEF I8042Init, Less
<1>2. CASE KbdInit
  BY <1>2, UnmuteWork, EnablePortWork, ConverseWork, EnablePortAgainWork, GoLiveWork,
     DisablePortWork DEF KbdInit, Less
<1>3. CASE KbdSetLeds /\ ~(pc = Idling /\ pc' # Idling)
  BY <1>3, KbdSetLedsWork DEF Less
<1>4. CASE KbdSetLeds /\ pc = Idling /\ pc' # Idling
  <2>1. pc' = <<"leds", "send">>
    <3>1. /\ ~At("leds", "send") /\ ~At("leds", "answer")
          /\ ~At("led_state", "send") /\ ~At("led_state", "answer")
      BY <1>4 DEF At, Idling, K
    <3>. QED BY <1>4, <3>1 DEF KbdSetLeds, DeviceCommand
  <2>2. <<"leds", "send">> \in Labels
    BY TalkNearer DEF Labels, Handshakes, Routines, Steps
  <2>. QED BY <1>4, <2>1, <2>2
<1>5. CASE Type
  BY <1>5 DEF Type, host
<1>6. CASE Arrive
  BY <1>6, ArriveWork DEF Less
<1>7. CASE Irq
  BY <1>7, IrqWork DEF Less
<1>. QED BY <1>1, <1>2, <1>3, <1>4, <1>5, <1>6, <1>7 DEF Next, Driver

(* For every device and any number of resends, what bring-up has still to  *)
(* do is a natural number that each step of the driver, the controller and *)
(* the handler makes smaller, but for a key being typed and the start of a *)
(* KbdSetLeds; no place is at zero but those where bring-up is over.  A    *)
(* device that answers nothing, answers garbage or asks for resends for    *)
(* ever cannot hold it up (I8042.C:244-256).                               *)
THEOREM BringUpShrinks ==
  Spec => /\ [](BringUpWork \in Nat /\ (Place(pc, resends) = 0 <=> pc \in Over))
          /\ [][\/ Type
                \/ pc = Idling /\ pc' # Idling
                \/ BringUpWork' < BringUpWork]_vars
<1> DEFINE Mapped == pc \in Labels
<1>1. Init => Mapped
  <2>1. R \in DOMAIN Places /\ "gate1" \in DOMAIN Places[R]
    BY DEF Places, R
  <2>. QED BY <2>1, FixedPlaces DEF Init
<1>2. IInv /\ IInv' /\ Mapped /\ [Next]_vars => Mapped'
  <2>1. UNCHANGED vars => pc' = pc
    BY DEF vars, host
  <2>2. IInv' => Typed'
    BY DEF IInv
  <2>. QED BY <2>1, <2>2, StepWork
<1>3. Spec => [](IInv /\ Mapped)
  <2> HIDE DEF Mapped
  <2>. QED BY <1>1, <1>2, InStep, PTL DEF Spec
<1>4. IInv /\ Mapped => BringUpWork \in Nat /\ (Place(pc, resends) = 0 <=> pc \in Over)
  <2>1. IInv => Typed /\ resends \in Refusals
    BY DEF IInv, Typed, TypeOK, Refusals
  <2>. QED BY <2>1, WorkTyped, PlaceTyped
<1>5. /\ IInv /\ Mapped
      /\ IInv' /\ [Next]_vars
      => [\/ Type
          \/ pc = Idling /\ pc' # Idling
          \/ BringUpWork' < BringUpWork]_vars
  <2>1. IInv' => Typed'
    BY DEF IInv
  <2>. QED BY <2>1, StepWork DEF Less
<1> HIDE DEF Mapped
<1>. QED BY <1>3, <1>4, <1>5, PTL DEF Spec
=============================================================================

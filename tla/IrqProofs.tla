----------------------------- MODULE IrqProofs ------------------------------
(***************************************************************************)
(* Proofs about modules Pit and Irq: the rate the timer reports is the one *)
(* it has, for every clock and every rate asked for; and nothing stays in  *)
(* service, whatever lines there are and whenever they are raised.         *)
(***************************************************************************)
EXTENDS Irq, FiniteSetTheorems, WellFoundedInduction, TLAPS

-----------------------------------------------------------------------------
(* Division.                                                               *)
LEMMA DivMod ==
  ASSUME NEW a \in Nat, NEW b \in Nat, b > 0
  PROVE  /\ a \div b \in Nat /\ a % b \in Nat
         /\ a % b < b
         /\ a = b * (a \div b) + (a % b)
OBVIOUS

LEMMA DivAtLeast ==
  ASSUME NEW a \in Nat, NEW b \in Nat, b > 0, NEW c \in Nat, c * b <= a
  PROVE  c <= a \div b
<1> DEFINE q == a \div b
           r == a % b
<1>1. q \in Nat /\ r \in Nat /\ r < b /\ a = b * q + r
  BY DivMod
<1> HIDE DEF q, r
<1>2. SUFFICES ASSUME q < c PROVE FALSE
  BY <1>1 DEF q
<1>3. PICK d \in Nat : c = q + 1 + d
  <2>1. c - q - 1 \in Nat /\ c = q + 1 + (c - q - 1)
    BY <1>1, <1>2
  <2> QED BY <2>1
<1>4. c * b = b * q + b + d * b /\ d * b >= 0
  BY <1>1, <1>3
<1> QED BY <1>1, <1>4

LEMMA DivBelow ==
  ASSUME NEW a \in Nat, NEW b \in Nat, b > 0, NEW c \in Nat, a < c * b
  PROVE  a \div b < c
<1> DEFINE q == a \div b
           r == a % b
<1>1. q \in Nat /\ r \in Nat /\ r < b /\ a = b * q + r
  BY DivMod
<1> HIDE DEF q, r
<1>2. SUFFICES ASSUME c <= q PROVE FALSE
  BY <1>1 DEF q
<1>3. PICK d \in Nat : q = c + d
  <2>1. q - c \in Nat /\ q = c + (q - c)
    BY <1>1, <1>2
  <2> QED BY <2>1
<1>4. b * q = c * b + d * b /\ d * b >= 0
  BY <1>1, <1>3
<1> QED BY <1>1, <1>4

-----------------------------------------------------------------------------
(* The divisor.                                                            *)
LEMMA MaxDivisorTyped == MaxDivisor \in Nat /\ MaxDivisor > 1 /\ Byte \in Nat /\ Byte > 1
<1>1. Byte * Byte \in Nat /\ Byte \in Nat /\ Byte > 1
  BY PitAssumption
<1>2. PICK k \in Nat : Byte = 2 + k
  <2>1. Byte - 2 \in Nat /\ Byte = 2 + (Byte - 2)
    BY <1>1
  <2> QED BY <2>1
<1>3. Byte * Byte = 4 + 4 * k + k * k /\ k * k >= 0
  BY <1>2
<1> QED BY <1>1, <1>3 DEF MaxDivisor

(* The counter counts what was meant: the two bytes put together again are *)
(* the divisor, and zero stands for a full turn.                           *)
LEMMA CountsActual ==
  ASSUME NEW d \in Nat
  PROVE  Counts(Written(d)) = ActualDivisor(d)
<1>1. d \div Byte \in Nat /\ d % Byte \in Nat /\ d = Byte * (d \div Byte) + (d % Byte)
  BY DivMod, MaxDivisorTyped
<1>2. (d % Byte) + Byte * (d \div Byte) = d
  <2>1. \A x, y \in Nat : d = Byte * x + y => y + Byte * x = d
    BY MaxDivisorTyped
  <2> QED BY <1>1, <2>1
<1>3. Written(d).low + Byte * Written(d).high = d
  BY <1>2 DEF Written
<1> QED BY <1>3 DEF Counts, ActualDivisor

LEMMA DivisorTyped ==
  ASSUME NEW hz \in Nat, hz > 0
  PROVE  /\ Divisor(hz) \in Nat
         /\ ActualDivisor(Divisor(hz)) \in 1 .. MaxDivisor
<1> DEFINE q == PIT_BASE \div hz
<1>1. q \in Nat
  BY DivMod, PitAssumption
<1>2. Divisor(hz) = IF q > MaxDivisor - 1 THEN 0 ELSE IF q = 0 THEN 1 ELSE q
  BY DEF Divisor, Clamped
<1> HIDE DEF q
<1> QED BY <1>1, <1>2, MaxDivisorTyped DEF ActualDivisor

Honest(p) ==
  p.asked # 0 =>
    /\ p.returned = PIT_BASE \div Counts(p.reload)
    /\ p.returned >= (IF p.asked <= PIT_BASE THEN p.asked ELSE PIT_BASE)
    /\ Counts(p.reload) < MaxDivisor => PIT_BASE \div (Counts(p.reload) + 1) < p.asked

(* TalPitSetFrequency is honest, at every rate.                            *)
LEMMA SetFrequencyHonest ==
  ASSUME NEW hz \in Nat, NEW old
  PROVE  Honest(TalPitSetFrequency(hz, old))
<1> DEFINE p == TalPitSetFrequency(hz, old)
<1>1. CASE hz = 0
  BY <1>1 DEF TalPitSetFrequency, Honest
<1>2. CASE hz > 0
  <2> DEFINE q == PIT_BASE \div hz
             r == PIT_BASE % hz
             a == ActualDivisor(Divisor(hz))
  <2>1. /\ p.asked = hz /\ p.reload = Written(Divisor(hz))
        /\ p.returned = PIT_BASE \div a
    BY <1>2 DEF TalPitSetFrequency
  <2>2. Counts(p.reload) = a
    BY <1>2, <2>1, CountsActual, DivisorTyped
  <2>3. a \in 1 .. MaxDivisor
    BY <1>2, DivisorTyped
  <2>4. /\ q \in Nat /\ r \in Nat /\ r < hz /\ PIT_BASE = hz * q + r
        /\ PIT_BASE \in Nat
    BY <1>2, DivMod, PitAssumption
  <2>5. a = IF q > MaxDivisor - 1 THEN MaxDivisor ELSE IF q = 0 THEN 1 ELSE q
    <3>1. Divisor(hz) = IF q > MaxDivisor - 1 THEN 0 ELSE IF q = 0 THEN 1 ELSE q
      BY DEF Divisor, Clamped
    <3> HIDE DEF q
    <3> QED BY <2>4, <3>1, MaxDivisorTyped DEF ActualDivisor
  <2> SUFFICES Honest(p)
    OBVIOUS
  <2> HIDE DEF p, q, r, a
  <2>6. CASE q = 0
    <3>1. a = 1 /\ PIT_BASE < hz
      BY <2>4, <2>5, <2>6, MaxDivisorTyped
    <3>2. PIT_BASE <= PIT_BASE \div a
      BY <2>4, <3>1, DivAtLeast
    <3>3. PIT_BASE \div (a + 1) < hz
      <4>1. PIT_BASE < hz * 2
        BY <1>2, <2>4, <3>1
      <4> QED BY <2>4, <3>1, <4>1, DivBelow
    <3>4. PIT_BASE \div a \in Nat
      BY <2>3, <2>4, <3>1, DivMod
    <3> QED BY <2>1, <2>2, <2>4, <3>1, <3>2, <3>3, <3>4 DEF Honest
  <2>7. CASE q > 0
    <3>1. hz <= PIT_BASE
      <4>1. PICK k \in Nat : q = 1 + k
        <5>1. q - 1 \in Nat /\ q = 1 + (q - 1)
          BY <2>4, <2>7
        <5> QED BY <5>1
      <4>2. hz * q = hz + hz * k /\ hz * k >= 0
        BY <4>1
      <4> QED BY <2>4, <4>2
    <3>2. a <= q /\ a \in Nat /\ a > 0
      BY <2>3, <2>4, <2>5, <2>7, MaxDivisorTyped
    <3>3. hz <= PIT_BASE \div a
      <4>1. PICK k \in Nat : q = a + k
        <5>1. q - a \in Nat /\ q = a + (q - a)
          BY <2>4, <3>2
        <5> QED BY <5>1
      <4>2. hz * q = hz * a + hz * k /\ hz * k >= 0
        BY <3>2, <4>1
      <4>3. hz * a <= PIT_BASE
        BY <2>4, <3>2, <4>2
      <4> QED BY <2>4, <3>2, <4>3, DivAtLeast
    <3>4. a < MaxDivisor => PIT_BASE \div (a + 1) < hz
      <4> SUFFICES ASSUME a < MaxDivisor PROVE PIT_BASE \div (a + 1) < hz
        OBVIOUS
      <4>1. a = q
        BY <2>4, <2>5, <2>7, MaxDivisorTyped
      <4>2. PIT_BASE < hz * (a + 1)
        <5>1. hz * (q + 1) = hz * q + hz
          BY <2>4
        <5> QED BY <1>2, <2>4, <4>1, <5>1
      <4> QED BY <1>2, <2>4, <3>2, <4>2, DivBelow
    <3>5. PIT_BASE \div a \in Nat
      BY <2>4, <3>2, DivMod
    <3> QED BY <1>2, <2>1, <2>2, <2>4, <3>1, <3>3, <3>4, <3>5 DEF Honest
  <2> QED BY <2>4, <2>6, <2>7
<1> QED BY <1>1, <1>2

-----------------------------------------------------------------------------
(* Priorities.                                                             *)
LEMMA LowestOfSome ==
  ASSUME NEW S \in SUBSET Nat, S # {}
  PROVE  Lowest(S) \in S
<1> DEFINE Less == {ss \in Nat \X Nat : ss[1] < ss[2]}
<1>1. IsWellFoundedOn(Less, Nat)
  BY NatLessThanWellFounded DEF OpToRel
<1>2. \E n \in S : \A m \in S : ~ (<<m, n>> \in Less)
  <2> HIDE DEF Less
  <2> QED BY <1>1, WFMin
<1>3. \E n \in S : \A m \in S : n <= m
  <2>1. PICK n \in S : \A m \in S : ~ (<<m, n>> \in Less)
    BY <1>2
  <2>2. ASSUME NEW m \in S PROVE n <= m
    <3>1. n \in Nat /\ m \in Nat
      OBVIOUS
    <3>2. ~(m < n)
      BY <2>1, <3>1
    <3> QED BY <3>1, <3>2
  <2> QED BY <2>2
<1> QED BY <1>3 DEF Lowest

LEMMA MasterOutTyped ==
  ASSUME irr \subseteq Lines
  PROVE  /\ SlaveOut \subseteq irr \cap Slave
         /\ MasterOut \subseteq Master
         /\ MasterOut \ {CASCADE_IRQ} \subseteq irr
         /\ CASCADE_IRQ \in MasterOut => SlaveOut # {}
BY IrqAssumption DEF MasterOut, SlaveOut, Deliverable, CASCADE_IRQ

(* A chip with at most one interrupt in service retires that one.          *)
LEMMA EoiRetires ==
  ASSUME NEW chip, NEW n \in Nat, isr \cap chip \subseteq {n}
  PROVE  Eoi(chip) = isr \ chip
<1>1. CASE isr \cap chip = {}
  BY <1>1 DEF Eoi
<1>2. CASE isr \cap chip # {}
  <2>1. isr \cap chip = {n}
    BY <1>2
  <2>2. {n} \in SUBSET Nat /\ {n} # {}
    OBVIOUS
  <2>3. Lowest({n}) \in {n}
    BY <2>2, LowestOfSome
  <2>4. Eoi(chip) = isr \ {n}
    BY <1>2, <2>1, <2>3 DEF Eoi
  <2> QED BY <2>1, <2>4
<1> QED BY <1>1, <1>2

-----------------------------------------------------------------------------
(* Frames.                                                                 *)
LEMMA FrameFields ==
  ASSUME frame \in Frame
  PROVE  /\ frame.step \in {"none", "handler", "eoi slave", "eoi master"}
         /\ frame.line \in -1 .. 15 /\ frame.vector \in -1 .. 255
BY DEF Frame

LEMMA NoneIsFrame == None \in Frame /\ None.step = "none" /\ None.line = -1
BY DEF None, Frame

(* A record with one field replaced, whatever the values of the others.    *)
LEMMA StepReplaced ==
  ASSUME NEW A, NEW B, NEW Q, NEW f \in [line : A, vector : B, step : Q], NEW s \in Q
  PROVE  /\ [f EXCEPT !.step = s] \in [line : A, vector : B, step : Q]
         /\ [f EXCEPT !.step = s].step = s
         /\ [f EXCEPT !.step = s].line = f.line /\ [f EXCEPT !.step = s].vector = f.vector
OBVIOUS

LEMMA AtTyped ==
  ASSUME frame \in Frame, NEW s \in {"none", "handler", "eoi slave", "eoi master"}, s # "none"
  PROVE  /\ At(s) \in Frame /\ At(s).step = s
         /\ At(s).line = frame.line /\ At(s).vector = frame.vector
<1>1. At(s) = [frame EXCEPT !.step = s]
  BY DEF At
<1> DEFINE L == -1 .. 15
           V == -1 .. 255
           Q == {"none", "handler", "eoi slave", "eoi master"}
<1>2. frame \in [line : L, vector : V, step : Q] /\ s \in Q
  BY DEF Frame
<1> HIDE DEF L, V, Q
<1>3. /\ [frame EXCEPT !.step = s] \in [line : L, vector : V, step : Q]
      /\ [frame EXCEPT !.step = s].step = s
      /\ [frame EXCEPT !.step = s].line = frame.line
      /\ [frame EXCEPT !.step = s].vector = frame.vector
  BY <1>2, StepReplaced, Zenon
<1>4. Frame = [line : L, vector : V, step : Q]
  BY Zenon DEF L, V, Q, Frame
<1> DEFINE g == [frame EXCEPT !.step = s]
<1>5. g \in Frame /\ g.step = s /\ g.line = frame.line /\ g.vector = frame.vector /\ At(s) = g
  BY <1>1, <1>3, <1>4, Zenon
<1> HIDE DEF g
<1>. QED BY <1>5, Zenon

LEMMA BaseFields ==
  ASSUME base \in Bases
  PROVE  base.master \in 0 .. 248 /\ base.slave \in 0 .. 248
BY DEF Bases

(* A vector of the master is its line's; one of the slave is near its base.*)
VectorOfLine ==
  IF frame.line \in Slave THEN frame.vector \in base.slave .. (base.slave + 7)
                          ELSE frame.vector = PIC_VECTOR_BASE + frame.line

(* What may be in service at each step of the dispatch: the interrupt that *)
(* is dispatched and, for one of the slave, the cascade; an exception      *)
(* finds nothing in service and reaches no EOI.                            *)
Dispatched ==
  CASE frame.step = "none" -> frame = None /\ (stage # "halted" => isr = {})
    [] frame.step = "handler" /\ frame.line = -1 -> frame.vector \in 0 .. 31 /\ isr = {}
    [] frame.step = "handler" /\ frame.line # -1 ->
         /\ frame.line \in 0 .. 15
         /\ VectorOfLine
         /\ isr \subseteq IF frame.line \in Slave THEN {CASCADE_IRQ, frame.line} ELSE {frame.line}
    [] frame.step = "eoi slave" ->
         frame.line \in Slave /\ isr \subseteq {CASCADE_IRQ, frame.line}
    [] frame.step = "eoi master" ->
         isr \subseteq {IF frame.line \in Slave THEN CASCADE_IRQ ELSE frame.line}
         /\ frame.line \in 0 .. 15

IrqInv ==
  /\ TypeOK
  /\ KeptApart(base.slave)
  /\ handlers \subseteq Registered \cup {PIC_VECTOR_BASE + PIT_IRQ}
  /\ stage \in {"remapped", "enabled", "running"} => base.master = PIC_VECTOR_BASE
  /\ ifEnabled => stage \in {"enabled", "running"}
  /\ Dispatched

SlavesKeptApart == \A slave \in FirmwareSlaveBases : KeptApart(slave)

LEMMA IrqTypeInit == Init => TypeOK
<1> SUFFICES ASSUME Init PROVE TypeOK
  OBVIOUS
<1>1. /\ isr = {} /\ irr = {} /\ frame = None /\ stage = "firmware" /\ ~ifEnabled
      /\ imr \subseteq 0 .. 15 /\ int \in BOOLEAN /\ ifEnabled \in BOOLEAN
      /\ handlers = {} /\ pulses = 0 /\ ticks = 0
  BY DEF Init
<1>2. base \in Bases
  <2>1. PICK m \in {8}, s \in FirmwareSlaveBases : base = [master |-> m, slave |-> s]
    BY DEF Init
  <2>2. s \in 0 .. 248 /\ m \in 0 .. 248
    BY IrqAssumption
  <2> QED BY <2>1, <2>2 DEF Bases
<1>3. frame \in Frame
  BY <1>1, NoneIsFrame
<1>4. pulses \in 0 .. MaxPulses /\ ticks \in Nat /\ stage \in Stages
  BY <1>1, IrqAssumption DEF Stages
<1>5. /\ irr \subseteq Lines /\ isr \subseteq 0 .. 15 /\ imr \subseteq 0 .. 15
      /\ handlers \subseteq 0 .. (IDT_ENTRIES - 1)
  BY <1>1
<1> QED BY <1>1, <1>2, <1>3, <1>4, <1>5 DEF TypeOK

LEMMA IrqInvInit ==
  ASSUME SlavesKeptApart, Init
  PROVE  IrqInv
<1>1. frame = None /\ stage = "firmware" /\ ~ifEnabled /\ handlers = {} /\ isr = {}
  BY DEF Init
<1>2. KeptApart(base.slave)
  <2>1. base.slave \in FirmwareSlaveBases
    BY DEF Init
  <2> QED BY <2>1 DEF SlavesKeptApart
<1>3. Dispatched
  BY <1>1 DEF Dispatched, None
<1> QED BY <1>1, <1>2, <1>3, IrqTypeInit DEF IrqInv

(* Every step keeps the types.                                             *)
LEMMA IrqTypeStep == TypeOK /\ [Next]_vars => TypeOK'
<1> SUFFICES ASSUME TypeOK, [Next]_vars PROVE TypeOK'
  OBVIOUS
<1>1. ASSUME NEW n \in Lines, Raise(n) PROVE TypeOK'
  <2>1. pulses' \in 0 .. MaxPulses
    <3>1. pulses \in Nat /\ MaxPulses \in Nat /\ pulses < MaxPulses /\ pulses' = pulses + 1
      BY <1>1, IrqAssumption DEF Raise, TypeOK
    <3> QED BY <3>1
  <2> QED BY <1>1, <2>1 DEF Raise, TypeOK
<1>2. ASSUME NEW n \in Lines, Withdraw(n) PROVE TypeOK'
  BY <1>2 DEF Withdraw, TypeOK
<1>3. CASE Sample
  BY <1>3 DEF Sample, TypeOK
<1>4. CASE Acknowledge
  <2>1. irr \subseteq Lines /\ isr \subseteq 0 .. 15 /\ base \in Bases
    BY DEF TypeOK
  <2>2. base.master \in 0 .. 248 /\ base.slave \in 0 .. 248
    BY <2>1, BaseFields
  <2>3. irr' \subseteq Lines
    BY <1>4, <2>1 DEF Acknowledge, Taken
  <2>4. isr' \subseteq 0 .. 15 /\ frame' \in Frame
    <3>1. CASE MasterOut = {}
      <4>1. base.master + 7 \in -1 .. 255
        BY <2>2
      <4>2. [line |-> 7, vector |-> base.master + 7, step |-> "handler"] \in Frame
        BY <4>1 DEF Frame
      <4>3. isr' = isr /\ frame' = [line |-> 7, vector |-> base.master + 7, step |-> "handler"]
        BY <1>4, <3>1 DEF Acknowledge
      <4> QED BY <2>1, <4>2, <4>3
    <3>2. CASE MasterOut # {}
      <4>1. Lowest(MasterOut) \in Master
        BY <2>1, <3>2, MasterOutTyped, LowestOfSome DEF Master
      <4>2. Lowest(MasterOut) = CASCADE_IRQ => Lowest(SlaveOut) \in Slave
        <5> SUFFICES ASSUME CASCADE_IRQ = Lowest(MasterOut) PROVE Lowest(SlaveOut) \in Slave
          OBVIOUS
        <5>1. CASCADE_IRQ \in MasterOut
          BY <2>1, <3>2, MasterOutTyped, LowestOfSome DEF Master
        <5>2. SlaveOut # {} /\ SlaveOut \subseteq Slave
          BY <2>1, <5>1, MasterOutTyped
        <5>3. SlaveOut \in SUBSET Nat
          BY <5>2 DEF Slave
        <5> QED BY <5>2, <5>3, LowestOfSome
      <4>3. CASE /\ Lowest(MasterOut) # CASCADE_IRQ
                 /\ isr' = isr \cup {Lowest(MasterOut)}
                 /\ Taken(Lowest(MasterOut))
        <5> DEFINE n == Lowest(MasterOut)
        <5>1. n \in 0 .. 7 /\ n \notin Slave
          BY <4>1 DEF Master, Slave
        <5>2. frame' = [line |-> n, vector |-> base.master + n, step |-> "handler"]
          BY <4>3, <5>1 DEF Taken
        <5>3. isr' \subseteq 0 .. 15
          <6>1. n \in 0 .. 15
            BY <5>1
          <6> HIDE DEF n
          <6> QED BY <2>1, <4>3, <6>1 DEF n
        <5>4. base.master + n \in -1 .. 255
          BY <2>2, <5>1
        <5> HIDE DEF n
        <5>5. [line |-> n, vector |-> base.master + n, step |-> "handler"] \in Frame
          BY <5>1, <5>4 DEF Frame
        <5> QED BY <5>2, <5>3, <5>5
      <4>4. CASE /\ Lowest(MasterOut) = CASCADE_IRQ
                 /\ isr' = isr \cup {CASCADE_IRQ, Lowest(SlaveOut)}
                 /\ Taken(Lowest(SlaveOut))
        <5> DEFINE n == Lowest(SlaveOut)
        <5>1. n \in 8 .. 15 /\ n \in Slave
          BY <4>2, <4>4 DEF Slave
        <5>2. frame' = [line |-> n, vector |-> base.slave + n - 8, step |-> "handler"]
          BY <4>4, <5>1 DEF Taken
        <5>3. isr' \subseteq 0 .. 15
          <6>1. n \in 0 .. 15 /\ CASCADE_IRQ \in 0 .. 15
            BY <5>1 DEF CASCADE_IRQ
          <6> HIDE DEF n
          <6> QED BY <2>1, <4>4, <6>1 DEF n
        <5>4. base.slave + n - 8 \in -1 .. 255
          BY <2>2, <5>1
        <5> HIDE DEF n
        <5>5. [line |-> n, vector |-> base.slave + n - 8, step |-> "handler"] \in Frame
          BY <5>1, <5>4 DEF Frame
        <5> QED BY <5>2, <5>3, <5>5
      <4>5. CASE /\ Lowest(MasterOut) = CASCADE_IRQ
                 /\ isr' = isr \cup {CASCADE_IRQ}
                 /\ frame' = [line |-> 15, vector |-> base.slave + 7, step |-> "handler"]
        <5>1. isr' \subseteq 0 .. 15 /\ base.slave + 7 \in -1 .. 255
          BY <2>1, <2>2, <4>5 DEF CASCADE_IRQ
        <5>2. [line |-> 15, vector |-> base.slave + 7, step |-> "handler"] \in Frame
          BY <5>1 DEF Frame
        <5> QED BY <4>5, <5>1, <5>2
      <4> QED BY <1>4, <3>2, <4>3, <4>4, <4>5 DEF Acknowledge
    <3> QED BY <3>1, <3>2
  <2> QED BY <1>4, <2>3, <2>4 DEF Acknowledge, TypeOK
<1>5. CASE Fault
  BY <1>5, NoneIsFrame DEF Fault, TypeOK, Stages
<1>6. CASE DispatchException
  BY <1>6, NoneIsFrame DEF DispatchException, TypeOK
<1>7. CASE DispatchIrq
  <2>1. frame' \in Frame
    BY <1>7, AtTyped DEF DispatchIrq, EoiSteps, TypeOK
  <2>2. ticks' \in Nat
    BY <1>7 DEF DispatchIrq, TypeOK
  <2> QED BY <1>7, <2>1, <2>2 DEF DispatchIrq, TypeOK
<1>8. CASE SendEoiSlave
  <2>1. frame' \in Frame
    BY <1>8, AtTyped DEF SendEoiSlave, AfterSlave, TypeOK
  <2>2. isr' \subseteq 0 .. 15
    BY <1>8 DEF SendEoiSlave, Eoi, TypeOK
  <2> QED BY <1>8, <2>1, <2>2 DEF SendEoiSlave, TypeOK
<1>9. CASE SendEoiMaster
  <2>2. isr' \subseteq 0 .. 15
    BY <1>9 DEF SendEoiMaster, Eoi, TypeOK
  <2> QED BY <1>9, <2>2, NoneIsFrame DEF SendEoiMaster, TypeOK
<1>10. ASSUME NEW vector \in Exceptions, Trap(vector) PROVE TypeOK'
  <2>1. vector \in 0 .. 31
    BY IrqAssumption
  <2>2. frame' \in Frame
    <3>1. [line |-> -1, vector |-> vector, step |-> "handler"] \in Frame
      BY <2>1 DEF Frame
    <3> QED BY <1>10, <3>1 DEF Trap
  <2> QED BY <1>10, <2>2 DEF Trap, TypeOK
<1>11. CASE IdtInit
  BY <1>11 DEF IdtInit, TypeOK, Stages
<1>12. CASE IALPicInit
  <2>1. base' \in Bases
    BY <1>12 DEF IALPicInit, PicRemap, TypeOK, Bases, PIC_VECTOR_BASE
  <2> QED BY <1>12, <2>1 DEF IALPicInit, PicRemap, TypeOK, Stages
<1>13. CASE XScopeIALInit
  BY <1>13 DEF XScopeIALInit, TypeOK, Stages
<1>14. CASE TalPitInit
  <2>1. PIC_VECTOR_BASE + PIT_IRQ \in 0 .. (IDT_ENTRIES - 1) /\ 0 \in Nat
    BY DEF PIC_VECTOR_BASE, PIT_IRQ, IDT_ENTRIES
  <2> QED BY <1>14, <2>1 DEF TalPitInit, IALPicEnableIrq, TypeOK, Stages
<1>15. ASSUME NEW vector \in Registered, IdtRegisterHandler(vector) PROVE TypeOK'
  BY <1>15, IrqAssumption DEF IdtRegisterHandler, TypeOK
<1>16. ASSUME NEW n \in Lines \cup {CASCADE_IRQ}, IALEnableIrq(n) \/ IALDisableIrq(n) PROVE TypeOK'
  <2>1. n \in 0 .. 15
    BY IrqAssumption DEF CASCADE_IRQ
  <2> QED BY <1>16, <2>1 DEF IALEnableIrq, IALDisableIrq, IALPicEnableIrq, IALPicDisableIrq, TypeOK
<1>17. ASSUME NEW hz \in Rates, TALSetFrequency(hz) PROVE TypeOK'
  BY <1>17 DEF TALSetFrequency, TypeOK
<1>18. CASE UNCHANGED vars
  BY <1>18 DEF vars, TypeOK
<1> QED
  BY <1>1, <1>2, <1>3, <1>4, <1>5, <1>6, <1>7, <1>8, <1>9, <1>10, <1>11, <1>12, <1>13, <1>14,
     <1>15, <1>16, <1>17, <1>18 DEF Next, Interrupt

(* Bring-up programs the master once; the slave keeps its base.            *)
LEMMA IrqBaseStep ==
  IrqInv /\ [Next]_vars =>
    /\ KeptApart(base'.slave)
    /\ stage' \in {"remapped", "enabled", "running"} => base'.master = PIC_VECTOR_BASE
    /\ ifEnabled' => stage' \in {"enabled", "running"}
<1> SUFFICES ASSUME IrqInv, [Next]_vars
             PROVE  /\ KeptApart(base'.slave)
                    /\ stage' \in {"remapped", "enabled", "running"} => base'.master = PIC_VECTOR_BASE
                    /\ ifEnabled' => stage' \in {"enabled", "running"}
  OBVIOUS
<1>1. /\ base \in Bases /\ KeptApart(base.slave) /\ stage \in Stages
      /\ stage \in {"remapped", "enabled", "running"} => base.master = PIC_VECTOR_BASE
      /\ ifEnabled => stage \in {"enabled", "running"}
  BY DEF IrqInv, TypeOK
<1>2. CASE IALPicInit
  <2>1. /\ base'.master = PIC_VECTOR_BASE /\ base'.slave = base.slave
        /\ ifEnabled' = ifEnabled /\ stage = "idt"
    BY <1>1, <1>2 DEF IALPicInit, PicRemap, Bases
  <2> QED BY <1>1, <2>1
<1>3. CASE Fault \/ IdtInit \/ XScopeIALInit \/ TalPitInit
  <2>1. base' = base
    BY <1>3 DEF Fault, IdtInit, XScopeIALInit, TalPitInit
  <2>2. CASE Fault
    <3>1. stage' = "halted" /\ ~ifEnabled'
      BY <2>2 DEF Fault
    <3> QED BY <1>1, <2>1, <3>1
  <2>3. CASE IdtInit
    <3>1. stage = "firmware" /\ stage' = "idt" /\ ifEnabled' = ifEnabled
      BY <2>3 DEF IdtInit
    <3> QED BY <1>1, <2>1, <3>1
  <2>4. CASE XScopeIALInit
    <3>1. stage = "remapped" /\ stage' = "enabled"
      BY <2>4 DEF XScopeIALInit
    <3> QED BY <1>1, <2>1, <3>1
  <2>5. CASE TalPitInit
    <3>1. stage = "enabled" /\ stage' = "running"
      BY <2>5 DEF TalPitInit
    <3> QED BY <1>1, <2>1, <3>1
  <2> QED BY <1>3, <2>2, <2>3, <2>4, <2>5
<1>4. CASE UNCHANGED <<base, stage, ifEnabled>>
  BY <1>1, <1>4
<1>5. CASE Sample \/ Acknowledge \/ DispatchException \/ DispatchIrq \/ SendEoiSlave \/ SendEoiMaster
  BY <1>4, <1>5
  DEF Sample, Acknowledge, DispatchException, DispatchIrq, SendEoiSlave, SendEoiMaster
<1>6. ASSUME NEW n \in Lines, Raise(n) \/ Withdraw(n) PROVE UNCHANGED <<base, stage, ifEnabled>>
  BY <1>6 DEF Raise, Withdraw
<1>7. ASSUME NEW v \in Exceptions, Trap(v) PROVE UNCHANGED <<base, stage, ifEnabled>>
  BY <1>7 DEF Trap
<1>8. ASSUME NEW v \in Registered, IdtRegisterHandler(v) PROVE UNCHANGED <<base, stage, ifEnabled>>
  BY <1>8 DEF IdtRegisterHandler
<1>9. ASSUME NEW n \in Lines \cup {CASCADE_IRQ}, IALEnableIrq(n) \/ IALDisableIrq(n)
      PROVE  UNCHANGED <<base, stage, ifEnabled>>
  BY <1>9 DEF IALEnableIrq, IALDisableIrq
<1>10. ASSUME NEW hz \in Rates, TALSetFrequency(hz) PROVE UNCHANGED <<base, stage, ifEnabled>>
  BY <1>10 DEF TALSetFrequency
<1>11. CASE UNCHANGED vars
  BY <1>4, <1>11 DEF vars
<1> QED
  BY <1>2, <1>3, <1>4, <1>5, <1>6, <1>7, <1>8, <1>9, <1>10, <1>11 DEF Next, Interrupt

(* A vector has a handler when one was registered, or is the timer's.      *)
LEMMA HandlersStep ==
  IrqInv /\ [Next]_vars => handlers' \subseteq Registered \cup {PIC_VECTOR_BASE + PIT_IRQ}
<1> SUFFICES ASSUME IrqInv, [Next]_vars
             PROVE  handlers' \subseteq Registered \cup {PIC_VECTOR_BASE + PIT_IRQ}
  OBVIOUS
<1>1. handlers \subseteq Registered \cup {PIC_VECTOR_BASE + PIT_IRQ}
  BY DEF IrqInv
<1>2. CASE UNCHANGED handlers
  BY <1>1, <1>2
<1>3. CASE Interrupt
  BY <1>2, <1>3 DEF Interrupt, Sample, Acknowledge, Fault, DispatchException, DispatchIrq,
     SendEoiSlave, SendEoiMaster
<1>4. CASE IdtInit \/ IALPicInit \/ XScopeIALInit \/ TalPitInit
  BY <1>1, <1>4 DEF IdtInit, IALPicInit, XScopeIALInit, TalPitInit
<1>5. ASSUME NEW v \in Registered, IdtRegisterHandler(v)
      PROVE  handlers' \subseteq Registered \cup {PIC_VECTOR_BASE + PIT_IRQ}
  BY <1>1, <1>5 DEF IdtRegisterHandler
<1>6. ASSUME NEW n \in Lines \cup {CASCADE_IRQ},
             Raise(n) \/ Withdraw(n) \/ IALEnableIrq(n) \/ IALDisableIrq(n)
      PROVE  UNCHANGED handlers
  BY <1>6 DEF Raise, Withdraw, IALEnableIrq, IALDisableIrq
<1>7. ASSUME NEW x, Trap(x) \/ TALSetFrequency(x) PROVE UNCHANGED handlers
  BY <1>7 DEF Trap, TALSetFrequency
<1>8. CASE UNCHANGED vars
  BY <1>2, <1>8 DEF vars
<1> QED BY <1>2, <1>3, <1>4, <1>5, <1>6, <1>7, <1>8 DEF Next

(* An acknowledged interrupt puts itself, and the cascade if it is the     *)
(* slave's, in service, where there was nothing.                           *)
LEMMA AcknowledgeDispatched == IrqInv /\ Acknowledge => Dispatched'
<1> SUFFICES ASSUME IrqInv, Acknowledge PROVE Dispatched'
  OBVIOUS
<1>1. /\ frame = None /\ ifEnabled /\ stage # "halted" /\ stage' = stage
  BY DEF Acknowledge
<1>2. isr = {}
  BY <1>1, NoneIsFrame DEF IrqInv, Dispatched
<1>3. base.slave \in Int /\ base.master = 32 /\ base' = base /\ irr \subseteq Lines
  BY <1>1, BaseFields DEF IrqInv, TypeOK, PIC_VECTOR_BASE, Acknowledge
<1> DEFINE Took(l, v, S) == /\ frame' = [line |-> l, vector |-> v, step |-> "handler"]
                            /\ isr' = S
<1>4. ASSUME NEW l \in 0 .. 15, NEW v, NEW S, Took(l, v, S),
             S \subseteq IF l \in Slave THEN {CASCADE_IRQ, l} ELSE {l},
             IF l \in Slave THEN v \in base.slave .. (base.slave + 7) ELSE v = 32 + l
      PROVE  Dispatched'
  <2>1. frame'.step = "handler" /\ frame'.line = l /\ frame'.vector = v /\ l # -1
    BY <1>4
  <2>2. VectorOfLine'
    BY <1>3, <1>4, <2>1 DEF VectorOfLine, PIC_VECTOR_BASE
  <2> QED BY <1>4, <2>1, <2>2 DEF Dispatched
<1>5. CASE MasterOut = {}
  <2>1. Took(7, 32 + 7, {})
    BY <1>2, <1>3, <1>5 DEF Acknowledge
  <2>2. 7 \in 0 .. 15 /\ 7 \notin Slave
    BY DEF Slave
  <2> QED BY <1>4, <2>1, <2>2
<1>6. CASE MasterOut # {}
  <2>1. Lowest(MasterOut) \in Master /\ Lowest(MasterOut) \in MasterOut
    <3>1. MasterOut \subseteq Master /\ MasterOut \in SUBSET Nat
      BY <1>3, MasterOutTyped DEF Master
    <3> QED BY <1>6, <3>1, LowestOfSome
  <2>2. Lowest(MasterOut) = CASCADE_IRQ => Lowest(SlaveOut) \in 8 .. 15
    <3>1. SlaveOut \subseteq Slave /\ SlaveOut \in SUBSET Nat
      BY <1>3, MasterOutTyped DEF Slave
    <3>2. Lowest(MasterOut) = CASCADE_IRQ => SlaveOut # {}
      BY <1>3, <2>1, MasterOutTyped
    <3>3. SlaveOut # {} => Lowest(SlaveOut) \in SlaveOut
      BY <3>1, LowestOfSome
    <3> QED BY <3>1, <3>2, <3>3 DEF Slave
  <2>3. CASE /\ Lowest(MasterOut) # CASCADE_IRQ
             /\ isr' = isr \cup {Lowest(MasterOut)}
             /\ Taken(Lowest(MasterOut))
    <3> DEFINE n == Lowest(MasterOut)
    <3>1. n \in 0 .. 7 /\ n \notin Slave
      BY <2>1 DEF Master, Slave
    <3>2. Took(n, 32 + n, {n})
      BY <1>2, <1>3, <2>3, <3>1 DEF Taken
    <3> HIDE DEF n
    <3>3. n \in 0 .. 15
      BY <3>1
    <3> QED BY <1>4, <3>1, <3>2, <3>3
  <2>4. CASE /\ Lowest(MasterOut) = CASCADE_IRQ
             /\ isr' = isr \cup {CASCADE_IRQ, Lowest(SlaveOut)}
             /\ Taken(Lowest(SlaveOut))
    <3> DEFINE n == Lowest(SlaveOut)
    <3>1. n \in 8 .. 15 /\ n \in Slave
      BY <2>2, <2>4 DEF Slave
    <3>2. frame' = [line |-> n, vector |-> base.slave + n - 8, step |-> "handler"]
      BY <1>3, <2>4, <3>1 DEF Taken
    <3>3. isr' = {CASCADE_IRQ, n}
      BY <1>2, <2>4
    <3> HIDE DEF n
    <3>4. base.slave + n - 8 \in base.slave .. (base.slave + 7) /\ n \in 0 .. 15
      BY <1>3, <3>1
    <3>5. Took(n, base.slave + n - 8, {CASCADE_IRQ, n})
      BY <3>2, <3>3, <3>4
    <3> QED BY <1>4, <3>1, <3>4, <3>5
  <2>5. CASE /\ Lowest(MasterOut) = CASCADE_IRQ
             /\ isr' = isr \cup {CASCADE_IRQ}
             /\ frame' = [line |-> 15, vector |-> base.slave + 7, step |-> "handler"]
    <3>1. Took(15, base.slave + 7, {CASCADE_IRQ})
      BY <1>2, <1>3, <2>5
    <3>2. 15 \in Slave /\ 15 \in 0 .. 15
          /\ base.slave + 7 \in base.slave .. (base.slave + 7)
      BY <1>3 DEF Slave
    <3> QED BY <1>4, <3>1, <3>2
  <2> QED BY <1>6, <2>3, <2>4, <2>5 DEF Acknowledge
<1> QED BY <1>5, <1>6

(* The dispatch sends each chip the EOI it needs, in the order needed.     *)
LEMMA DispatchDispatched ==
  IrqInv /\ (Fault \/ DispatchException \/ DispatchIrq \/ SendEoiSlave \/ SendEoiMaster)
    => Dispatched'
<1> SUFFICES ASSUME IrqInv, Fault \/ DispatchException \/ DispatchIrq \/ SendEoiSlave \/ SendEoiMaster
             PROVE  Dispatched'
  OBVIOUS
<1>1. frame \in Frame /\ Dispatched
  BY DEF IrqInv, TypeOK
<1>2. CASE Fault
  BY <1>2, NoneIsFrame DEF Fault, Dispatched
<1>3. CASE DispatchException
  <2>1. frame.step = "handler" /\ Raised(frame.vector) \in (0 .. 31) \cap Registered
    <3>1. Raised(frame.vector) \in (0 .. 31) \cap handlers /\ frame.step = "handler"
      BY <1>3 DEF DispatchException
    <3>2. PIC_VECTOR_BASE + PIT_IRQ \notin 0 .. 31
      BY DEF PIC_VECTOR_BASE, PIT_IRQ
    <3> QED BY <3>1, <3>2 DEF IrqInv
  <2>2. frame.line = -1
    <3>1. SUFFICES ASSUME frame.line # -1 PROVE FALSE
      OBVIOUS
    <3>2. frame.line \in 0 .. 15 /\ VectorOfLine
      BY <1>1, <2>1, <3>1 DEF Dispatched
    <3>3. CASE frame.line \in Slave
      <4>1. frame.vector \in 40 .. 47
        BY <2>1, <3>2, <3>3 DEF VectorOfLine, IrqInv, KeptApart
      <4> QED BY <2>1, <4>1 DEF Raised, IDT_ENTRIES
    <3>4. CASE frame.line \notin Slave
      <4>1. frame.vector \in 32 .. 39
        BY <3>2, <3>4 DEF VectorOfLine, PIC_VECTOR_BASE, Slave
      <4> QED BY <2>1, <4>1 DEF Raised, IDT_ENTRIES
    <3> QED BY <3>3, <3>4
  <2>3. isr = {}
    BY <1>1, <2>1, <2>2 DEF Dispatched
  <2> QED BY <1>3, <2>3, NoneIsFrame DEF DispatchException, Dispatched
<1>4. CASE DispatchIrq
  <2>1. /\ frame.line \in 0 .. 15
        /\ frame.vector \in IF frame.line \in Slave THEN 40 .. 47 ELSE {32 + frame.line}
        /\ isr \subseteq IF frame.line \in Slave THEN {CASCADE_IRQ, frame.line} ELSE {frame.line}
    <3>1. frame.step = "handler" /\ frame.vector \in 32 .. 47
      BY <1>4 DEF DispatchIrq, IDT_ENTRIES
    <3>2. frame.line # -1
      <4> SUFFICES ASSUME frame.line = -1 PROVE FALSE
        OBVIOUS
      <4>1. frame.vector \in 0 .. 31
        BY <1>1, <3>1 DEF Dispatched
      <4> QED BY <3>1, <4>1
    <3>3. /\ frame.line \in 0 .. 15 /\ VectorOfLine
          /\ isr \subseteq IF frame.line \in Slave THEN {CASCADE_IRQ, frame.line} ELSE {frame.line}
      BY <1>1, <3>1, <3>2 DEF Dispatched
    <3>4. Raised(frame.vector) = frame.vector
      BY <3>1 DEF Raised, IDT_ENTRIES
    <3>5. frame.line \in Slave => frame.vector \in 40 .. 47
      <4> SUFFICES ASSUME frame.line \in Slave PROVE frame.vector \in 40 .. 47
        OBVIOUS
      <4>1. frame.vector \in base.slave .. (base.slave + 7) /\ KeptApart(base.slave)
        BY <3>3 DEF VectorOfLine, IrqInv
      <4>2. frame.vector \in 40 .. 47 \/ Raised(frame.vector) \in (0 .. 31) \ Registered
        BY <4>1 DEF KeptApart
      <4> QED BY <3>1, <3>4, <4>2
    <3> QED BY <3>3, <3>5 DEF VectorOfLine, PIC_VECTOR_BASE
  <2>2. isr' = isr
    BY <1>4 DEF DispatchIrq
  <2>3. CASE frame.line \in Slave
    <3>0. EoiSteps(frame) = "eoi slave"
      <4>1. Irq(frame.vector) >= 8 /\ Irq(frame.vector) \in 0 .. 15
        BY <2>1, <2>3 DEF Irq, PIC_VECTOR_BASE
      <4> QED BY <4>1 DEF EoiSteps
    <3>1. frame' = At("eoi slave")
      BY <1>4, <3>0 DEF DispatchIrq
    <3>2. frame'.step = "eoi slave" /\ frame'.line = frame.line
      BY <1>1, <3>1, AtTyped
    <3> QED BY <2>1, <2>2, <2>3, <3>2 DEF Dispatched
  <2>4. CASE frame.line \notin Slave
    <3>0. EoiSteps(frame) = "eoi master"
      <4>1. frame.line < 8
        BY <2>1, <2>4 DEF Slave
      <4>2. Irq(frame.vector) < 8 /\ Irq(frame.vector) \in 0 .. 15
        BY <2>1, <2>4, <4>1 DEF Irq, PIC_VECTOR_BASE
      <4> QED BY <4>2 DEF EoiSteps
    <3>1. frame' = At("eoi master")
      BY <1>4, <3>0 DEF DispatchIrq
    <3>2. frame'.step = "eoi master" /\ frame'.line = frame.line
      BY <1>1, <3>1, AtTyped
    <3> QED BY <2>1, <2>2, <2>4, <3>2 DEF Dispatched
  <2> QED BY <2>3, <2>4
<1>5. CASE SendEoiSlave
  <2>1. frame.line \in Slave /\ isr \subseteq {CASCADE_IRQ, frame.line}
    BY <1>1, <1>5 DEF SendEoiSlave, Dispatched
  <2>2. frame.line \in 8 .. 15 /\ isr \cap Slave \subseteq {frame.line}
    BY <2>1 DEF Slave, CASCADE_IRQ
  <2>3. isr' = isr \ Slave
    <3>1. frame.line \in Nat
      BY <2>2
    <3>2. Eoi(Slave) = isr \ Slave
      BY <2>2, <3>1, EoiRetires
    <3> QED BY <1>5, <3>2 DEF SendEoiSlave
  <2>4. isr' \subseteq {CASCADE_IRQ}
    BY <2>1, <2>3
  <2>5. frame'.step = "eoi master" /\ frame'.line = frame.line
    BY <1>1, <1>5, AtTyped DEF SendEoiSlave, AfterSlave
  <2>6. frame'.line \in 0 .. 15 /\ frame'.line \in Slave
    <3>1. frame.line \in 0 .. 15
      BY <2>2
    <3> QED BY <2>1, <2>5, <3>1
  <2> QED BY <2>4, <2>5, <2>6 DEF Dispatched
<1>6. CASE SendEoiMaster
  <2> DEFINE m == IF frame.line \in Slave THEN CASCADE_IRQ ELSE frame.line
  <2>1. isr \subseteq {m} /\ frame.line \in 0 .. 15
    BY <1>1, <1>6 DEF SendEoiMaster, Dispatched
  <2>2. m \in Master /\ m \in Nat
    BY <2>1 DEF Master, Slave, CASCADE_IRQ
  <2> HIDE DEF m
  <2>3. isr' = isr \ Master
    BY <1>6, <2>1, <2>2, EoiRetires DEF SendEoiMaster
  <2>4. isr' = {} /\ frame' = None
    BY <1>6, <2>1, <2>2, <2>3 DEF SendEoiMaster
  <2> QED BY <2>4, NoneIsFrame DEF Dispatched
<1> QED BY <1>2, <1>3, <1>4, <1>5, <1>6

LEMMA DispatchedStep == IrqInv /\ [Next]_vars => Dispatched'
<1> SUFFICES ASSUME IrqInv, [Next]_vars PROVE Dispatched'
  OBVIOUS
<1>1. Dispatched
  BY DEF IrqInv
<1>2. CASE UNCHANGED <<frame, isr, stage, base>>
  BY <1>1, <1>2 DEF Dispatched, VectorOfLine
<1>3. CASE Acknowledge
  BY <1>3, AcknowledgeDispatched
<1>4. CASE Fault \/ DispatchException \/ DispatchIrq \/ SendEoiSlave \/ SendEoiMaster
  BY <1>4, DispatchDispatched
<1>5. CASE Sample
  BY <1>2, <1>5 DEF Sample
<1>6. ASSUME NEW n \in Lines, Raise(n) \/ Withdraw(n) PROVE Dispatched'
  BY <1>2, <1>6 DEF Raise, Withdraw
<1>7. ASSUME NEW v \in Exceptions, Trap(v) PROVE Dispatched'
  <2>1. isr = {} /\ isr' = isr /\ v \in 0 .. 31
    BY <1>1, <1>7, NoneIsFrame, IrqAssumption DEF Trap, Dispatched
  <2>2. frame'.line = -1 /\ frame'.vector = v /\ frame'.step = "handler"
    BY <1>7 DEF Trap
  <2> QED BY <2>1, <2>2 DEF Dispatched
<1>8. CASE IdtInit \/ IALPicInit \/ XScopeIALInit \/ TalPitInit
  <2>1. frame = None /\ frame' = None /\ isr' \subseteq isr
    BY <1>8 DEF IdtInit, IALPicInit, PicRemap, XScopeIALInit, TalPitInit, Thread
  <2>2. stage # "halted"
    BY <1>8 DEF IdtInit, IALPicInit, XScopeIALInit, TalPitInit
  <2> QED BY <1>1, <2>1, <2>2, NoneIsFrame DEF Dispatched
<1>9. ASSUME NEW v \in Registered, IdtRegisterHandler(v) PROVE Dispatched'
  BY <1>2, <1>9 DEF IdtRegisterHandler
<1>10. ASSUME NEW n \in Lines \cup {CASCADE_IRQ}, IALEnableIrq(n) \/ IALDisableIrq(n)
       PROVE  Dispatched'
  BY <1>2, <1>10 DEF IALEnableIrq, IALDisableIrq
<1>11. ASSUME NEW hz \in Rates, TALSetFrequency(hz) PROVE Dispatched'
  BY <1>2, <1>11 DEF TALSetFrequency
<1>12. CASE UNCHANGED vars
  BY <1>2, <1>12 DEF vars
<1> QED
  BY <1>3, <1>4, <1>5, <1>6, <1>7, <1>8, <1>9, <1>10, <1>11, <1>12 DEF Next, Interrupt

LEMMA IrqInvStep == IrqInv /\ [Next]_vars => IrqInv'
BY DispatchedStep, IrqTypeStep, IrqBaseStep, HandlersStep DEF IrqInv

-----------------------------------------------------------------------------
(* For every set of lines, handlers and exceptions, wherever firmware left *)
(* the slave, the controllers and the dispatch keep their types.           *)
THEOREM IrqTyped == Spec => []TypeOK
BY IrqTypeInit, IrqTypeStep, PTL DEF Spec

(* For every set of lines, handlers and exceptions, and every interleaving *)
(* of requests, withdrawals, mask changes and spurious interrupts, nothing *)
(* is left in service when dispatch is over (PIC.C:196-216), wherever      *)
(* firmware left the slave as long as no vector of it is one of the        *)
(* master's or of an exception somebody handles: at 40, or at 112.         *)
THEOREM NothingStaysInService ==
  ASSUME SlavesKeptApart PROVE Spec => []InServiceOnlyWhileDispatched
<1>1. Init => IrqInv
  BY IrqInvInit
<1>2. IrqInv /\ [Next]_vars => IrqInv'
  BY IrqInvStep
<1>3. IrqInv => InServiceOnlyWhileDispatched
  BY NoneIsFrame DEF IrqInv, Dispatched, InServiceOnlyWhileDispatched
<1> QED BY <1>1, <1>2, <1>3, PTL DEF Spec

-----------------------------------------------------------------------------
(* Towards RequestsServed: what there is left to dispatch.  A request      *)
(* outweighs its dispatch, and so does a pin that is up for nothing, which *)
(* becomes a spurious interrupt.                                           *)
StepWork(step) ==
  CASE step = "handler"    -> 6
    [] step = "eoi slave"  -> 4
    [] step = "eoi master" -> 2
    [] OTHER               -> 0
PinWork ==
  IF MasterOut = {} THEN IF int THEN 7 ELSE 0
                    ELSE IF int THEN 0 ELSE 1
IrqWork == 8 * Cardinality(irr) + StepWork(frame.step) + PinWork

LEMMA StepWorks ==
  /\ StepWork("handler") = 6
  /\ StepWork("eoi slave") = 4
  /\ StepWork("eoi master") = 2
  /\ StepWork("none") = 0
BY Zenon DEF StepWork

LEMMA RequestsFinite ==
  ASSUME NEW S \in SUBSET Lines
  PROVE  IsFiniteSet(S) /\ Cardinality(S) \in Nat
<1> DEFINE I == 0 .. 15
<1>1. IsFiniteSet(I)
  <2>1. 0 \in Int /\ 15 \in Int
    OBVIOUS
  <2>. QED BY <2>1, FS_Interval
<1>2. S \in SUBSET I
  BY IrqAssumption
<1> HIDE DEF I
<1>. QED
  BY <1>1, <1>2, FS_Subset, FS_CardinalityType

(* Sums of the three parts.                                                *)
LEMMA LessToDispatch ==
  ASSUME NEW c \in Nat, NEW f \in Nat, NEW i \in Nat,
         NEW d \in Nat, NEW g \in Nat, NEW j \in Nat,
         \/ d = c /\ g + j < f + i
         \/ d = c - 1 /\ g + j < f + i + 8
  PROVE  8 * d + g + j < 8 * c + f + i
OBVIOUS

LEMMA PinWorkTyped == PinWork \in Nat
BY DEF PinWork

(* Retiring an interrupt holds no request up.                              *)
LEMMA EoiOpens ==
  ASSUME UNCHANGED <<irr, imr>>, isr' \subseteq isr, MasterOut # {}
  PROVE  MasterOut' # {}
<1>1. SlaveOut \subseteq SlaveOut'
  BY DEF SlaveOut, Deliverable
<1>2. MasterOut \subseteq MasterOut'
  BY <1>1 DEF MasterOut, Deliverable
<1>. QED
  BY <1>2

(* Every step of the processor and of the dispatch leaves less to dispatch.*)
LEMMA InterruptShrinks ==
  ASSUME TypeOK, TypeOK', Interrupt
  PROVE  IrqWork' < IrqWork
<1> DEFINE c == Cardinality(irr)
           d == Cardinality(irr')
           f == StepWork(frame.step)
           g == StepWork(frame'.step)
           i == PinWork
           j == PinWork'
<1>1. c \in Nat /\ d \in Nat /\ i \in Nat /\ j \in Nat
  <2>1. irr \subseteq Lines /\ irr' \subseteq Lines
    BY DEF TypeOK
  <2>2. c \in Nat /\ d \in Nat
    BY <2>1, RequestsFinite
  <2>3. j \in Nat
    BY DEF PinWork
  <2>. QED
    BY <2>2, <2>3, PinWorkTyped
<1>2. f \in {6, 4, 2, 0} /\ g \in {6, 4, 2, 0}
  BY Zenon DEF StepWork
<1>3. IrqWork = 8 * c + f + i /\ IrqWork' = 8 * d + g + j
  BY DEF IrqWork
<1>s. SUFFICES \/ d = c /\ g + j < f + i
               \/ d = c - 1 /\ g + j < f + i + 8
  <2> HIDE DEF c, d, f, g, i, j
  <2>1. f \in Nat /\ g \in Nat
    BY <1>2
  <2>. QED
    BY <1>1, <1>3, <2>1, LessToDispatch
<1>4. CASE Sample
  <2>1. UNCHANGED <<irr, isr, imr, frame>> /\ int' = (MasterOut # {}) /\ int' # int
    BY <1>4 DEF Sample
  <2>2. MasterOut' = MasterOut
    BY <2>1 DEF MasterOut, SlaveOut, Deliverable
  <2>3. d = c /\ g = f
    BY <2>1
  <2>4. int \in BOOLEAN
    BY DEF TypeOK
  <2>5. j = 0 /\ i \in {1, 7}
    BY <2>1, <2>2, <2>4 DEF PinWork
  <2> HIDE DEF c, d, f, g, i, j
  <2>. QED
    BY <1>1, <1>2, <2>3, <2>5
<1>5. CASE Acknowledge
  <2>1. int /\ ~int' /\ frame = None
    BY <1>5 DEF Acknowledge
  <2>2. f = 0
    BY <2>1, NoneIsFrame, StepWorks, Zenon
  <2>3. frame'.step = "handler"
    BY <1>5 DEF Acknowledge, Taken
  <2>4. g = 6
    BY <2>3, StepWorks, Zenon
  <2>5. CASE MasterOut = {}
    <3>1. UNCHANGED <<irr, isr, imr>>
      BY <1>5, <2>5 DEF Acknowledge
    <3>2. MasterOut' = {}
      BY <2>5, <3>1 DEF MasterOut, SlaveOut, Deliverable
    <3>3. i = 7 /\ j = 0 /\ d = c
      BY <2>1, <2>5, <3>1, <3>2 DEF PinWork
    <3> HIDE DEF c, d, f, g, i, j
    <3>. QED
      BY <1>1, <2>2, <2>4, <3>3
  <2>6. CASE MasterOut # {}
    <3>1. \E n \in irr : irr' = irr \ {n}
      <4>1. irr \subseteq Lines
        BY DEF TypeOK
      <4>2. /\ SlaveOut \subseteq irr /\ MasterOut \ {CASCADE_IRQ} \subseteq irr
            /\ MasterOut \in SUBSET Nat /\ SlaveOut \in SUBSET Nat
            /\ CASCADE_IRQ \in MasterOut => SlaveOut # {}
        BY <4>1, MasterOutTyped DEF Master, Slave
      <4>3. Lowest(MasterOut) \in MasterOut
        BY <2>6, <4>2, LowestOfSome
      <4>4. CASE Lowest(MasterOut) # CASCADE_IRQ
        <5>1. irr' = irr \ {Lowest(MasterOut)}
          BY <1>5, <2>6, <4>4 DEF Acknowledge, Taken
        <5>. QED BY <4>2, <4>3, <4>4, <5>1
      <4>5. CASE Lowest(MasterOut) = CASCADE_IRQ
        <5>1. irr' = irr \ {Lowest(SlaveOut)}
          BY <1>5, <2>6, <4>5 DEF Acknowledge, Taken
        <5>2. Lowest(SlaveOut) \in SlaveOut
          BY <4>2, <4>3, <4>5, LowestOfSome
        <5>. QED BY <4>2, <5>1, <5>2
      <4>. QED BY <4>4, <4>5
    <3>2. d = c - 1
      <4>1. IsFiniteSet(irr)
        BY RequestsFinite DEF TypeOK
      <4>. QED BY <3>1, <4>1, FS_RemoveElement
    <3>3. j \in {0, 1}
      BY <2>1 DEF PinWork
    <3> HIDE DEF c, d, f, g, i, j
    <3>. QED
      BY <1>1, <2>2, <2>4, <3>2, <3>3
  <2>. QED
    BY <2>5, <2>6
<1>6. CASE Fault \/ DispatchException \/ DispatchIrq
  <2>1. UNCHANGED <<irr, isr, imr, int>> /\ frame.step = "handler"
    BY <1>6, Zenon DEF Fault, DispatchException, DispatchIrq
  <2>2. f = 6
    BY <2>1, StepWorks, Zenon
  <2>3. frame'.step \in {"none", "eoi slave", "eoi master"}
    <3>1. CASE Fault \/ DispatchException
      BY <3>1, NoneIsFrame, Zenon DEF Fault, DispatchException
    <3>2. CASE DispatchIrq
      <4>1. frame \in Frame
        BY DEF TypeOK
      <4>2. EoiSteps(frame) \in {"eoi slave", "eoi master"} /\ frame' = At(EoiSteps(frame))
        BY <3>2, Zenon DEF DispatchIrq, EoiSteps
      <4>3. EoiSteps(frame) # "none"
        BY <4>2, Zenon
      <4>4. EoiSteps(frame) \in {"none", "handler", "eoi slave", "eoi master"}
        BY <4>2, Zenon
      <4>5. At(EoiSteps(frame)).step = EoiSteps(frame)
        BY <4>1, <4>3, <4>4, AtTyped, Zenon
      <4>. QED
        BY <4>2, <4>5, Zenon
    <3>. QED
      BY <1>6, <3>1, <3>2
  <2>4. g \in {0, 4, 2}
    BY <2>3, StepWorks, Zenon
  <2>5. MasterOut' = MasterOut
    BY <2>1 DEF MasterOut, SlaveOut, Deliverable
  <2>6. d = c /\ j = i
    BY <2>1, <2>5 DEF PinWork
  <2> HIDE DEF c, d, f, g, i, j
  <2>. QED
    BY <1>1, <2>2, <2>4, <2>6
<1>7. CASE SendEoiSlave \/ SendEoiMaster
  <2>1. UNCHANGED <<irr, imr, int>> /\ isr' \subseteq isr
    BY <1>7 DEF SendEoiSlave, SendEoiMaster, Eoi
  <2>2. f = g + 2
    <3>1. CASE SendEoiSlave
      <4>1. frame \in Frame
        BY DEF TypeOK
      <4>2. At("eoi master").step = "eoi master"
        BY <4>1, AtTyped, Zenon
      <4>3. frame.step = "eoi slave" /\ frame'.step = "eoi master"
        BY <3>1, <4>2, Zenon DEF SendEoiSlave, AfterSlave
      <4>4. f = 4 /\ g = 2
        BY <4>3, StepWorks, Zenon
      <4> HIDE DEF f, g
      <4>. QED BY <4>4
    <3>2. CASE SendEoiMaster
      <4>1. frame.step = "eoi master" /\ frame'.step = "none"
        BY <3>2, NoneIsFrame, Zenon DEF SendEoiMaster
      <4>2. f = 2 /\ g = 0
        BY <4>1, StepWorks, Zenon
      <4> HIDE DEF f, g
      <4>. QED BY <4>2
    <3>. QED
      BY <1>7, <3>1, <3>2
  <2>3. MasterOut # {} => MasterOut' # {}
    BY <2>1, EoiOpens
  <2>4. int \in BOOLEAN
    BY DEF TypeOK
  <2>5. d = c /\ j <= i + 1
    BY <2>1, <2>3, <2>4 DEF PinWork
  <2> HIDE DEF c, d, f, g, i, j
  <2>. QED
    BY <1>1, <1>2, <2>2, <2>5
<1>. QED
  BY <1>4, <1>5, <1>6, <1>7 DEF Interrupt

(* Interrupts die down by themselves: with no new request every step of the*)
(* processor and the dispatch leaves less to dispatch, spurious interrupts *)
(* included, so that the thread gets to run again, wherever firmware left  *)
(* the slave (IDT.C:149-157, PIC.C:196-216).                               *)
THEOREM InterruptsDieDown ==
  Spec => [](IrqWork \in Nat) /\ [][Interrupt => IrqWork' < IrqWork]_vars
<1>1. TypeOK => IrqWork \in Nat
  <2> SUFFICES ASSUME TypeOK PROVE IrqWork \in Nat
    OBVIOUS
  <2> DEFINE c == Cardinality(irr)
             f == StepWork(frame.step)
             i == PinWork
  <2>1. c \in Nat /\ i \in Nat
    BY RequestsFinite, PinWorkTyped DEF TypeOK
  <2>2. f \in {6, 4, 2, 0}
    BY Zenon DEF StepWork
  <2>3. IrqWork = 8 * c + f + i
    BY DEF IrqWork
  <2> HIDE DEF c, f, i
  <2>. QED
    BY <2>1, <2>2, <2>3
<1>2. TypeOK /\ TypeOK' /\ [Next]_vars => [Interrupt => IrqWork' < IrqWork]_vars
  BY InterruptShrinks
<1>. QED
  BY <1>1, <1>2, IrqTyped, PTL DEF Spec

(* A request that is let through has nothing before it when nobody         *)
(* dispatches: the pin goes up (PIC.C:196-216).                            *)
Passed == \A n \in Lines : Requested(n) /\ frame = None /\ stage # "halted" => MasterOut # {}
THEOREM NothingHoldsRequestsUp == ASSUME SlavesKeptApart PROVE Spec => []Passed
<1>1. Init => IrqInv
  BY IrqInvInit
<1>2. IrqInv /\ [Next]_vars => IrqInv'
  BY IrqInvStep
<1>3. IrqInv => Passed
  <2> SUFFICES ASSUME IrqInv, NEW n \in Lines, Requested(n), frame = None, stage # "halted"
               PROVE  MasterOut # {}
    BY DEF Passed
  <2>1. isr = {}
    BY NoneIsFrame DEF IrqInv, Dispatched
  <2>2. n \in irr \ imr /\ n \in 0 .. 15 /\ (n \in Slave => CASCADE_IRQ \notin imr)
    BY IrqAssumption DEF Requested
  <2>3. CASE n \in Slave
    <3>1. n \in SlaveOut
      BY <2>1, <2>2, <2>3 DEF SlaveOut, Deliverable
    <3>2. CASCADE_IRQ \in Master
      BY DEF CASCADE_IRQ, Master
    <3>3. CASCADE_IRQ \in MasterOut
      BY <2>1, <2>2, <2>3, <3>1, <3>2 DEF MasterOut, Deliverable
    <3>. QED BY <3>3
  <2>4. CASE n \notin Slave
    <3>1. n \in Master
      BY <2>2, <2>4 DEF Slave, Master
    <3>2. n \in MasterOut
      BY <2>1, <2>2, <3>1 DEF MasterOut, Deliverable
    <3>. QED BY <3>2
  <2>. QED
    BY <2>3, <2>4
<1>. QED
  BY <1>1, <1>2, <1>3, PTL DEF Spec

(* For every clock, every width of the counter and every rate, the timer   *)
(* reports the rate it has, the slowest that is not below what was asked   *)
(* (PIT.C:174-207).                                                        *)
THEOREM RateReportedIsTheRate == Spec => []RateIsHonest
<1>1. RateIsHonest <=> Honest(pit)
  BY DEF RateIsHonest, Honest
<1>2. Init => Honest(pit)
  BY DEF Init, Honest
<1>3. Honest(pit) /\ [Next]_vars => Honest(pit)'
  <2> SUFFICES ASSUME Honest(pit), [Next]_vars PROVE Honest(pit)'
    OBVIOUS
  <2>1. ASSUME NEW hz \in Rates, TALSetFrequency(hz) PROVE Honest(pit)'
    <3>1. hz \in Nat /\ pit' = TalPitSetFrequency(hz, pit)
      BY <2>1, IrqAssumption DEF TALSetFrequency
    <3>2. Honest(TalPitSetFrequency(hz, pit))
      BY <3>1, SetFrequencyHonest
    <3> QED BY <3>1, <3>2 DEF Honest
  <2>2. CASE UNCHANGED pit
    BY <2>2 DEF Honest
  <2> QED BY <2>1, <2>2
    DEF Next, Interrupt, vars, Raise, Withdraw, Sample, Acknowledge, Fault, DispatchException,
        DispatchIrq, SendEoiSlave, SendEoiMaster, Trap, IdtInit, IALPicInit, XScopeIALInit,
        TalPitInit, IdtRegisterHandler, IALEnableIrq, IALDisableIrq
<1> QED BY <1>1, <1>2, <1>3, PTL DEF Spec
=============================================================================
